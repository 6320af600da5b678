------------------------------ MODULE WorldProofs ------------------------------
(***************************************************************************)
(* What a cell keeps true of its nodes, its scene, its gripper and its     *)
(* readers, for any worlds, driver families, versions and jobs: whatever   *)
(* command it executes, wherever that breaks off, and whenever the ticker  *)
(* steps in.                                                               *)
(***************************************************************************)
EXTENDS CellWorld, SequenceTheorems, TLAPS

(***************************************************************************)
(* The steps of a verb that never part: what is left half done by the      *)
(* first is made good by the second, with no refusal in between.           *)
(***************************************************************************)
Pairs ==
  {<<"compose", "invalidate">>, <<"begin_build", "build">>, <<"build", "after_build">>,
   <<"chain", "planner">>, <<"attach", "close">>, <<"detach", "open">>}

Firsts  == {"compose", "begin_build", "build", "chain", "attach", "detach"}
Seconds == {"invalidate", "build", "after_build", "planner", "close", "open"}

(* A first half is followed by its second, a second follows its first, and *)
(* a report follows every build.                                           *)
Linked(m) ==
  /\ \A i \in 1..Len(m) :
       m[i].do \in Firsts => i < Len(m) /\ <<m[i].do, m[i + 1].do>> \in Pairs
  /\ \A i \in 1..(Len(m) - 1) :
       m[i + 1].do \in Seconds => <<m[i].do, m[i + 1].do>> \in Pairs
  /\ \A i \in 1..Len(m) :
       m[i].do = "after_build" => i < Len(m) /\ m[i + 1].do = "show"

Begins(m) == Len(m) > 0 => m[1].do \notin Seconds

Args == {"", "pallet"} \cup DOMAIN Families \cup UNION {{s.a, s.b} : s \in StepsOfJobs}

Singles ==
  {"show", "look_at", "replace", "select", "choose", "install", "install_later", "aim", "look",
   "relook", "sight", "drive_above", "drive_to", "belt", "deliver", "tick"}

Micro == [do : Firsts \cup Seconds \cup Singles, a : Args, b : Args]

Doing(what) == micro # <<>> /\ Head(micro).do = what

Shape(p) == DOMAIN p = {"tool", "raised", "part", "weld", "belt"} /\ p.weld \in BOOLEAN

WorldTypeOK ==
  /\ world \in Worlds
  /\ scene \in Worlds \cup {NoScene}
  /\ DOMAIN phys = Worlds
  /\ \A w \in Worlds : Shape(phys[w])
  /\ held \in BOOLEAN
  /\ DOMAIN cell = Nodes
  /\ \A n \in Nodes : DOMAIN cell[n] = {"driver", "world", "life"}
  /\ DOMAIN made = {"vision", "tracking", "trajectory", "control"}
  /\ DOMAIN version = Caps

StepsAreLinked ==
  /\ todo \in Seq(StepsOfJobs)
  /\ micro \in Seq(Micro)
  /\ Linked(micro)
  /\ family \in Args
  /\ pc \in {"free", "work", "driving", "driven", "streamed", "failed"}
  /\ pc \in {"free", "failed"} => micro = <<>>
  /\ pc \in {"driving", "driven", "streamed"} => Doing("drive_above") \/ Doing("drive_to")

(* The open scene is the runtime's world, but between the swap of a world  *)
(* and the drop of the old one.                                            *)
SceneFollows == Doing("invalidate") \/ scene \in {NoScene, world}

(* A live family's nodes, and those just built, drive the runtime's world. *)
CellFollows ==
  /\ family # "" /\ ~Doing("invalidate") => \A n \in Nodes : cell[n].world = world
  /\ Doing("after_build") => \A n \in Nodes : cell[n].world = world

(* Only a world with the constraint has a weld closed, and none but the    *)
(* open one unless it was left so.                                         *)
WeldsAreOpen ==
  /\ \A w \in Worlds : phys[w].weld => w \in Grippers
  /\ left = {} => \A w \in Worlds : phys[w].weld => w = scene

(* The gripper's declaration and the weld, also between the two halves.    *)
GripFollows ==
  /\ Doing("open") => ~held
  /\ left = {} /\ Doing("close") => held /\ ~phys[Opened(world)].weld
  /\ left = {} /\ ~Doing("close") /\ ~Doing("open") => (held <=> phys[Opened(world)].weld)

ReadersFollow ==
  /\ made.trajectory = [of |-> version["trajectory"], around |-> kin]
  /\ Doing("planner") \/ kin = chain
  /\ \A c \in {"vision", "tracking", "control"} : made[c].of = version[c]
  /\ made.vision.around[2] = clutter

WorldInv ==
  /\ WorldTypeOK
  /\ StepsAreLinked
  /\ SceneFollows
  /\ CellFollows
  /\ WeldsAreOpen
  /\ GripFollows
  /\ ReadersFollow
  /\ RestShowsTheScene

-------------------------------------------------------------------------------
(* The sequences a verb stands for.                                        *)

(* What may follow anything, and be followed by anything.                  *)
Closed(m) == m \in Seq(Micro) /\ Linked(m) /\ Begins(m)

(* No half is the half of two.                                             *)
LEMMA Halves ==
  /\ \A d, e : <<d, e>> \in Pairs => d \in Firsts /\ e \in Seconds
  /\ \A d, e, f : <<d, e>> \in Pairs /\ <<d, f>> \in Pairs => e = f
  /\ \A d, e, f : <<d, f>> \in Pairs /\ <<e, f>> \in Pairs => d = e
  BY DEF Pairs, Firsts, Seconds

LEMMA Concatenation ==
  ASSUME NEW m \in Seq(Micro), NEW n \in Seq(Micro), Linked(m), Closed(n)
  PROVE  /\ m \o n \in Seq(Micro)
         /\ Linked(m \o n)
         /\ Begins(m) => Begins(m \o n)
<1> DEFINE s == m \o n
<1>1. /\ s \in Seq(Micro)
      /\ Len(s) = Len(m) + Len(n)
      /\ \A i \in 1..Len(s) : s[i] = IF i <= Len(m) THEN m[i] ELSE n[i - Len(m)]
  OBVIOUS
<1>2. Len(m) \in Nat /\ Len(n) \in Nat
  OBVIOUS
<1>3. Linked(n) /\ Begins(n)
  BY DEF Closed
<1> HIDE DEF s
<1>4. ASSUME NEW i \in 1..Len(s), s[i].do \in Firsts
      PROVE  i < Len(s) /\ <<s[i].do, s[i + 1].do>> \in Pairs
  <2>1. CASE i <= Len(m)
    <3>1. s[i] = m[i] /\ i < Len(m) /\ <<m[i].do, m[i + 1].do>> \in Pairs
      BY <1>1, <1>2, <1>4, <2>1 DEF Linked
    <3>2. s[i + 1] = m[i + 1]
      BY <1>1, <1>2, <3>1
    <3> QED BY <1>1, <1>2, <3>1, <3>2
  <2>2. CASE i > Len(m)
    <3> DEFINE j == i - Len(m)
    <3>1. j \in 1..Len(n) /\ s[i] = n[j]
      BY <1>1, <1>2, <2>2
    <3>2. j < Len(n) /\ <<n[j].do, n[j + 1].do>> \in Pairs
      BY <1>3, <1>4, <3>1 DEF Linked
    <3>3. i + 1 \in 1..Len(s) /\ i + 1 > Len(m) /\ i + 1 - Len(m) = j + 1
      BY <1>1, <1>2, <2>2, <3>2
    <3>4. s[i + 1] = n[j + 1]
      BY <1>1, <3>3
    <3> QED BY <1>1, <1>2, <3>1, <3>2, <3>3, <3>4
  <2> QED BY <1>2, <2>1, <2>2
<1>5. ASSUME NEW i \in 1..(Len(s) - 1), s[i + 1].do \in Seconds
      PROVE  <<s[i].do, s[i + 1].do>> \in Pairs
  <2>0. i \in 1..Len(s) /\ i + 1 \in 1..Len(s) /\ i \in Nat
    BY <1>1, <1>2
  <2>1. CASE i + 1 <= Len(m)
    <3>1. s[i] = m[i] /\ s[i + 1] = m[i + 1] /\ i \in 1..(Len(m) - 1)
      BY <1>1, <1>2, <2>0, <2>1
    <3> QED BY <1>5, <3>1 DEF Linked
  <2>2. CASE i = Len(m)
    <3>1. s[i + 1] = n[1] /\ Len(n) > 0
      BY <1>1, <1>2, <2>0, <2>2
    <3> QED BY <1>3, <1>5, <3>1 DEF Begins
  <2>3. CASE i > Len(m)
    <3> DEFINE j == i - Len(m)
    <3>1. j \in 1..(Len(n) - 1) /\ s[i] = n[j]
      BY <1>1, <1>2, <2>0, <2>3
    <3>2. s[i + 1] = n[i + 1 - Len(m)] /\ i + 1 - Len(m) = j + 1
      BY <1>1, <1>2, <2>0, <2>3
    <3> QED BY <1>3, <1>5, <3>1, <3>2 DEF Linked
  <2> QED BY <1>2, <2>0, <2>1, <2>2, <2>3
<1>6. ASSUME NEW i \in 1..Len(s), s[i].do = "after_build"
      PROVE  i < Len(s) /\ s[i + 1].do = "show"
  <2>1. CASE i <= Len(m)
    <3>1. s[i] = m[i] /\ i < Len(m) /\ m[i + 1].do = "show"
      BY <1>1, <1>2, <1>6, <2>1 DEF Linked
    <3>2. s[i + 1] = m[i + 1]
      BY <1>1, <1>2, <3>1
    <3> QED BY <1>1, <1>2, <3>1, <3>2
  <2>2. CASE i > Len(m)
    <3> DEFINE j == i - Len(m)
    <3>1. j \in 1..Len(n) /\ s[i] = n[j]
      BY <1>1, <1>2, <2>2
    <3>2. j < Len(n) /\ n[j + 1].do = "show"
      BY <1>3, <1>6, <3>1 DEF Linked
    <3>3. i + 1 \in 1..Len(s) /\ i + 1 > Len(m) /\ i + 1 - Len(m) = j + 1
      BY <1>1, <1>2, <2>2, <3>2
    <3>4. s[i + 1] = n[j + 1]
      BY <1>1, <3>3
    <3> QED BY <1>1, <1>2, <3>2, <3>3, <3>4
  <2> QED BY <1>2, <2>1, <2>2
<1>7. Begins(m) => Begins(s)
  <2>1. CASE Len(m) = 0
    <3>1. Len(s) > 0 => s[1] = n[1] /\ Len(n) > 0
      BY <1>1, <1>2, <2>1
    <3> QED BY <1>3, <3>1 DEF Begins
  <2>2. CASE Len(m) > 0
    <3>1. s[1] = m[1]
      BY <1>1, <1>2, <2>2
    <3> QED BY <2>2, <3>1 DEF Begins
  <2> QED BY <1>2, <2>1, <2>2
<1> QED BY <1>1, <1>4, <1>5, <1>6, <1>7 DEF Linked, s

LEMMA ClosedConcatenation ==
  ASSUME NEW m, NEW n, Closed(m), Closed(n)
  PROVE  Closed(m \o n)
  BY Concatenation DEF Closed

(* A step on its own, the two of a pair, and a build.                      *)
LEMMA SingleIsClosed ==
  ASSUME NEW d \in Singles, NEW a \in Args, NEW b \in Args
  PROVE  Closed(DoWith(d, a, b))
<1>1. d # "after_build" /\ d \notin Firsts /\ d \notin Seconds
  BY DEF Firsts, Seconds, Singles
<1>2. DoWith(d, a, b) = <<[do |-> d, a |-> a, b |-> b]>>
  BY DEF DoWith
<1>3. [do |-> d, a |-> a, b |-> b] \in Micro
  BY DEF Micro
<1> QED BY <1>1, <1>2, <1>3 DEF Closed, Linked, Begins

LEMMA JoinOne ==
  ASSUME NEW m \in Seq(Micro), NEW r \in Micro
  PROVE  /\ m \o <<r>> \in Seq(Micro)
         /\ Len(m \o <<r>>) = Len(m) + 1
         /\ \A i \in 1..Len(m) : (m \o <<r>>)[i] = m[i]
         /\ (m \o <<r>>)[Len(m) + 1] = r
  OBVIOUS

LEMMA PairIsClosed ==
  ASSUME NEW d, NEW e, <<d, e>> \in Pairs,
         NEW a \in Args, NEW b \in Args, NEW x \in Args, NEW y \in Args,
         d \notin Seconds, e \notin Firsts, e # "after_build"
  PROVE  Closed(DoWith(d, a, b) \o DoWith(e, x, y))
<1> DEFINE r1 == [do |-> d, a |-> a, b |-> b]
           r2 == [do |-> e, a |-> x, b |-> y]
           m  == DoWith(d, a, b) \o DoWith(e, x, y)
<1>0. r1 \in Micro /\ r2 \in Micro /\ r1.do = d /\ r2.do = e
  BY Halves DEF Micro
<1>1. DoWith(d, a, b) = <<r1>> /\ DoWith(e, x, y) = <<r2>>
  BY DEF DoWith
<1> HIDE DEF r1, r2
<1>2. /\ m \in Seq(Micro)
      /\ Len(m) = 2 /\ m[1].do = d /\ m[2].do = e
  BY <1>0, <1>1, JoinOne
<1>3. d # "after_build"
  BY DEF Seconds
<1> HIDE DEF m
<1>4. Linked(m)
  BY <1>2, <1>3 DEF Linked
<1>5. Begins(m)
  BY <1>2 DEF Begins
<1> QED BY <1>2, <1>4, <1>5 DEF Closed, m

LEMMA BuildIsClosed ==
  ASSUME NEW f \in Args
  PROVE  Closed(Build(f)) /\ Len(Build(f)) = 4
<1> DEFINE r1 == [do |-> "begin_build", a |-> f, b |-> ""]
           r2 == [do |-> "build", a |-> f, b |-> ""]
           r3 == [do |-> "after_build", a |-> f, b |-> ""]
           r4 == [do |-> "show", a |-> "", b |-> ""]
           m  == <<r1>> \o <<r2>> \o <<r3>> \o <<r4>>
<1>1. Build(f) = m
  BY DEF Build, Report, Do, DoWith
<1>2. /\ r1 \in Micro /\ r2 \in Micro /\ r3 \in Micro /\ r4 \in Micro
      /\ r1.do = "begin_build" /\ r2.do = "build" /\ r3.do = "after_build" /\ r4.do = "show"
  <2>1. "" \in Args
    BY DEF Args
  <2> QED BY <2>1 DEF Micro, Firsts, Seconds, Singles
<1> HIDE DEF r1, r2, r3, r4
<1>3. /\ m \in Seq(Micro)
      /\ Len(m) = 4
      /\ m[1].do = "begin_build" /\ m[2].do = "build" /\ m[3].do = "after_build" /\ m[4].do = "show"
  <2> DEFINE m2 == <<r1>> \o <<r2>>
             m3 == m2 \o <<r3>>
  <2>1. m2 \in Seq(Micro) /\ Len(m2) = 2 /\ m2[1] = r1 /\ m2[2] = r2
    BY <1>2, JoinOne
  <2> HIDE DEF m2
  <2>2. m3 \in Seq(Micro) /\ Len(m3) = 3 /\ m3[1] = r1 /\ m3[2] = r2 /\ m3[3] = r3
    <3>1. /\ m3 \in Seq(Micro) /\ Len(m3) = Len(m2) + 1 /\ m3[Len(m2) + 1] = r3
          /\ \A i \in 1..Len(m2) : m3[i] = m2[i]
      BY <1>2, <2>1, JoinOne
    <3> QED BY <2>1, <3>1
  <2> HIDE DEF m3
  <2>3. m = m3 \o <<r4>>
    BY DEF m2, m3
  <2>4. /\ m \in Seq(Micro) /\ Len(m) = 4
        /\ m[1] = r1 /\ m[2] = r2 /\ m[3] = r3 /\ m[4] = r4
    <3>1. /\ m \in Seq(Micro) /\ Len(m) = Len(m3) + 1 /\ m[Len(m3) + 1] = r4
          /\ \A i \in 1..Len(m3) : m[i] = m3[i]
      BY <1>2, <2>2, <2>3, JoinOne
    <3> QED BY <2>2, <3>1
  <2> QED BY <1>2, <2>4
<1> HIDE DEF m
<1>4. \A i \in 1..Len(m) : m[i].do \in Firsts => i < Len(m) /\ <<m[i].do, m[i + 1].do>> \in Pairs
  BY <1>3 DEF Firsts, Pairs
<1>5. \A i \in 1..(Len(m) - 1) : m[i + 1].do \in Seconds => <<m[i].do, m[i + 1].do>> \in Pairs
  BY <1>3 DEF Seconds, Pairs
<1>6. \A i \in 1..Len(m) : m[i].do = "after_build" => i < Len(m) /\ m[i + 1].do = "show"
  BY <1>3
<1>7. Begins(m)
  BY <1>3 DEF Begins, Seconds
<1> QED BY <1>1, <1>3, <1>4, <1>5, <1>6, <1>7 DEF Closed, Linked

LEMMA NamesAreArgs ==
  /\ "" \in Args /\ "pallet" \in Args
  /\ \A s \in StepsOfJobs : s.a \in Args /\ s.b \in Args
  BY DEF Args

LEMMA ShortStepsAreClosed ==
  /\ Closed(Report) /\ Closed(Above) /\ Closed(Down)
  /\ \A d \in Singles : Closed(Do(d))
  /\ \A d \in Singles, a \in Args, b \in Args : Closed(DoWith(d, a, b))
<1>1. \A d \in Singles, a \in Args, b \in Args : Closed(DoWith(d, a, b))
  BY SingleIsClosed
<1>2. \A d \in Singles : Closed(Do(d))
  <2>1. \A d : Do(d) = DoWith(d, "", "")
    BY DEF Do, DoWith
  <2> QED BY <1>1, <2>1, NamesAreArgs
<1> QED BY <1>1, <1>2 DEF Report, Above, Down, Singles

LEMMA PairsApart ==
  \A d \in {"compose", "chain", "attach", "detach"}, e \in {"invalidate", "planner", "close", "open"} :
    d \notin Seconds /\ e \notin Firsts /\ e # "after_build"
  BY DEF Firsts, Seconds

LEMMA TwoStepsAreClosed ==
  ASSUME NEW d \in {"compose", "chain", "attach", "detach"},
         NEW e \in {"invalidate", "planner", "close", "open"},
         <<d, e>> \in Pairs, NEW a \in Args
  PROVE  Closed(DoWith(d, a, "") \o Do(e))
<1>1. d \notin Seconds /\ e \notin Firsts /\ e # "after_build"
  BY PairsApart
<1>2. Closed(DoWith(d, a, "") \o DoWith(e, "", ""))
  BY <1>1, PairIsClosed, NamesAreArgs
<1> QED BY <1>2 DEF Do, DoWith

LEMMA HandStepsAreClosed == Closed(Grasp) /\ Closed(Release) /\ Closed(AttachKinematics)
<1>1. \A d : Do(d) = DoWith(d, "", "")
  BY DEF Do, DoWith
<1>2. /\ <<"attach", "close">> \in Pairs
      /\ <<"detach", "open">> \in Pairs
      /\ <<"chain", "planner">> \in Pairs
  BY DEF Pairs
<1>3. Closed(DoWith("attach", "", "") \o Do("close"))
  BY <1>2, TwoStepsAreClosed, NamesAreArgs
<1>4. Closed(DoWith("detach", "", "") \o Do("open"))
  BY <1>2, TwoStepsAreClosed, NamesAreArgs
<1>5. Closed(DoWith("chain", "", "") \o Do("planner"))
  BY <1>2, TwoStepsAreClosed, NamesAreArgs
<1> QED BY <1>1, <1>3, <1>4, <1>5 DEF Grasp, Release, AttachKinematics

LEMMA ProgramStepsAreClosed ==
  /\ Closed(Pick) /\ Closed(Place) /\ Closed(Intercept)
  /\ \A to \in Args : Closed(LoadScene(to))
<1> USE ShortStepsAreClosed, HandStepsAreClosed
<1>1. ASSUME NEW relook, NEW act, Closed(relook), Closed(act)
      PROVE  Closed(Visit(relook, act))
  <2>1. Closed(Above \o relook)
    BY <1>1, ClosedConcatenation
  <2>2. Closed(Above \o relook \o Down)
    BY <2>1, ClosedConcatenation
  <2>3. Closed(Above \o relook \o Down \o act)
    BY <1>1, <2>2, ClosedConcatenation
  <2>4. Closed(Above \o relook \o Down \o act \o Above)
    BY <2>3, ClosedConcatenation
  <2> QED BY <2>4 DEF Visit
<1>2. Closed(Do("look")) /\ Closed(Do("relook")) /\ Closed(Do("sight")) /\ Closed(Do("look_at"))
  BY DEF Singles
<1>3. Closed(Pick)
  <2>1. Closed(Visit(Do("relook"), Grasp))
    BY <1>1, <1>2
  <2> QED BY <1>2, <2>1, ClosedConcatenation DEF Pick
<1>4. Closed(Place)
  <2>1. Closed(<<>>)
    BY DEF Closed, Linked, Begins
  <2>2. Closed(Visit(<<>>, Release))
    BY <1>1, <2>1
  <2>3. Closed(DoWith("aim", "pallet", ""))
    BY NamesAreArgs DEF Singles
  <2> QED BY <2>2, <2>3, ClosedConcatenation DEF Place
<1>5. Closed(Intercept)
  <2>1. Closed(Do("sight") \o Above)
    BY <1>2, ClosedConcatenation
  <2>2. Closed(Do("sight") \o Above \o Down)
    BY <2>1, ClosedConcatenation
  <2>3. Closed(Do("sight") \o Above \o Down \o Grasp)
    BY <2>2, ClosedConcatenation
  <2>4. Closed(Do("sight") \o Above \o Down \o Grasp \o Above)
    BY <2>3, ClosedConcatenation
  <2> QED BY <2>4 DEF Intercept
<1>6. ASSUME NEW to \in Args
      PROVE  Closed(LoadScene(to))
  <2>1. <<"compose", "invalidate">> \in Pairs
    BY DEF Pairs
  <2>2. Closed(DoWith("compose", to, "") \o Do("invalidate"))
    BY <2>1, TwoStepsAreClosed
  <2>3. Closed(DoWith("compose", to, "") \o Do("invalidate") \o AttachKinematics)
    BY <2>2, ClosedConcatenation
  <2>4. Closed(DoWith("compose", to, "") \o Do("invalidate") \o AttachKinematics \o Do("look_at"))
    BY <1>2, <2>3, ClosedConcatenation
  <2> QED BY <2>4 DEF LoadScene
<1> QED BY <1>3, <1>4, <1>5, <1>6

LEMMA VerbIsClosed ==
  ASSUME NEW s \in StepsOfJobs
  PROVE  Closed(Verb(s))
<1>0. s.verb \in Verbs /\ s.a \in Args /\ s.b \in Args
  BY JobsAssumption, NamesAreArgs
<1>1. /\ Closed(Build(s.a)) /\ Closed(LoadScene(s.a))
      /\ Closed(Grasp) /\ Closed(Release) /\ Closed(Pick) /\ Closed(Place) /\ Closed(Intercept)
  BY <1>0, BuildIsClosed, HandStepsAreClosed, ProgramStepsAreClosed
<1>2. /\ Closed(DoWith("aim", s.a, "") \o Down)
      /\ Closed(Do("tick") \o Report)
  <2>1. Closed(DoWith("aim", s.a, "")) /\ Closed(Do("tick"))
    BY <1>0, NamesAreArgs, ShortStepsAreClosed DEF Singles
  <2> QED BY <2>1, ShortStepsAreClosed, ClosedConcatenation
<1>3. /\ Closed(DoWith("choose", s.a, s.b)) /\ Closed(DoWith("belt", s.a, ""))
      /\ Closed(Do("deliver")) /\ Closed(DoWith("replace", s.a, s.b))
      /\ Closed(DoWith("select", s.a, s.b)) /\ Closed(DoWith("install", s.a, s.b))
      /\ Closed(DoWith("install_later", s.a, s.b))
  BY <1>0, NamesAreArgs, ShortStepsAreClosed DEF Singles
<1>4. CASE s.verb \in ProgramVerbs
  <2>1. Closed(ProgramVerb(s))
    BY <1>1, <1>2, <1>3, <1>4 DEF ProgramVerbs, ProgramVerb
  <2>2. Verb(s) = Report \o ProgramVerb(s)
    BY <1>4 DEF ProgramVerbs, Verb
  <2> QED BY <2>1, <2>2, ShortStepsAreClosed, ClosedConcatenation
<1>5. CASE s.verb \notin ProgramVerbs
  BY <1>0, <1>1, <1>2, <1>3, <1>5 DEF Verbs, Verb
<1> QED BY <1>4, <1>5

-------------------------------------------------------------------------------
(* What is left of a sequence.                                             *)

LEMMA RestIsLinked ==
  ASSUME NEW m \in Seq(Micro), m # <<>>, Linked(m)
  PROVE  /\ Tail(m) \in Seq(Micro)
         /\ Linked(Tail(m))
         /\ Head(m).do \notin Firsts => Begins(Tail(m))
         /\ Head(m).do \in Firsts =>
              Tail(m) # <<>> /\ <<Head(m).do, Head(Tail(m)).do>> \in Pairs
<1> DEFINE t == Tail(m)
<1>1. /\ t \in Seq(Micro)
      /\ Len(t) = Len(m) - 1
      /\ \A i \in 1..Len(t) : t[i] = m[i + 1]
      /\ Len(m) \in Nat /\ Len(m) >= 1
      /\ Head(m) = m[1]
  BY HeadTailProperties, EmptySeq
<1> HIDE DEF t
<1>2. Linked(t)
  <2>1. ASSUME NEW i \in 1..Len(t), t[i].do \in Firsts
        PROVE  i < Len(t) /\ <<t[i].do, t[i + 1].do>> \in Pairs
    <3>1. i + 1 \in 1..Len(m) /\ m[i + 1].do \in Firsts
      BY <1>1, <2>1
    <3>2. i + 1 < Len(m) /\ <<m[i + 1].do, m[i + 1 + 1].do>> \in Pairs
      BY <3>1 DEF Linked
    <3>3. i < Len(t) /\ t[i + 1] = m[i + 1 + 1]
      BY <1>1, <3>2
    <3> QED BY <1>1, <3>2, <3>3
  <2>2. ASSUME NEW i \in 1..(Len(t) - 1), t[i + 1].do \in Seconds
        PROVE  <<t[i].do, t[i + 1].do>> \in Pairs
    <3>1. i + 1 \in 1..(Len(m) - 1) /\ t[i] = m[i + 1] /\ t[i + 1] = m[i + 1 + 1]
      BY <1>1
    <3> QED BY <2>2, <3>1 DEF Linked
  <2>3. ASSUME NEW i \in 1..Len(t), t[i].do = "after_build"
        PROVE  i < Len(t) /\ t[i + 1].do = "show"
    <3>1. i + 1 \in 1..Len(m) /\ m[i + 1].do = "after_build"
      BY <1>1, <2>3
    <3>2. i + 1 < Len(m) /\ m[i + 1 + 1].do = "show"
      BY <3>1 DEF Linked
    <3>3. i < Len(t) /\ t[i + 1] = m[i + 1 + 1]
      BY <1>1, <3>2
    <3> QED BY <3>2, <3>3
  <2> QED BY <2>1, <2>2, <2>3 DEF Linked
<1>3. ASSUME m[1].do \notin Firsts, Len(t) > 0
      PROVE  t[1].do \notin Seconds
  <2>1. 1 \in 1..(Len(m) - 1) /\ t[1] = m[1 + 1]
    BY <1>1, <1>3
  <2>2. t[1].do \in Seconds => <<m[1].do, m[1 + 1].do>> \in Pairs
    BY <2>1 DEF Linked
  <2> QED BY <1>3, <2>2, Halves
<1>4. ASSUME m[1].do \in Firsts
      PROVE  t # <<>> /\ <<m[1].do, Head(t).do>> \in Pairs
  <2>1. 1 < Len(m) /\ <<m[1].do, m[1 + 1].do>> \in Pairs
    BY <1>1, <1>4 DEF Linked
  <2>2. Len(t) >= 1 /\ t[1] = m[1 + 1]
    BY <1>1, <2>1
  <2>3. t # <<>> /\ Head(t) = t[1]
    BY <1>1, <2>2, EmptySeq
  <2> QED BY <2>1, <2>2, <2>3
<1> QED BY <1>1, <1>2, <1>3, <1>4 DEF Begins, t

(* What follows a build that is skipped begins afresh.                     *)
LEMMA SkippedBuild ==
  ASSUME NEW m \in Seq(Micro), m # <<>>, Linked(m), Head(m).do = "begin_build"
  PROVE  LET rest == SubSeq(m, 5, Len(m))
         IN  rest \in Seq(Micro) /\ Linked(rest) /\ Begins(rest)
<1> DEFINE rest == SubSeq(m, 5, Len(m))
<1>1. Len(m) \in Nat /\ Len(m) >= 1 /\ m[1].do = "begin_build"
  BY HeadTailProperties, EmptySeq
<1>2. Len(m) > 1 /\ m[2].do = "build"
  <2>1. 1 < Len(m) /\ <<m[1].do, m[1 + 1].do>> \in Pairs
    BY <1>1 DEF Linked, Firsts
  <2> QED BY <1>1, <2>1 DEF Pairs
<1>3. Len(m) > 2 /\ m[3].do = "after_build"
  <2>1. 2 < Len(m) /\ <<m[2].do, m[2 + 1].do>> \in Pairs
    BY <1>1, <1>2 DEF Linked, Firsts
  <2> QED BY <1>1, <1>2, <2>1 DEF Pairs
<1>4. Len(m) > 3 /\ m[4].do = "show"
  <2>1. 3 < Len(m) /\ m[3 + 1].do = "show"
    BY <1>1, <1>3 DEF Linked
  <2> QED BY <1>1, <2>1
<1> SUFFICES rest \in Seq(Micro) /\ Linked(rest) /\ Begins(rest)
  OBVIOUS
<1>5. /\ rest \in Seq(Micro)
      /\ Len(rest) = Len(m) - 4
      /\ \A i \in 1..Len(rest) : rest[i] = m[i + 4]
  <2>1. 5 \in 1..(Len(m) + 1) /\ Len(m) \in 5 - 1..Len(m)
    BY <1>1, <1>4
  <2>2. /\ rest \in Seq(Micro)
        /\ Len(rest) = IF 5 <= Len(m) THEN Len(m) - 5 + 1 ELSE 0
        /\ \A i \in 1..(Len(m) - 5 + 1) : rest[i] = m[5 + i - 1]
    BY <2>1, SubSeqProperties
  <2> HIDE DEF rest
  <2>3. Len(rest) = Len(m) - 4
    <3>1. CASE 5 <= Len(m)
      BY <1>1, <2>2, <3>1
    <3>2. CASE ~(5 <= Len(m))
      <4>1. Len(m) = 4
        <5>1. \A n \in Nat : n > 3 /\ ~(5 <= n) => n = 4
          OBVIOUS
        <5>2. Len(m) \in Nat /\ Len(m) > 3 /\ ~(5 <= Len(m))
          BY <1>1, <1>4, <3>2
        <5> QED BY <5>1, <5>2
      <4>2. Len(rest) = 0
        BY <2>2, <3>2
      <4> QED BY <4>1, <4>2
    <3> QED BY <3>1, <3>2
  <2>4. ASSUME NEW i \in 1..Len(rest)
        PROVE  rest[i] = m[i + 4]
    <3>1. i \in 1..(Len(m) - 5 + 1) /\ 5 + i - 1 = i + 4
      BY <1>1, <1>4, <2>3
    <3> QED BY <2>2, <3>1
  <2> QED BY <2>2, <2>3, <2>4
<1> HIDE DEF rest
<1>6. Linked(rest)
  <2>1. ASSUME NEW i \in 1..Len(rest), rest[i].do \in Firsts
        PROVE  i < Len(rest) /\ <<rest[i].do, rest[i + 1].do>> \in Pairs
    <3>1. i + 4 \in 1..Len(m) /\ m[i + 4].do \in Firsts
      BY <1>1, <1>5, <2>1
    <3>2. i + 4 < Len(m) /\ <<m[i + 4].do, m[i + 4 + 1].do>> \in Pairs
      BY <3>1 DEF Linked
    <3>3. i < Len(rest) /\ i + 1 + 4 = i + 4 + 1
      BY <1>1, <1>5, <3>2
    <3>4. rest[i + 1] = m[i + 4 + 1]
      BY <1>1, <1>5, <3>3
    <3> QED BY <1>5, <3>2, <3>3, <3>4
  <2>2. ASSUME NEW i \in 1..(Len(rest) - 1), rest[i + 1].do \in Seconds
        PROVE  <<rest[i].do, rest[i + 1].do>> \in Pairs
    <3>1. i + 4 \in 1..(Len(m) - 1) /\ i + 1 \in 1..Len(rest) /\ i + 1 + 4 = i + 4 + 1
      BY <1>1, <1>5
    <3>2. rest[i] = m[i + 4] /\ rest[i + 1] = m[i + 4 + 1]
      BY <1>1, <1>5, <3>1
    <3> QED BY <2>2, <3>1, <3>2 DEF Linked
  <2>3. ASSUME NEW i \in 1..Len(rest), rest[i].do = "after_build"
        PROVE  i < Len(rest) /\ rest[i + 1].do = "show"
    <3>1. i + 4 \in 1..Len(m) /\ m[i + 4].do = "after_build"
      BY <1>1, <1>5, <2>3
    <3>2. i + 4 < Len(m) /\ m[i + 4 + 1].do = "show"
      BY <3>1 DEF Linked
    <3>3. i < Len(rest) /\ i + 1 + 4 = i + 4 + 1
      BY <1>1, <1>5, <3>2
    <3>4. rest[i + 1] = m[i + 4 + 1]
      BY <1>1, <1>5, <3>3
    <3> QED BY <3>2, <3>3, <3>4
  <2> QED BY <2>1, <2>2, <2>3 DEF Linked
<1>7. Begins(rest)
  <2> SUFFICES ASSUME Len(rest) > 0, rest[1].do \in Seconds PROVE FALSE
    BY DEF Begins
  <2>1. 4 \in 1..(Len(m) - 1) /\ rest[1] = m[4 + 1]
    BY <1>1, <1>5
  <2>2. <<m[4].do, m[4 + 1].do>> \in Pairs
    BY <2>1 DEF Linked
  <2> QED BY <1>4, <2>2 DEF Pairs
<1> QED BY <1>5, <1>6, <1>7

-------------------------------------------------------------------------------
(* The steps of the cell, by what they touch.                              *)

(* The worker's and the ticker's own affairs.                              *)
MovesOn ==
  Take \/ StartStep \/ Show \/ BeginBuild \/ Aim \/ Sight \/ DriveStart \/ DriveEnd

Keeps == Due \/ IdleShow

(* The capabilities.                                                       *)
OnCaps ==
  OpenKinematics \/ SetKinematics \/ LookAtScene \/ SetVersion \/ ChooseVersion \/ Define

(* The open world, and the snapshot of it.                                 *)
OnScene == Succeed \/ Fault \/ AwaitSighting \/ Wait \/ StreamHook \/ Station

LEMMA NextIsOneOf ==
  ASSUME [WorldNext]_world_vars
  PROVE  \/ MovesOn \/ Keeps \/ OnCaps \/ OnScene \/ IdleTick
         \/ RuntimeBuild \/ EndBuild \/ SetScene \/ Invalidate \/ SwapNode \/ DriveMove
         \/ AttachPart \/ DetachPart \/ CloseGrip \/ OpenGrip
         \/ UNCHANGED world_vars
  BY DEF WorldNext, WorkerStep, TickerStep, MovesOn, Keeps, OnCaps, OnScene

(* What a step of the cell leaves of the verb it is in.                    *)
StepEffect ==
  \/ micro' = micro
  \/ micro' = <<>>
  \/ micro # <<>> /\ micro' = Tail(micro)
  \/ micro = <<>> /\ todo # <<>> /\ micro' = Verb(Head(todo))
  \/ Doing("begin_build") /\ micro' = SubSeq(micro, Len(Build(Arg)) + 1, Len(micro))
  \/ Doing("invalidate") /\ micro' = Build(family) \o Tail(micro)
  \/ Doing("chain") /\ micro' = Tail(Tail(micro))
  \/ Doing("sight") /\ micro' = Report \o micro
  \/ (Doing("attach") \/ Doing("close")) /\ micro' = Intercept

LEMMA NextHasStepEffect ==
  ASSUME StepsAreLinked, [WorldNext]_world_vars
  PROVE  StepEffect
<1> USE DEF StepEffect, Doing, At
<1>1. CASE MovesOn
  <2>1. CASE Take \/ StartStep \/ Show \/ BeginBuild
    BY <2>1 DEF Take, StartStep, Show, BeginBuild, Goes
  <2>2. CASE Aim \/ Sight \/ DriveStart
    BY <2>2 DEF Aim, Sight, DriveStart, Heads, Fail
  <2>3. CASE DriveEnd
    BY <2>3 DEF DriveEnd, StepsAreLinked
  <2> QED BY <1>1, <2>1, <2>2, <2>3 DEF MovesOn
<1>2. CASE Keeps \/ IdleTick \/ UNCHANGED world_vars
  BY <1>2 DEF Keeps, Due, IdleShow, IdleTick, Ticker, work_vars, world_vars
<1>3. CASE OnCaps
  BY <1>3 DEF OnCaps, OpenKinematics, SetKinematics, LookAtScene, SetVersion, ChooseVersion,
     Define, Goes, Proceeds, Fail
<1>4. CASE OnScene
  BY <1>4 DEF OnScene, Succeed, Fault, Finish, AwaitSighting, Wait, StreamHook, Station, Goes
<1>5. CASE RuntimeBuild \/ EndBuild \/ SetScene \/ Invalidate \/ SwapNode \/ DriveMove
  BY <1>5 DEF RuntimeBuild, EndBuild, SetScene, Invalidate, SwapNode, DriveMove, Goes, Proceeds, Fail
<1>6. CASE AttachPart \/ DetachPart \/ CloseGrip \/ OpenGrip
  BY <1>6 DEF AttachPart, DetachPart, CloseGrip, OpenGrip, Goes, Proceeds, Fail, Missed
<1> QED BY <1>1, <1>2, <1>3, <1>4, <1>5, <1>6, NextIsOneOf

(* What is left is linked, and begins with the second half of a pair only  *)
(* if the first has just been done or the second was there already.        *)
LEMMA EffectStaysLinked ==
  ASSUME StepsAreLinked, StepEffect
  PROVE  /\ micro' \in Seq(Micro)
         /\ Linked(micro')
         /\ \/ micro' = micro
            \/ Begins(micro')
            \/ /\ micro # <<>> /\ micro' = Tail(micro) /\ micro' # <<>>
               /\ <<Head(micro).do, Head(micro').do>> \in Pairs
<1>0. micro \in Seq(Micro) /\ Linked(micro)
  BY DEF StepsAreLinked
<1>1. ASSUME NEW m, Closed(m), micro' = m
      PROVE  micro' \in Seq(Micro) /\ Linked(micro') /\ Begins(micro')
  BY <1>1 DEF Closed
<1>2. CASE micro' = <<>>
  <2>1. Closed(<<>>)
    BY DEF Closed, Linked, Begins
  <2> QED BY <1>1, <1>2, <2>1
<1>3. CASE micro # <<>> /\ micro' = Tail(micro)
  BY <1>0, <1>3, RestIsLinked
<1>4. CASE todo # <<>> /\ micro' = Verb(Head(todo))
  <2>1. Head(todo) \in StepsOfJobs
    BY <1>4 DEF StepsAreLinked
  <2> QED BY <1>1, <1>4, <2>1, VerbIsClosed
<1>5. CASE Doing("begin_build") /\ micro' = SubSeq(micro, Len(Build(Arg)) + 1, Len(micro))
  <2>1. micro # <<>> /\ Head(micro).do = "begin_build" /\ Head(micro) \in Micro
    BY <1>0, <1>5 DEF Doing
  <2>2. Arg \in Args
    BY <2>1 DEF Arg, Micro
  <2>3. Len(Build(Arg)) + 1 = 5
    <3>1. Len(Build(Arg)) = 4
      BY <2>2, BuildIsClosed
    <3> QED BY <3>1
  <2>4. micro' = SubSeq(micro, 5, Len(micro))
    BY <1>5, <2>3
  <2> QED BY <1>0, <2>1, <2>4, SkippedBuild
<1>6. CASE Doing("invalidate") /\ micro' = Build(family) \o Tail(micro)
  <2>1. micro # <<>> /\ Head(micro).do \notin Firsts
    BY <1>6 DEF Doing, Firsts
  <2>2. Closed(Tail(micro))
    BY <1>0, <2>1, RestIsLinked DEF Closed
  <2>3. Closed(Build(family))
    BY BuildIsClosed DEF StepsAreLinked
  <2>4. Closed(Build(family) \o Tail(micro))
    BY <2>2, <2>3, ClosedConcatenation
  <2> QED BY <1>1, <1>6, <2>4
<1>7. CASE Doing("chain") /\ micro' = Tail(Tail(micro))
  <2>1. micro # <<>> /\ Head(micro).do = "chain"
    BY <1>7 DEF Doing
  <2>2. /\ Tail(micro) \in Seq(Micro) /\ Linked(Tail(micro)) /\ Tail(micro) # <<>>
        /\ <<"chain", Head(Tail(micro)).do>> \in Pairs
    BY <1>0, <2>1, RestIsLinked DEF Firsts
  <2>3. Head(Tail(micro)).do \notin Firsts
    BY <2>2 DEF Pairs, Firsts
  <2> QED BY <1>7, <2>2, <2>3, RestIsLinked
<1>8. CASE Doing("sight") /\ micro' = Report \o micro
  <2>1. Closed(micro)
    <3>1. micro[1].do \notin Seconds
      BY <1>0, <1>8 DEF Doing, Seconds
    <3> QED BY <1>0, <3>1 DEF Closed, Begins
  <2>2. Closed(Report \o micro)
    BY <2>1, ShortStepsAreClosed, ClosedConcatenation
  <2> QED BY <1>1, <1>8, <2>2
<1>9. CASE micro' = Intercept
  BY <1>1, <1>9, ProgramStepsAreClosed
<1> QED BY <1>0, <1>2, <1>3, <1>4, <1>5, <1>6, <1>7, <1>8, <1>9 DEF StepEffect

(* A second half comes up right after its first.                           *)
LEMMA SecondFollowsFirst ==
  ASSUME StepsAreLinked, [WorldNext]_world_vars, NEW d, NEW e, <<d, e>> \in Pairs, Doing(e)'
  PROVE  \/ micro' = micro /\ Doing(e)
         \/ Doing(d) /\ micro' = Tail(micro)
<1>1. micro' # <<>> /\ Head(micro').do = e
  BY DEF Doing
<1>2. ~Begins(micro') /\ micro' \in Seq(Micro)
  <2>1. micro' \in Seq(Micro)
    BY NextHasStepEffect, EffectStaysLinked
  <2>2. Len(micro') > 0 /\ micro'[1].do = e
    BY <1>1, <2>1
  <2> QED BY <2>1, <2>2, Halves DEF Begins
<1>3. \/ micro' = micro
      \/ micro # <<>> /\ micro' = Tail(micro) /\ <<Head(micro).do, e>> \in Pairs
  BY <1>1, <1>2, NextHasStepEffect, EffectStaysLinked
<1> QED BY <1>1, <1>3, Halves DEF Doing

LEMMA FirstIsFollowed ==
  ASSUME StepsAreLinked, NEW d, NEW e, <<d, e>> \in Pairs, Doing(d), micro' = Tail(micro)
  PROVE  Doing(e)'
<1>1. micro \in Seq(Micro) /\ Linked(micro) /\ micro # <<>> /\ Head(micro).do = d
  BY DEF StepsAreLinked, Doing
<1>2. Tail(micro) # <<>> /\ <<d, Head(Tail(micro)).do>> \in Pairs
  BY <1>1, RestIsLinked, Halves
<1>3. Head(Tail(micro)).do = e
  BY <1>2, Halves
<1> QED BY <1>2, <1>3 DEF Doing

(* Nobody but its own action makes a half of a pair into something else.   *)
Ticks == Keeps \/ IdleTick \/ UNCHANGED world_vars

LEMMA TurnOfTheWorker ==
  ASSUME StepsAreLinked, [WorldNext]_world_vars
  PROVE  /\ Doing("compose") => Ticks \/ SetScene
         /\ Doing("invalidate") => Ticks \/ Invalidate
         /\ Doing("build") => Ticks \/ RuntimeBuild
         /\ Doing("after_build") => Ticks \/ EndBuild
         /\ Doing("chain") => Ticks \/ OpenKinematics
         /\ Doing("planner") => Ticks \/ SetKinematics
         /\ Doing("attach") => Ticks \/ AttachPart
         /\ Doing("close") => Ticks \/ CloseGrip
         /\ Doing("detach") => Ticks \/ DetachPart
         /\ Doing("open") => Ticks \/ OpenGrip
<1> USE DEF Doing, At
<1>1. CASE MovesOn
  <2>1. CASE Take \/ StartStep
    BY <2>1 DEF Take, StartStep, StepsAreLinked
  <2>2. CASE Show \/ BeginBuild \/ Aim \/ Sight
    BY <2>2 DEF Show, BeginBuild, Aim, Sight
  <2>3. CASE DriveStart \/ DriveEnd
    BY <2>3 DEF DriveStart, Drives, DriveEnd, StepsAreLinked
  <2> QED BY <1>1, <2>1, <2>2, <2>3 DEF MovesOn
<1>2. CASE Ticks
  BY <1>2
<1>3. CASE OnCaps
  BY <1>3 DEF OnCaps, OpenKinematics, SetKinematics, LookAtScene, SetVersion, ChooseVersion, Define
<1>4. CASE OnScene
  BY <1>4 DEF OnScene, Succeed, Fault, AwaitSighting, Wait, StreamHook, Station, StepsAreLinked
<1>5. CASE RuntimeBuild \/ EndBuild \/ SetScene \/ Invalidate \/ SwapNode
  BY <1>5 DEF RuntimeBuild, EndBuild, SetScene, Invalidate, SwapNode
<1>6. CASE DriveMove
  BY <1>6 DEF DriveMove, StepsAreLinked
<1>7. CASE AttachPart \/ DetachPart \/ CloseGrip \/ OpenGrip
  BY <1>7 DEF AttachPart, DetachPart, CloseGrip, OpenGrip
<1> QED BY <1>1, <1>2, <1>3, <1>4, <1>5, <1>6, <1>7, NextIsOneOf DEF Ticks

LEMMA TicksKeepTheStep == Ticks => micro' = micro
  BY DEF Ticks, Keeps, Due, IdleShow, IdleTick, Ticker, work_vars, world_vars

LEMMA StepsStayLinked ==
  ASSUME StepsAreLinked, [WorldNext]_world_vars
  PROVE  StepsAreLinked'
<1>1. micro' \in Seq(Micro) /\ Linked(micro')
  BY NextHasStepEffect, EffectStaysLinked
<1>2. todo' \in Seq(StepsOfJobs)
  <2>1. CASE Take
    BY <2>1, JobsAssumption DEF Take
  <2>2. CASE StartStep
    BY <2>2 DEF StartStep, StepsAreLinked
  <2>3. CASE ~Take /\ ~StartStep
    <3>1. todo' \in {todo, <<>>}
      <4>1. CASE MovesOn
        BY <2>3, <4>1 DEF MovesOn, Show, BeginBuild, Aim, Sight, DriveStart, DriveEnd, Goes,
           Heads, Fail, step_vars
      <4>2. CASE Ticks
        BY <4>2 DEF Ticks, Keeps, Due, IdleShow, IdleTick, Ticker, work_vars, step_vars, world_vars
      <4>3. CASE OnCaps
        BY <4>3 DEF OnCaps, OpenKinematics, SetKinematics, LookAtScene, SetVersion,
           ChooseVersion, Define, Goes, Proceeds, Fail, step_vars
      <4>4. CASE OnScene
        BY <4>4 DEF OnScene, Succeed, Fault, Finish, AwaitSighting, Wait, StreamHook, Station,
           Goes, step_vars
      <4>5. CASE RuntimeBuild \/ EndBuild \/ SetScene \/ Invalidate \/ SwapNode \/ DriveMove
        BY <4>5 DEF RuntimeBuild, EndBuild, SetScene, Invalidate, SwapNode, DriveMove, Goes,
           Proceeds, Fail, step_vars
      <4>6. CASE AttachPart \/ DetachPart \/ CloseGrip \/ OpenGrip
        BY <4>6 DEF AttachPart, DetachPart, CloseGrip, OpenGrip, Goes, Proceeds, Fail, Missed,
           step_vars
      <4> QED BY <4>1, <4>2, <4>3, <4>4, <4>5, <4>6, NextIsOneOf DEF Ticks
    <3>2. <<>> \in Seq(StepsOfJobs)
      OBVIOUS
    <3>3. CASE todo' = todo
      BY <3>3 DEF StepsAreLinked
    <3>4. CASE todo' = <<>>
      BY <3>2, <3>4
    <3> QED BY <3>1, <3>3, <3>4
  <2> QED BY <2>1, <2>2, <2>3
<1>3. family' \in Args
  <2>1. CASE EndBuild
    <3>1. Head(micro) \in Micro
      BY <2>1 DEF EndBuild, At, StepsAreLinked
    <3> QED BY <2>1, <3>1 DEF EndBuild, Arg, Micro
  <2>2. CASE Invalidate
    BY <2>2, NamesAreArgs DEF Invalidate
  <2>3. CASE ~EndBuild /\ ~Invalidate
    <3>1. family' = family
      <4>1. CASE MovesOn \/ Ticks
        BY <4>1 DEF MovesOn, Take, StartStep, Show, BeginBuild, Aim, Sight, DriveStart, DriveEnd,
           Ticks, Keeps, Due, IdleShow, IdleTick, Ticker, rest_vars, world_vars
      <4>2. CASE OnCaps
        BY <4>2 DEF OnCaps, OpenKinematics, SetKinematics, LookAtScene, SetVersion,
           ChooseVersion, Define, rest_vars
      <4>3. CASE OnScene
        BY <4>3 DEF OnScene, Succeed, Fault, Finish, AwaitSighting, Wait, StreamHook, Station,
           rest_vars
      <4>4. CASE RuntimeBuild \/ SetScene \/ SwapNode \/ DriveMove
        BY <4>4 DEF RuntimeBuild, SetScene, SwapNode, DriveMove, rest_vars
      <4>5. CASE AttachPart \/ DetachPart \/ CloseGrip \/ OpenGrip
        BY <4>5 DEF AttachPart, DetachPart, CloseGrip, OpenGrip, rest_vars
      <4> QED BY <2>3, <4>1, <4>2, <4>3, <4>4, <4>5, NextIsOneOf DEF Ticks
    <3> QED BY <3>1 DEF StepsAreLinked
  <2> QED BY <2>1, <2>2, <2>3
<1>4. /\ pc' \in {"free", "work", "driving", "driven", "streamed", "failed"}
      /\ pc' \in {"free", "failed"} => micro' = <<>>
      /\ pc' \in {"driving", "driven", "streamed"} => (Doing("drive_above") \/ Doing("drive_to"))'
  <2> USE DEF StepsAreLinked, Doing, At
  <2>1. CASE MovesOn
    <3>1. CASE Take \/ StartStep \/ Show \/ BeginBuild
      BY <3>1 DEF Take, StartStep, Show, BeginBuild, Goes
    <3>2. CASE Aim \/ Sight
      BY <3>2 DEF Aim, Sight, Heads, Fail
    <3>3. CASE DriveStart \/ DriveEnd
      BY <3>3 DEF DriveStart, Drives, DriveEnd, Fail
    <3> QED BY <2>1, <3>1, <3>2, <3>3 DEF MovesOn
  <2>2. CASE Ticks
    BY <2>2 DEF Ticks, Keeps, Due, IdleShow, IdleTick, Ticker, work_vars, world_vars
  <2>3. CASE OnCaps
    BY <2>3 DEF OnCaps, OpenKinematics, SetKinematics, LookAtScene, SetVersion,
       ChooseVersion, Define, Goes, Proceeds, Fail
  <2>4. CASE OnScene
    BY <2>4 DEF OnScene, Succeed, Fault, Finish, AwaitSighting, Wait, StreamHook, Station, Goes
  <2>5. CASE RuntimeBuild \/ EndBuild \/ SetScene \/ Invalidate \/ SwapNode \/ DriveMove
    BY <2>5 DEF RuntimeBuild, EndBuild, SetScene, Invalidate, SwapNode, DriveMove, Goes,
       Proceeds, Fail
  <2>6. CASE AttachPart \/ DetachPart \/ CloseGrip \/ OpenGrip
    BY <2>6 DEF AttachPart, DetachPart, CloseGrip, OpenGrip, Goes, Proceeds, Fail, Missed
  <2> QED BY <2>1, <2>2, <2>3, <2>4, <2>5, <2>6, NextIsOneOf DEF Ticks
<1> QED BY <1>1, <1>2, <1>3, <1>4 DEF StepsAreLinked

-------------------------------------------------------------------------------
(* What the operators of the scene leave of a world, and of its weld.      *)
LEMMA SceneOperators ==
  ASSUME NEW p, Shape(p)
  PROVE  /\ \A q \in Advances(p) : Shape(q) /\ q.weld = p.weld
         /\ \A spot, up : Shape(Reach(p, spot, up)) /\ Reach(p, spot, up).weld = p.weld
         /\ Shape(KeepLinesFed(p)) /\ KeepLinesFed(p).weld = p.weld
         /\ Shape(Recycle(p)) /\ Recycle(p).weld = p.weld
         /\ \A run : LET q == [p EXCEPT !.belt = run] IN Shape(q) /\ q.weld = p.weld
         /\ \A closed \in BOOLEAN : Shape(Constrain(p, closed)) /\ Constrain(p, closed).weld = closed
<1>1. \A q \in Advances(p) : Shape(q) /\ q.weld = p.weld
  BY DEF Shape, Advances
<1>2. \A spot, up : Shape(Reach(p, spot, up)) /\ Reach(p, spot, up).weld = p.weld
  BY DEF Shape, Reach
<1>3. Shape(Recycle(p)) /\ Recycle(p).weld = p.weld
  BY DEF Shape, Recycle, PlaceBody
<1>4. Shape(KeepLinesFed(p)) /\ KeepLinesFed(p).weld = p.weld
  BY <1>3 DEF KeepLinesFed, Recirculate
<1>5. \A run : LET q == [p EXCEPT !.belt = run] IN Shape(q) /\ q.weld = p.weld
  BY DEF Shape
<1>6. \A closed \in BOOLEAN : Shape(Constrain(p, closed)) /\ Constrain(p, closed).weld = closed
  BY DEF Shape, Constrain
<1> QED BY <1>1, <1>2, <1>3, <1>4, <1>5, <1>6

(* The world every use of the scene opens is one of them.                  *)
LEMMA OpenedIsAWorld ==
  ASSUME WorldTypeOK
  PROVE  Opened(world) \in Worlds /\ Shape(Live(world))
  BY DEF WorldTypeOK, Opened, Live

(* A use of the scene changes the world it opens, and samples it.          *)
LEMMA WithFacts ==
  ASSUME WorldTypeOK, NEW p, Shape(p), With(world, p), world' = world
  PROVE  /\ scene' = Opened(world)
         /\ Opened(world)' = Opened(world)
         /\ DOMAIN phys' = Worlds
         /\ phys'[Opened(world)] = p
         /\ \A w \in Worlds : w # Opened(world) => phys'[w] = phys[w]
         /\ \A w \in Worlds : Shape(phys'[w])
         /\ RestShowsTheScene'
<1>1. Opened(world) \in Worlds /\ DOMAIN phys = Worlds
  BY OpenedIsAWorld DEF WorldTypeOK
<1>2. scene' = Opened(world) /\ phys' = [phys EXCEPT ![Opened(world)] = p] /\ snap' = Pose(p)
  BY DEF With
<1>3. Opened(world)' = Opened(world)
  BY <1>1, <1>2, SceneAssumption DEF Opened
<1>4. /\ DOMAIN phys' = Worlds /\ phys'[Opened(world)] = p
      /\ \A w \in Worlds : w # Opened(world) => phys'[w] = phys[w]
  BY <1>1, <1>2
<1>5. \A w \in Worlds : Shape(phys'[w])
  BY <1>4 DEF WorldTypeOK
<1>6. RestShowsTheScene'
  BY <1>2, <1>3, <1>4 DEF RestShowsTheScene, Live
<1> QED BY <1>2, <1>3, <1>4, <1>5, <1>6

LEMMA OnSceneFacts ==
  ASSUME WorldTypeOK, OnScene \/ IdleTick
  PROVE  /\ \E p : Shape(p) /\ p.weld = Live(world).weld /\ With(world, p)
         /\ UNCHANGED <<held, node_vars, cap_vars, family, left>>
<1>0. Shape(Live(world))
  BY OpenedIsAWorld
<1>1. ASSUME TickScene(world)
      PROVE  /\ \E p : Shape(p) /\ p.weld = Live(world).weld /\ With(world, p)
             /\ UNCHANGED held
  <2>1. PICK p \in Advances(Live(world)) : With(world, KeepLinesFed(p))
    BY <1>1 DEF TickScene
  <2>2. Shape(p) /\ p.weld = Live(world).weld
    BY <1>0, <2>1, SceneOperators
  <2>3. Shape(KeepLinesFed(p)) /\ KeepLinesFed(p).weld = p.weld
    BY <2>2, SceneOperators
  <2> QED BY <1>1, <2>1, <2>2, <2>3 DEF TickScene
<1>2. CASE Succeed \/ Fault
  <2>1. With(world, Live(world))
    BY <1>2 DEF Succeed, Fault, Finish, Resample
  <2>2. UNCHANGED <<held, node_vars, cap_vars, family, left>>
    BY <1>2 DEF Succeed, Fault, Finish
  <2> QED BY <1>0, <2>1, <2>2
<1>3. CASE AwaitSighting \/ Wait \/ IdleTick
  <2>1. TickScene(world)
    BY <1>3 DEF AwaitSighting, Wait, IdleTick
  <2>2. UNCHANGED <<node_vars, cap_vars, family, left>>
    BY <1>3 DEF AwaitSighting, Wait, IdleTick, Ticker, rest_vars
  <2> QED BY <1>1, <2>1, <2>2
<1>4. CASE StreamHook
  <2>1. With(world, Live(world))
    BY <1>4 DEF StreamHook, Resample
  <2>2. UNCHANGED <<held, node_vars, cap_vars, family, left>>
    BY <1>4 DEF StreamHook, rest_vars
  <2> QED BY <1>0, <2>1, <2>2
<1>5. CASE Station
  <2> DEFINE p == Live(world)
  <2>0. Shape(Recycle(p)) /\ Recycle(p).weld = p.weld
    BY <1>0, SceneOperators
  <2>1. UNCHANGED <<held, node_vars, cap_vars, family, left>>
    BY <1>5 DEF Station, rest_vars
  <2>2. CASE Deliver(world)
    BY <2>0, <2>1, <2>2 DEF Deliver
  <2>3. CASE RunBelt(world, Arg = "on")
    <3>1. /\ Shape([Recycle(p) EXCEPT !.belt = TRUE]) /\ [Recycle(p) EXCEPT !.belt = TRUE].weld = p.weld
          /\ Shape([p EXCEPT !.belt = FALSE]) /\ [p EXCEPT !.belt = FALSE].weld = p.weld
      <4>1. \A r : Shape(r) => \A b \in BOOLEAN :
                     Shape([r EXCEPT !.belt = b]) /\ [r EXCEPT !.belt = b].weld = r.weld
        BY DEF Shape
      <4> HIDE DEF p
      <4> QED BY <1>0, <2>0, <4>1 DEF p
    <3> QED BY <2>1, <2>3, <3>1 DEF RunBelt
  <2> QED BY <1>5, <2>2, <2>3 DEF Station
<1> QED BY <1>2, <1>3, <1>4, <1>5 DEF OnScene

(* What the steps that are nobody's hands leave alone.                     *)
Quiet == MovesOn \/ Keeps \/ UNCHANGED world_vars

LEMMA QuietFacts ==
  /\ Quiet \/ OnCaps => UNCHANGED <<phys, scene, snap, held, node_vars, family, left>>
  /\ Quiet => UNCHANGED cap_vars
  /\ RuntimeBuild \/ EndBuild \/ SwapNode => UNCHANGED <<scene_vars, left>>
<1>1. MovesOn => UNCHANGED <<phys, scene, snap, held, node_vars, family, left, cap_vars>>
  BY DEF MovesOn, Take, StartStep, Show, BeginBuild, Aim, Sight, DriveStart, DriveEnd,
     rest_vars, scene_vars
<1>2. Keeps => UNCHANGED <<phys, scene, snap, held, node_vars, family, left, cap_vars>>
  BY DEF Keeps, Due, IdleShow, Ticker, scene_vars
<1>3. UNCHANGED world_vars => UNCHANGED <<phys, scene, snap, held, node_vars, family, left, cap_vars>>
  BY DEF world_vars, scene_vars, rest_vars
<1>4. OnCaps => UNCHANGED <<phys, scene, snap, held, node_vars, family, left>>
  BY DEF OnCaps, OpenKinematics, SetKinematics, LookAtScene, SetVersion, ChooseVersion, Define,
     rest_vars, scene_vars
<1>5. RuntimeBuild \/ EndBuild \/ SwapNode => UNCHANGED <<scene_vars, left>>
  BY DEF RuntimeBuild, EndBuild, SwapNode, rest_vars
<1> QED BY <1>1, <1>2, <1>3, <1>4, <1>5 DEF Quiet

LEMMA NextInTurns ==
  ASSUME [WorldNext]_world_vars
  PROVE  \/ Quiet \/ OnCaps \/ OnScene \/ IdleTick
         \/ RuntimeBuild \/ EndBuild \/ SetScene \/ Invalidate \/ SwapNode \/ DriveMove
         \/ AttachPart \/ DetachPart \/ CloseGrip \/ OpenGrip
  BY NextIsOneOf DEF Quiet

LEMMA DriveMoveFacts ==
  ASSUME WorldTypeOK, DriveMove
  PROVE  /\ DOMAIN phys' = Worlds
         /\ \A w \in Worlds : Shape(phys'[w]) /\ phys'[w].weld = phys[w].weld
         /\ UNCHANGED <<scene, snap, held, node_vars, cap_vars, family, left>>
<1>1. UNCHANGED <<scene, snap, held, node_vars, cap_vars, family, left>>
  BY DEF DriveMove, rest_vars
<1>2. DOMAIN phys = Worlds /\ \A w \in Worlds : Shape(phys[w])
  BY DEF WorldTypeOK
<1>3. CASE UNCHANGED phys
  BY <1>1, <1>2, <1>3
<1>4. ASSUME NEW p \in Advances(phys[CellWorldOf]), NEW up,
             phys' = [phys EXCEPT ![CellWorldOf] = Reach(p, aim, up)]
      PROVE  /\ DOMAIN phys' = Worlds
             /\ \A w \in Worlds : Shape(phys'[w]) /\ phys'[w].weld = phys[w].weld
  <2>1. DOMAIN phys' = Worlds
    BY <1>2, <1>4
  <2>2. ASSUME NEW w \in Worlds, w # CellWorldOf
        PROVE  phys'[w] = phys[w]
    BY <1>2, <1>4, <2>2
  <2>3. ASSUME CellWorldOf \in Worlds
        PROVE  /\ phys'[CellWorldOf] = Reach(p, aim, up)
               /\ Shape(Reach(p, aim, up)) /\ Reach(p, aim, up).weld = phys[CellWorldOf].weld
    <3>1. Shape(p) /\ p.weld = phys[CellWorldOf].weld
      BY <1>2, <2>3, SceneOperators
    <3>2. Shape(Reach(p, aim, up)) /\ Reach(p, aim, up).weld = p.weld
      <4>1. \A spot, u : Shape(Reach(p, spot, u)) /\ Reach(p, spot, u).weld = p.weld
        BY <3>1, SceneOperators
      <4> QED BY <4>1
    <3>3. phys'[CellWorldOf] = Reach(p, aim, up)
      BY <1>2, <1>4, <2>3
    <3> QED BY <3>1, <3>2, <3>3
  <2> QED BY <1>2, <2>1, <2>2, <2>3
<1>5. DEFINE up == Head(micro).do = "drive_above"
<1>6. \/ UNCHANGED phys
      \/ \E p \in Advances(phys[CellWorldOf]) :
           phys' = [phys EXCEPT ![CellWorldOf] = Reach(p, aim, up)]
  BY DEF DriveMove
<1> HIDE DEF up
<1> QED BY <1>1, <1>3, <1>4, <1>6

(* The four halves of a grasp and of a release.                            *)
Hands == AttachPart \/ DetachPart \/ CloseGrip \/ OpenGrip

LEMMA HandsFacts ==
  ASSUME WorldTypeOK
  PROVE  /\ Hands => UNCHANGED <<node_vars, cap_vars, family, left>> /\ held' \in BOOLEAN
         /\ AttachPart \/ DetachPart => UNCHANGED <<phys, scene, snap>>
         /\ CloseGrip =>
              \E p : /\ Shape(p) /\ With(world, p)
                     /\ p.weld = IF Opened(world) \in Grippers THEN TRUE ELSE Live(world).weld
         /\ OpenGrip =>
              \E p : /\ Shape(p) /\ With(world, p)
                     /\ p.weld = IF Opened(world) \in Grippers THEN FALSE ELSE Live(world).weld
<1>0. Shape(Live(world)) /\ held \in BOOLEAN
  BY OpenedIsAWorld DEF WorldTypeOK
<1>1. ASSUME Hands
      PROVE  UNCHANGED <<node_vars, cap_vars, family, left>> /\ held' \in BOOLEAN
  <2>1. CASE AttachPart \/ DetachPart
    BY <1>0, <2>1 DEF AttachPart, DetachPart, Declare, rest_vars, scene_vars
  <2>2. CASE CloseGrip \/ OpenGrip
    BY <1>0, <2>2 DEF CloseGrip, OpenGrip, CloseWeld, rest_vars
  <2> QED BY <1>1, <2>1, <2>2 DEF Hands
<1>2. AttachPart \/ DetachPart => UNCHANGED <<phys, scene, snap>>
  BY DEF AttachPart, DetachPart, Declare, scene_vars
<1>3. ASSUME NEW b \in BOOLEAN
      PROVE  Shape(Constrain(Live(world), b)) /\ Constrain(Live(world), b).weld = b
  BY <1>0, SceneOperators
<1>4. ASSUME CloseGrip
      PROVE  \E p : /\ Shape(p) /\ With(world, p)
                    /\ p.weld = IF Opened(world) \in Grippers THEN TRUE ELSE Live(world).weld
  <2>1. CASE Opened(world) \in Grippers
    <3>1. With(world, Constrain(Live(world), TRUE))
      BY <1>4, <2>1 DEF CloseGrip, CloseWeld
    <3> QED BY <1>3, <2>1, <3>1
  <2>2. CASE Opened(world) \notin Grippers
    BY <1>0, <1>4, <2>2 DEF CloseGrip, CloseWeld
  <2> QED BY <2>1, <2>2
<1>5. ASSUME OpenGrip
      PROVE  \E p : /\ Shape(p) /\ With(world, p)
                    /\ p.weld = IF Opened(world) \in Grippers THEN FALSE ELSE Live(world).weld
  <2>1. CASE Opened(world) \in Grippers
    <3>1. With(world, Constrain(Live(world), FALSE))
      BY <1>5, <2>1 DEF OpenGrip, OpenWeld
    <3> QED BY <1>3, <2>1, <3>1
  <2>2. CASE Opened(world) \notin Grippers
    BY <1>0, <1>5, <2>2 DEF OpenGrip, OpenWeld
  <2> QED BY <2>1, <2>2
<1> QED BY <1>1, <1>2, <1>4, <1>5

(* Only the two steps of a change of world move what the cell is to open.  *)
LEMMA WorldStays ==
  ASSUME WorldTypeOK, [WorldNext]_world_vars, ~SetScene, ~Invalidate
  PROVE  world' = world /\ scene' \in {scene, Opened(world)}
<1>1. CASE Quiet \/ OnCaps
  BY <1>1, QuietFacts DEF node_vars
<1>2. CASE OnScene \/ IdleTick
  BY <1>2, OnSceneFacts DEF With, node_vars
<1>3. CASE RuntimeBuild \/ EndBuild \/ SwapNode
  <2>1. UNCHANGED scene
    BY <1>3, QuietFacts DEF scene_vars
  <2> QED BY <1>3, <2>1 DEF RuntimeBuild, BuildCell, EndBuild, SwapNode, ReplaceNode, node_vars
<1>4. CASE DriveMove
  BY <1>4, DriveMoveFacts DEF node_vars
<1>5. CASE AttachPart \/ DetachPart
  BY <1>5, HandsFacts DEF Hands, node_vars
<1>6. CASE CloseGrip \/ OpenGrip
  BY <1>6, HandsFacts DEF Hands, With, node_vars
<1> QED BY <1>1, <1>2, <1>3, <1>4, <1>5, <1>6, NextInTurns

-------------------------------------------------------------------------------
(* Each part of the invariant, over every step.                            *)

(* The object a capability makes is of its version, and around the cell.   *)
LEMMA RebuildFacts ==
  ASSUME DOMAIN made = {"vision", "tracking", "trajectory", "control"}, NEW cs, Rebuild(cs)
  PROVE  /\ DOMAIN made' = DOMAIN made
         /\ \A c \in DOMAIN made : c \notin cs => made'[c] = made[c]
         /\ "trajectory" \in cs => made'.trajectory = [of |-> version'["trajectory"], around |-> kin']
         /\ \A c \in {"vision", "tracking", "control"} : c \in cs => made'[c].of = version'[c]
         /\ "vision" \in cs => made'.vision.around[2] = clutter'
<1>1. made' = [c \in DOMAIN made |-> IF c \in cs THEN Built(c) ELSE made[c]]
  BY DEF Rebuild
<1>2. /\ Built("trajectory") = [of |-> version'["trajectory"], around |-> kin']
      /\ \A c \in {"vision", "tracking", "control"} : Built(c).of = version'[c]
      /\ Built("vision").around[2] = clutter'
  BY DEF Built, MakePlanner, MakeDetector, MakeTracker, MakeController, Object
<1> QED BY <1>1, <1>2

LEMMA ReadersTypeStays ==
  ASSUME WorldTypeOK, [WorldNext]_world_vars
  PROVE  /\ DOMAIN made' = {"vision", "tracking", "trajectory", "control"}
         /\ DOMAIN version' = Caps
<1>0. DOMAIN made = {"vision", "tracking", "trajectory", "control"} /\ DOMAIN version = Caps
  BY DEF WorldTypeOK
<1>1. CASE UNCHANGED cap_vars
  BY <1>0, <1>1 DEF cap_vars
<1>2. CASE OnCaps \/ EndBuild
  <2>1. DOMAIN version' = Caps
    BY <1>0, <1>2 DEF OnCaps, OpenKinematics, SwapChain, SetKinematics, AttachPlanner,
       LookAtScene, LookAt, SetVersion, ChooseVersion, Select, SelectWithReader, Define,
       InstallModule, EndBuild, AfterBuild, cap_vars
  <2>2. made' = made \/ \E cs : Rebuild(cs)
    BY <1>2 DEF OnCaps, OpenKinematics, SwapChain, SetKinematics, AttachPlanner, LookAtScene,
       LookAt, SetVersion, ChooseVersion, Select, SelectWithReader, Define, InstallModule,
       EndBuild, AfterBuild, cap_vars
  <2> QED BY <1>0, <2>1, <2>2, RebuildFacts
<1>3. CASE ~OnCaps /\ ~EndBuild
  <2>1. UNCHANGED cap_vars
    <3>1. CASE Quiet \/ OnScene \/ IdleTick
      BY <3>1, QuietFacts, OnSceneFacts
    <3>2. CASE RuntimeBuild \/ SetScene \/ Invalidate \/ SwapNode
      BY <3>2 DEF RuntimeBuild, SetScene, Invalidate, SwapNode
    <3>3. CASE DriveMove
      BY <3>3, DriveMoveFacts
    <3>4. CASE Hands
      BY <3>4, HandsFacts
    <3> QED BY <1>3, <3>1, <3>2, <3>3, <3>4, NextInTurns DEF Hands
  <2> QED BY <1>1, <2>1
<1> QED BY <1>2, <1>3

LEMMA CellTypeStays ==
  ASSUME WorldTypeOK, [WorldNext]_world_vars
  PROVE  /\ DOMAIN cell' = Nodes
         /\ \A n \in Nodes : DOMAIN cell'[n] = {"driver", "world", "life"}
         /\ ~RuntimeBuild => \A n \in Nodes : cell'[n].world = cell[n].world
<1>0. DOMAIN cell = Nodes /\ \A n \in Nodes : DOMAIN cell[n] = {"driver", "world", "life"}
  BY DEF WorldTypeOK
<1>1. CASE RuntimeBuild
  <2>1. PICK ok : BuildCell(Arg, ok)
    BY <1>1 DEF RuntimeBuild
  <2>2. CASE UNCHANGED node_vars
    BY <1>0, <1>1, <2>2 DEF node_vars
  <2>3. CASE cell' = [n \in Nodes |-> Adapter(Families[Arg], world, "active")]
    BY <1>1, <2>3 DEF Adapter
  <2> QED BY <2>1, <2>2, <2>3 DEF BuildCell
<1>2. CASE SwapNode
  <2>1. PICK ok : ReplaceNode(Arg, Arg2, ok)
    BY <1>2 DEF SwapNode
  <2>2. ~RuntimeBuild
    BY <1>2 DEF SwapNode, RuntimeBuild, At
  <2> DEFINE new == IF Replaced(Arg, Arg2, ok) THEN Adapter(Arg2, cell[Arg].world, "active")
                    ELSE [cell[Arg] EXCEPT !.life = IF ok /\ ~Made(Arg, Arg2) THEN "active" ELSE "inactive"]
  <2>3. cell' = [cell EXCEPT ![Arg] = new]
    BY <2>1 DEF ReplaceNode
  <2>4. Arg \in Nodes => DOMAIN new = {"driver", "world", "life"} /\ new.world = cell[Arg].world
    BY <1>0 DEF Adapter
  <2> HIDE DEF new
  <2> QED BY <1>0, <2>3, <2>4
<1>3. CASE ~RuntimeBuild /\ ~SwapNode
  <2>1. UNCHANGED cell
    <3>1. CASE Quiet \/ OnCaps \/ OnScene \/ IdleTick
      BY <3>1, QuietFacts, OnSceneFacts DEF node_vars
    <3>2. CASE EndBuild \/ SetScene \/ Invalidate
      BY <3>2 DEF EndBuild, SetScene, Invalidate, node_vars
    <3>3. CASE DriveMove
      BY <3>3, DriveMoveFacts DEF node_vars
    <3>4. CASE Hands
      BY <3>4, HandsFacts DEF node_vars
    <3> QED BY <1>3, <3>1, <3>2, <3>3, <3>4, NextInTurns DEF Hands
  <2> QED BY <1>0, <2>1
<1> QED BY <1>1, <1>2, <1>3

LEMMA SceneTypeStays ==
  ASSUME WorldTypeOK, [WorldNext]_world_vars
  PROVE  /\ world' \in Worlds
         /\ scene' \in Worlds \cup {NoScene}
         /\ DOMAIN phys' = Worlds
         /\ \A w \in Worlds : Shape(phys'[w])
         /\ held' \in BOOLEAN
<1>0. /\ world \in Worlds /\ scene \in Worlds \cup {NoScene} /\ held \in BOOLEAN
      /\ DOMAIN phys = Worlds /\ \A w \in Worlds : Shape(phys[w])
      /\ Opened(world) \in Worlds
  BY OpenedIsAWorld DEF WorldTypeOK
<1>1. CASE SetScene
  BY <1>0, <1>1 DEF SetScene, scene_vars
<1>2. CASE Invalidate
  BY <1>0, <1>2 DEF Invalidate, node_vars
<1>3. CASE ~SetScene /\ ~Invalidate
  <2>1. world' \in Worlds /\ scene' \in Worlds \cup {NoScene}
    BY <1>0, <1>3, WorldStays
  <2>2. ASSUME UNCHANGED <<phys, held>>
        PROVE  DOMAIN phys' = Worlds /\ (\A w \in Worlds : Shape(phys'[w])) /\ held' \in BOOLEAN
    BY <1>0, <2>2
  <2>3. ASSUME NEW p, Shape(p), With(world, p)
        PROVE  DOMAIN phys' = Worlds /\ (\A w \in Worlds : Shape(phys'[w]))
    BY <1>3, <2>3, WorldStays, WithFacts
  <2>4. CASE Quiet \/ OnCaps \/ RuntimeBuild \/ EndBuild \/ SwapNode
    BY <2>1, <2>2, <2>4, QuietFacts DEF scene_vars
  <2>5. CASE OnScene \/ IdleTick
    BY <1>0, <2>1, <2>3, <2>5, OnSceneFacts
  <2>6. CASE DriveMove
    BY <1>0, <2>1, <2>6, DriveMoveFacts
  <2>7. CASE Hands
    <3>1. held' \in BOOLEAN
      BY <2>7, HandsFacts
    <3>2. CASE AttachPart \/ DetachPart
      BY <1>0, <2>1, <3>1, <3>2, HandsFacts
    <3>3. CASE CloseGrip \/ OpenGrip
      BY <2>1, <2>3, <3>1, <3>3, HandsFacts
    <3> QED BY <2>7, <3>2, <3>3 DEF Hands
  <2> QED BY <1>3, <2>4, <2>5, <2>6, <2>7, NextInTurns DEF Hands
<1> QED BY <1>1, <1>2, <1>3

LEMMA TypesStay ==
  ASSUME WorldTypeOK, [WorldNext]_world_vars
  PROVE  WorldTypeOK'
  BY ReadersTypeStays, CellTypeStays, SceneTypeStays DEF WorldTypeOK, Shape

(* The second half of a pair comes with its first, and goes with itself.   *)
LEMMA HalvesComeAndGo ==
  ASSUME StepsAreLinked, [WorldNext]_world_vars
  PROVE  /\ Doing("invalidate")' /\ ~Doing("invalidate") => SetScene
         /\ Doing("after_build")' /\ ~Doing("after_build") => RuntimeBuild
         /\ Doing("planner")' /\ ~Doing("planner") => OpenKinematics
         /\ Doing("close")' /\ ~Doing("close") => AttachPart
         /\ Doing("open")' /\ ~Doing("open") => DetachPart
         /\ Doing("invalidate") /\ ~Doing("invalidate")' => Invalidate
         /\ Doing("after_build") /\ ~Doing("after_build")' => EndBuild
         /\ Doing("planner") /\ ~Doing("planner")' => SetKinematics
         /\ Doing("close") /\ ~Doing("close")' => CloseGrip
         /\ Doing("open") /\ ~Doing("open")' => OpenGrip
<1>1. ASSUME Ticks, NEW e
      PROVE  Doing(e)' <=> Doing(e)
  BY <1>1, TicksKeepTheStep DEF Doing
<1>2. ASSUME NEW d, NEW e, <<d, e>> \in Pairs, Doing(e)', ~Doing(e)
      PROVE  Doing(d) /\ ~Ticks
  BY <1>1, <1>2, SecondFollowsFirst
<1>3. /\ <<"compose", "invalidate">> \in Pairs
      /\ <<"build", "after_build">> \in Pairs
      /\ <<"chain", "planner">> \in Pairs
      /\ <<"attach", "close">> \in Pairs
      /\ <<"detach", "open">> \in Pairs
  BY DEF Pairs
<1>4. /\ Doing("invalidate")' /\ ~Doing("invalidate") => SetScene
      /\ Doing("after_build")' /\ ~Doing("after_build") => RuntimeBuild
  BY <1>2, <1>3, TurnOfTheWorker
<1>5. /\ Doing("planner")' /\ ~Doing("planner") => OpenKinematics
      /\ Doing("close")' /\ ~Doing("close") => AttachPart
      /\ Doing("open")' /\ ~Doing("open") => DetachPart
  BY <1>2, <1>3, TurnOfTheWorker
<1>6. /\ Doing("invalidate") /\ ~Doing("invalidate")' => Invalidate
      /\ Doing("after_build") /\ ~Doing("after_build")' => EndBuild
      /\ Doing("planner") /\ ~Doing("planner")' => SetKinematics
      /\ Doing("close") /\ ~Doing("close")' => CloseGrip
      /\ Doing("open") /\ ~Doing("open")' => OpenGrip
  BY <1>1, TurnOfTheWorker
<1> QED BY <1>4, <1>5, <1>6

LEMMA SceneStillFollows ==
  ASSUME WorldTypeOK, StepsAreLinked, SceneFollows, [WorldNext]_world_vars
  PROVE  SceneFollows'
<1>1. CASE SetScene
  <2>1. ~Doing("invalidate")
    BY <1>1 DEF SetScene, At, Doing
  <2>2. CASE micro' = Tail(micro)
    <3>1. Doing("compose") /\ <<"compose", "invalidate">> \in Pairs
      BY <1>1 DEF SetScene, At, Doing, Pairs
    <3> QED BY <2>2, <3>1, FirstIsFollowed DEF SceneFollows
  <2>3. CASE UNCHANGED world
    <3>1. scene' = scene
      BY <1>1 DEF SetScene, scene_vars
    <3> QED BY <2>1, <2>3, <3>1 DEF SceneFollows
  <2> QED BY <1>1, <2>2, <2>3 DEF SetScene, Goes
<1>2. CASE Invalidate
  BY <1>2 DEF Invalidate, SceneFollows
<1>3. CASE ~SetScene /\ ~Invalidate
  <2>1. world' = world /\ scene' \in {scene, Opened(world)}
    BY <1>3, WorldStays
  <2>2. Doing("invalidate") => Doing("invalidate")'
    BY <1>3, HalvesComeAndGo
  <2> QED BY <2>1, <2>2 DEF SceneFollows, Opened
<1> QED BY <1>1, <1>2, <1>3

LEMMA CellStillFollows ==
  ASSUME WorldTypeOK, StepsAreLinked, CellFollows, [WorldNext]_world_vars
  PROVE  CellFollows'
<1> USE DEF CellFollows
<1>1. CASE RuntimeBuild
  <2>1. Doing("build") /\ ~Doing("invalidate") /\ ~Doing("after_build") /\ family' = family
    BY <1>1 DEF RuntimeBuild, At, Doing, rest_vars
  <2>2. PICK ok \in IF Buildable(Arg) THEN Activates(Families[Arg]) ELSE {FALSE} :
          BuildCell(Arg, ok) /\ Proceeds(ok)
    BY <1>1 DEF RuntimeBuild
  <2>3. CASE Buildable(Arg) /\ ok
    <3>1. cell' = [n \in Nodes |-> Adapter(Families[Arg], world, "active")] /\ world' = world
      BY <2>2, <2>3 DEF BuildCell
    <3>2. \A n \in Nodes : cell'[n].world = world'
      BY <3>1 DEF Adapter
    <3> QED BY <3>2
  <2>4. CASE ~(Buildable(Arg) /\ ok)
    <3>1. UNCHANGED node_vars /\ micro' = <<>>
      <4>1. ~ok
        BY <2>2, <2>4
      <4> QED BY <2>2, <2>4, <4>1 DEF BuildCell, Proceeds, Fail
    <3> QED BY <2>1, <3>1 DEF Doing, node_vars
  <2> QED BY <2>3, <2>4
<1>2. CASE EndBuild
  BY <1>2 DEF EndBuild, At, Doing, node_vars
<1>3. CASE SetScene
  <2>1. ~Doing("invalidate") /\ ~Doing("after_build")
    BY <1>3 DEF SetScene, At, Doing
  <2>2. CASE micro' = Tail(micro)
    <3>1. Doing("compose") /\ <<"compose", "invalidate">> \in Pairs
      BY <1>3 DEF SetScene, At, Doing, Pairs
    <3>2. Doing("invalidate")'
      BY <2>2, <3>1, FirstIsFollowed
    <3>3. ~Doing("after_build")'
      BY <3>2 DEF Doing
    <3> QED BY <3>2, <3>3
  <2>3. CASE UNCHANGED world /\ micro' = <<>>
    BY <1>3, <2>1, <2>3 DEF SetScene, Doing, rest_vars
  <2> QED BY <1>3, <2>2, <2>3 DEF SetScene, Goes, Fail
<1>4. CASE Invalidate
  <2>1. Doing("invalidate") /\ ~Doing("after_build") /\ family' = "" /\ ~RuntimeBuild
    BY <1>4 DEF Invalidate, RuntimeBuild, At, Doing
  <2> QED BY <2>1, HalvesComeAndGo
<1>5. CASE ~RuntimeBuild /\ ~EndBuild /\ ~SetScene /\ ~Invalidate
  <2>1. world' = world /\ \A n \in Nodes : cell'[n].world = cell[n].world
    BY <1>5, WorldStays, CellTypeStays
  <2>2. family' = family
    BY <1>5, NextInTurns, QuietFacts, OnSceneFacts, DriveMoveFacts, HandsFacts DEF Hands, SwapNode, rest_vars
  <2>3. Doing("invalidate") => Doing("invalidate")'
    BY <1>5, HalvesComeAndGo
  <2>4. Doing("after_build")' => Doing("after_build")
    BY <1>5, HalvesComeAndGo
  <2> QED BY <2>1, <2>2, <2>3, <2>4
<1> QED BY <1>1, <1>2, <1>3, <1>4, <1>5

(* No other step closes or opens a weld, or changes which one is meant.    *)
LEMMA WeldsStay ==
  ASSUME WorldTypeOK, [WorldNext]_world_vars, ~Hands, ~SetScene, ~Invalidate
  PROVE  /\ \A w \in Worlds : phys'[w].weld = phys[w].weld
         /\ UNCHANGED <<held, left>>
         /\ Opened(world)' = Opened(world)
<1>0. world' = world /\ scene' \in {scene, Opened(world)}
  BY WorldStays
<1>1. Opened(world)' = Opened(world)
  BY <1>0 DEF Opened
<1>2. CASE Quiet \/ OnCaps \/ RuntimeBuild \/ EndBuild \/ SwapNode
  BY <1>1, <1>2, QuietFacts DEF scene_vars
<1>3. CASE OnScene \/ IdleTick
  <2>1. PICK p : Shape(p) /\ p.weld = Live(world).weld /\ With(world, p)
    BY <1>3, OnSceneFacts
  <2>2. /\ phys'[Opened(world)] = p
        /\ \A w \in Worlds : w # Opened(world) => phys'[w] = phys[w]
    BY <1>0, <2>1, WithFacts
  <2>3. \A w \in Worlds : phys'[w].weld = phys[w].weld
    BY <2>1, <2>2 DEF Live
  <2> QED BY <1>1, <1>3, <2>3, OnSceneFacts
<1>4. CASE DriveMove
  BY <1>1, <1>4, DriveMoveFacts
<1> QED BY <1>2, <1>3, <1>4, NextInTurns DEF Hands

LEMMA WeldsStayOpen ==
  ASSUME WorldTypeOK, StepsAreLinked, SceneFollows, WeldsAreOpen, [WorldNext]_world_vars
  PROVE  WeldsAreOpen'
<1>0. \A w \in Worlds : phys[w].weld \in BOOLEAN
  BY DEF WorldTypeOK, Shape
<1>1. CASE SetScene
  BY <1>1 DEF SetScene, scene_vars, rest_vars, WeldsAreOpen
<1>2. CASE Invalidate
  <2>1. phys' = phys /\ left' = IF scene # NoScene /\ phys[scene].weld THEN left \cup {scene} ELSE left
    BY <1>2 DEF Invalidate
  <2>2. ASSUME left' = {}
        PROVE  \A w \in Worlds : ~phys[w].weld
    BY <2>1, <2>2, SceneAssumption DEF WeldsAreOpen
  <2> QED BY <2>1, <2>2 DEF WeldsAreOpen
<1>3. CASE AttachPart \/ DetachPart
  BY <1>3, HandsFacts DEF Hands, WeldsAreOpen
<1>4. CASE CloseGrip \/ OpenGrip
  <2>1. UNCHANGED <<world, left>>
    BY <1>4, HandsFacts DEF Hands, node_vars
  <2>2. PICK p : /\ Shape(p) /\ With(world, p)
                 /\ Opened(world) \notin Grippers => p.weld = Live(world).weld
    BY <1>4, HandsFacts
  <2>3. /\ scene' = Opened(world)
        /\ phys'[Opened(world)] = p
        /\ \A w \in Worlds : w # Opened(world) => phys'[w] = phys[w]
    BY <2>1, <2>2, WithFacts
  <2>4. ASSUME NEW w \in Worlds, phys'[w].weld
        PROVE  w \in Grippers
    BY <2>2, <2>3, <2>4 DEF WeldsAreOpen, Live
  <2>5. ASSUME left' = {}, NEW w \in Worlds, phys'[w].weld
        PROVE  w = scene'
    <3>1. CASE w = Opened(world)
      BY <2>3, <3>1
    <3>2. CASE w # Opened(world)
      BY <2>1, <2>3, <2>5, <3>2, SceneAssumption DEF WeldsAreOpen, Opened
    <3> QED BY <3>1, <3>2
  <2> QED BY <2>4, <2>5 DEF WeldsAreOpen
<1>5. CASE ~Hands /\ ~SetScene /\ ~Invalidate
  <2>1. /\ \A w \in Worlds : phys'[w].weld = phys[w].weld
        /\ left' = left /\ scene' \in {scene, Opened(world)}
    BY <1>5, WeldsStay, WorldStays
  <2> QED BY <2>1, SceneAssumption DEF WeldsAreOpen, Opened
<1> QED BY <1>1, <1>2, <1>3, <1>4, <1>5 DEF Hands

LEMMA NothingFollowsAHalf ==
  ASSUME StepsAreLinked, CloseGrip \/ OpenGrip, [WorldNext]_world_vars
  PROVE  ~Doing("close")' /\ ~Doing("open")'
<1>1. Doing("close") \/ Doing("open")
  BY DEF CloseGrip, OpenGrip, At, Doing
<1>2. ~Doing("attach") /\ ~Doing("detach")
  BY <1>1 DEF Doing
<1>3. micro' # micro
  <2>1. micro \in Seq(Micro) /\ micro # <<>>
    BY <1>1 DEF Doing, StepsAreLinked
  <2>2. Tail(micro) # micro
    <3>1. Len(micro) \in Nat /\ Len(Tail(micro)) = Len(micro) - 1
      BY <2>1, HeadTailProperties
    <3> QED BY <3>1
  <2>3. Intercept # micro
    <3>1. Begins(Intercept)
      BY ProgramStepsAreClosed DEF Closed
    <3>2. ~Begins(micro)
      <4>1. Len(micro) > 0 /\ micro[1].do \in Seconds
        BY <1>1, <2>1, EmptySeq DEF Doing, Seconds
      <4> QED BY <4>1 DEF Begins
    <3> QED BY <3>1, <3>2
  <2>4. micro' \in {<<>>, Tail(micro), Intercept}
    BY DEF CloseGrip, OpenGrip, Goes, Proceeds, Fail, Missed
  <2> QED BY <2>1, <2>2, <2>3, <2>4
<1>4. <<"attach", "close">> \in Pairs /\ <<"detach", "open">> \in Pairs
  BY DEF Pairs
<1> QED BY <1>2, <1>3, <1>4, SecondFollowsFirst

LEMMA GripStillFollows ==
  ASSUME WorldTypeOK, StepsAreLinked, WeldsAreOpen, GripFollows, [WorldNext]_world_vars
  PROVE  GripFollows'
<1>0. /\ held \in BOOLEAN /\ \A w \in Worlds : phys[w].weld \in BOOLEAN
      /\ Opened(world) \in Worlds
  BY OpenedIsAWorld DEF WorldTypeOK, Shape
<1>1. CASE SetScene \/ Invalidate
  <2>1. ~Doing("close") /\ ~Doing("open")
    BY <1>1 DEF SetScene, Invalidate, At, Doing
  <2>2. ~Doing("close")' /\ ~Doing("open")'
    <3>1. ~AttachPart /\ ~DetachPart
      BY <1>1 DEF SetScene, Invalidate, AttachPart, DetachPart, At
    <3> QED BY <2>1, <3>1, HalvesComeAndGo
  <2>3. UNCHANGED <<phys, held>>
    BY <1>1 DEF SetScene, Invalidate, scene_vars
  <2>4. ASSUME left' = {}
        PROVE  left = {} /\ (phys[Opened(world)'].weld = phys[Opened(world)].weld)
    <3>1. CASE SetScene
      <4>1. left' = left /\ scene' = scene /\ world' \in Worlds
        BY <3>1, SceneTypeStays DEF SetScene, scene_vars, rest_vars
      <4>2. CASE scene = NoScene
        BY <1>0, <2>4, <4>1, <4>2, SceneAssumption DEF WeldsAreOpen, Opened, WorldTypeOK
      <4>3. CASE scene # NoScene
        BY <2>4, <4>1, <4>3 DEF Opened
      <4> QED BY <4>2, <4>3
    <3>2. CASE Invalidate
      <4>1. /\ left' = IF scene # NoScene /\ phys[scene].weld THEN left \cup {scene} ELSE left
            /\ scene' = NoScene /\ world' = world
        BY <3>2 DEF Invalidate, node_vars
      <4>2. left = {} /\ (scene = NoScene \/ ~phys[scene].weld)
        BY <2>4, <4>1
      <4>3. \A w \in Worlds : ~phys[w].weld
        BY <4>2, SceneAssumption DEF WeldsAreOpen
      <4> QED BY <1>0, <4>1, <4>2, <4>3 DEF Opened, WorldTypeOK
    <3> QED BY <1>1, <3>1, <3>2
  <2> QED BY <2>1, <2>2, <2>3, <2>4 DEF GripFollows
<1>2. CASE AttachPart \/ DetachPart
  <2>1. UNCHANGED <<phys, scene, world, left>>
    BY <1>2, HandsFacts DEF Hands, node_vars
  <2>2. Opened(world)' = Opened(world)
    BY <2>1 DEF Opened
  <2>3. ~Doing("close") /\ ~Doing("open")
    BY <1>2 DEF AttachPart, DetachPart, At, Doing
  <2>4. CASE AttachPart /\ CanAttach
    <3>1. Doing("attach") /\ micro' = Tail(micro) /\ held' = TRUE /\ ~held
      BY <2>4 DEF AttachPart, At, Doing, Goes, Declare, CanAttach
    <3>2. Doing("close")'
      BY <3>1, FirstIsFollowed DEF Pairs
    <3>3. ~Doing("open")'
      BY <3>2 DEF Doing
    <3> QED BY <2>1, <2>2, <2>3, <3>1, <3>2, <3>3 DEF GripFollows
  <2>5. CASE DetachPart /\ held
    <3>1. Doing("detach") /\ micro' = Tail(micro) /\ held' = FALSE
      BY <2>5 DEF DetachPart, At, Doing, Goes, Declare
    <3>2. Doing("open")'
      BY <3>1, FirstIsFollowed DEF Pairs
    <3>3. ~Doing("close")'
      BY <3>2 DEF Doing
    <3> QED BY <3>1, <3>2, <3>3 DEF GripFollows
  <2>6. CASE (AttachPart /\ ~CanAttach) \/ (DetachPart /\ ~held)
    <3>1. held' = held /\ (micro' = <<>> \/ micro' = Intercept)
      BY <2>6 DEF AttachPart, DetachPart, Missed, Fail, scene_vars, At
    <3>2. ~Doing("close")' /\ ~Doing("open")'
      <4>1. ASSUME micro' = Intercept
            PROVE  Begins(micro') /\ micro' \in Seq(Micro)
        BY <4>1, ProgramStepsAreClosed DEF Closed
      <4>2. ASSUME Begins(micro'), micro' \in Seq(Micro), micro' # <<>>
            PROVE  Head(micro').do \notin Seconds
        BY <4>2, EmptySeq DEF Begins
      <4> QED BY <3>1, <4>1, <4>2 DEF Doing, Seconds
    <3> QED BY <2>1, <2>2, <2>3, <3>1, <3>2 DEF GripFollows
  <2> QED BY <1>2, <2>4, <2>5, <2>6
<1>3. CASE CloseGrip \/ OpenGrip
  <2>1. UNCHANGED <<world, left>>
    BY <1>3, HandsFacts DEF Hands, node_vars
  <2>2. ~Doing("close")' /\ ~Doing("open")'
    BY <1>3, NothingFollowsAHalf
  <2>3. ASSUME NEW p, Shape(p), With(world, p)
        PROVE  phys'[Opened(world)'].weld = p.weld
    BY <2>1, <2>3, WithFacts
  <2>4. Opened(world) \notin Grippers => ~Live(world).weld
    BY <1>0 DEF WeldsAreOpen, Live
  <2>5. CASE CloseGrip
    <3>1. held' = IF Opened(world) \in Grippers THEN held ELSE FALSE
      BY <2>5 DEF CloseGrip, CloseWeld
    <3>2. Doing("close") /\ ~Doing("open")
      BY <2>5 DEF CloseGrip, At, Doing
    <3>3. phys'[Opened(world)'].weld = IF Opened(world) \in Grippers THEN TRUE ELSE Live(world).weld
      BY <2>3, <2>5, HandsFacts
    <3> QED BY <2>1, <2>2, <2>4, <3>1, <3>2, <3>3 DEF GripFollows
  <2>6. CASE OpenGrip
    <3>1. held' = held
      BY <2>6 DEF OpenGrip
    <3>2. Doing("open") /\ ~Doing("close")
      BY <2>6 DEF OpenGrip, At, Doing
    <3>3. phys'[Opened(world)'].weld = IF Opened(world) \in Grippers THEN FALSE ELSE Live(world).weld
      BY <2>3, <2>6, HandsFacts
    <3> QED BY <2>1, <2>2, <2>4, <3>1, <3>2, <3>3 DEF GripFollows
  <2> QED BY <1>3, <2>5, <2>6
<1>4. CASE ~Hands /\ ~SetScene /\ ~Invalidate
  <2>1. /\ phys'[Opened(world)'].weld = phys[Opened(world)].weld
        /\ UNCHANGED <<held, left>>
    BY <1>0, <1>4, WeldsStay
  <2>2. (Doing("close")' <=> Doing("close")) /\ (Doing("open")' <=> Doing("open"))
    BY <1>4, HalvesComeAndGo DEF Hands
  <2> QED BY <2>1, <2>2 DEF GripFollows
<1> QED BY <1>1, <1>2, <1>3, <1>4 DEF Hands

LEMMA ReadersStillFollow ==
  ASSUME WorldTypeOK, StepsAreLinked, ReadersFollow, [WorldNext]_world_vars
  PROVE  ReadersFollow'
<1>0. /\ DOMAIN made = {"vision", "tracking", "trajectory", "control"} /\ DOMAIN version = Caps
      /\ Caps = {"camera", "vision", "tracking", "trajectory", "control"}
  BY CapsAssumption DEF WorldTypeOK
<1>1. ASSUME UNCHANGED cap_vars, ~SetKinematics
      PROVE  ReadersFollow'
  <2>1. Doing("planner") => Doing("planner")'
    BY <1>1, HalvesComeAndGo
  <2> QED BY <1>1, <2>1 DEF ReadersFollow, cap_vars
<1>2. CASE OpenKinematics
  <2>1. ~SetKinematics
    BY <1>2 DEF OpenKinematics, SetKinematics, At
  <2>2. CASE UNCHANGED cap_vars
    BY <1>1, <2>1, <2>2
  <2>3. CASE SwapChain(world) /\ micro' = Tail(micro)
    <3>1. Doing("planner")'
      <4>1. Doing("chain") /\ <<"chain", "planner">> \in Pairs
        BY <1>2 DEF OpenKinematics, At, Doing, Pairs
      <4> QED BY <2>3, <4>1, FirstIsFollowed
    <3> QED BY <2>3, <3>1 DEF ReadersFollow, SwapChain
  <2> QED BY <1>2, <2>2, <2>3 DEF OpenKinematics, Goes
<1>3. CASE SetKinematics
  <2>1. kin' = chain /\ UNCHANGED <<version, chain, clutter>> /\ Rebuild({"trajectory"})
    BY <1>3 DEF SetKinematics, AttachPlanner
  <2>2. /\ made'.trajectory = [of |-> version'["trajectory"], around |-> kin']
        /\ \A c \in {"vision", "tracking", "control"} : made'[c] = made[c]
    BY <1>0, <2>1, RebuildFacts
  <2> QED BY <2>1, <2>2 DEF ReadersFollow
<1>4. CASE LookAtScene \/ EndBuild
  <2>1. ~Doing("planner")
    BY <1>4 DEF LookAtScene, EndBuild, At, Doing
  <2>2. CASE LookAtScene
    <3>1. UNCHANGED <<version, chain, kin>> /\ Rebuild({"vision"})
      BY <2>2 DEF LookAtScene, LookAt
    <3>2. /\ made'.vision.around[2] = clutter' /\ made'["vision"].of = version'["vision"]
          /\ \A c \in {"trajectory", "tracking", "control"} : made'[c] = made[c]
      BY <1>0, <3>1, RebuildFacts
    <3> QED BY <2>1, <3>1, <3>2 DEF ReadersFollow
  <2>3. CASE EndBuild
    <3>1. UNCHANGED <<version, chain, kin, clutter>> /\ Rebuild({"control", "trajectory"})
      BY <2>3 DEF EndBuild, AfterBuild
    <3>2. /\ made'.trajectory = [of |-> version'["trajectory"], around |-> kin']
          /\ made'["control"].of = version'["control"]
          /\ \A c \in {"vision", "tracking"} : made'[c] = made[c]
      BY <1>0, <3>1, RebuildFacts
    <3> QED BY <2>1, <3>1, <3>2 DEF ReadersFollow
  <2> QED BY <1>4, <2>2, <2>3
<1>5. ASSUME NEW cs, Rebuild(cs), UNCHANGED <<chain, kin, clutter>>, ~Doing("planner"),
             \A d \in DOMAIN made : d \notin cs => version'[d] = version[d]
      PROVE  ReadersFollow'
  <2>1. \A d \in DOMAIN made : d \notin cs => version'[d] = version[d]
    BY <1>5
  <2>2. made'.trajectory = [of |-> version'["trajectory"], around |-> kin']
    <3>1. CASE "trajectory" \in cs
      BY <1>0, <1>5, <3>1, RebuildFacts
    <3>2. CASE "trajectory" \notin cs
      <4>1. made'["trajectory"] = made["trajectory"]
        BY <1>0, <1>5, <3>2, RebuildFacts
      <4> QED BY <1>0, <1>5, <2>1, <3>2, <4>1 DEF ReadersFollow
    <3> QED BY <3>1, <3>2
  <2>3. \A d \in {"vision", "tracking", "control"} : made'[d].of = version'[d]
    <3> SUFFICES ASSUME NEW d \in {"vision", "tracking", "control"}
                 PROVE  made'[d].of = version'[d]
      OBVIOUS
    <3>1. CASE d \in cs
      BY <1>0, <1>5, <3>1, RebuildFacts
    <3>2. CASE d \notin cs
      <4>1. made'[d] = made[d]
        BY <1>0, <1>5, <3>2, RebuildFacts
      <4> QED BY <1>0, <2>1, <3>2, <4>1 DEF ReadersFollow
    <3> QED BY <3>1, <3>2
  <2>4. made'.vision.around[2] = clutter'
    <3>1. CASE "vision" \in cs
      BY <1>0, <1>5, <3>1, RebuildFacts
    <3>2. CASE "vision" \notin cs
      <4>1. made'["vision"] = made["vision"]
        BY <1>0, <1>5, <3>2, RebuildFacts
      <4> QED BY <1>5, <4>1 DEF ReadersFollow
    <3> QED BY <3>1, <3>2
  <2>5. kin' = chain'
    BY <1>5 DEF ReadersFollow
  <2> QED BY <2>2, <2>3, <2>4, <2>5 DEF ReadersFollow
<1>6. ASSUME NEW c, NEW v, Select(c, v), ~Doing("planner"), ~SetKinematics
      PROVE  ReadersFollow'
  <2>1. CASE v \notin names[c]
    BY <1>1, <1>6, <2>1 DEF Select, cap_vars
  <2>2. CASE v \in names[c]
    <3>1. /\ version' = [version EXCEPT ![c] = v] /\ Rebuild({c} \cap DOMAIN made)
          /\ UNCHANGED <<chain, kin, clutter>>
      BY <1>6, <2>2 DEF Select
    <3>2. \A d \in DOMAIN made : d \notin {c} \cap DOMAIN made => version'[d] = version[d]
      BY <1>0, <3>1
    <3> QED BY <1>5, <1>6, <3>1, <3>2
  <2> QED BY <2>1, <2>2
<1>7. CASE SetVersion \/ ChooseVersion
  <2>1. ~Doing("planner") /\ ~SetKinematics
    BY <1>7 DEF SetVersion, ChooseVersion, SetKinematics, At, Doing
  <2>2. CASE Select(Arg, Arg2)
    BY <1>6, <2>1, <2>2
  <2>3. CASE ~Select(Arg, Arg2)
    <3>1. SelectWithReader(Arg, Arg2)
      BY <1>7, <2>3 DEF SetVersion, ChooseVersion
    <3>2. /\ Arg = "camera" /\ version' = [version EXCEPT ![Arg] = Arg2] /\ Rebuild({"vision"})
          /\ UNCHANGED <<chain, kin, clutter>>
      BY <2>3, <3>1 DEF SelectWithReader
    <3>3. \A d \in DOMAIN made : d \notin {"vision"} => version'[d] = version[d]
      BY <1>0, <3>2
    <3> QED BY <1>5, <2>1, <3>2, <3>3
  <2> QED BY <2>2, <2>3
<1>8. CASE Define
  <2>1. ~Doing("planner") /\ ~SetKinematics
    BY <1>8 DEF Define, SetKinematics, At, Doing
  <2>2. PICK now \in BOOLEAN : InstallModule(Arg, Arg2, now)
    BY <1>8 DEF Define
  <2>3. CASE Arg \notin Authorable
    BY <1>1, <2>1, <2>2, <2>3 DEF InstallModule
  <2>4. CASE Arg \in Authorable
    <3>1. Rebuild({Arg}) /\ UNCHANGED <<chain, kin, clutter>>
      BY <2>2, <2>4 DEF InstallModule
    <3>2. version' = [version EXCEPT ![Arg] = Arg2] \/ version' = version
      BY <2>2, <2>4 DEF InstallModule
    <3>3. \A d \in DOMAIN made : d \notin {Arg} => version'[d] = version[d]
      BY <1>0, <3>2
    <3> QED BY <1>5, <2>1, <3>1, <3>3
  <2> QED BY <2>3, <2>4
<1>9. CASE ~OnCaps /\ ~EndBuild
  <2>1. UNCHANGED cap_vars
    <3>1. CASE Quiet \/ OnScene \/ IdleTick
      BY <3>1, QuietFacts, OnSceneFacts
    <3>2. CASE RuntimeBuild \/ SetScene \/ Invalidate \/ SwapNode
      BY <3>2 DEF RuntimeBuild, SetScene, Invalidate, SwapNode
    <3>3. CASE DriveMove
      BY <3>3, DriveMoveFacts
    <3>4. CASE Hands
      BY <3>4, HandsFacts
    <3> QED BY <1>9, <3>1, <3>2, <3>3, <3>4, NextInTurns DEF Hands
  <2> QED BY <1>1, <1>9, <2>1 DEF OnCaps
<1> QED BY <1>2, <1>3, <1>4, <1>7, <1>8, <1>9 DEF OnCaps

LEMMA RestStillShowsTheScene ==
  ASSUME WorldTypeOK, StepsAreLinked, RestShowsTheScene, [WorldNext]_world_vars
  PROVE  RestShowsTheScene'
<1> SUFFICES ASSUME pc' = "free" PROVE RestShowsTheScene'
  BY DEF RestShowsTheScene
<1>1. CASE OnScene \/ IdleTick
  <2>1. PICK p : Shape(p) /\ With(world, p)
    BY <1>1, OnSceneFacts
  <2>2. world' = world
    BY <1>1, OnSceneFacts DEF node_vars
  <2> QED BY <2>1, <2>2, WithFacts
<1>2. CASE Quiet
  <2>1. pc = "free"
    BY <1>2 DEF Quiet, MovesOn, Take, StartStep, Show, BeginBuild, Aim, Sight, DriveStart, DriveEnd,
       Keeps, Due, IdleShow, Ticker, Goes, Heads, Fail, At, Drives, work_vars, world_vars
  <2>2. UNCHANGED <<phys, scene, snap, world>>
    BY <1>2, QuietFacts DEF node_vars
  <2> QED BY <2>1, <2>2 DEF RestShowsTheScene, Live, Opened
<1>3. CASE OnCaps
  BY <1>3 DEF OnCaps, OpenKinematics, SetKinematics, LookAtScene, SetVersion, ChooseVersion, Define,
     At, Goes, Proceeds, Fail
<1>4. CASE RuntimeBuild \/ EndBuild \/ SetScene \/ Invalidate \/ SwapNode \/ DriveMove
  BY <1>4 DEF RuntimeBuild, EndBuild, SetScene, Invalidate, SwapNode, DriveMove, At, Goes,
     Proceeds, Fail
<1>5. CASE Hands
  BY <1>5 DEF Hands, AttachPart, DetachPart, CloseGrip, OpenGrip, At, Goes, Proceeds, Fail, Missed
<1> QED BY <1>1, <1>2, <1>3, <1>4, <1>5, NextInTurns DEF Hands

-------------------------------------------------------------------------------
LEMMA InitWorldInv == WorldInit => WorldInv
<1> SUFFICES ASSUME WorldInit PROVE WorldInv
  OBVIOUS
<1>1. PICK w \in Worlds, f \in DOMAIN Families :
        NodesInit(w, f) /\ SceneInit(w) /\ CapsInit(w) /\ family = f
  BY DEF WorldInit
<1>2. /\ pc = "free" /\ todo = <<>> /\ micro = <<>> /\ left = {}
  BY DEF WorldInit
<1>3. /\ scene = w /\ world = w /\ phys = [x \in Worlds |-> Home] /\ snap = Pose(Home) /\ held = FALSE
      /\ Home.weld = FALSE /\ Shape(Home)
  BY <1>1 DEF SceneInit, NodesInit, Home, Shape
<1>4. Opened(world) = w
  BY <1>3, SceneAssumption DEF Opened
<1>5. \A x : ~Doing(x)
  BY <1>2 DEF Doing
<1>6. /\ cell = [n \in Nodes |-> Adapter(Families[f], w, "active")]
  BY <1>1 DEF NodesInit
<1>7. /\ version = Default /\ chain = w /\ kin = w /\ clutter = w
      /\ made = [vision     |-> Object(version["vision"], <<Object(version["camera"], w), w>>),
                 tracking   |-> Object(version["tracking"], <<>>),
                 trajectory |-> Object(version["trajectory"], w),
                 control    |-> Object(version["control"], <<>>)]
  BY <1>1 DEF CapsInit
<1>8. WorldTypeOK
  <2>1. DOMAIN cell = Nodes /\ \A n \in Nodes : DOMAIN cell[n] = {"driver", "world", "life"}
    BY <1>6 DEF Adapter
  <2>2. /\ DOMAIN made = {"vision", "tracking", "trajectory", "control"}
        /\ DOMAIN version = Caps
    BY <1>7, CapsAssumption
  <2> QED BY <1>3, <2>1, <2>2 DEF WorldTypeOK
<1>9. StepsAreLinked
  <2>1. <<>> \in Seq(StepsOfJobs) /\ <<>> \in Seq(Micro)
    OBVIOUS
  <2>2. Linked(<<>>)
    BY DEF Linked
  <2>3. family \in Args
    BY <1>1 DEF Args
  <2> QED BY <1>2, <2>1, <2>2, <2>3 DEF StepsAreLinked
<1>10. SceneFollows /\ CellFollows
  BY <1>3, <1>5, <1>6 DEF SceneFollows, CellFollows, Adapter
<1>11. WeldsAreOpen /\ GripFollows
  BY <1>3, <1>4, <1>5 DEF WeldsAreOpen, GripFollows
<1>12. ReadersFollow
  BY <1>5, <1>7 DEF ReadersFollow, Object
<1>13. RestShowsTheScene
  BY <1>3, <1>4 DEF RestShowsTheScene, Live
<1> QED BY <1>8, <1>9, <1>10, <1>11, <1>12, <1>13 DEF WorldInv

LEMMA NextKeepsWorldInv == WorldInv /\ [WorldNext]_world_vars => WorldInv'
  BY TypesStay, StepsStayLinked, SceneStillFollows, CellStillFollows, WeldsStayOpen,
     GripStillFollows, ReadersStillFollow, RestStillShowsTheScene DEF WorldInv

(* The invariant everything below follows from.                            *)
THEOREM WorldInvariant == WorldSpec => []WorldInv
  BY InitWorldInv, NextKeepsWorldInv, PTL DEF WorldSpec

(* What the gripper declares is what the weld of the open world does, for  *)
(* every grasp and release, refused or not, retried or not, and over every *)
(* change of world that no part was carried into.                          *)
THEOREM WhatIsHeldIsWelded == WorldSpec => []GripIsTrue
<1>1. WorldInv => GripIsTrue
  <2> SUFFICES ASSUME WorldInv, left = {}, ~BetweenHalves
               PROVE  held <=> phys[Opened(world)].weld
    BY DEF GripIsTrue
  <2>1. ~Doing("close") /\ ~Doing("open")
    <3>1. ASSUME NEW x \in {"close", "open"}, Doing(x)
          PROVE  pc = "work"
      BY <3>1 DEF WorldInv, StepsAreLinked, Doing
    <3> QED BY <3>1 DEF BetweenHalves, At, Doing
  <2> QED BY <2>1 DEF WorldInv, GripFollows
<1> QED BY <1>1, WorldInvariant, PTL

(* When no command is being executed the nodes of a live family, the       *)
(* runtime and the scene are of one world, whatever broke off before.      *)
THEOREM TheCellIsOfOneWorld == WorldSpec => []OneWorld
<1>1. WorldInv => OneWorld
  <2> SUFFICES ASSUME WorldInv, pc = "free", family # ""
               PROVE  /\ \A n \in Nodes : cell[n].world = world
                      /\ Opened(world) = world
    BY DEF OneWorld
  <2>1. ~Doing("invalidate")
    BY DEF WorldInv, StepsAreLinked, Doing
  <2> QED BY <2>1 DEF WorldInv, SceneFollows, CellFollows, Opened
<1> QED BY <1>1, WorldInvariant, PTL

(* No reader is left with an object of a version, a chain or a clutter     *)
(* that the cell no longer has, however a swap or an install came about.   *)
THEOREM ReadersFollowTheCell == WorldSpec => []ReadersAreCurrent
<1>1. WorldInv => ReadersAreCurrent
  <2> SUFFICES ASSUME WorldInv, pc = "free" \/ Drives
               PROVE  kin = chain
    BY DEF ReadersAreCurrent, WorldInv, ReadersFollow
  <2>1. ~Doing("planner")
    BY DEF WorldInv, StepsAreLinked, Doing, Drives, At
  <2> QED BY <2>1 DEF WorldInv, ReadersFollow
<1> QED BY <1>1, WorldInvariant, PTL

(* What readers see of a resting cell is where things are.                 *)
THEOREM ARestingCellIsSampled == WorldSpec => []RestShowsTheScene
<1>1. WorldInv => RestShowsTheScene
  BY DEF WorldInv
<1> QED BY <1>1, WorldInvariant, PTL

===============================================================================
