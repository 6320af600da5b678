---------------------------- MODULE PlatformProofs ----------------------------
(***************************************************************************)
(* What the platform facade promises of a comparison of versions and of    *)
(* the documents it keeps, and what its trackers and the step that         *)
(* intercepts promise of a part that moves.                                *)
(*                                                                         *)
(* A comparison is fair and its rows are true, for any number of versions  *)
(* and trials, any queue, and whatever another client does meanwhile: a    *)
(* row says nothing that its own trial did not do, unless it was disturbed *)
(* and promises nothing.  A document that was stored deploys and means     *)
(* what it says, for any axes, drivers, bodies and verbs and documents of  *)
(* any length.  A tracker claims no speed but the belt's, for any belt,    *)
(* sensors and settings, and a reach aims at the part.                     *)
(***************************************************************************)
EXTENDS Trials, Descriptors, Sightings, FiniteSetTheorems, SequenceTheorems, TLAPS

-------------------------------------------------------------------------------
(* Comparisons.                                                            *)

Over(i)       == fate[i] \in {"done", "dropped"}
Unfinished(i) == fate[i] \in {"pending", "running"}
Begun(i)      == fate[i] = "running" /\ at > 0
NothingRuns   == \A i \in Queue!Ids : ~Unfinished(i)

(* A receipt has no step, any other command at least one; each is known.   *)
Command(item) ==
  /\ item = Receipt \/ Len(item) \in Nat \ {0}
  /\ DOMAIN item = 1..Len(item)
  /\ \A k \in 1..Len(item) : item[k].do \in Acts \cup {"choose"}

Starts == [held : BOOLEAN, away : BOOLEAN, homed : BOOLEAN]
Tales  == [calm : BOOLEAN, trial : Nat, ran : SUBSET Known, homed : BOOLEAN, start : Starts]

TrialsTypeOK ==
  /\ fate \in [Queue!Ids -> Queue!Fates]
  /\ DOMAIN work = Queue!Ids
  /\ applied \in Nat /\ at \in Nat /\ runs \in Nat
  /\ before \in Nat /\ calls \in Nat /\ early \in Nat
  /\ live \in Known /\ (pc # "idle" => was \in Known)
  /\ held \in BOOLEAN /\ away \in BOOLEAN
  /\ tale \in Tales
  /\ rows \in Seq(Rows)

(* Ids are handed out and started in order, and the worker is inside what  *)
(* runs; one choice of a version is pending at a time.                     *)
QueueInOrder ==
  /\ Accepted \in 0..MaxId
  /\ applied <= Accepted
  /\ \A i \in Queue!Ids : fate[i] = "free" <=> i > Accepted
  /\ \A i \in Queue!Ids : Unfinished(i) => Command(work[i])
  /\ \A i \in Queue!Ids : fate[i] = "running" => at \in 0..Len(work[i])
  /\ \A i, j \in Queue!Ids : fate[i] = "running" /\ Unfinished(j) => i <= j
  /\ \A i, j \in Queue!Ids : Keyed(i) /\ Keyed(j) => i = j

(* Places of the comparer before its trial is accepted.                    *)
Preparing == pc \in {"release", "released", "home", "homed", "count", "app"}

(* The history of a row that somebody disturbed says nothing, and that of  *)
(* one whose trial has not begun has seen none of it.                      *)
TaleFollows ==
  /\ ~tale.calm => tale = Fresh(FALSE)
  /\ tale.trial \in 0..Accepted
  /\ Preparing => tale.trial = 0 /\ tale.ran = {} /\ tale.start = NoStart
  /\ tale.homed /\ (tale.trial = 0 \/ fate[tale.trial] = "pending") => ~away
  /\ tale.start.homed => ~tale.start.away

(* Without a discard, applied() covers nothing that is not over; a cell    *)
(* nobody else has used is not latched, and if no wait has ended early it  *)
(* rests between two rows.                                                 *)
CalmCell ==
  /\ tale.calm \/ calls = 0 => \A i \in 1..applied : Over(i)
  /\ tale.calm => ~latched
  /\ calls = 0 => verb = "free" /\ ~latched /\ ~cancel
  /\ calls = 0 /\ early = 0 =>
       tale.calm /\ (pc \in {"idle", "select", "restore"} => NothingRuns)

(* What may still be queued or run, wherever the comparer is in the        *)
(* preparation of an undisturbed row.                                      *)
CalmRow == tale.calm =>
  /\ pc = "release"  => \A i \in Queue!Ids : Unfinished(i) => i = Accepted /\ Choice(work[i])
  /\ pc = "released" => \A i \in Queue!Ids : Unfinished(i) => Choice(work[i]) \/ work[i] = Release
  /\ pc = "homed"    => \A i \in Queue!Ids : Unfinished(i) => work[i] = Home
  /\ pc \in {"home", "count", "app"} => NothingRuns
  /\ pc = "app" => runs = before
  /\ pc # "refused"

(* The gripper is empty once its release is over, and stays so until the   *)
(* trial begins.                                                           *)
HandIsOpen == tale.calm /\ Capacity > 1 =>
  /\ pc = "released" /\ held =>
       \E i \in Queue!Ids : (fate[i] = "pending" \/ Begun(i)) /\ work[i] = Release
  /\ pc \in {"home", "homed", "count", "app"} => ~held
  /\ pc = "ran" => (fate[tale.trial] = "pending" => ~held) /\ ~tale.start.held

(* While an undisturbed trial is waited for, nothing else runs, and what   *)
(* was recorded since the count was taken is its own.                      *)
TrialIsOwn == tale.calm /\ pc = "ran" =>
  /\ tale.trial # 0
  /\ \A i \in Queue!Ids : Unfinished(i) => i = tale.trial
  /\ runs >= before
  /\ runs > before => maker = tale.trial
  /\ tale.ran # {} => runs > before

(* A command that chooses a version does nothing else.                     *)
Plain(item) == Chooses(item) => Choice(item)
PlainQueue  == \A i \in Queue!Ids : Unfinished(i) => Plain(work[i])

(* After the last command the version that was live is live again, or its  *)
(* choice is the only one still to come.                                   *)
WillBeRestored ==
  \/ \E i \in Queue!Ids :
       /\ fate[i] = "pending" /\ work[i] = <<Choose(was)>>
       /\ \A j \in Queue!Ids : fate[j] = "pending" /\ Chooses(work[j]) => j = i
  \/ /\ \A j \in Queue!Ids : fate[j] = "pending" => ~Chooses(work[j])
     /\ \E i \in Queue!Ids : Begun(i) /\ work[i] = <<Choose(was)>>
  \/ /\ \A j \in Queue!Ids : fate[j] = "pending" \/ Begun(j) => ~Chooses(work[j])
     /\ live = was

Restores ==
  /\ ~Chooses(TrialApp) => PlainQueue
  /\ calls = 0 /\ (early = 0 \/ ~Chooses(TrialApp)) /\ pc \in {"restored", "done"} =>
       WillBeRestored

TrialsInv ==
  /\ TrialsTypeOK
  /\ QueueInOrder
  /\ TaleFollows
  /\ CalmCell
  /\ CalmRow
  /\ HandIsOpen
  /\ TrialIsOwn
  /\ Restores
  /\ RowsAreTrue
  /\ TrialsStartAlike

-------------------------------------------------------------------------------
(* The queue.                                                              *)

(* Ids that are handed out in order are counted by the newest of them.     *)
LEMMA CountOfIds ==
  ASSUME NEW f, NEW n \in 0..MaxId,
         \A i \in Queue!Ids : f[i] = "free" <=> i > n
  PROVE  Cardinality({i \in Queue!Ids : f[i] # "free"}) = n
<1>1. MaxId \in Nat
  BY TrialsAssumption
<1>2. {i \in Queue!Ids : f[i] # "free"} = 1..n
  BY <1>1 DEF Queue!Ids
<1>3. Cardinality(1..n) = IF 1 > n THEN 0 ELSE n - 1 + 1
  BY <1>1, FS_Interval
<1>4. Cardinality(1..n) = n
  BY <1>1, <1>3
<1>. QED
  BY <1>2, <1>4

LEMMA ItemsAreCommands ==
  /\ Command(Release) /\ Command(Home) /\ Command(Move) /\ Command(Receipt) /\ Command(TrialApp)
  /\ \A v : Command(<<Choose(v)>>)
<1>1. \A x : Len(<<x>>) = 1 /\ DOMAIN <<x>> = 1..1 /\ <<x>>[1] = x
  OBVIOUS
<1>2. \A v : Choose(v).do = "choose"
  BY DEF Choose
<1>3. \A what \in Acts : Do(what).do \in Acts
  BY DEF Do
<1>4. \A what \in Acts : Command(<<Do(what)>>)
  BY <1>1, <1>3 DEF Command
<1>5. Command(Release) /\ Command(Home) /\ Command(Move)
  BY <1>4 DEF Release, Home, Move, Acts
<1>6. \A v : Command(<<Choose(v)>>)
  BY <1>1, <1>2 DEF Command
<1>7. Command(Receipt)
  BY DEF Command, Receipt
<1>8. Command(TrialApp)
  <2>1. TrialApp \in Seq(Steps) /\ TrialApp # <<>>
    BY TrialsAssumption
  <2>2. Len(TrialApp) \in Nat \ {0} /\ DOMAIN TrialApp = 1..Len(TrialApp)
    BY <2>1, EmptySeq, LenProperties
  <2>3. \A k \in 1..Len(TrialApp) : TrialApp[k] \in Steps
    BY <2>1, ElementOfSeq
  <2>4. \A s \in Steps : s.do \in Acts \cup {"choose"}
    BY <1>2, <1>3 DEF Steps
  <2>. QED
    BY <2>2, <2>3, <2>4 DEF Command
<1>. QED
  BY <1>5, <1>6, <1>7, <1>8

(* What a submission does: the pending choice is replaced in its place, or *)
(* the next id is handed out.                                              *)
Replaces(item) ==
  /\ Choice(item)
  /\ \E i \in Pending : Keyed(i) /\ work' = [work EXCEPT ![i] = item]
  /\ UNCHANGED fate

Issues(item) ==
  /\ ~Coalesces(item) /\ Cardinality(Pending) < Capacity
  /\ Accepted < MaxId
  /\ fate' = [fate EXCEPT ![Accepted + 1] = "pending"]
  /\ work' = [work EXCEPT ![Accepted + 1] = item]

LEMMA AcceptFacts ==
  ASSUME NEW item, Accept(item)
  PROVE  (Replaces(item) \/ Issues(item)) /\ UNCHANGED applied
<1>1. CASE Coalesces(item)
  <2>1. \E i \in Pending : Keyed(i)
    BY <1>1 DEF Coalesces
  <2>2. Queue!Amend(CHOOSE i \in Pending : Keyed(i), item)
    BY <1>1 DEF Accept
  <2>. QED
    BY <1>1, <2>1, <2>2 DEF Accept, Coalesces, Replaces, Queue!Amend
<1>2. CASE ~Coalesces(item)
  BY <1>2 DEF Accept, Issues, Queue!Issue
<1>. QED
  BY <1>1, <1>2

(* Everything that can happen to the queue and to the worker's place.      *)
Submits ==
  \E item : Command(item) /\ (Replaces(item) \/ Issues(item)) /\ UNCHANGED <<applied, at>>

TakesUp(i) ==
  /\ Queue!Start(i) /\ at = 0 /\ UNCHANGED applied
  /\ at' = 0 \/ (work[i] # Receipt /\ at' = 1)

GoesOn(i) ==
  /\ fate[i] = "running" /\ at > 0 /\ UNCHANGED queue_vars
  /\ at' = 0 \/ (at < Len(work[i]) /\ at' = at + 1)

Discards == Queue!DropPending /\ applied' \in {applied, Accepted} /\ UNCHANGED at

LEMMA QueueSteps ==
  [TrialsNext]_trial_vars =>
    \/ UNCHANGED <<queue_vars, at>>
    \/ Submits
    \/ \E i \in Queue!Ids : TakesUp(i) \/ GoesOn(i) \/ Retire(i)
    \/ Discards

<1>. SUFFICES ASSUME [TrialsNext]_trial_vars
     PROVE  \/ UNCHANGED <<queue_vars, at>>
            \/ Submits
            \/ \E i \in Queue!Ids : TakesUp(i) \/ GoesOn(i) \/ Retire(i)
            \/ Discards
  OBVIOUS
<1>1. ASSUME NEW item, Command(item), Accept(item), UNCHANGED at
      PROVE  Submits
  BY <1>1, AcceptFacts DEF Submits
<1>2. ASSUME NEW here, NEW item, NEW next, Command(item), Call(here, item, next)
      PROVE  UNCHANGED <<queue_vars, at>> \/ Submits
  BY <1>1, <1>2 DEF Call, cell_vars
<1>3. CASE SelectVersion \/ OpenHand \/ GoHome \/ RunTrial \/ Restore
  BY <1>2, <1>3, ItemsAreCommands DEF SelectVersion, OpenHand, GoHome, RunTrial, Restore
<1>4. CASE \/ \E versions \in Comparisons : Compare(versions)
           \/ RefusedRow \/ CountRuns \/ TrialRefused \/ SeeSettled \/ LeaveEarly
  <2>1. ASSUME NEW ok, NEW calm, Resumes(ok, calm)
        PROVE  UNCHANGED <<queue_vars, at>>
    BY <2>1 DEF Resumes, Judged, cell_vars
  <2>. QED
    BY <1>4, <2>1 DEF Compare, RefusedRow, CountRuns, TrialRefused, Judged, SeeSettled,
       LeaveEarly, cell_vars
<1>5. CASE WorkerStep
  <2>1. ASSUME NEW i \in Queue!Ids, Take(i)  PROVE TakesUp(i)
    <3>1. at = 0 /\ Queue!Start(i) /\ UNCHANGED applied
      BY <2>1 DEF Take
    <3>2. at' = 0 \/ (work[i] # Receipt /\ at' = 1)
      BY <2>1, <3>1 DEF Take
    <3>. QED
      BY <3>1, <3>2 DEF TakesUp
  <2>2. ASSUME NEW i \in Queue!Ids, Step(i)  PROVE GoesOn(i)
    <3>1. fate[i] = "running" /\ at > 0 /\ UNCHANGED queue_vars
      BY <2>2 DEF Step
    <3>2. at' = 0 \/ (at < Len(work[i]) /\ at' = at + 1)
      BY <2>2 DEF Step
    <3>. QED
      BY <3>1, <3>2 DEF GoesOn
  <2>. QED
    BY <1>5, <2>1, <2>2 DEF WorkerStep
<1>6. CASE ClientStep
  <2>1. ASSUME NEW item, Command(item), ClientSubmits(item)  PROVE Submits
    BY <1>1, <2>1 DEF ClientSubmits, Meddles, cell_vars
  <2>2. CASE Estop \/ EstopRequest \/ ClientResume
    BY <2>2 DEF Estop, EstopRequest, ClientResume, Meddles, cell_vars
  <2>3. CASE EstopDiscard
    BY <2>3 DEF EstopDiscard, Discards, Meddles, cell_vars
  <2>4. CASE QueueReceipt
    BY <1>1, <2>4, ItemsAreCommands DEF QueueReceipt, Meddles, cell_vars
  <2>. QED
    BY <1>6, <2>1, <2>2, <2>3, <2>4, ItemsAreCommands DEF ClientStep
<1>7. CASE UNCHANGED trial_vars
  BY <1>7 DEF trial_vars, cell_vars
<1>. QED
  BY <1>3, <1>4, <1>5, <1>6, <1>7 DEF TrialsNext, ComparerStep

(* Each of them keeps the queue in order.                                  *)
LEMMA SubmitsInOrder ==
  ASSUME TrialsTypeOK, QueueInOrder, Submits
  PROVE  QueueInOrder'
<1>1. MaxId \in Nat
  BY TrialsAssumption
<1>2. PICK item : Command(item) /\ (Replaces(item) \/ Issues(item)) /\ UNCHANGED <<applied, at>>
  BY DEF Submits
<1>3. CASE Replaces(item)
  <2>1. PICK k \in Pending : Keyed(k) /\ work' = [work EXCEPT ![k] = item]
    BY <1>3 DEF Replaces
  <2>2. k \in Queue!Ids /\ fate[k] = "pending" /\ UNCHANGED fate /\ Choice(item)
    BY <1>3, <2>1 DEF Replaces, Pending
  <2>3. Accepted' = Accepted /\ Pending' = Pending
    BY <2>2 DEF Accepted, Issued, Pending
  <2>4. work'[k] = item /\ \A i \in Queue!Ids : i # k => work'[i] = work[i]
    BY <2>1, <2>2 DEF TrialsTypeOK
  <2>5. \A i \in Queue!Ids : Keyed(i)' => Keyed(i)
    BY <2>1, <2>3, <2>4 DEF Keyed
  <2>6. \A i \in Queue!Ids : Unfinished(i)' => Command(work'[i])
    BY <1>2, <2>2, <2>4 DEF QueueInOrder, Unfinished
  <2>7. \A i \in Queue!Ids : fate'[i] = "running" => at' \in 0..Len(work'[i])
    BY <1>2, <2>2, <2>4 DEF QueueInOrder
  <2>. QED
    BY <1>2, <2>2, <2>3, <2>5, <2>6, <2>7 DEF QueueInOrder, Unfinished
<1>4. CASE Issues(item)
  <2>. PICK n : n = Accepted + 1
    OBVIOUS
  <2>1. n \in Queue!Ids /\ Accepted \in Nat
    BY <1>1, <1>4 DEF Issues, QueueInOrder, Queue!Ids
  <2>2. /\ fate'[n] = "pending" /\ work'[n] = item
        /\ \A i \in Queue!Ids : i # n => fate'[i] = fate[i] /\ work'[i] = work[i]
    BY <1>4, <2>1 DEF Issues, TrialsTypeOK
  <2>3. \A i \in Queue!Ids : fate'[i] = "free" <=> i > n
    BY <2>1, <2>2 DEF QueueInOrder, Queue!Ids
  <2>4. Accepted' = n
    <3>1. n \in 0..MaxId
      BY <2>1, <1>1 DEF Queue!Ids
    <3>. QED
      BY <2>3, <3>1, CountOfIds DEF Accepted, Issued
  <2>5. fate[n] = "free" /\ \A j \in Queue!Ids : fate[j] # "free" => j < n
    BY <2>1 DEF QueueInOrder, Queue!Ids
  <2>6. \A i, j \in Queue!Ids : Keyed(i)' /\ Keyed(j)' => i = j
    <3>1. Choice(item) => \A j \in Queue!Ids : ~Keyed(j)
      BY <1>4 DEF Issues, Coalesces, Keyed
    <3>2. \A j \in Queue!Ids : j # n /\ Keyed(j)' => Keyed(j)
      BY <2>2 DEF Keyed, Pending
    <3>3. Keyed(n)' => Choice(item)
      BY <2>2 DEF Keyed, Choice
    <3>. QED
      BY <3>1, <3>2, <3>3 DEF QueueInOrder
  <2>7. \A i \in Queue!Ids : Unfinished(i)' => Command(work'[i])
    BY <1>2, <2>2 DEF QueueInOrder, Unfinished
  <2>8. \A i \in Queue!Ids : fate'[i] = "running" => at' \in 0..Len(work'[i])
    BY <1>2, <2>2 DEF QueueInOrder
  <2>9. \A i, j \in Queue!Ids : fate'[i] = "running" /\ Unfinished(j)' => i <= j
    <3>. SUFFICES ASSUME NEW i \in Queue!Ids, NEW j \in Queue!Ids,
                         fate'[i] = "running", Unfinished(j)'
         PROVE  i <= j
      OBVIOUS
    <3>1. fate[i] = "running" /\ i # n
      BY <2>2
    <3>2. CASE j = n
      BY <2>1, <2>5, <3>1, <3>2 DEF Queue!Ids
    <3>3. CASE j # n
      BY <2>2, <3>1, <3>3 DEF QueueInOrder, Unfinished
    <3>. QED
      BY <3>2, <3>3
  <2>10. n \in 0..MaxId /\ applied' <= n
    BY <1>1, <1>2, <2>1 DEF QueueInOrder, TrialsTypeOK, Queue!Ids
  <2>. QED
    BY <2>3, <2>4, <2>6, <2>7, <2>8, <2>9, <2>10 DEF QueueInOrder
<1>. QED
  BY <1>2, <1>3, <1>4

LEMMA WorkerInOrder ==
  ASSUME TrialsTypeOK, QueueInOrder, NEW k \in Queue!Ids, TakesUp(k) \/ GoesOn(k) \/ Retire(k)
  PROVE  QueueInOrder'
<1>1. CASE TakesUp(k)
  <2>1. /\ fate[k] = "pending" /\ UNCHANGED <<applied, work>>
        /\ \A j \in Queue!Ids : fate[j] # "running" /\ (j < k => fate[j] # "pending")
        /\ fate'[k] = "running" /\ \A j \in Queue!Ids : j # k => fate'[j] = fate[j]
    BY <1>1 DEF TakesUp, Queue!Start, TrialsTypeOK, Queue!Ids
  <2>2. \A j \in Queue!Ids : fate'[j] = "free" <=> fate[j] = "free"
    BY <2>1
  <2>3. Accepted' = Accepted
    BY <2>2, CountOfIds DEF Accepted, Issued, QueueInOrder
  <2>4. \A j \in Queue!Ids : Unfinished(j)' <=> Unfinished(j)
    BY <2>1 DEF Unfinished
  <2>5. \A j \in Queue!Ids : Keyed(j)' => Keyed(j)
    BY <2>1 DEF Keyed, Pending
  <2>6. at' \in 0..Len(work[k])
    <3>1. Command(work[k])
      BY <2>1 DEF QueueInOrder, Unfinished
    <3>2. Len(Receipt) = 0
      BY DEF Receipt
    <3>. QED
      BY <1>1, <3>1, <3>2 DEF TakesUp, Command
  <2>7. \A i, j \in Queue!Ids : fate'[i] = "running" /\ Unfinished(j) => i <= j
    <3>1. \A i \in Queue!Ids : fate'[i] = "running" => i = k
      BY <2>1
    <3>2. \A j \in Queue!Ids : Unfinished(j) => k <= j
      BY <2>1 DEF Unfinished, Queue!Ids
    <3>. QED
      BY <3>1, <3>2
  <2>8. \A i \in Queue!Ids : fate'[i] = "running" => at' \in 0..Len(work'[i])
    BY <2>1, <2>6
  <2>. QED
    BY <2>1, <2>2, <2>3, <2>4, <2>5, <2>7, <2>8 DEF QueueInOrder
<1>2. CASE GoesOn(k)
  <2>1. UNCHANGED <<fate, work, applied>> /\ fate[k] = "running"
    BY <1>2 DEF GoesOn, queue_vars
  <2>2. at' \in 0..Len(work[k])
    BY <1>2 DEF GoesOn, TrialsTypeOK, QueueInOrder, Command, Unfinished
  <2>3. \A i \in Queue!Ids : fate[i] = "running" => i = k
    BY <2>1 DEF QueueInOrder, Unfinished, Queue!Ids
  <2>4. \A i \in Queue!Ids : fate'[i] = "running" => at' \in 0..Len(work'[i])
    BY <2>1, <2>2, <2>3
  <2>5. Accepted' = Accepted /\ Pending' = Pending
    BY <2>1 DEF Accepted, Issued, Pending
  <2>. QED
    BY <2>1, <2>4, <2>5 DEF QueueInOrder, Unfinished, Keyed
<1>3. CASE Retire(k)
  <2>1. /\ fate[k] = "running" /\ applied' = k /\ UNCHANGED at
        /\ fate'[k] = "done" /\ \A j \in Queue!Ids : j # k => fate'[j] = fate[j]
        /\ \A j \in Queue!Ids : j # k => work'[j] = work[j]
    BY <1>3 DEF Retire, Queue!End, TrialsTypeOK, cell_vars
  <2>2. \A j \in Queue!Ids : fate'[j] = "free" <=> fate[j] = "free"
    BY <2>1
  <2>3. Accepted' = Accepted
    BY <2>2, CountOfIds DEF Accepted, Issued, QueueInOrder
  <2>4. \A j \in Queue!Ids : Unfinished(j)' => Unfinished(j) /\ work'[j] = work[j]
    BY <2>1 DEF Unfinished
  <2>5. \A j \in Queue!Ids : Keyed(j)' => Keyed(j)
    BY <2>1 DEF Keyed, Pending
  <2>6. \A j \in Queue!Ids : fate'[j] # "running"
    BY <2>1 DEF QueueInOrder, Unfinished, Queue!Ids
  <2>7. applied' <= Accepted
    BY <2>1 DEF QueueInOrder, Queue!Ids
  <2>. QED
    BY <2>2, <2>3, <2>4, <2>5, <2>6, <2>7 DEF QueueInOrder
<1>. QED
  BY <1>1, <1>2, <1>3

LEMMA DiscardInOrder ==
  ASSUME TrialsTypeOK, QueueInOrder, Discards
  PROVE  QueueInOrder'
<1>1. /\ applied' \in {applied, Accepted} /\ UNCHANGED at
      /\ \A i \in Queue!Ids : fate'[i] = IF fate[i] = "pending" THEN "dropped" ELSE fate[i]
      /\ \A i \in Queue!Ids : fate[i] # "pending" => work'[i] = work[i]
  BY DEF Discards, Queue!DropPending
<1>2. \A j \in Queue!Ids : fate'[j] = "free" <=> fate[j] = "free"
  BY <1>1
<1>3. Accepted' = Accepted
  BY <1>2, CountOfIds DEF Accepted, Issued, QueueInOrder
<1>4. \A j \in Queue!Ids : Unfinished(j)' => fate[j] = "running" /\ work'[j] = work[j]
  BY <1>1 DEF Unfinished
<1>5. \A j \in Queue!Ids : ~Keyed(j)'
  BY <1>1 DEF Keyed, Pending
<1>6. \A j \in Queue!Ids : fate'[j] = "running" => Unfinished(j)'
  BY DEF Unfinished
<1>. QED
  BY <1>1, <1>2, <1>3, <1>4, <1>5, <1>6 DEF QueueInOrder, Unfinished

LEMMA QueueStaysInOrder ==
  ASSUME TrialsTypeOK, QueueInOrder, [TrialsNext]_trial_vars
  PROVE  QueueInOrder'
<1>1. CASE UNCHANGED <<queue_vars, at>>
  BY <1>1 DEF queue_vars, QueueInOrder, Accepted, Issued, Unfinished, Keyed, Pending
<1>. QED
  BY <1>1, QueueSteps, SubmitsInOrder, WorkerInOrder, DiscardInOrder

-------------------------------------------------------------------------------
(* The cell.                                                               *)

Drives == {"home", "move", "pick"}

(* What one step of a command does to the cell.                            *)
Effect(i, what) ==
  \/ /\ what.do = "choose"
     /\ live' = IF what.version \in Known THEN what.version ELSE live
     /\ UNCHANGED <<held, away, runs, maker, tale>>
  \/ what.do = "open" /\ held' = FALSE /\ UNCHANGED <<live, away, runs, maker, tale>>
  \/ what.do \in Drives /\ UNCHANGED <<live, held, away, runs, maker, tale>>
  \/ /\ what.do \in Drives /\ Records(i)
     /\ away' \in BOOLEAN /\ held' \in BOOLEAN
     /\ what.do # "pick" => held' = held

LEMMA PerformFacts ==
  ASSUME NEW i, NEW what, NEW ok \in BOOLEAN, what.do \in Acts \cup {"choose"},
         held \in BOOLEAN, Perform(i, what, ok)
  PROVE  Effect(i, what)
<1>1. CASE what.do = "choose"
  BY <1>1 DEF Perform, Effect
<1>2. CASE what.do = "open"
  BY <1>2 DEF Perform, Effect, Rests
<1>3. CASE what.do = "home"
  BY <1>3 DEF Perform, Effect, Rests, Drives
<1>4. CASE what.do = "move"
  BY <1>4 DEF Perform, Effect, Rests, Drives
<1>5. CASE what.do = "pick"
  BY <1>5 DEF Perform, Effect, Rests, Drives
<1>. QED
  BY <1>1, <1>2, <1>3, <1>4, <1>5 DEF Acts

LEMMA StepFacts ==
  ASSUME TrialsTypeOK, QueueInOrder, NEW i \in Queue!Ids, Step(i)
  PROVE  /\ fate[i] = "running" /\ at \in 1..Len(work[i])
         /\ work[i][at].do \in Acts \cup {"choose"}
         /\ Effect(i, work[i][at])
         /\ at' = 0 \/ (at < Len(work[i]) /\ at' = at + 1)
         /\ UNCHANGED <<queue_vars, judge_vars, other_vars, latched>>
         /\ cancel' => cancel
<1>1. fate[i] = "running" /\ at > 0 /\ UNCHANGED <<queue_vars, judge_vars, other_vars>>
  BY DEF Step, Outside
<1>2. Command(work[i]) /\ at \in 1..Len(work[i])
  BY <1>1 DEF QueueInOrder, Unfinished, Command, TrialsTypeOK
<1>3. work[i][at].do \in Acts \cup {"choose"}
  BY <1>2 DEF Command
<1>4. PICK ok \in BOOLEAN :
        /\ Perform(i, work[i][at], ok)
        /\ \/ ~ok /\ Fault(Failed) /\ at' = 0
           \/ ok /\ at = Len(work[i]) /\ End /\ at' = 0
           \/ ok /\ at < Len(work[i]) /\ UNCHANGED sup_vars /\ at' = at + 1
  BY DEF Step
<1>5. Effect(i, work[i][at])
  BY <1>3, <1>4, PerformFacts DEF TrialsTypeOK
<1>6. UNCHANGED latched /\ (cancel' => cancel)
  BY <1>4 DEF Fault, End, sup_vars
<1>. QED
  BY <1>1, <1>2, <1>3, <1>4, <1>5, <1>6

LEMMA TakeFacts ==
  ASSUME NEW i \in Queue!Ids, Take(i)
  PROVE  /\ TakesUp(i)
         /\ ~latched /\ work[i] # Receipt => at' = 1
         /\ UNCHANGED <<live, held, away, runs, maker, judge_vars, other_vars, latched, cancel>>
         /\ tale' = IF i = tale.trial
                    THEN [tale EXCEPT !.start = [held |-> held, away |-> away, homed |-> tale.homed]]
                    ELSE tale
<1>1. at = 0 /\ Queue!Start(i) /\ UNCHANGED applied
  BY DEF Take
<1>2. at' = 0 \/ (work[i] # Receipt /\ at' = 1)
  BY <1>1 DEF Take
<1>3. (~latched /\ work[i] # Receipt => at' = 1) /\ UNCHANGED <<latched, cancel>>
  BY DEF Take, sup_vars, BeginOk, Fault
<1>. QED
  BY <1>1, <1>2, <1>3 DEF Take, TakesUp, Outside

LEMMA FreshIsTale ==
  Fresh(FALSE) \in Tales /\ \A calm \in BOOLEAN : Fresh(calm) \in Tales
BY DEF Fresh, Tales, Starts, NoStart

(* A row more.                                                             *)
LEMMA RowsGrow ==
  ASSUME rows \in Seq(Rows), NEW entry, rows' = Append(rows, entry)
  PROVE  rows' \in Seq(Rows') /\ Rows' = Rows \cup {entry}
<1>. DEFINE S == Rows \cup {entry}
<1>1. rows \in Seq(S) /\ entry \in S
  BY SeqMonotonic
<1>2. /\ rows' \in Seq(S) /\ Len(rows') = Len(rows) + 1
      /\ \A k \in 1..Len(rows) : rows'[k] = rows[k]
      /\ rows'[Len(rows) + 1] = entry
  BY <1>1, AppendProperties
<1>3. /\ Len(rows) \in Nat
      /\ DOMAIN rows = 1..Len(rows) /\ DOMAIN rows' = 1..(Len(rows) + 1)
  BY <1>1, <1>2, LenProperties
<1>4. Rows' = S
  <2>1. \A x \in S : \E k \in DOMAIN rows' : x = rows'[k]
    BY <1>2, <1>3 DEF Rows
  <2>2. \A k \in DOMAIN rows' : rows'[k] \in S
    BY <1>2, ElementOfSeq, LenProperties
  <2>. QED
    BY <2>1, <2>2 DEF Rows
<1>. QED
  BY <1>2, <1>4

(* What the comparer and the other client leave alone.                     *)
CellStays == UNCHANGED <<at, live, held, away, runs, maker>>

LEMMA NextIsOneOf ==
  [TrialsNext]_trial_vars =>
    \/ UNCHANGED trial_vars
    \/ \E versions \in Comparisons : Compare(versions)
    \/ SelectVersion \/ RefusedRow \/ OpenHand \/ GoHome \/ CountRuns \/ RunTrial
    \/ TrialRefused \/ Restore \/ SeeSettled \/ LeaveEarly
    \/ \E i \in Queue!Ids : Take(i) \/ Step(i) \/ Retire(i)
    \/ ClientStep
BY DEF TrialsNext, ComparerStep, WorkerStep

LEMMA ClientFacts ==
  ASSUME ClientStep
  PROVE  /\ CellStays /\ UNCHANGED judge_vars
         /\ tale' = Fresh(FALSE)
         /\ calls' = calls + 1 \/ (calls' = calls /\ verb # "free")
BY DEF ClientStep, ClientSubmits, Uses, Meddles, Estop, EstopRequest, EstopDiscard, ClientResume,
   QueueReceipt, CellStays, cell_vars, other_vars

LEMMA QueueTypeStays ==
  ASSUME TrialsTypeOK, QueueInOrder, [TrialsNext]_trial_vars
  PROVE  /\ fate' \in [Queue!Ids -> Queue!Fates] /\ DOMAIN work' = Queue!Ids
         /\ applied' \in Nat /\ at' \in Nat
<1>1. CASE UNCHANGED <<queue_vars, at>>
  BY <1>1 DEF queue_vars, TrialsTypeOK
<1>2. CASE Submits
  <2>1. PICK item : (Replaces(item) \/ Issues(item)) /\ UNCHANGED <<applied, at>>
    BY <1>2 DEF Submits
  <2>2. fate' \in [Queue!Ids -> Queue!Fates]
    BY <2>1 DEF Replaces, Issues, TrialsTypeOK, Queue!Fates
  <2>3. DOMAIN work' = Queue!Ids
    BY <2>1 DEF Replaces, Issues, TrialsTypeOK
  <2>. QED
    BY <2>1, <2>2, <2>3 DEF TrialsTypeOK
<1>3. CASE \E i \in Queue!Ids : TakesUp(i)
  BY <1>3 DEF TakesUp, Queue!Start, TrialsTypeOK, Queue!Fates
<1>4. CASE \E i \in Queue!Ids : GoesOn(i)
  BY <1>4 DEF GoesOn, queue_vars, TrialsTypeOK
<1>5. CASE \E i \in Queue!Ids : Retire(i)
  BY <1>5 DEF Retire, Queue!End, TrialsTypeOK, Queue!Fates, Queue!Ids, cell_vars
<1>6. CASE Discards
  <2>1. fate' \in [Queue!Ids -> Queue!Fates]
    BY <1>6 DEF Discards, Queue!DropPending, TrialsTypeOK, Queue!Fates
  <2>2. DOMAIN work' = Queue!Ids
    BY <1>6 DEF Discards, Queue!DropPending
  <2>. QED
    BY <1>6, <2>1, <2>2 DEF Discards, TrialsTypeOK, QueueInOrder
<1>. QED
  BY <1>1, <1>2, <1>3, <1>4, <1>5, <1>6, QueueSteps

LEMMA RecordsType ==
  ASSUME TrialsTypeOK, NEW i, away' \in BOOLEAN, Records(i)
  PROVE  tale' \in Tales /\ runs' \in Nat /\ live' = live
<1>1. CASE i = tale.trial
  <2>1. tale' = [tale EXCEPT !.ran = @ \cup {live}]
    BY <1>1 DEF Records
  <2>2. tale \in Tales /\ tale.ran \cup {live} \in SUBSET Known
    BY DEF TrialsTypeOK, Tales
  <2>3. tale' \in Tales
    BY <2>1, <2>2 DEF Tales
  <2>. QED
    BY <2>3 DEF Records, TrialsTypeOK
<1>2. CASE i # tale.trial
  <2>1. PICK b \in BOOLEAN : tale' = [tale EXCEPT !.homed = b]
    BY <1>2, Zenon DEF Records
  <2>. QED
    BY <1>2, <2>1 DEF Records, TrialsTypeOK, Tales
<1>. QED
  BY <1>1, <1>2

LEMMA ComparerFacts ==
  ASSUME TrialsTypeOK, QueueInOrder,
         \/ \E versions \in Comparisons : Compare(versions)
         \/ SelectVersion \/ RefusedRow \/ OpenHand \/ GoHome \/ CountRuns \/ RunTrial
         \/ TrialRefused \/ Restore \/ SeeSettled \/ LeaveEarly
  PROVE  /\ CellStays /\ UNCHANGED <<latched, cancel, other_vars>>
         /\ tale' \in Tales /\ early' \in Nat
         /\ rows' = rows \/ \E entry : rows' = Append(rows, entry)
         /\ pc' # "idle" /\ ((was' = was /\ pc # "idle") \/ was' = live)
         /\ before' \in {before, runs}
<1>1. ASSUME NEW here, NEW item, NEW next, Call(here, item, next), here # "idle", next # "idle"
      PROVE  /\ CellStays /\ UNCHANGED <<latched, cancel, other_vars, rows, was, before, early>>
             /\ pc # "idle" /\ pc' # "idle"
  BY <1>1 DEF Call, CellStays, cell_vars, sup_vars
<1>2. CASE \E versions \in Comparisons : Compare(versions)
  BY <1>2 DEF Compare, CellStays, cell_vars, sup_vars, TrialsTypeOK
<1>3. CASE SelectVersion
  BY <1>1, <1>3, FreshIsTale DEF SelectVersion, TrialsTypeOK
<1>4. CASE OpenHand \/ GoHome \/ Restore
  BY <1>1, <1>4 DEF OpenHand, GoHome, Restore, TrialsTypeOK
<1>5. CASE RunTrial
  <2>1. tale' \in Tales
    <3>1. PICK n : n = IF tale.calm /\ ~Full(TrialApp) THEN Accepted + 1 ELSE 0
      OBVIOUS
    <3>2. n \in Nat
      BY <3>1 DEF QueueInOrder
    <3>3. tale' = [tale EXCEPT !.trial = n]
      BY <1>5, <3>1 DEF RunTrial
    <3>. QED
      BY <3>2, <3>3 DEF Tales, TrialsTypeOK
  <2>. QED
    BY <1>1, <1>5, <2>1 DEF RunTrial, TrialsTypeOK
<1>6. CASE RefusedRow \/ TrialRefused
  BY <1>6 DEF RefusedRow, TrialRefused, Judged, NextRow, CellStays, cell_vars, sup_vars,
     TrialsTypeOK
<1>7. CASE CountRuns
  BY <1>7 DEF CountRuns, CellStays, cell_vars, sup_vars, TrialsTypeOK
<1>8. CASE SeeSettled \/ LeaveEarly
  <2>1. ASSUME NEW ok, NEW calm, Resumes(ok, calm)
        PROVE  /\ CellStays /\ UNCHANGED <<latched, cancel, other_vars, was, before>>
               /\ rows' = rows \/ \E entry : rows' = Append(rows, entry)
               /\ pc # "idle" /\ pc' # "idle"
    BY <2>1 DEF Resumes, AwaitIn, Judged, NextRow, CellStays, cell_vars, sup_vars
  <2>2. tale' \in Tales /\ early' \in Nat
    <3>1. tale' = tale \/ tale' = Fresh(FALSE)
      BY <1>8 DEF SeeSettled, LeaveEarly
    <3>2. early' = early \/ early' = early + 1
      BY <1>8 DEF SeeSettled, LeaveEarly
    <3>3. early \in Nat /\ tale \in Tales
      BY DEF TrialsTypeOK
    <3>4. tale' \in Tales
      BY <3>1, <3>3, FreshIsTale
    <3>5. early' \in Nat
      BY <3>2, <3>3
    <3>. QED
      BY <3>4, <3>5
  <2>3. \E ok, calm : Resumes(ok, calm)
    BY <1>8 DEF SeeSettled, LeaveEarly
  <2>. QED
    BY <2>1, <2>2, <2>3
<1>. QED
  BY <1>2, <1>3, <1>4, <1>5, <1>6, <1>7, <1>8

LEMMA TypesStay ==
  ASSUME TrialsTypeOK, QueueInOrder, [TrialsNext]_trial_vars
  PROVE  TrialsTypeOK'
<1>1. /\ fate' \in [Queue!Ids -> Queue!Fates] /\ DOMAIN work' = Queue!Ids
      /\ applied' \in Nat /\ at' \in Nat
  BY QueueTypeStays
<1>2. ASSUME rows' = rows \/ \E entry : rows' = Append(rows, entry)
      PROVE  rows' \in Seq(Rows')
  BY <1>2, RowsGrow DEF TrialsTypeOK, Rows
<1>3. CASE \/ \E versions \in Comparisons : Compare(versions)
           \/ SelectVersion \/ RefusedRow \/ OpenHand \/ GoHome \/ CountRuns \/ RunTrial
           \/ TrialRefused \/ Restore \/ SeeSettled \/ LeaveEarly
  BY <1>1, <1>2, <1>3, ComparerFacts DEF TrialsTypeOK, CellStays, other_vars
<1>4. CASE \E i \in Queue!Ids : Step(i)
  <2>1. PICK i \in Queue!Ids : Step(i)
    BY <1>4
  <2>2. UNCHANGED judge_vars /\ Effect(i, work[i][at])
    BY <2>1, StepFacts
  <2>3. /\ runs' \in Nat /\ live' \in Known /\ tale' \in Tales
        /\ held' \in BOOLEAN /\ away' \in BOOLEAN
    <3>1. CASE Records(i) /\ away' \in BOOLEAN /\ held' \in BOOLEAN
      BY <3>1, RecordsType DEF TrialsTypeOK
    <3>2. CASE UNCHANGED <<away, runs, tale>>
      BY <2>2, <3>2 DEF Effect, Records, TrialsTypeOK
    <3>. QED
      BY <2>2, <3>1, <3>2 DEF Effect
  <2>. QED
    BY <1>1, <1>2, <2>1, <2>2, <2>3, StepFacts DEF TrialsTypeOK, judge_vars, other_vars
<1>5. CASE \E i \in Queue!Ids : Take(i)
  <2>1. PICK i \in Queue!Ids : Take(i)
    BY <1>5
  <2>2. UNCHANGED <<judge_vars, other_vars, live, held, away, runs>>
    BY <2>1, TakeFacts
  <2>3. tale' \in Tales
    <3>1. [held |-> held, away |-> away, homed |-> tale.homed] \in Starts
      BY DEF TrialsTypeOK, Tales, Starts
    <3>. QED
      BY <2>1, <3>1, TakeFacts DEF TrialsTypeOK, Tales
  <2>. QED
    BY <1>1, <1>2, <2>2, <2>3 DEF TrialsTypeOK, judge_vars, other_vars
<1>6. CASE \E i \in Queue!Ids : Retire(i)
  BY <1>1, <1>2, <1>6 DEF Retire, Outside, cell_vars, judge_vars, other_vars,
     TrialsTypeOK
<1>7. CASE ClientStep
  <2>1. tale' \in Tales /\ calls' \in Nat
    <3>1. tale' = Fresh(FALSE) /\ (calls' = calls \/ calls' = calls + 1)
      BY <1>7, ClientFacts
    <3>2. calls \in Nat
      BY DEF TrialsTypeOK
    <3>3. tale' \in Tales
      BY <3>1, FreshIsTale
    <3>4. calls' \in Nat
      BY <3>1, <3>2
    <3>. QED
      BY <3>3, <3>4
  <2>. QED
    BY <1>1, <1>2, <1>7, <2>1, ClientFacts DEF CellStays, judge_vars, TrialsTypeOK
<1>8. CASE UNCHANGED trial_vars
  BY <1>1, <1>2, <1>8 DEF trial_vars, cell_vars, judge_vars, other_vars, TrialsTypeOK
<1>. QED
  BY <1>3, <1>4, <1>5, <1>6, <1>7, <1>8, NextIsOneOf

(* What is once over stays so; no id is taken back.                        *)
LEMMA QueueMoves ==
  ASSUME TrialsTypeOK, QueueInOrder, [TrialsNext]_trial_vars
  PROVE  /\ \A i \in Queue!Ids : fate'[i] = "pending" => fate[i] = "pending" \/ i > Accepted
         /\ \A i \in Queue!Ids : Unfinished(i)' => Unfinished(i) \/ i > Accepted
         /\ \A i \in Queue!Ids : Over(i) => Over(i)'
         /\ Accepted' \in Nat /\ Accepted' >= Accepted
<1>1. \A i \in Queue!Ids :
        /\ fate'[i] = "pending" => fate[i] = "pending" \/ i > Accepted
        /\ fate'[i] = "running" => fate[i] \in {"pending", "running"}
        /\ fate'[i] = "free" => fate[i] = "free"
        /\ Over(i) => Over(i)'
  <2>1. CASE UNCHANGED <<queue_vars, at>>
    BY <2>1 DEF queue_vars, Over
  <2>2. CASE Submits
    <3>1. PICK item : Replaces(item) \/ Issues(item)
      BY <2>2 DEF Submits
    <3>2. CASE Replaces(item)
      BY <3>2 DEF Replaces, Over
    <3>3. CASE Issues(item)
      <4>. PICK n : n = Accepted + 1
        OBVIOUS
      <4>1. \A i \in Queue!Ids : i # n => fate'[i] = fate[i]
        BY <3>3 DEF Issues, TrialsTypeOK
      <4>2. n \in Queue!Ids => fate'[n] = "pending" /\ n > Accepted /\ fate[n] = "free"
        BY <3>3 DEF Issues, TrialsTypeOK, QueueInOrder, Queue!Ids
      <4>. QED
        BY <4>1, <4>2 DEF Over
    <3>. QED
      BY <3>1, <3>2, <3>3
  <2>3. CASE \E i \in Queue!Ids : TakesUp(i)
    BY <2>3 DEF TakesUp, Queue!Start, TrialsTypeOK, Over
  <2>4. CASE \E i \in Queue!Ids : GoesOn(i)
    BY <2>4 DEF GoesOn, queue_vars, Over
  <2>5. CASE \E i \in Queue!Ids : Retire(i)
    BY <2>5 DEF Retire, Queue!End, TrialsTypeOK, Over
  <2>6. CASE Discards
    BY <2>6 DEF Discards, Queue!DropPending, Over
  <2>. QED
    BY <2>1, <2>2, <2>3, <2>4, <2>5, <2>6, QueueSteps
<1>2. QueueInOrder'
  BY QueueStaysInOrder
<1>3. Accepted' \in 0..MaxId /\ \A i \in Queue!Ids : fate'[i] = "free" <=> i > Accepted'
  BY <1>2 DEF QueueInOrder
<1>4. Accepted \in 0..MaxId /\ \A i \in Queue!Ids : fate[i] = "free" <=> i > Accepted
  BY DEF QueueInOrder
<1>5. Accepted' >= Accepted
  <2>1. ASSUME NEW m \in 0..MaxId, NEW n \in 0..MaxId, m < n
        PROVE  \E i \in Queue!Ids : i > m /\ ~(i > n)
    <3>1. MaxId \in Nat /\ n \in 1..MaxId
      BY <2>1, TrialsAssumption
    <3>2. n \in Queue!Ids
      BY <3>1 DEF Queue!Ids
    <3>3. n > m /\ ~(n > n)
      BY <2>1, <3>1
    <3> QED BY <3>2, <3>3
  <2>. QED
    BY <1>1, <1>3, <1>4, <2>1
<1>. QED
  BY <1>1, <1>3, <1>5 DEF Unfinished

-------------------------------------------------------------------------------
(* The history of a row.                                                   *)

LEMMA FreshFacts ==
  \A calm \in BOOLEAN :
    /\ Fresh(calm).trial = 0 /\ Fresh(calm).ran = {} /\ ~Fresh(calm).homed
    /\ Fresh(calm).start = NoStart /\ (Fresh(calm).calm <=> calm) /\ ~NoStart.homed
    /\ ~NoStart.held
BY DEF Fresh, NoStart

LEMMA IssueFacts ==
  ASSUME TrialsTypeOK, QueueInOrder, NEW item, Issues(item)
  PROVE  /\ Accepted' = Accepted + 1 /\ Accepted' \in Queue!Ids
         /\ fate'[Accepted'] = "pending" /\ work'[Accepted'] = item
         /\ \A i \in Queue!Ids : i # Accepted' => fate'[i] = fate[i] /\ work'[i] = work[i]
<1>1. PICK n : n = Accepted + 1
  OBVIOUS
<1>2. n \in Queue!Ids /\ n \in 0..MaxId
  BY <1>1, TrialsAssumption DEF Issues, QueueInOrder, Queue!Ids
<1>3. /\ fate'[n] = "pending" /\ work'[n] = item
      /\ \A i \in Queue!Ids : i # n => fate'[i] = fate[i] /\ work'[i] = work[i]
  BY <1>1, <1>2 DEF Issues, TrialsTypeOK
<1>4. \A i \in Queue!Ids : fate'[i] = "free" <=> i > n
  BY <1>1, <1>2, <1>3 DEF QueueInOrder, Queue!Ids
<1>5. Accepted' = n
  BY <1>2, <1>4, CountOfIds DEF Accepted, Issued
<1>. QED
  BY <1>1, <1>2, <1>3, <1>5

LEMMA RunTrialFacts ==
  ASSUME TrialsTypeOK, QueueInOrder, TaleFollows, CalmRow, RunTrial
  PROVE  /\ pc = "app"
         /\ tale' = IF tale.calm THEN [tale EXCEPT !.trial = Accepted + 1] ELSE tale
         /\ tale.calm => /\ pc' = "ran" /\ Issues(TrialApp) /\ Accepted' = Accepted + 1
                         /\ Accepted + 1 \in Queue!Ids
<1>1. pc = "app"
  BY DEF RunTrial, Call
<1>2. CASE tale.calm
  <2>1. NothingRuns
    BY <1>1, <1>2 DEF CalmRow
  <2>2. Pending = {}
    BY <2>1 DEF NothingRuns, Unfinished, Pending
  <2>3. ~Full(TrialApp) /\ ~Coalesces(TrialApp)
    BY <2>2, FS_EmptySet, TrialsAssumption DEF Full, Coalesces
  <2>4. Accept(TrialApp) /\ pc' = "ran" /\ tale' = [tale EXCEPT !.trial = Accepted + 1]
    BY <1>2, <2>3 DEF RunTrial, Call
  <2>5. Issues(TrialApp)
    BY <2>3, <2>4, AcceptFacts DEF Replaces, Coalesces
  <2>. QED
    BY <1>1, <1>2, <2>4, <2>5, IssueFacts
<1>3. CASE ~tale.calm
  <2>1. tale' = [tale EXCEPT !.trial = 0] /\ tale.trial = 0
    BY <1>3, FreshFacts DEF RunTrial, TaleFollows
  <2>2. tale' = tale
    BY <2>1 DEF TrialsTypeOK, Tales
  <2>. QED
    BY <1>1, <1>3, <2>2
<1>. QED
  BY <1>2, <1>3

LEMMA RecordsFacts ==
  ASSUME TrialsTypeOK, TaleFollows, NEW i \in Queue!Ids, Records(i)
  PROVE  /\ tale'.calm = tale.calm /\ tale'.trial = tale.trial /\ tale'.start = tale.start
         /\ ~tale.calm => tale' = tale
         /\ i # tale.trial => tale'.ran = tale.ran /\ (tale'.homed => ~away')
         /\ runs' = runs + 1 /\ maker' = i /\ live' = live
<1>1. runs' = runs + 1 /\ maker' = i /\ live' = live
  BY DEF Records
<1>2. CASE i = tale.trial
  <2>1. i # 0
    BY DEF Queue!Ids
  <2>2. tale.calm
    BY <1>2, <2>1, FreshFacts DEF TaleFollows
  <2>. QED
    BY <1>1, <1>2, <2>2 DEF Records, TrialsTypeOK, Tales
<1>3. CASE i # tale.trial
  <2>1. PICK b \in BOOLEAN :
          b = (tale.calm /\ work[i] = Home /\ ~away') /\ tale' = [tale EXCEPT !.homed = b]
    BY <1>3, Zenon DEF Records
  <2>2. ~tale.calm => tale' = tale
    <3>. SUFFICES ASSUME ~tale.calm  PROVE tale' = tale
      OBVIOUS
    <3>1. b = FALSE
      BY <2>1
    <3>2. tale = Fresh(FALSE)
      BY DEF TaleFollows
    <3>3. tale.homed = b
      BY <3>1, <3>2 DEF Fresh
    <3>. QED
      BY <2>1, <3>3 DEF TrialsTypeOK, Tales
  <2>. QED
    BY <1>1, <1>3, <2>1, <2>2 DEF TrialsTypeOK, Tales
<1>. QED
  BY <1>2, <1>3

(* A call of apply(): something was submitted, or refused and forgotten.   *)
LEMMA CallFacts ==
  ASSUME NEW here, NEW item, NEW next, Call(here, item, next)
  PROVE  /\ pc = here /\ pc' = next
         /\ UNCHANGED <<asked, was, before, rows, early, calls, verb>>
         /\ Full(item) \/ Accept(item)
         /\ Full(item) => UNCHANGED queue_vars
         /\ UNCHANGED <<at, live, held, away, runs, maker, latched, cancel>>
BY DEF Call, other_vars, cell_vars, sup_vars

LEMMA ResumesFacts ==
  ASSUME NEW ok, NEW calm, Resumes(ok, calm)
  PROVE  \/ pc = "ran" /\ Judged(ok, calm)
         \/ /\ UNCHANGED <<before, rows, asked, was>>
            /\ \/ pc = "released" /\ pc' = "home"
               \/ pc = "homed" /\ pc' = "count"
               \/ pc = "restored" /\ pc' = "done"
               \/ pc = "lost" /\ pc' = "unrestored"
BY DEF Resumes, AwaitIn

LEMMA JudgedFacts ==
  ASSUME NEW ok, NEW calm, Judged(ok, calm)
  PROVE  /\ rows' = Append(rows, [version |-> Chosen, ok |-> ok, quality |-> Moved,
                                  own |-> maker = tale.trial,
                                  tale |-> IF calm THEN tale ELSE Fresh(FALSE)])
         /\ pc' \in {"select", "restore"}
         /\ UNCHANGED <<before, was, asked>>
BY DEF Judged, NextRow

LEMMA TaleStillFollows ==
  ASSUME TrialsTypeOK, QueueInOrder, TaleFollows, CalmRow, [TrialsNext]_trial_vars
  PROVE  TaleFollows'
<1>1. /\ \A i \in Queue!Ids : fate'[i] = "pending" => fate[i] = "pending" \/ i > Accepted
      /\ Accepted' \in Nat /\ Accepted' >= Accepted /\ Accepted \in Nat
  BY QueueMoves DEF QueueInOrder
<1>2. ASSUME tale'.trial = tale.trial, tale.trial # 0
      PROVE  fate'[tale.trial] = "pending" => fate[tale.trial] = "pending"
  <2>1. tale.trial \in Queue!Ids /\ ~(tale.trial > Accepted)
    BY <1>2, TrialsAssumption DEF TaleFollows, QueueInOrder, Queue!Ids
  <2>. QED
    BY <1>1, <2>1
<1>3. ASSUME UNCHANGED <<tale, away>>, Preparing' => Preparing
      PROVE  TaleFollows'
  <2>1. tale'.trial \in 0..Accepted'
    BY <1>1, <1>3 DEF TaleFollows
  <2>2. tale'.homed /\ (tale'.trial = 0 \/ fate'[tale'.trial] = "pending") => ~away'
    BY <1>2, <1>3 DEF TaleFollows
  <2>. QED
    BY <1>3, <2>1, <2>2 DEF TaleFollows
<1>4. ASSUME NEW calm \in BOOLEAN, tale' = Fresh(calm)
      PROVE  TaleFollows'
  <2>1. /\ tale'.trial = 0 /\ tale'.ran = {} /\ ~tale'.homed /\ tale'.start = NoStart
        /\ ~NoStart.homed /\ (tale'.calm <=> calm)
    BY <1>4, FreshFacts
  <2>2. ~tale'.calm => tale' = Fresh(FALSE)
    BY <1>4, <2>1
  <2>3. 0 \in 0..Accepted'
    BY <1>1
  <2>. QED
    BY <2>1, <2>2, <2>3 DEF TaleFollows
<1>5. CASE OpenHand \/ GoHome \/ Restore
  <2>1. (Preparing' => Preparing) /\ UNCHANGED <<tale, away>>
    BY <1>5, CallFacts DEF OpenHand, GoHome, Restore, Preparing
  <2>. QED
    BY <1>3, <2>1
<1>6. CASE SelectVersion
  BY <1>4, <1>6 DEF SelectVersion
<1>7. CASE RunTrial
  <2>1. pc = "app" /\ UNCHANGED away /\ pc' \in {"ran", "refused"}
    BY <1>7, CallFacts DEF RunTrial
  <2>2. tale.trial = 0 /\ tale.start = NoStart
    BY <2>1 DEF TaleFollows, Preparing
  <2>3. CASE tale.calm
    <3>1. tale' = [tale EXCEPT !.trial = Accepted + 1] /\ Accepted' = Accepted + 1
      BY <1>7, <2>3, RunTrialFacts
    <3>2. /\ tale'.trial = Accepted' /\ tale'.homed = tale.homed /\ tale'.start = tale.start
          /\ tale'.calm
      BY <2>3, <3>1 DEF TrialsTypeOK, Tales
    <3>. QED
      BY <1>1, <2>1, <2>2, <3>2, FreshFacts DEF TaleFollows, Preparing
  <2>4. CASE ~tale.calm
    BY <1>3, <1>7, <2>1, <2>4, RunTrialFacts DEF Preparing
  <2>. QED
    BY <2>3, <2>4
<1>8. CASE RefusedRow \/ TrialRefused \/ CountRuns \/ \E versions \in Comparisons : Compare(versions)
  <2>1. (Preparing' => Preparing) /\ UNCHANGED <<tale, away>>
    BY <1>8 DEF RefusedRow, TrialRefused, CountRuns, Compare, Judged, NextRow, Preparing, cell_vars
  <2>. QED
    BY <1>3, <2>1
<1>9. CASE SeeSettled
  <2>1. (Preparing' => Preparing) /\ UNCHANGED <<tale, away>>
    <3>1. UNCHANGED <<tale, away>>
      BY <1>9, ComparerFacts DEF SeeSettled, CellStays
    <3>. QED
      BY <1>9, <3>1, ResumesFacts, JudgedFacts DEF SeeSettled, Preparing
  <2>. QED
    BY <1>3, <2>1
<1>10. CASE LeaveEarly \/ ClientStep
  BY <1>4, <1>10, ClientFacts DEF LeaveEarly
<1>11. CASE \E i \in Queue!Ids : Take(i)
  <2>1. PICK i \in Queue!Ids : Take(i)
    BY <1>11
  <2>2. UNCHANGED <<pc, away>> /\ fate[i] = "pending" /\ fate'[i] = "running" /\ i # 0
    <3>1. TakesUp(i) /\ UNCHANGED <<pc, away>>
      BY <2>1, TakeFacts DEF judge_vars
    <3>. QED
      BY <3>1 DEF TakesUp, Queue!Start, TrialsTypeOK, Queue!Ids
  <2>3. CASE i # tale.trial
    BY <1>3, <2>1, <2>2, <2>3, TakeFacts DEF Preparing
  <2>4. CASE i = tale.trial
    <3>1. /\ tale'.trial = tale.trial /\ tale'.calm = tale.calm
          /\ tale'.start.homed = tale.homed /\ tale'.start.away = away
      BY <2>1, <2>4, TakeFacts DEF TrialsTypeOK, Tales
    <3>2. tale.calm
      BY <2>2, <2>4, FreshFacts DEF TaleFollows
    <3>3. ~Preparing
      BY <2>2, <2>4 DEF TaleFollows
    <3>. QED
      BY <1>1, <2>2, <2>4, <3>1, <3>2, <3>3 DEF TaleFollows, Preparing
  <2>. QED
    BY <2>3, <2>4
<1>12. CASE \E i \in Queue!Ids : Step(i)
  <2>1. PICK i \in Queue!Ids : Step(i)
    BY <1>12
  <2>2. fate'[i] = "running" /\ UNCHANGED pc /\ Effect(i, work[i][at]) /\ i # 0
    BY <2>1, StepFacts DEF queue_vars, judge_vars, Queue!Ids
  <2>3. CASE UNCHANGED <<away, tale>>
    BY <1>3, <2>2, <2>3 DEF Preparing
  <2>4. CASE Records(i)
    <3>1. /\ tale'.calm = tale.calm /\ tale'.trial = tale.trial /\ tale'.start = tale.start
          /\ ~tale.calm => tale' = tale
          /\ i # tale.trial => tale'.ran = tale.ran /\ (tale'.homed => ~away')
      BY <2>4, RecordsFacts
    <3>2. tale'.trial \in 0..Accepted'
      BY <1>1, <3>1 DEF TaleFollows
    <3>3. tale'.homed /\ (tale'.trial = 0 \/ fate'[tale'.trial] = "pending") => ~away'
      BY <2>2, <3>1
    <3>4. Preparing' => tale'.trial = 0 /\ tale'.ran = {} /\ tale'.start = NoStart
      BY <2>2, <3>1 DEF TaleFollows, Preparing
    <3>5. ~tale'.calm => tale' = Fresh(FALSE)
      BY <3>1 DEF TaleFollows
    <3>. QED
      BY <3>1, <3>2, <3>3, <3>4, <3>5 DEF TaleFollows
  <2>. QED
    BY <2>2, <2>3, <2>4 DEF Effect
<1>13. CASE \E i \in Queue!Ids : Retire(i)
  BY <1>3, <1>13 DEF Retire, Outside, cell_vars, judge_vars, Preparing
<1>14. CASE UNCHANGED trial_vars
  BY <1>3, <1>14 DEF trial_vars, cell_vars, judge_vars, Preparing
<1>. QED
  BY <1>5, <1>6, <1>7, <1>8, <1>9, <1>10, <1>11, <1>12, <1>13, <1>14, NextIsOneOf

-------------------------------------------------------------------------------
(* The cell of an undisturbed row.                                         *)

LEMMA SettledIsIdle ==
  ASSUME TrialsTypeOK, QueueInOrder, CalmCell, Settled, tale.calm
  PROVE  NothingRuns
<1>1. \A i \in 1..applied : Over(i)
  BY DEF CalmCell
<1>2. applied = Accepted
  BY DEF Settled, QueueInOrder, TrialsTypeOK
<1>. SUFFICES ASSUME NEW i \in Queue!Ids, Unfinished(i)  PROVE FALSE
  BY DEF NothingRuns
<1>3. fate[i] # "free"
  BY DEF Unfinished
<1>4. i \in 1..applied
  BY <1>2, <1>3 DEF QueueInOrder, TrialsTypeOK, Queue!Ids
<1>. QED
  BY <1>1, <1>4 DEF Over, Unfinished

LEMMA WorkerIsBusy ==
  ASSUME NEW i \in Queue!Ids, Take(i) \/ Step(i) \/ Retire(i)
  PROVE  Unfinished(i)
BY DEF Take, Queue!Start, Step, Retire, Queue!End, Unfinished

LEMMA IdleIsQuiet ==
  ASSUME TrialsTypeOK, NothingRuns
  PROVE  Quiet /\ Pending = {} /\ \A item : ~Full(item) /\ ~Coalesces(item)
<1>1. Pending = {}
  BY DEF NothingRuns, Unfinished, Pending
<1>2. \A i \in Issued : fate[i] \in {"done", "dropped"}
  BY DEF NothingRuns, Unfinished, Issued, TrialsTypeOK, Queue!Fates
<1>. QED
  BY <1>1, <1>2, FS_EmptySet, TrialsAssumption DEF Quiet, Full, Coalesces

LEMMA SelectFacts ==
  ASSUME TrialsTypeOK, QueueInOrder, SelectVersion
  PROVE  /\ pc = "select" /\ pc' = "release" /\ tale' = Fresh(Quiet /\ ~latched /\ ~cancel)
         /\ tale'.calm <=> Quiet /\ ~latched /\ ~cancel
         /\ Accept(<<Choose(Chosen)>>)
<1>1. /\ pc = "select" /\ pc' = "release" /\ tale' = Fresh(Quiet /\ ~latched /\ ~cancel)
      /\ Accept(<<Choose(Chosen)>>)
  BY CallFacts DEF SelectVersion
<1>2. PICK b \in BOOLEAN : b = (Quiet /\ ~latched /\ ~cancel)
  OBVIOUS
<1>3. tale' = Fresh(b)
  BY <1>1, <1>2
<1>. QED
  BY <1>1, <1>2, <1>3, FreshFacts

LEMMA CalmIsNotNew ==
  ASSUME TrialsTypeOK, QueueInOrder, TaleFollows, CalmRow, [TrialsNext]_trial_vars, ~SelectVersion
  PROVE  tale'.calm => tale.calm /\ ~ClientStep /\ ~LeaveEarly
<1>1. tale'.calm => ~ClientStep /\ ~LeaveEarly
  BY ClientFacts, FreshFacts DEF LeaveEarly
<1>. SUFFICES ASSUME ~ClientStep, ~LeaveEarly  PROVE tale'.calm => tale.calm
  BY <1>1
<1>2. CASE OpenHand \/ GoHome \/ Restore \/ CountRuns \/ RefusedRow \/ SeeSettled
  BY <1>2 DEF OpenHand, GoHome, Restore, CountRuns, RefusedRow, SeeSettled
<1>3. CASE TrialRefused \/ \E versions \in Comparisons : Compare(versions)
  BY <1>3 DEF TrialRefused, Compare
<1>4. CASE RunTrial
  BY <1>4, RunTrialFacts
<1>5. ASSUME NEW i \in Queue!Ids, Take(i)  PROVE tale'.calm => tale.calm
  BY <1>5, TakeFacts DEF TrialsTypeOK, Tales
<1>6. ASSUME NEW i \in Queue!Ids, Step(i)  PROVE tale'.calm => tale.calm
  BY <1>6, StepFacts, RecordsFacts DEF Effect
<1>7. ASSUME NEW i \in Queue!Ids, Retire(i)  PROVE tale'.calm => tale.calm
  BY <1>7 DEF Retire
<1>8. CASE UNCHANGED trial_vars
  BY <1>8 DEF trial_vars
<1>. QED
  BY <1>2, <1>3, <1>4, <1>5, <1>6, <1>7, <1>8, NextIsOneOf

LEMMA AppliedMoves ==
  ASSUME TrialsTypeOK, QueueInOrder, [TrialsNext]_trial_vars, ~ClientStep,
         \A i \in 1..applied : Over(i)
  PROVE  \A i \in 1..applied' : Over(i)'
<1>1. \A i \in Queue!Ids : Over(i) => Over(i)'
  BY QueueMoves
<1>2. applied <= Accepted /\ Accepted \in 0..MaxId /\ MaxId \in Nat
  BY TrialsAssumption DEF QueueInOrder
<1>3. CASE applied' = applied
  BY <1>1, <1>2, <1>3 DEF Queue!Ids, TrialsTypeOK
<1>4. CASE \E i \in Queue!Ids : Retire(i)
  <2>1. PICK i \in Queue!Ids : Retire(i)
    BY <1>4
  <2>2. applied' = i /\ fate[i] = "running" /\ fate'[i] = "done"
    BY <2>1 DEF Retire, Queue!End, TrialsTypeOK
  <2>3. ASSUME NEW j \in 1..i, j # i  PROVE Over(j)
    <3>1. j \in Queue!Ids /\ i <= Accepted
      BY <1>2, <2>2, <2>3 DEF Queue!Ids, QueueInOrder
    <3>2. fate[j] # "free"
      BY <1>2, <2>3, <3>1 DEF QueueInOrder, Queue!Ids
    <3>3. ~Unfinished(j)
      BY <2>2, <2>3, <3>1 DEF QueueInOrder, Queue!Ids
    <3>. QED
      BY <3>1, <3>2, <3>3 DEF Over, Unfinished, TrialsTypeOK, Queue!Fates
  <2>4. \A j \in 1..i : j \in Queue!Ids
    BY <1>2 DEF Queue!Ids
  <2>. QED
    BY <1>1, <2>2, <2>3, <2>4 DEF Over
<1>5. applied' = applied \/ \E i \in Queue!Ids : Retire(i)
  <2>1. ASSUME NEW here, NEW item, NEW next, Call(here, item, next)
        PROVE  applied' = applied
    BY <2>1, CallFacts, AcceptFacts DEF queue_vars
  <2>2. CASE SelectVersion \/ OpenHand \/ GoHome \/ RunTrial \/ Restore
    BY <2>1, <2>2 DEF SelectVersion, OpenHand, GoHome, RunTrial, Restore
  <2>3. CASE RefusedRow \/ CountRuns \/ TrialRefused \/ SeeSettled \/ LeaveEarly
    BY <2>3 DEF RefusedRow, CountRuns, TrialRefused, SeeSettled, LeaveEarly, Resumes, Judged,
       queue_vars
  <2>4. CASE UNCHANGED trial_vars \/ \E versions \in Comparisons : Compare(versions)
    BY <2>4 DEF trial_vars, Compare, queue_vars
  <2>5. ASSUME NEW i \in Queue!Ids, Take(i) \/ Step(i)  PROVE applied' = applied
    BY <2>5 DEF Take, Step, queue_vars
  <2>. QED
    BY <2>2, <2>3, <2>4, <2>5, NextIsOneOf
<1>. QED
  BY <1>3, <1>4, <1>5

LEMMA WorkerFacts ==
  ASSUME TrialsTypeOK, QueueInOrder, NEW k \in Queue!Ids, Take(k) \/ Step(k) \/ Retire(k)
  PROVE  /\ Unfinished(k)
         /\ Accepted' = Accepted /\ UNCHANGED <<judge_vars, other_vars>>
         /\ \A i \in Queue!Ids : Unfinished(i)' => Unfinished(i) /\ work'[i] = work[i]
         /\ \A i \in Queue!Ids : i # k => fate'[i] = fate[i]
         /\ latched' = latched /\ (cancel' => cancel)
<1>1. Unfinished(k)
  BY WorkerIsBusy
<1>2. CASE Take(k)
  <2>1. /\ fate[k] = "pending" /\ UNCHANGED work
        /\ fate'[k] = "running" /\ \A j \in Queue!Ids : j # k => fate'[j] = fate[j]
    BY <1>2, TakeFacts DEF TakesUp, Queue!Start, TrialsTypeOK
  <2>2. \A j \in Queue!Ids : fate'[j] = "free" <=> fate[j] = "free"
    BY <2>1
  <2>3. Accepted' = Accepted
    BY <2>2, CountOfIds DEF Accepted, Issued, QueueInOrder
  <2>. QED
    BY <1>1, <1>2, <2>1, <2>3, TakeFacts DEF Unfinished
<1>3. CASE Step(k)
  <2>1. UNCHANGED <<fate, work>>
    BY <1>3, StepFacts DEF queue_vars
  <2>. QED
    BY <1>1, <1>3, <2>1, StepFacts DEF Accepted, Issued, Unfinished
<1>4. CASE Retire(k)
  <2>1. /\ fate[k] = "running" /\ fate'[k] = "done"
        /\ \A j \in Queue!Ids : j # k => fate'[j] = fate[j] /\ work'[j] = work[j]
    BY <1>4 DEF Retire, Queue!End, TrialsTypeOK
  <2>2. \A j \in Queue!Ids : fate'[j] = "free" <=> fate[j] = "free"
    BY <2>1
  <2>3. Accepted' = Accepted
    BY <2>2, CountOfIds DEF Accepted, Issued, QueueInOrder
  <2>4. UNCHANGED <<judge_vars, other_vars, latched, cancel>>
    BY <1>4 DEF Retire, Outside, sup_vars
  <2>. QED
    BY <1>1, <2>1, <2>3, <2>4 DEF Unfinished
<1>. QED
  BY <1>2, <1>3, <1>4

LEMMA CalmCellStays ==
  ASSUME TrialsTypeOK, QueueInOrder, TaleFollows, CalmCell, CalmRow, [TrialsNext]_trial_vars
  PROVE  CalmCell'
<1>1. ClientStep => calls' # 0 /\ ~tale'.calm
  <2>1. ClientStep => calls' # 0
    BY ClientFacts DEF CalmCell, TrialsTypeOK
  <2>. QED
    BY <2>1, ClientFacts, FreshFacts
<1>2. ASSUME ~ClientStep  PROVE UNCHANGED <<calls, verb, latched>> /\ (cancel' => cancel)
  <2>1. ASSUME NEW i \in Queue!Ids, Take(i) \/ Step(i) \/ Retire(i)
        PROVE  UNCHANGED <<calls, verb, latched>> /\ (cancel' => cancel)
    BY <2>1, WorkerFacts DEF other_vars
  <2>2. CASE UNCHANGED trial_vars
    BY <2>2 DEF trial_vars, other_vars, sup_vars
  <2>. QED
    BY <1>2, <2>1, <2>2, ComparerFacts, NextIsOneOf DEF other_vars
<1>3. SelectVersion => Accepted \in Nat /\ (tale'.calm => NothingRuns /\ ~latched /\ ~cancel)
  <2>1. SelectVersion /\ tale'.calm => Quiet /\ ~latched /\ ~cancel
    BY SelectFacts
  <2>2. Quiet => NothingRuns
    BY DEF Quiet, NothingRuns, Issued, Unfinished
  <2>. QED
    BY <2>1, <2>2 DEF QueueInOrder
<1>4. ASSUME tale'.calm \/ calls' = 0  PROVE \A i \in 1..applied' : Over(i)'
  <2>1. \A i \in 1..applied : Over(i)
    <3>1. CASE tale.calm \/ calls = 0
      BY <3>1 DEF CalmCell
    <3>2. CASE SelectVersion /\ tale'.calm
      <4>1. NothingRuns
        BY <1>3, <3>2
      <4>2. \A i \in 1..applied : i \in Queue!Ids /\ fate[i] # "free"
        BY TrialsAssumption DEF QueueInOrder, TrialsTypeOK, Queue!Ids
      <4>. QED
        BY <4>1, <4>2 DEF NothingRuns, Unfinished, Over, TrialsTypeOK, Queue!Fates
    <3>. QED
      BY <1>1, <1>2, <1>4, <3>1, <3>2, CalmIsNotNew
  <2>. QED
    BY <1>1, <1>4, <2>1, AppliedMoves
<1>5. tale'.calm => ~latched'
  BY <1>1, <1>2, <1>3, CalmIsNotNew DEF CalmCell
<1>6. calls' = 0 => verb' = "free" /\ ~latched' /\ ~cancel'
  BY <1>1, <1>2 DEF CalmCell
<1>7. ASSUME calls' = 0, early' = 0
      PROVE  tale'.calm /\ (pc' \in {"idle", "select", "restore"} => NothingRuns')
  <2>1. ~ClientStep /\ calls = 0 /\ ~latched /\ ~cancel
    BY <1>1, <1>2, <1>7 DEF CalmCell
  <2>2. ~LeaveEarly
    <3>1. early \in Nat
      BY DEF TrialsTypeOK
    <3>2. LeaveEarly => early' = early + 1
      BY DEF LeaveEarly
    <3>. QED
      BY <1>7, <3>1, <3>2
  <2>3. CASE SelectVersion
    <3>1. pc = "select" /\ UNCHANGED early
      BY <2>3, SelectFacts DEF SelectVersion, Call
    <3>2. Quiet
      BY <1>7, <2>1, <3>1, IdleIsQuiet DEF CalmCell
    <3>. QED
      BY <2>1, <2>3, <3>2, SelectFacts
  <2>4. CASE OpenHand \/ GoHome \/ Restore \/ CountRuns
    <3>1. UNCHANGED <<tale, early>> /\ pc' \notin {"idle", "select", "restore"}
      BY <2>4, CallFacts DEF OpenHand, GoHome, Restore, CountRuns
    <3>. QED
      BY <1>7, <2>1, <3>1 DEF CalmCell
  <2>5. CASE RunTrial
    <3>1. UNCHANGED early /\ pc' \in {"ran", "refused"}
      BY <2>5, CallFacts DEF RunTrial
    <3>2. tale.calm
      BY <1>7, <2>1, <3>1 DEF CalmCell
    <3>3. tale' = [tale EXCEPT !.trial = Accepted + 1]
      BY <2>5, <3>2, RunTrialFacts
    <3>. QED
      BY <3>1, <3>2, <3>3 DEF TrialsTypeOK, Tales
  <2>6. CASE RefusedRow \/ \E versions \in Comparisons : Compare(versions)
    <3>1. UNCHANGED <<tale, early, fate>> /\ pc \in {"idle", "select"}
      BY <2>6 DEF RefusedRow, Compare, queue_vars
    <3>. QED
      BY <1>7, <2>1, <3>1 DEF CalmCell, NothingRuns, Unfinished
  <2>7. CASE TrialRefused
    <3>1. pc = "refused" /\ UNCHANGED early
      BY <2>7 DEF TrialRefused
    <3>. QED
      BY <1>7, <2>1, <3>1 DEF CalmCell, CalmRow
  <2>8. CASE SeeSettled
    <3>1. UNCHANGED <<tale, early, fate>> /\ Settled
      BY <2>8 DEF SeeSettled, Resumes, Judged, queue_vars
    <3>2. tale.calm /\ NothingRuns
      BY <1>7, <2>1, <3>1, SettledIsIdle DEF CalmCell
    <3>. QED
      BY <3>1, <3>2 DEF NothingRuns, Unfinished
  <2>9. CASE \E i \in Queue!Ids : Take(i) \/ Step(i) \/ Retire(i)
    <3>1. PICK i \in Queue!Ids : Take(i) \/ Step(i) \/ Retire(i)
      BY <2>9
    <3>2. ~NothingRuns /\ UNCHANGED <<pc, early>>
      BY <3>1, WorkerFacts DEF NothingRuns, judge_vars
    <3>3. tale'.calm = tale.calm
      <4>1. CASE Take(i)
        BY <4>1, TakeFacts DEF TrialsTypeOK, Tales
      <4>2. CASE Step(i)
        BY <4>2, StepFacts, RecordsFacts DEF Effect
      <4>3. CASE Retire(i)
        BY <4>3 DEF Retire
      <4>. QED
        BY <3>1, <4>1, <4>2, <4>3
    <3>. QED
      BY <1>7, <2>1, <3>2, <3>3 DEF CalmCell
  <2>10. CASE UNCHANGED trial_vars
    BY <1>7, <2>10 DEF trial_vars, judge_vars, other_vars, queue_vars, CalmCell, NothingRuns, Unfinished
  <2>. QED
    BY <2>1, <2>2, <2>3, <2>4, <2>5, <2>6, <2>7, <2>8, <2>9, <2>10, NextIsOneOf
<1>. QED
  BY <1>4, <1>5, <1>6, <1>7 DEF CalmCell

(* What a submission leaves of the queue: what was there, and the item.    *)
LEMMA AcceptedItems ==
  ASSUME TrialsTypeOK, QueueInOrder, NEW item, Accept(item)
  PROVE  \A i \in Queue!Ids : Unfinished(i)' =>
           \/ Unfinished(i) /\ work'[i] = work[i]
           \/ Keyed(i) /\ Choice(item) /\ work'[i] = item /\ UNCHANGED fate
           \/ Issues(item) /\ i = Accepted' /\ work'[i] = item
<1>1. CASE Issues(item)
  BY <1>1, IssueFacts DEF Unfinished
<1>2. CASE Replaces(item)
  <2>1. PICK k \in Pending : Keyed(k) /\ work' = [work EXCEPT ![k] = item]
    BY <1>2 DEF Replaces
  <2>2. k \in Queue!Ids /\ UNCHANGED fate /\ Choice(item)
    BY <1>2, <2>1 DEF Replaces, Pending
  <2>3. work'[k] = item /\ \A i \in Queue!Ids : i # k => work'[i] = work[i]
    BY <2>1, <2>2 DEF TrialsTypeOK
  <2>. QED
    BY <2>1, <2>2, <2>3 DEF Unfinished
<1>. QED
  BY <1>1, <1>2, AcceptFacts

LEMMA ItemShapes ==
  /\ ~Choice(Release) /\ ~Chooses(Release) /\ Release # Receipt
  /\ ~Choice(Home) /\ ~Chooses(Home)
  /\ \A v : Choice(<<Choose(v)>>) /\ <<Choose(v)>> # Receipt
  /\ ~Chooses(Move) /\ ~Chooses(Receipt)
  /\ Len(Release) = 1 /\ Release[1].do = "open"
  /\ \A v : Len(<<Choose(v)>>) = 1 /\ <<Choose(v)>>[1] = Choose(v)
<1>1. \A x : Len(<<x>>) = 1 /\ DOMAIN <<x>> = 1..1 /\ <<x>>[1] = x /\ <<x>> # <<>>
  OBVIOUS
<1>2. \A v : Choose(v).do = "choose" /\ Choose(v).version = v
  BY DEF Choose
<1>3. \A what : Do(what).do = what
  BY DEF Do
<1>4. \A x : x.do # "choose" => ~Choice(<<x>>) /\ ~Chooses(<<x>>)
  BY <1>1 DEF Choice, Chooses
<1>5. ~Chooses(<<>>)
  BY DEF Chooses
<1>6. Do("open").do # "choose" /\ Do("home").do # "choose" /\ Do("move").do # "choose"
  BY <1>3
<1>7. \A v : Choice(<<Choose(v)>>)
  BY <1>1, <1>2 DEF Choice
<1>8. /\ ~Choice(Release) /\ ~Chooses(Release) /\ ~Choice(Home) /\ ~Chooses(Home)
      /\ ~Chooses(Move)
  BY <1>4, <1>6 DEF Release, Home, Move
<1>. QED
  BY <1>1, <1>3, <1>5, <1>7, <1>8 DEF Release, Receipt

LEMMA QuietIsIdle ==
  ASSUME Quiet
  PROVE  NothingRuns
BY DEF Quiet, NothingRuns, Issued, Unfinished

LEMMA CalmRowStays ==
  ASSUME TrialsTypeOK, QueueInOrder, TaleFollows, CalmCell, CalmRow, [TrialsNext]_trial_vars
  PROVE  CalmRow'
<1>. SUFFICES ASSUME tale'.calm
     PROVE  /\ pc' = "release" =>
                 \A i \in Queue!Ids : Unfinished(i)' => i = Accepted' /\ Choice(work'[i])
            /\ pc' = "released" =>
                 \A i \in Queue!Ids : Unfinished(i)' => Choice(work'[i]) \/ work'[i] = Release
            /\ pc' = "homed" => \A i \in Queue!Ids : Unfinished(i)' => work'[i] = Home
            /\ pc' \in {"home", "count", "app"} => \A i \in Queue!Ids : ~Unfinished(i)'
            /\ pc' = "app" => runs' = before'
            /\ pc' # "refused"
  BY DEF CalmRow, NothingRuns, Choice
<1>1. CASE SelectVersion
  <2>1. pc' = "release" /\ Accept(<<Choose(Chosen)>>) /\ Quiet
    BY <1>1, SelectFacts
  <2>2. NothingRuns
    BY <2>1, QuietIsIdle
  <2>3. \A i \in Queue!Ids : Unfinished(i)' => i = Accepted' /\ work'[i] = <<Choose(Chosen)>>
    BY <2>1, <2>2, AcceptedItems DEF NothingRuns, Keyed, Pending, Unfinished
  <2>4. Choice(<<Choose(Chosen)>>)
    BY ItemShapes
  <2>. QED
    BY <2>1, <2>3, <2>4
<1>2. CASE ~SelectVersion
  <2>0. tale.calm /\ ~ClientStep /\ ~LeaveEarly
    BY <1>2, CalmIsNotNew
  <2>1. CASE OpenHand
    <3>1. pc = "release" /\ pc' = "released" /\ (Full(Release) \/ Accept(Release))
          /\ (Full(Release) => UNCHANGED queue_vars)
      BY <2>1, CallFacts DEF OpenHand
    <3>2. \A i \in Queue!Ids : Unfinished(i) => Choice(work[i])
      BY <2>0, <3>1 DEF CalmRow
    <3>3. CASE Full(Release)
      BY <3>1, <3>2, <3>3 DEF queue_vars, Unfinished
    <3>4. CASE Accept(Release)
      <4>1. \A i \in Queue!Ids : Unfinished(i)' =>
              (Unfinished(i) /\ work'[i] = work[i]) \/ work'[i] = Release
        BY <3>4, AcceptedItems
      <4>. QED
        BY <3>1, <3>2, <4>1
    <3>. QED
      BY <3>1, <3>3, <3>4
  <2>2. CASE GoHome
    <3>1. pc = "home" /\ pc' = "homed" /\ (Full(Home) \/ Accept(Home))
      BY <2>2, CallFacts DEF GoHome
    <3>2. NothingRuns
      BY <2>0, <3>1 DEF CalmRow
    <3>3. Accept(Home)
      BY <3>1, <3>2, IdleIsQuiet
    <3>4. \A i \in Queue!Ids : Unfinished(i)' => work'[i] = Home
      BY <3>2, <3>3, AcceptedItems DEF NothingRuns, Keyed, Pending, Unfinished
    <3>. QED
      BY <3>1, <3>4
  <2>3. CASE CountRuns
    BY <2>0, <2>3 DEF CountRuns, CalmRow, NothingRuns, Unfinished, queue_vars, cell_vars
  <2>4. CASE RunTrial
    BY <2>0, <2>4, RunTrialFacts
  <2>5. CASE RefusedRow \/ TrialRefused
    BY <2>0, <2>5 DEF RefusedRow, TrialRefused, Judged, NextRow, CalmRow
  <2>6. CASE Restore \/ \E versions \in Comparisons : Compare(versions)
    BY <2>6, CallFacts DEF Restore, Compare
  <2>7. CASE SeeSettled
    <3>1. PICK ok : Resumes(ok, TRUE)
      BY <2>7 DEF SeeSettled
    <3>2. NothingRuns /\ UNCHANGED fate
      BY <2>0, <2>7, SettledIsIdle DEF SeeSettled, Resumes, Judged, queue_vars
    <3>3. pc' \in {"select", "restore", "home", "count", "done", "unrestored"}
      BY <3>1, ResumesFacts, JudgedFacts
    <3>. QED
      BY <3>2, <3>3 DEF NothingRuns, Unfinished
  <2>8. CASE \E i \in Queue!Ids : Take(i) \/ Step(i) \/ Retire(i)
    <3>1. PICK k \in Queue!Ids : Take(k) \/ Step(k) \/ Retire(k)
      BY <2>8
    <3>2. /\ Unfinished(k) /\ Accepted' = Accepted /\ UNCHANGED pc
          /\ \A i \in Queue!Ids : Unfinished(i)' => Unfinished(i) /\ work'[i] = work[i]
      BY <3>1, WorkerFacts DEF judge_vars
    <3>. QED
      BY <2>0, <3>2 DEF CalmRow, NothingRuns, Choice
  <2>9. CASE UNCHANGED trial_vars
    BY <2>0, <2>9 DEF trial_vars, judge_vars, queue_vars, cell_vars, CalmRow, NothingRuns, Unfinished,
       Accepted, Issued, Choice
  <2>. QED
    BY <1>2, <2>0, <2>1, <2>2, <2>3, <2>4, <2>5, <2>6, <2>7, <2>8, <2>9, NextIsOneOf
<1>. QED
  BY <1>1, <1>2

LEMMA OnlyOneRuns ==
  ASSUME QueueInOrder, NEW i \in Queue!Ids, NEW j \in Queue!Ids,
         fate[i] = "running", fate[j] = "running"
  PROVE  i = j
<1>1. i <= j /\ j <= i
  BY DEF QueueInOrder, Unfinished
<1>. QED
  BY <1>1 DEF Queue!Ids

(* The steps the preparation of a row queues.                              *)
LEMMA StepOfOne ==
  ASSUME NEW k, at \in 1..Len(work[k])
  PROVE  /\ Choice(work[k]) => work[k][at].do = "choose"
         /\ work[k] = Release => work[k][at].do = "open"
         /\ work[k] = Home => work[k][at].do = "home"
<1>1. \A x : Len(<<x>>) = 1 /\ <<x>>[1] = x
  OBVIOUS
<1>2. Len(work[k]) = 1 => at = 1
  OBVIOUS
<1>3. Choice(work[k]) => work[k][at].do = "choose"
  BY <1>2 DEF Choice
<1>4. \A what : Do(what).do = what
  BY DEF Do
<1>5. work[k] = Release => work[k][at].do = "open"
  <2>1. Release = <<Do("open")>>
    BY DEF Release
  <2>. QED
    BY <1>1, <1>2, <1>4, <2>1
<1>6. work[k] = Home => work[k][at].do = "home"
  <2>1. Home = <<Do("home")>>
    BY DEF Home
  <2>. QED
    BY <1>1, <1>2, <1>4, <2>1
<1>. QED
  BY <1>3, <1>5, <1>6

LEMMA HandStaysOpen ==
  ASSUME TrialsTypeOK, QueueInOrder, TaleFollows, CalmCell, CalmRow, HandIsOpen, TrialIsOwn,
         [TrialsNext]_trial_vars
  PROVE  HandIsOpen'
<1>. SUFFICES ASSUME tale'.calm, Capacity > 1
     PROVE  /\ pc' = "released" /\ held' =>
                 \E i \in Queue!Ids :
                   (fate'[i] = "pending" \/ (fate'[i] = "running" /\ at' > 0)) /\ work'[i] = Release
            /\ pc' \in {"home", "homed", "count", "app"} => ~held'
            /\ pc' = "ran" => (fate'[tale'.trial] = "pending" => ~held') /\ ~tale'.start.held
  BY DEF HandIsOpen, Begun
<1>1. CASE SelectVersion
  BY <1>1, SelectFacts
<1>2. CASE ~SelectVersion
  <2>0. tale.calm /\ ~ClientStep /\ ~LeaveEarly
    BY <1>2, CalmIsNotNew
  <2>1. CASE OpenHand
    <3>1. pc = "release" /\ pc' = "released" /\ (Full(Release) \/ Accept(Release))
      BY <2>1, CallFacts DEF OpenHand
    <3>2. Pending \subseteq {Accepted}
      BY <2>0, <3>1 DEF CalmRow, Pending, Unfinished
    <3>3. Cardinality(Pending) <= 1
      <4>1. IsFiniteSet({Accepted}) /\ Cardinality({Accepted}) = 1
        BY FS_Singleton
      <4>. QED
        BY <3>2, <4>1, FS_Subset
    <3>4. Cardinality(Pending) \in Nat
      BY <3>2, FS_Singleton, FS_Subset, FS_CardinalityType
    <3>5. ~Full(Release)
      BY <3>3, <3>4, TrialsAssumption DEF Full
    <3>6. Issues(Release)
      BY <3>1, <3>5, AcceptFacts, ItemShapes DEF Replaces
    <3>. QED
      BY <3>1, <3>6, IssueFacts
  <2>2. CASE GoHome \/ CountRuns
    <3>1. UNCHANGED held /\ pc \in {"home", "count"} /\ pc' \in {"homed", "app"}
      BY <2>2, CallFacts DEF GoHome, CountRuns, cell_vars
    <3>. QED
      BY <2>0, <3>1 DEF HandIsOpen
  <2>3. CASE RunTrial
    <3>1. pc = "app" /\ pc' = "ran" /\ tale' = [tale EXCEPT !.trial = Accepted + 1]
      BY <2>0, <2>3, RunTrialFacts
    <3>2. UNCHANGED held
      BY <2>3, CallFacts DEF RunTrial
    <3>3. ~held /\ tale.start = NoStart
      BY <2>0, <3>1 DEF HandIsOpen, TaleFollows, Preparing
    <3>4. tale'.start = tale.start
      BY <3>1 DEF TrialsTypeOK, Tales
    <3>. QED
      BY <3>1, <3>2, <3>3, <3>4, FreshFacts
  <2>4. CASE RefusedRow \/ TrialRefused
    BY <2>4 DEF RefusedRow, TrialRefused, Judged, NextRow
  <2>5. CASE Restore \/ \E versions \in Comparisons : Compare(versions)
    BY <2>5, CallFacts DEF Restore, Compare
  <2>6. CASE SeeSettled
    <3>1. PICK ok : Resumes(ok, TRUE)
      BY <2>6 DEF SeeSettled
    <3>2. NothingRuns /\ UNCHANGED held
      <4>1. NothingRuns
        BY <2>0, <2>6, SettledIsIdle DEF SeeSettled
      <4>2. CellStays
        BY <2>6, ComparerFacts
      <4>. QED
        BY <4>1, <4>2 DEF CellStays
    <3>3. CASE pc = "released"
      <4>1. ~held
        BY <2>0, <3>2, <3>3 DEF HandIsOpen, NothingRuns, Unfinished, Begun
      <4>. QED
        BY <3>1, <3>2, <3>3, <4>1, ResumesFacts
    <3>4. CASE pc = "homed"
      BY <2>0, <3>1, <3>2, <3>4, ResumesFacts DEF HandIsOpen
    <3>5. CASE pc \notin {"released", "homed"}
      BY <3>1, <3>5, ResumesFacts, JudgedFacts
    <3>. QED
      BY <3>3, <3>4, <3>5
  <2>7. CASE \E i \in Queue!Ids : Take(i)
    <3>1. PICK k \in Queue!Ids : Take(k)
      BY <2>7
    <3>2. /\ fate[k] = "pending" /\ fate'[k] = "running" /\ at = 0 /\ UNCHANGED work
          /\ \A j \in Queue!Ids : j # k => fate'[j] = fate[j]
      BY <3>1, TakeFacts DEF TakesUp, Queue!Start, TrialsTypeOK
    <3>3. ~latched /\ UNCHANGED <<held, pc>>
      BY <2>0, <3>1, TakeFacts DEF CalmCell, judge_vars
    <3>4. work[k] # Receipt => at' = 1
      BY <3>1, <3>3, TakeFacts
    <3>5. ASSUME pc = "released", held
          PROVE  \E i \in Queue!Ids :
                   (fate'[i] = "pending" \/ (fate'[i] = "running" /\ at' > 0)) /\ work'[i] = Release
      <4>1. PICK i \in Queue!Ids : fate[i] = "pending" /\ work[i] = Release
        BY <2>0, <3>2, <3>5 DEF HandIsOpen, Begun
      <4>2. i = k => at' > 0
        BY <3>4, <4>1, ItemShapes
      <4>. QED
        BY <3>2, <4>1, <4>2
    <3>6. ASSUME pc = "ran"
          PROVE  (fate'[tale'.trial] = "pending" => ~held') /\ ~tale'.start.held
      <4>1. k = tale.trial
        BY <2>0, <3>2, <3>6 DEF TrialIsOwn, Unfinished
      <4>2. tale' = [tale EXCEPT !.start = [held |-> held, away |-> away, homed |-> tale.homed]]
        BY <3>1, <4>1, TakeFacts
      <4>3. tale'.trial = k /\ tale'.start.held = held
        BY <4>1, <4>2 DEF TrialsTypeOK, Tales
      <4>4. ~held
        BY <2>0, <3>2, <3>6, <4>1 DEF HandIsOpen
      <4>. QED
        BY <3>2, <4>3, <4>4
    <3>. QED
      BY <2>0, <3>3, <3>5, <3>6 DEF HandIsOpen
  <2>8. CASE \E i \in Queue!Ids : Step(i)
    <3>1. PICK k \in Queue!Ids : Step(k)
      BY <2>8
    <3>2. /\ fate[k] = "running" /\ at \in 1..Len(work[k]) /\ Effect(k, work[k][at])
          /\ UNCHANGED <<fate, work, pc>>
      BY <3>1, StepFacts DEF queue_vars, judge_vars
    <3>3. Unfinished(k)
      BY <3>2 DEF Unfinished
    <3>4. ASSUME pc = "released", held'
          PROVE  \E i \in Queue!Ids : fate[i] = "pending" /\ work[i] = Release
      <4>1. Choice(work[k]) \/ work[k] = Release
        BY <2>0, <3>3, <3>4 DEF CalmRow
      <4>2. work[k] # Release /\ held' = held
        BY <3>2, <3>4, <4>1, StepOfOne DEF Effect, Drives
      <4>3. held
        BY <3>4, <4>2
      <4>. QED
        BY <2>0, <3>2, <3>4, <4>2, <4>3, OnlyOneRuns DEF HandIsOpen, Begun
    <3>5. ASSUME pc \in {"home", "homed", "count", "app"}
          PROVE  ~held'
      <4>1. work[k] = Home
        BY <2>0, <3>3, <3>5 DEF CalmRow, NothingRuns
      <4>2. work[k][at].do = "home"
        BY <3>2, <4>1, StepOfOne
      <4>3. held' = held
        BY <3>2, <4>2 DEF Effect
      <4>. QED
        BY <2>0, <3>5, <4>3 DEF HandIsOpen
    <3>6. ASSUME pc = "ran"
          PROVE  (fate'[tale'.trial] = "pending" => ~held') /\ ~tale'.start.held
      <4>1. k = tale.trial
        BY <2>0, <3>3, <3>6 DEF TrialIsOwn
      <4>2. tale'.trial = tale.trial /\ tale'.start = tale.start
        BY <3>2, RecordsFacts DEF Effect
      <4>. QED
        BY <2>0, <3>2, <3>6, <4>1, <4>2 DEF HandIsOpen
    <3>. QED
      BY <3>2, <3>4, <3>5, <3>6
  <2>9. CASE \E i \in Queue!Ids : Retire(i)
    <3>1. PICK k \in Queue!Ids : Retire(k)
      BY <2>9
    <3>2. /\ fate[k] = "running" /\ fate'[k] = "done" /\ at = 0 /\ UNCHANGED <<held, pc, tale>>
          /\ \A j \in Queue!Ids : j # k => fate'[j] = fate[j] /\ work'[j] = work[j]
      BY <3>1 DEF Retire, Queue!End, TrialsTypeOK, cell_vars, Outside, judge_vars
    <3>3. ASSUME pc = "released", held
          PROVE  \E i \in Queue!Ids : fate'[i] = "pending" /\ work'[i] = Release
      BY <2>0, <3>2, <3>3 DEF HandIsOpen, Begun
    <3>4. pc = "ran" => k = tale.trial
      BY <2>0, <3>2 DEF TrialIsOwn, Unfinished
    <3>. QED
      BY <2>0, <3>2, <3>3, <3>4 DEF HandIsOpen
  <2>10. CASE UNCHANGED trial_vars
    BY <2>0, <2>10 DEF trial_vars, judge_vars, queue_vars, cell_vars, HandIsOpen, Begun
  <2>. QED
    BY <1>2, <2>0, <2>1, <2>2, <2>3, <2>4, <2>5, <2>6, <2>7, <2>8, <2>9, <2>10, NextIsOneOf
<1>. QED
  BY <1>1, <1>2

LEMMA TrialStaysOwn ==
  ASSUME TrialsTypeOK, QueueInOrder, TaleFollows, CalmCell, CalmRow, TrialIsOwn,
         [TrialsNext]_trial_vars
  PROVE  TrialIsOwn'
<1>. SUFFICES ASSUME tale'.calm, pc' = "ran"
     PROVE  /\ tale'.trial # 0
            /\ \A i \in Queue!Ids : Unfinished(i)' => i = tale'.trial
            /\ runs' >= before'
            /\ runs' > before' => maker' = tale'.trial
            /\ tale'.ran # {} => runs' > before'
  BY DEF TrialIsOwn
<1>0. ~SelectVersion
  BY SelectFacts
<1>1. tale.calm /\ ~ClientStep /\ ~LeaveEarly
  BY <1>0, CalmIsNotNew
<1>2. CASE RunTrial
  <2>1. /\ pc = "app" /\ tale' = [tale EXCEPT !.trial = Accepted + 1]
        /\ Issues(TrialApp) /\ Accepted' = Accepted + 1 /\ Accepted + 1 \in Queue!Ids
    BY <1>1, <1>2, RunTrialFacts
  <2>2. NothingRuns /\ runs = before /\ tale.ran = {}
    BY <1>1, <2>1 DEF CalmRow, TaleFollows, Preparing
  <2>3. UNCHANGED <<runs, before>>
    BY <1>2, CallFacts DEF RunTrial
  <2>4. tale'.trial = Accepted' /\ tale'.ran = {}
    BY <2>1, <2>2 DEF TrialsTypeOK, Tales
  <2>5. \A i \in Queue!Ids : Unfinished(i)' => i = Accepted'
    BY <2>1, <2>2, IssueFacts DEF NothingRuns, Unfinished
  <2>6. Accepted' # 0
    BY <2>1 DEF Queue!Ids
  <2>7. runs \in Nat
    BY DEF TrialsTypeOK
  <2>8. runs' >= before' /\ ~(runs' > before')
    BY <2>2, <2>3, <2>7
  <2>. QED
    BY <2>4, <2>5, <2>6, <2>8
<1>3. CASE \/ \E versions \in Comparisons : Compare(versions)
           \/ RefusedRow \/ OpenHand \/ GoHome \/ CountRuns \/ TrialRefused \/ Restore
  BY <1>3, CallFacts DEF Compare, RefusedRow, NextRow, OpenHand, GoHome, CountRuns, TrialRefused,
     Judged, Restore
<1>4. CASE SeeSettled
  BY <1>4, ResumesFacts, JudgedFacts DEF SeeSettled
<1>5. CASE \E i \in Queue!Ids : Take(i) \/ Step(i) \/ Retire(i)
  <2>1. PICK k \in Queue!Ids : Take(k) \/ Step(k) \/ Retire(k)
    BY <1>5
  <2>2. /\ Unfinished(k) /\ UNCHANGED <<pc, before>>
        /\ \A i \in Queue!Ids : Unfinished(i)' => Unfinished(i)
    BY <2>1, WorkerFacts DEF judge_vars
  <2>3. pc = "ran" /\ k = tale.trial
    BY <1>1, <2>2 DEF TrialIsOwn
  <2>4. CASE Records(k)
    <3>1. runs' = runs + 1 /\ maker' = k /\ tale'.trial = tale.trial
      BY <2>4, RecordsFacts
    <3>2. runs >= before /\ runs \in Nat
      BY <1>1, <2>3 DEF TrialIsOwn, TrialsTypeOK
    <3>3. before \in Nat
      BY DEF TrialsTypeOK
    <3>4. runs' >= before' /\ runs' > before'
      BY <2>2, <3>1, <3>2, <3>3
    <3>. QED
      BY <1>1, <2>2, <2>3, <3>1, <3>4 DEF TrialIsOwn
  <2>5. CASE UNCHANGED <<runs, maker>> /\ tale'.trial = tale.trial /\ tale'.ran = tale.ran
    BY <1>1, <2>2, <2>3, <2>5 DEF TrialIsOwn
  <2>6. Records(k) \/ (UNCHANGED <<runs, maker>> /\ tale'.trial = tale.trial /\ tale'.ran = tale.ran)
    <3>1. CASE Take(k)
      BY <3>1, TakeFacts DEF TrialsTypeOK, Tales
    <3>2. CASE Step(k)
      BY <3>2, StepFacts DEF Effect
    <3>3. CASE Retire(k)
      BY <3>3 DEF Retire, cell_vars
    <3>. QED
      BY <2>1, <3>1, <3>2, <3>3
  <2>. QED
    BY <2>4, <2>5, <2>6
<1>6. CASE UNCHANGED trial_vars
  BY <1>1, <1>6 DEF trial_vars, judge_vars, queue_vars, cell_vars, TrialIsOwn, Unfinished
<1>. QED
  BY <1>0, <1>1, <1>2, <1>3, <1>4, <1>5, <1>6, NextIsOneOf

-------------------------------------------------------------------------------
(* The rows.                                                               *)

TrueRow(r) == r.tale.calm =>
  /\ r.quality => r.own /\ r.tale.trial # 0
  /\ r.ok /\ r.tale.ran # {} => r.quality

AlikeRow(r) == r.tale.calm =>
  /\ Capacity > 1 => ~r.tale.start.held
  /\ r.tale.start.homed => ~r.tale.start.away

LEMMA JudgedRow ==
  ASSUME TrialsTypeOK, TaleFollows, HandIsOpen, TrialIsOwn, NEW ok, Judged(ok, TRUE),
         pc = "ran" \/ ~tale.calm
  PROVE  \E r : rows' = Append(rows, r) /\ TrueRow(r) /\ AlikeRow(r)
<1>. PICK q : q = Moved
  OBVIOUS
<1>. PICK o : o = (maker = tale.trial)
  OBVIOUS
<1>. DEFINE r == [version |-> Chosen, ok |-> ok, quality |-> q, own |-> o, tale |-> tale]
<1>1. rows' = Append(rows, r)
  BY JudgedFacts
<1>2. r.ok = ok /\ r.quality = q /\ r.own = o /\ r.tale = tale
  OBVIOUS
<1>3. q => runs > before
  BY DEF Moved
<1>4. runs > before => q
  BY DEF Moved
<1>5. maker = tale.trial => o
  OBVIOUS
<1>. HIDE DEF r
<1>6. TrueRow(r)
  <2>. SUFFICES ASSUME tale.calm
       PROVE  (q => o /\ tale.trial # 0) /\ (ok /\ tale.ran # {} => q)
    BY <1>2 DEF TrueRow
  <2>1. /\ tale.trial # 0 /\ (runs > before => maker = tale.trial)
        /\ tale.ran # {} => runs > before
    BY DEF TrialIsOwn
  <2>. QED
    BY <1>3, <1>4, <1>5, <2>1
<1>7. AlikeRow(r)
  BY <1>2 DEF AlikeRow, HandIsOpen, TaleFollows
<1>. QED
  BY <1>1, <1>6, <1>7

(* A row more is true of its trial, which started as every other.          *)
LEMMA RowsAdded ==
  ASSUME TrialsInv, [TrialsNext]_trial_vars
  PROVE  rows' = rows \/ \E r : rows' = Append(rows, r) /\ TrueRow(r) /\ AlikeRow(r)
<1>0. TrialsTypeOK /\ TaleFollows /\ CalmRow /\ HandIsOpen /\ TrialIsOwn
  BY DEF TrialsInv
<1>1. ASSUME NEW r, r.tale = Fresh(FALSE)
      PROVE  TrueRow(r) /\ AlikeRow(r)
  BY <1>1, FreshFacts DEF TrueRow, AlikeRow
<1>2. CASE RefusedRow
  BY <1>1, <1>2 DEF RefusedRow, NextRow
<1>3. CASE TrialRefused
  <2>1. pc = "refused" /\ Judged(FALSE, TRUE)
    BY <1>3 DEF TrialRefused
  <2>2. ~tale.calm
    BY <1>0, <2>1 DEF CalmRow
  <2>. QED
    BY <1>0, <2>1, <2>2, JudgedRow
<1>4. CASE SeeSettled
  <2>1. PICK ok : Resumes(ok, TRUE)
    BY <1>4 DEF SeeSettled
  <2>. QED
    BY <1>0, <2>1, ResumesFacts, JudgedRow
<1>5. CASE LeaveEarly
  <2>1. PICK ok : Resumes(ok, FALSE)
    BY <1>5 DEF LeaveEarly
  <2>2. CASE Judged(ok, FALSE)
    BY <1>1, <2>2, JudgedFacts
  <2>. QED
    BY <2>1, <2>2, ResumesFacts
<1>6. CASE \/ \E versions \in Comparisons : Compare(versions)
           \/ SelectVersion \/ OpenHand \/ GoHome \/ CountRuns \/ RunTrial \/ Restore
  BY <1>6, CallFacts DEF Compare, SelectVersion, OpenHand, GoHome, CountRuns, RunTrial, Restore
<1>7. CASE \E i \in Queue!Ids : Take(i) \/ Step(i) \/ Retire(i)
  BY <1>7 DEF Take, Step, Retire, Outside, judge_vars
<1>8. CASE ClientStep \/ UNCHANGED trial_vars
  BY <1>8, ClientFacts DEF trial_vars, judge_vars
<1>. QED
  BY <1>2, <1>3, <1>4, <1>5, <1>6, <1>7, <1>8, NextIsOneOf

LEMMA RowsStayTrue ==
  ASSUME TrialsInv, [TrialsNext]_trial_vars
  PROVE  RowsAreTrue' /\ TrialsStartAlike'
<1>1. /\ rows \in Seq(Rows)
      /\ \A r \in Rows : TrueRow(r) /\ AlikeRow(r)
  BY DEF TrialsInv, TrialsTypeOK, RowsAreTrue, TrialsStartAlike, TrueRow, AlikeRow
<1>2. \A r \in Rows' : TrueRow(r) /\ AlikeRow(r)
  <2>1. CASE rows' = rows
    BY <1>1, <2>1 DEF Rows
  <2>2. ASSUME NEW r, rows' = Append(rows, r), TrueRow(r) /\ AlikeRow(r)
        PROVE  \A x \in Rows' : TrueRow(x) /\ AlikeRow(x)
    <3>1. Rows' = Rows \cup {r}
      BY <1>1, <2>2, RowsGrow
    <3>. QED
      BY <1>1, <2>2, <3>1
  <2>. QED
    BY <2>1, <2>2, RowsAdded
<1>. QED
  BY <1>2 DEF RowsAreTrue, TrialsStartAlike, TrueRow, AlikeRow

-------------------------------------------------------------------------------
(* The version that was live.                                              *)

LEMMA PlainItems ==
  /\ Plain(Release) /\ Plain(Home) /\ Plain(Move) /\ Plain(Receipt)
  /\ \A v : Plain(<<Choose(v)>>)
BY ItemShapes DEF Plain

LEMMA QueueStaysPlain ==
  ASSUME TrialsTypeOK, QueueInOrder, PlainQueue, ~Chooses(TrialApp), [TrialsNext]_trial_vars
  PROVE  PlainQueue'
<1>0. Plain(TrialApp)
  BY DEF Plain
<1>1. ASSUME UNCHANGED <<fate, work>>  PROVE PlainQueue'
  BY <1>1 DEF PlainQueue, Unfinished, Plain, Chooses, Choice
<1>2. ASSUME NEW item, Accept(item), Plain(item)  PROVE PlainQueue'
  <2>. SUFFICES ASSUME NEW i \in Queue!Ids, Unfinished(i)'  PROVE Plain(work'[i])
    BY DEF PlainQueue, Plain, Chooses, Choice
  <2>1. (Unfinished(i) /\ work'[i] = work[i]) \/ work'[i] = item
    BY <1>2, AcceptedItems
  <2>. QED
    BY <1>2, <2>1 DEF PlainQueue
<1>3. ASSUME NEW here, NEW item, NEW next, Call(here, item, next), Plain(item)  PROVE PlainQueue'
  BY <1>1, <1>2, <1>3, CallFacts DEF queue_vars
<1>4. CASE SelectVersion \/ OpenHand \/ GoHome \/ RunTrial \/ Restore
  BY <1>0, <1>3, <1>4, PlainItems DEF SelectVersion, OpenHand, GoHome, RunTrial, Restore
<1>5. CASE \/ \E versions \in Comparisons : Compare(versions)
           \/ RefusedRow \/ CountRuns \/ TrialRefused \/ SeeSettled \/ LeaveEarly
  BY <1>1, <1>5 DEF Compare, RefusedRow, CountRuns, TrialRefused, SeeSettled, LeaveEarly, Resumes,
     Judged, queue_vars
<1>6. CASE \E k \in Queue!Ids : Take(k) \/ Step(k) \/ Retire(k)
  <2>1. \A i \in Queue!Ids : Unfinished(i)' => Unfinished(i) /\ work'[i] = work[i]
    BY <1>6, WorkerFacts
  <2>. QED
    BY <2>1 DEF PlainQueue, Plain, Chooses, Choice
<1>7. CASE ClientStep
  <2>1. ASSUME NEW item, Plain(item), ClientSubmits(item)  PROVE PlainQueue'
    BY <1>2, <2>1 DEF ClientSubmits
  <2>2. CASE Estop \/ EstopRequest \/ ClientResume
    BY <1>1, <2>2 DEF Estop, EstopRequest, ClientResume, queue_vars
  <2>3. CASE EstopDiscard
    <3>1. \A i \in Queue!Ids : Unfinished(i)' => Unfinished(i) /\ work'[i] = work[i]
      BY <2>3 DEF EstopDiscard, Queue!DropPending, Unfinished
    <3>. QED
      BY <3>1 DEF PlainQueue, Plain, Chooses, Choice
  <2>4. CASE QueueReceipt
    BY <1>1, <1>2, <2>4, PlainItems DEF QueueReceipt, queue_vars
  <2>. QED
    BY <1>7, <2>1, <2>2, <2>3, <2>4, PlainItems DEF ClientStep
<1>8. CASE UNCHANGED trial_vars
  BY <1>1, <1>8 DEF trial_vars, queue_vars
<1>. QED
  BY <1>4, <1>5, <1>6, <1>7, <1>8, NextIsOneOf

(* The last command takes the place of the one choice still pending, or is *)
(* queued as the only one.                                                 *)
LEMMA RestoreQueued ==
  ASSUME TrialsTypeOK, QueueInOrder, PlainQueue, UNCHANGED was, Accept(<<Choose(was)>>)
  PROVE  WillBeRestored'
<1>. DEFINE item == <<Choose(was)>>
<1>1. Choice(item)
  BY ItemShapes
<1>2. \A j \in Queue!Ids : fate[j] = "pending" /\ Chooses(work[j]) => Keyed(j)
  BY DEF PlainQueue, Plain, Unfinished, Keyed, Pending
<1>. SUFFICES \E i \in Queue!Ids :
                 /\ fate'[i] = "pending" /\ work'[i] = item
                 /\ \A j \in Queue!Ids : fate'[j] = "pending" /\ Chooses(work'[j]) => j = i
  BY DEF WillBeRestored, Chooses
<1>3. CASE Issues(item)
  <2>1. \A j \in Queue!Ids : ~Keyed(j)
    BY <1>1, <1>3 DEF Issues, Coalesces, Keyed
  <2>. HIDE DEF item
  <2>2. /\ Accepted' \in Queue!Ids /\ fate'[Accepted'] = "pending" /\ work'[Accepted'] = item
        /\ \A i \in Queue!Ids : i # Accepted' => fate'[i] = fate[i] /\ work'[i] = work[i]
    BY <1>3, IssueFacts
  <2>3. \A j \in Queue!Ids : fate'[j] = "pending" /\ Chooses(work'[j]) => j = Accepted'
    BY <1>2, <2>1, <2>2
  <2>. QED
    BY <2>2, <2>3
<1>4. CASE Replaces(item)
  <2>1. PICK k \in Pending : Keyed(k) /\ work' = [work EXCEPT ![k] = item]
    BY <1>4 DEF Replaces
  <2>2. k \in Queue!Ids /\ fate[k] = "pending" /\ UNCHANGED fate
    BY <1>4, <2>1 DEF Replaces, Pending
  <2>. HIDE DEF item
  <2>3. work'[k] = item /\ \A j \in Queue!Ids : j # k => work'[j] = work[j]
    BY <2>1, <2>2 DEF TrialsTypeOK
  <2>4. \A j \in Queue!Ids : fate'[j] = "pending" /\ Chooses(work'[j]) => j = k
    BY <1>2, <2>1, <2>2, <2>3 DEF QueueInOrder
  <2>. QED
    BY <2>2, <2>3, <2>4
<1>. QED
  BY <1>3, <1>4, AcceptFacts

LEMMA WorkerRestores ==
  ASSUME TrialsTypeOK, QueueInOrder, pc # "idle", ~latched, WillBeRestored,
         NEW k \in Queue!Ids, Take(k) \/ Step(k) \/ Retire(k)
  PROVE  WillBeRestored'
<1>0. was' = was /\ was \in Known
  BY WorkerFacts DEF judge_vars, TrialsTypeOK
<1>1. CASE Take(k)
  <2>1. /\ fate[k] = "pending" /\ fate'[k] = "running" /\ at = 0 /\ UNCHANGED <<work, live>>
        /\ \A j \in Queue!Ids : j # k => fate'[j] = fate[j]
        /\ work[k] # Receipt => at' = 1
    BY <1>1, TakeFacts DEF TakesUp, Queue!Start, TrialsTypeOK
  <2>2. \A j \in Queue!Ids : fate'[j] = "pending" => fate[j] = "pending" /\ j # k
    BY <2>1
  <2>3. ASSUME NEW i \in Queue!Ids, fate[i] = "pending", work[i] = <<Choose(was)>>,
               \A j \in Queue!Ids : fate[j] = "pending" /\ Chooses(work[j]) => j = i
        PROVE  WillBeRestored'
    <3>1. CASE i = k
      <4>1. at' > 0
        BY <2>1, <2>3, <3>1, ItemShapes
      <4>2. \A j \in Queue!Ids : fate'[j] = "pending" => ~Chooses(work'[j])
        BY <2>1, <2>2, <2>3, <3>1 DEF Chooses
      <4>. QED
        BY <1>0, <2>1, <2>3, <3>1, <4>1, <4>2 DEF WillBeRestored, Begun, Chooses
    <3>2. CASE i # k
      <4>1. \A j \in Queue!Ids : fate'[j] = "pending" /\ Chooses(work'[j]) => j = i
        BY <2>1, <2>2, <2>3 DEF Chooses
      <4>. QED
        BY <1>0, <2>1, <2>3, <3>2, <4>1 DEF WillBeRestored, Chooses
    <3>. QED
      BY <3>1, <3>2
  <2>4. ASSUME \A j \in Queue!Ids : fate[j] = "pending" => ~Chooses(work[j]), live = was
        PROVE  WillBeRestored'
    <3>1. \A j \in Queue!Ids : fate'[j] \in {"pending", "running"} => fate[j] # "pending" \/ ~Chooses(work[j])
      BY <2>4
    <3>2. \A j \in Queue!Ids : fate[j] # "running"
      BY <1>1, TakeFacts DEF TakesUp, Queue!Start
    <3>3. \A j \in Queue!Ids : fate'[j] \in {"pending", "running"} => fate[j] = "pending"
      BY <2>1, <3>2
    <3>. QED
      BY <1>0, <2>1, <2>4, <3>3 DEF WillBeRestored, Begun, Chooses
  <2>. QED
    BY <2>1, <2>3, <2>4 DEF WillBeRestored, Begun
<1>2. CASE Step(k)
  <2>1. /\ fate[k] = "running" /\ at \in 1..Len(work[k]) /\ Effect(k, work[k][at])
        /\ at' = 0 \/ (at < Len(work[k]) /\ at' = at + 1)
        /\ UNCHANGED <<fate, work>>
    BY <1>2, StepFacts DEF queue_vars
  <2>2. \A i \in Queue!Ids : fate[i] = "running" => i = k
    BY <2>1, OnlyOneRuns
  <2>3. CASE \E i \in Queue!Ids :
               /\ fate[i] = "pending" /\ work[i] = <<Choose(was)>>
               /\ \A j \in Queue!Ids : fate[j] = "pending" /\ Chooses(work[j]) => j = i
    BY <1>0, <2>1, <2>3 DEF WillBeRestored, Chooses
  <2>4. CASE /\ \A j \in Queue!Ids : fate[j] = "pending" => ~Chooses(work[j])
             /\ work[k] = <<Choose(was)>>
    <3>1. Len(work[k]) = 1 /\ work[k][1] = Choose(was)
      BY <2>4, ItemShapes
    <3>2. at = 1 /\ at' = 0
      BY <2>1, <3>1
    <3>3. work[k][at].do = "choose" /\ work[k][at].version = was
      BY <3>1, <3>2 DEF Choose
    <3>4. live' = was
      BY <1>0, <2>1, <3>3 DEF Effect, Drives
    <3>. QED
      BY <1>0, <2>1, <2>4, <3>2, <3>4 DEF WillBeRestored, Begun, Chooses
  <2>5. CASE /\ \A j \in Queue!Ids : fate[j] = "pending" \/ Begun(j) => ~Chooses(work[j])
             /\ live = was
    <3>1. at > 0 /\ at \in DOMAIN work[k]
      BY <2>1 DEF QueueInOrder, Unfinished, Command
    <3>2. ~Chooses(work[k])
      BY <2>1, <2>5, <3>1 DEF Begun
    <3>3. work[k][at].do # "choose"
      BY <3>1, <3>2 DEF Chooses
    <3>4. live' = live
      BY <2>1, <3>3 DEF Effect, Records
    <3>5. \A j \in Queue!Ids : Begun(j)' => Begun(j)
      BY <2>1, <3>1 DEF Begun
    <3>. QED
      BY <1>0, <2>1, <2>5, <3>4, <3>5 DEF WillBeRestored, Chooses
  <2>. QED
    BY <2>2, <2>3, <2>4, <2>5 DEF WillBeRestored, Begun
<1>3. CASE Retire(k)
  <2>1. /\ fate[k] = "running" /\ fate'[k] = "done" /\ at = 0 /\ UNCHANGED <<at, live>>
        /\ \A j \in Queue!Ids : j # k => fate'[j] = fate[j] /\ work'[j] = work[j]
    BY <1>3 DEF Retire, Queue!End, TrialsTypeOK, cell_vars
  <2>2. \A j \in Queue!Ids : fate'[j] = "pending" => fate[j] = "pending" /\ work'[j] = work[j]
    BY <2>1
  <2>3. ASSUME NEW i \in Queue!Ids, fate[i] = "pending", work[i] = <<Choose(was)>>,
               \A j \in Queue!Ids : fate[j] = "pending" /\ Chooses(work[j]) => j = i
        PROVE  WillBeRestored'
    <3>1. \A j \in Queue!Ids : fate'[j] = "pending" /\ Chooses(work'[j]) => j = i
      BY <2>2, <2>3 DEF Chooses
    <3>. QED
      BY <1>0, <2>1, <2>3, <3>1 DEF WillBeRestored, Chooses
  <2>4. ASSUME \A j \in Queue!Ids : fate[j] = "pending" => ~Chooses(work[j]), live = was
        PROVE  WillBeRestored'
    BY <1>0, <2>1, <2>2, <2>4 DEF WillBeRestored, Begun, Chooses
  <2>. QED
    BY <2>1, <2>3, <2>4 DEF WillBeRestored, Begun
<1>. QED
  BY <1>1, <1>2, <1>3

LEMMA RestoresStay ==
  ASSUME TrialsTypeOK, QueueInOrder, CalmCell, Restores, [TrialsNext]_trial_vars
  PROVE  Restores'
<1>1. ~Chooses(TrialApp) => PlainQueue'
  BY QueueStaysPlain DEF Restores
<1>2. ASSUME calls' = 0, early' = 0 \/ ~Chooses(TrialApp), pc' \in {"restored", "done"}
      PROVE  WillBeRestored'
  <2>1. ~ClientStep /\ calls = 0
    <3>1. calls \in Nat /\ (calls = 0 => verb = "free")
      BY DEF TrialsTypeOK, CalmCell
    <3>2. ~ClientStep
      <4>1. ClientStep => calls' = calls + 1 \/ (calls' = calls /\ verb # "free")
        BY ClientFacts
      <4>. QED
        BY <1>2, <3>1, <4>1
    <3>3. ASSUME NEW i \in Queue!Ids, Take(i) \/ Step(i) \/ Retire(i)  PROVE UNCHANGED calls
      BY <3>3, WorkerFacts DEF other_vars
    <3>4. UNCHANGED trial_vars => UNCHANGED calls
      BY DEF trial_vars, other_vars
    <3>5. UNCHANGED calls
      BY <3>2, <3>3, <3>4, ComparerFacts, NextIsOneOf DEF other_vars
    <3>. QED
      BY <1>2, <3>2, <3>5
  <2>2. ~latched
    BY <2>1 DEF CalmCell
  <2>3. ASSUME UNCHANGED early, pc \in {"restored", "done"}
        PROVE  WillBeRestored
    BY <1>2, <2>1, <2>3 DEF Restores
  <2>4. CASE Restore
    <3>1. /\ pc = "restore" /\ UNCHANGED <<was, early>>
          /\ Full(<<Choose(was)>>) \/ Accept(<<Choose(was)>>)
          /\ pc' = IF Full(<<Choose(was)>>) THEN "lost" ELSE "restored"
      BY <2>4, CallFacts DEF Restore
    <3>2. Accept(<<Choose(was)>>)
      BY <1>2, <3>1
    <3>3. PlainQueue
      <4>1. CASE early = 0
        <5>1. NothingRuns
          BY <2>1, <3>1, <4>1 DEF CalmCell
        <5>. QED
          BY <5>1 DEF NothingRuns, PlainQueue
      <4>2. CASE ~Chooses(TrialApp)
        BY <4>2 DEF Restores
      <4>. QED
        BY <1>2, <3>1, <4>1, <4>2
    <3>. QED
      BY <3>1, <3>2, <3>3, RestoreQueued
  <2>5. CASE SeeSettled \/ LeaveEarly
    <3>1. PICK ok, calm : Resumes(ok, calm)
      BY <2>5 DEF SeeSettled, LeaveEarly
    <3>2. pc = "restored" /\ UNCHANGED was
      BY <1>2, <3>1, ResumesFacts, JudgedFacts
    <3>3. UNCHANGED <<fate, work, at, live>>
      BY <3>1 DEF Resumes, Judged, queue_vars, cell_vars
    <3>4. early = 0 \/ ~Chooses(TrialApp)
      <4>1. early \in Nat
        BY DEF TrialsTypeOK
      <4>2. early' = early \/ early' = early + 1
        BY <2>5 DEF SeeSettled, LeaveEarly
      <4>. QED
        BY <1>2, <4>1, <4>2
    <3>5. WillBeRestored
      BY <2>1, <3>2, <3>4 DEF Restores
    <3>. QED
      BY <3>2, <3>3, <3>5 DEF WillBeRestored, Begun
  <2>6. CASE \/ \E versions \in Comparisons : Compare(versions)
             \/ SelectVersion \/ RefusedRow \/ OpenHand \/ GoHome \/ CountRuns \/ RunTrial
             \/ TrialRefused
    BY <1>2, <2>6, CallFacts DEF Compare, SelectVersion, RefusedRow, NextRow, OpenHand, GoHome,
       CountRuns, RunTrial, TrialRefused, Judged
  <2>7. ASSUME NEW k \in Queue!Ids, Take(k) \/ Step(k) \/ Retire(k)
        PROVE  WillBeRestored'
    <3>1. UNCHANGED <<pc, early>>
      BY <2>7, WorkerFacts DEF judge_vars
    <3>. QED
      BY <1>2, <2>2, <2>3, <2>7, <3>1, WorkerRestores
  <2>8. CASE UNCHANGED trial_vars
    BY <1>2, <2>3, <2>8 DEF trial_vars, judge_vars, queue_vars, cell_vars, WillBeRestored, Begun
  <2>. QED
    BY <2>1, <2>4, <2>5, <2>6, <2>7, <2>8, NextIsOneOf
<1>. QED
  BY <1>1, <1>2 DEF Restores

-------------------------------------------------------------------------------
(* Every reachable state.                                                  *)

LEMMA TrialsInitInv ==
  TrialsInit => TrialsInv
<1>. SUFFICES ASSUME TrialsInit  PROVE TrialsInv
  OBVIOUS
<1>1. /\ \A i \in Queue!Ids : fate[i] = "free"
      /\ fate \in [Queue!Ids -> Queue!Fates] /\ DOMAIN work = Queue!Ids
  BY DEF TrialsInit, Queue!LedgerInit, Queue!Fates
<1>2. NothingRuns /\ \A i \in Queue!Ids : ~Unfinished(i) /\ ~Keyed(i) /\ fate[i] # "running"
  BY <1>1 DEF NothingRuns, Unfinished, Keyed, Pending
<1>3. Accepted = 0
  <2>1. Issued = {}
    BY <1>1 DEF Issued
  <2>. QED
    BY <2>1, FS_EmptySet DEF Accepted
<1>4. rows = <<>> /\ Rows = {} /\ rows \in Seq(Rows)
  <2>1. rows = <<>>
    BY DEF TrialsInit
  <2>. QED
    BY <2>1 DEF Rows
<1>5. tale = Fresh(TRUE) /\ tale \in Tales /\ tale.trial = 0 /\ ~tale.homed /\ ~tale.start.homed
      /\ tale.calm
  BY FreshIsTale, FreshFacts DEF TrialsInit
<1>6. TrialsTypeOK
  <2>1. live = Default /\ Default \in Known
    BY TrialsAssumption DEF TrialsInit
  <2>. QED
    BY <1>1, <1>4, <1>5, <2>1 DEF TrialsInit, TrialsTypeOK
<1>7. QueueInOrder
  BY <1>1, <1>2, <1>3, TrialsAssumption DEF TrialsInit, QueueInOrder, Queue!Ids
<1>8. TaleFollows
  <2>1. pc = "idle"
    BY DEF TrialsInit
  <2>2. tale.trial \in 0..Accepted
    <3>1. tale.trial = 0
      BY <1>5
    <3>2. 0 \in 0..0
      OBVIOUS
    <3>. QED
      BY <1>3, <3>1, <3>2
  <2>3. ~Preparing
    BY <2>1 DEF Preparing
  <2>4. tale.homed \in BOOLEAN /\ tale.start.homed \in BOOLEAN /\ tale.calm
    BY <1>5 DEF Tales, Starts
  <2>. QED
    BY <1>5, <2>2, <2>3, <2>4, Zenon DEF TaleFollows
<1>9. CalmCell
  <2>1. ~latched /\ ~cancel /\ verb = "free" /\ applied = 0
    BY DEF TrialsInit, SupInit
  <2>. QED
    BY <1>2, <1>5, <2>1 DEF CalmCell
<1>10. CalmRow /\ HandIsOpen /\ TrialIsOwn
  BY DEF TrialsInit, CalmRow, HandIsOpen, TrialIsOwn
<1>11. Restores
  BY <1>2 DEF TrialsInit, Restores, PlainQueue
<1>12. RowsAreTrue /\ TrialsStartAlike
  BY <1>4 DEF RowsAreTrue, TrialsStartAlike
<1>. QED
  BY <1>6, <1>7, <1>8, <1>9, <1>10, <1>11, <1>12 DEF TrialsInv

LEMMA NextKeepsTrialsInv ==
  TrialsInv /\ [TrialsNext]_trial_vars => TrialsInv'
<1>. SUFFICES ASSUME TrialsInv, [TrialsNext]_trial_vars  PROVE TrialsInv'
  OBVIOUS
<1>0. TrialsTypeOK /\ QueueInOrder /\ TaleFollows /\ CalmCell /\ CalmRow /\ HandIsOpen
      /\ TrialIsOwn /\ Restores
  BY DEF TrialsInv
<1>1. TrialsTypeOK' /\ QueueInOrder'
  BY <1>0, TypesStay, QueueStaysInOrder
<1>2. TaleFollows'
  BY <1>0, TaleStillFollows
<1>3. CalmCell' /\ CalmRow'
  BY <1>0, CalmCellStays, CalmRowStays
<1>4. HandIsOpen' /\ TrialIsOwn'
  BY <1>0, HandStaysOpen, TrialStaysOwn
<1>5. Restores'
  BY <1>0, RestoresStay
<1>6. RowsAreTrue' /\ TrialsStartAlike'
  BY RowsStayTrue
<1>. QED
  BY <1>1, <1>2, <1>3, <1>4, <1>5, <1>6 DEF TrialsInv

(* In every reachable state the queue is in order, the history of an       *)
(* undisturbed row is that of its own trial, and the version that was live *)
(* is live again or about to be.                                           *)
THEOREM TrialsInvariant ==
  TrialsSpec => []TrialsInv
BY TrialsInitInv, NextKeepsTrialsInv, PTL DEF TrialsSpec

(* Every row of an undisturbed trial is about that trial: the record it    *)
(* shows was made by it, and none is missing.                              *)
THEOREM RowsAreOfTheirTrial ==
  TrialsSpec => []RowsAreTrue
<1>1. TrialsInv => RowsAreTrue
  BY DEF TrialsInv
<1>. QED
  BY <1>1, TrialsInvariant, PTL

(* Every undisturbed trial begins with an empty gripper, if the queue has  *)
(* room to open it, and at the start unless its own way there failed.      *)
THEOREM TrialsBeginAlike ==
  TrialsSpec => []TrialsStartAlike
<1>1. TrialsInv => TrialsStartAlike
  BY DEF TrialsInv
<1>. QED
  BY <1>1, TrialsInvariant, PTL

(* A comparison that is over, and its commands with it, leaves the cell on *)
(* the version it found.                                                   *)
THEOREM ComparingChangesNothing ==
  TrialsSpec => []LiveVersionRestored
<1>1. TrialsInv => LiveVersionRestored
  <2>. SUFFICES ASSUME TrialsInv, pc = "done", Quiet, calls = 0,
                       early = 0 \/ ~Chooses(TrialApp)
       PROVE  live = was
    BY DEF LiveVersionRestored
  <2>1. WillBeRestored
    BY DEF TrialsInv, Restores
  <2>2. \A i \in Queue!Ids : fate[i] # "pending" /\ ~Begun(i)
    BY QuietIsIdle DEF NothingRuns, Unfinished, Begun
  <2>. QED
    BY <2>1, <2>2 DEF WillBeRestored
<1>. QED
  BY <1>1, TrialsInvariant, PTL

-------------------------------------------------------------------------------
(* Documents.                                                              *)

RobotSheets ==
  [kind : {"robots"}, world : BOOLEAN, nodes : Seq(NodeSpecs), robots : Seq(RobotSpecs),
   motions : Seq(MotionSpecs), families : Seq(FamilySpecs)]
SceneSheets ==
  [kind : {"scenes"}, base : BOOLEAN, objects : Seq(SceneObjects), overrides : Seq(SceneOverrides)]
AppSheets == [kind : {"apps"}, program : Seq(AppSteps)]
Sheets    == RobotSheets \cup SceneSheets \cup AppSheets \cup {Nothing}

(* What a scene has done to the base world, override by override.          *)
Follows(world, scene) ==
  world = [k \in 0..Len(scene.overrides) |->
             IF k = 0 THEN BaseWorld ELSE ApplyOverride(world[k - 1], scene.overrides[k])]

Worlds == [ok : BOOLEAN, bodies : SUBSET Bodies, at : [Bodies -> Places \cup {Unset}], added : {<<>>}]

Moves(scene, b) ==
  {k \in DOMAIN scene.overrides : scene.overrides[k].name = b /\ scene.overrides[k].pos # Unset}

(* Of the positions given to a body one is the last.                       *)
HasLast(scene) ==
  \A b : Moves(scene, b) = {} \/ \E k \in Moves(scene, b) : \A j \in Moves(scene, b) : j <= k

(* A world that is what the scene says of it, read as a whole.             *)
Described(w, scene) ==
  /\ w \in Worlds
  /\ w.ok <=> Sound(scene)
  /\ w.ok =>
       /\ w.bodies = {b \in Bodies : ~GoneBefore(scene, b, Len(scene.overrides) + 1)}
       /\ \A b \in w.bodies : w.at[b] = GivenPlace(scene, b)

(* The overrides can be applied one by one, and what they leave is what    *)
(* the scene says.                                                         *)
ReadsAlike(scene) ==
  /\ \E world : Follows(world, scene)
  /\ \A world : Follows(world, scene) => Described(world[Len(scene.overrides)], scene)
  /\ HasLast(scene)

Deployable == outcome \notin {"unreadable", "unbound", "unknown verb"}

DocumentsInv ==
  /\ sheet \in Sheets /\ sheet.kind = kind
  /\ saved = Nothing \/ (saved \in Sheets /\ saved.kind = kind /\ Storable(saved))
  /\ Deployable
  /\ kind = "scenes" => ReadsAlike(sheet)
  /\ saved.kind = "scenes" => ReadsAlike(saved)

-------------------------------------------------------------------------------
(* Robots.                                                                 *)

(* An axis the document has is a node of the cell, and the only one.       *)
LEMMA AxisHasSlot ==
  ASSUME NEW d \in RobotSheets, ~SharedIds(d), NEW id, HasAxis(d, id)
  PROVE  /\ IndexOf(d, id) \in DOMAIN d.nodes /\ IndexOf(d, id) # NoSlot
         /\ d.nodes[IndexOf(d, id)].id = id
<1>1. d.nodes \in Seq(NodeSpecs)
  BY DEF RobotSheets
<1>2. DOMAIN d.nodes = 1..Len(d.nodes) /\ Len(d.nodes) \in Nat
  BY <1>1, LenProperties
<1>3. PICK k \in DOMAIN d.nodes : d.nodes[k].id = id
  BY DEF HasAxis
<1>4. {j \in DOMAIN d.nodes : d.nodes[j].id = id} = {k}
  <2>. SUFFICES ASSUME NEW j \in DOMAIN d.nodes, d.nodes[j].id = id  PROVE j = k
    BY <1>3
  <2>1. ~(j < k) /\ ~(k < j)
    BY <1>3 DEF SharedIds
  <2>. QED
    BY <1>2, <2>1
<1>5. IndexOf(d, id) = CHOOSE j \in {k} : \A i \in {k} : j <= i
  BY <1>4 DEF IndexOf
<1>6. k <= k
  BY <1>2
<1>7. IndexOf(d, id) = k
  BY <1>5, <1>6
<1>. QED
  BY <1>2, <1>3, <1>7 DEF NoSlot

LEMMA NoAxisNoSlot ==
  ASSUME NEW d, NEW id, ~HasAxis(d, id)
  PROVE  IndexOf(d, id) = NoSlot
BY DEF HasAxis, IndexOf

LEMMA ShortIsSeq ==
  ASSUME NEW n \in Nat
  PROVE  Short(n) \subseteq Seq(Axes)
BY SeqDef DEF Short

LEMMA CheckedRobotBinds ==
  ASSUME NEW d \in RobotSheets, ~SharedIds(d), NEW r \in RobotSpecs, RobotOk(d, r)
  PROVE  Binds(d, r)
<1>1. r.carrier \in Seq(Axes) /\ r.joints \in Seq(Axes)
  <2>1. <<>> \in Seq(Axes)
    BY EmptySeq
  <2>. QED
    BY <2>1, ShortIsSeq DEF RobotSpecs
<1>2. /\ ChainIds(r) \in Seq(Axes)
      /\ \A k \in DOMAIN ChainIds(r) :
           \/ k \in DOMAIN r.carrier /\ ChainIds(r)[k] = r.carrier[k]
           \/ \E j \in DOMAIN r.joints : ChainIds(r)[k] = r.joints[j]
  <2>1. /\ ChainIds(r) \in Seq(Axes) /\ Len(ChainIds(r)) = Len(r.carrier) + Len(r.joints)
        /\ \A k \in 1..(Len(r.carrier) + Len(r.joints)) :
             ChainIds(r)[k] = IF k <= Len(r.carrier) THEN r.carrier[k]
                              ELSE r.joints[k - Len(r.carrier)]
    BY <1>1, ConcatProperties DEF ChainIds
  <2>2. /\ Len(r.carrier) \in Nat /\ Len(r.joints) \in Nat
        /\ DOMAIN r.carrier = 1..Len(r.carrier) /\ DOMAIN r.joints = 1..Len(r.joints)
        /\ DOMAIN ChainIds(r) = 1..Len(ChainIds(r))
    BY <1>1, <2>1, LenProperties
  <2>. SUFFICES ASSUME NEW k \in DOMAIN ChainIds(r)
       PROVE  \/ k \in DOMAIN r.carrier /\ ChainIds(r)[k] = r.carrier[k]
              \/ \E j \in DOMAIN r.joints : ChainIds(r)[k] = r.joints[j]
    BY <2>1
  <2>3. k \in 1..(Len(r.carrier) + Len(r.joints))
    BY <2>1, <2>2
  <2>4. ChainIds(r)[k] = IF k <= Len(r.carrier) THEN r.carrier[k]
                         ELSE r.joints[k - Len(r.carrier)]
    BY <2>1, <2>3
  <2>5. CASE k <= Len(r.carrier)
    <3>1. k \in DOMAIN r.carrier
      BY <2>2, <2>3, <2>5
    <3>. QED
      BY <2>4, <2>5, <3>1
  <2>6. CASE ~(k <= Len(r.carrier))
    <3>1. \A c, j \in Nat : k \in 1..(c + j) /\ ~(k <= c) => k - c \in 1..j
      OBVIOUS
    <3>2. k - Len(r.carrier) \in 1..Len(r.joints)
      BY <2>2, <2>3, <2>6, <3>1
    <3>. QED
      BY <2>2, <2>4, <2>6, <3>2
  <2>. QED
    BY <2>5, <2>6
<1>3. \A k \in DOMAIN ChainIds(r) : HasAxis(d, ChainIds(r)[k])
  BY <1>2 DEF RobotOk, CheckAxisRefs
<1>4. \A k \in DOMAIN ChainIds(r) : IndexOf(d, ChainIds(r)[k]) # NoSlot
  BY <1>3, AxisHasSlot
<1>. QED
  BY <1>4 DEF Binds, RobotOk, Resolve, ToSet

(* Once one list has waypoints, all that have any have as many.            *)
LEMMA ListsAreAlike ==
  ASSUME NEW d, NEW m \in MotionSpecs, MotionOk(d, m),
         NEW a \in DOMAIN m.waypoints, m.waypoints[a] > 0,
         NEW b \in DOMAIN m.waypoints, m.waypoints[b] > 0
  PROVE  m.waypoints[a] = m.waypoints[b]
<1>1. DOMAIN m.waypoints \subseteq Axes
  BY DEF MotionSpecs
<1>2. PICK j, k \in DOMAIN AxisOrder : AxisOrder[j] = a /\ AxisOrder[k] = b
  BY <1>1 DEF Axes, ToSet
<1>3. DOMAIN AxisOrder \subseteq Nat
  <2>1. AxisOrder \in Seq(Axes)
    BY DescriptorsAssumption
  <2>2. Len(AxisOrder) \in Nat /\ DOMAIN AxisOrder = 1..Len(AxisOrder)
    BY <2>1, LenProperties
  <2>. QED
    BY <2>2
<1>4. m.waypoints[a] # 0 /\ m.waypoints[b] # 0
  OBVIOUS
<1>5. j < k => m.waypoints[b] = m.waypoints[a]
  BY <1>2, <1>4 DEF MotionOk
<1>6. k < j => m.waypoints[a] = m.waypoints[b]
  BY <1>2, <1>4 DEF MotionOk
<1>. QED
  BY <1>2, <1>3, <1>5, <1>6

LEMMA StoredMotionRuns ==
  ASSUME NEW d \in RobotSheets, ~SharedIds(d), NEW m \in MotionSpecs, MotionOk(d, m)
  PROVE  MotionAsWritten(d, m)
<1>. SUFFICES ASSUME NEW a \in DOMAIN m.waypoints, m.waypoints[a] > 0
     PROVE  /\ Runs(m)
            /\ \A b \in Axes :
                 LET slot == IndexOf(d, b)
                     given == b \in DOMAIN m.waypoints /\ m.waypoints[b] > 0
                 IN  /\ given => slot # NoSlot
                     /\ slot # NoSlot => ComposeNamed(d, m)[slot] = IF given THEN b ELSE Held
  BY DEF MotionAsWritten
<1>1. \A b \in DOMAIN m.waypoints : m.waypoints[b] \in Lengths /\ m.waypoints[b] \in Nat
  <2>1. m.waypoints \in UNION {[S -> Lengths] : S \in SUBSET Axes}
    BY DEF MotionSpecs
  <2>2. PICK S \in SUBSET Axes : m.waypoints \in [S -> Lengths]
    BY <2>1
  <2>3. Lengths \subseteq Nat
    BY DescriptorsAssumption
  <2>. QED
    BY <2>2, <2>3
<1>. DEFINE most == m.waypoints[a]
<1>2. \A b \in DOMAIN m.waypoints : m.waypoints[b] = 0 \/ m.waypoints[b] = most
  BY <1>1, ListsAreAlike
<1>3. LongestList(m) = most
  <2>1. /\ most \in Lengths
        /\ \E b \in DOMAIN m.waypoints : m.waypoints[b] = most
        /\ \A b \in DOMAIN m.waypoints : m.waypoints[b] <= most
    BY <1>1, <1>2
  <2>2. ASSUME NEW n \in Lengths, \E b \in DOMAIN m.waypoints : m.waypoints[b] = n,
               \A b \in DOMAIN m.waypoints : m.waypoints[b] <= n
        PROVE  n = most
    BY <1>1, <1>2, <2>2
  <2>3. DOMAIN m.waypoints # {}
    OBVIOUS
  <2>. HIDE DEF most
  <2>. QED
    BY <2>1, <2>2, <2>3 DEF LongestList
<1>4. Runs(m)
  BY <1>3 DEF Runs
<1>5. ASSUME NEW b \in Axes
      PROVE  LET slot == IndexOf(d, b)
                 given == b \in DOMAIN m.waypoints /\ m.waypoints[b] > 0
             IN  /\ given => slot # NoSlot
                 /\ slot # NoSlot => ComposeNamed(d, m)[slot] = IF given THEN b ELSE Held
  <2>1. b \in DOMAIN m.waypoints => HasAxis(d, b)
    BY DEF MotionOk
  <2>2. CASE ~HasAxis(d, b)
    BY <2>1, <2>2, NoAxisNoSlot
  <2>3. CASE HasAxis(d, b)
    <3>1. /\ IndexOf(d, b) \in DOMAIN d.nodes /\ IndexOf(d, b) # NoSlot
          /\ d.nodes[IndexOf(d, b)].id = b
      BY <2>3, AxisHasSlot
    <3>2. ComposeNamed(d, m)[IndexOf(d, b)] =
            IF b \notin DOMAIN m.waypoints THEN Held
            ELSE IF m.waypoints[b] # most THEN Held ELSE b
      BY <1>3, <3>1 DEF ComposeNamed
    <3>3. b \in DOMAIN m.waypoints => (m.waypoints[b] = most <=> m.waypoints[b] > 0)
      BY <1>1, <1>2
    <3>. QED
      BY <3>1, <3>2, <3>3
  <2>. QED
    BY <2>2, <2>3
<1>. QED
  BY <1>4, <1>5

(* A robot that reads back binds, and its motions are as they were written. *)
LEMMA StoredRobotDeploys ==
  ASSUME NEW d \in RobotSheets, ParseCell(d)
  PROVE  /\ \A k \in DOMAIN d.robots : Binds(d, d.robots[k])
         /\ \A k \in DOMAIN d.motions : MotionAsWritten(d, d.motions[k])
<1>1. ~SharedIds(d)
  BY DEF ParseCell, Validate
<1>2. /\ \A k \in DOMAIN d.robots : d.robots[k] \in RobotSpecs
      /\ \A k \in DOMAIN d.motions : d.motions[k] \in MotionSpecs
  BY ElementOfSeq, LenProperties DEF RobotSheets
<1>. QED
  BY <1>1, <1>2, CheckedRobotBinds, StoredMotionRuns DEF ParseCell, Validate

-------------------------------------------------------------------------------
(* Scenes.                                                                 *)

(* A scene and the same scene with one more override.                      *)
Extends(scene2, scene, o) ==
  LET n == Len(scene.overrides)
  IN  /\ n \in Nat
      /\ DOMAIN scene.overrides = 1..n /\ DOMAIN scene2.overrides = 1..(n + 1)
      /\ Len(scene2.overrides) = n + 1
      /\ \A k \in 1..n : scene2.overrides[k] = scene.overrides[k]
      /\ scene2.overrides[n + 1] = o

LEMMA AppendExtends ==
  ASSUME NEW scene \in SceneSheets, NEW o \in SceneOverrides,
         NEW scene2, scene2.overrides = Append(scene.overrides, o)
  PROVE  Extends(scene2, scene, o)
<1>1. scene.overrides \in Seq(SceneOverrides)
  BY DEF SceneSheets
<1>2. /\ Len(scene.overrides) \in Nat /\ DOMAIN scene.overrides = 1..Len(scene.overrides)
      /\ Len(scene2.overrides) = Len(scene.overrides) + 1
      /\ scene2.overrides \in Seq(SceneOverrides)
      /\ \A k \in 1..Len(scene.overrides) : scene2.overrides[k] = scene.overrides[k]
      /\ scene2.overrides[Len(scene.overrides) + 1] = o
  BY <1>1, AppendProperties, LenProperties
<1>3. DOMAIN scene2.overrides = 1..(Len(scene.overrides) + 1)
  BY <1>2, LenProperties
<1>. QED
  BY <1>2, <1>3 DEF Extends

(* What one more override hides, and what of the scene stays sound.        *)
LEMMA OneMoreHides ==
  ASSUME NEW scene, NEW scene2, NEW o, Extends(scene2, scene, o)
  PROVE  LET n == Len(scene.overrides)
         IN  /\ \A b : \A k \in 1..(n + 1) : GoneBefore(scene2, b, k) <=> GoneBefore(scene, b, k)
             /\ \A b : GoneBefore(scene2, b, n + 2) <=>
                         \/ GoneBefore(scene, b, n + 1)
                         \/ o.visible = "no" /\ o.name \in {b} \cup Within[b]
<1>. DEFINE n == Len(scene.overrides)
<1>1. n \in Nat
  BY DEF Extends
<1>2. \A b : \A j \in 1..n : HidesAt(scene2, b, j) <=> HidesAt(scene, b, j)
  BY DEF Extends, HidesAt
<1>3. \A b : HidesAt(scene2, b, n + 1) <=> o.visible = "no" /\ o.name \in {b} \cup Within[b]
  BY DEF Extends, HidesAt
<1>4. /\ \A k \in 1..(n + 1) : 1..(k - 1) \subseteq 1..n
      /\ 1..((n + 2) - 1) = (1..n) \cup {n + 1}
      /\ 1..((n + 1) - 1) = 1..n
  BY <1>1
<1>. HIDE DEF n
<1>5. \A b : \A k \in 1..(n + 1) : GoneBefore(scene2, b, k) <=> GoneBefore(scene, b, k)
  BY <1>2, <1>4 DEF GoneBefore
<1>6. ASSUME NEW b
      PROVE  GoneBefore(scene2, b, n + 2) <=>
               GoneBefore(scene, b, n + 1) \/ (o.visible = "no" /\ o.name \in {b} \cup Within[b])
  <2>1. GoneBefore(scene2, b, n + 2) <=> \E j \in (1..n) \cup {n + 1} : HidesAt(scene2, b, j)
    BY <1>4 DEF GoneBefore
  <2>2. GoneBefore(scene, b, n + 1) <=> \E j \in 1..n : HidesAt(scene, b, j)
    BY <1>4 DEF GoneBefore
  <2>. QED
    BY <1>2, <1>3, <2>1, <2>2
<1>. QED
  BY <1>5, <1>6 DEF n

LEMMA OneMoreIsSound ==
  ASSUME NEW scene, NEW scene2, NEW o, Extends(scene2, scene, o)
  PROVE  Sound(scene2) <=>
           /\ Sound(scene) /\ o.name \in Bodies
           /\ ~GoneBefore(scene, o.name, Len(scene.overrides) + 1)
<1>. DEFINE n == Len(scene.overrides)
            At(sc, k) == sc.overrides[k].name \in Bodies /\ ~GoneBefore(sc, sc.overrides[k].name, k)
<1>1. n \in Nat /\ 1..(n + 1) = (1..n) \cup {n + 1}
  BY DEF Extends
<1>2. /\ Sound(scene2) <=> \A k \in 1..(n + 1) : At(scene2, k)
      /\ Sound(scene) <=> \A k \in 1..n : At(scene, k)
  BY DEF Sound, Extends
<1>3. ASSUME NEW k \in 1..n
      PROVE  At(scene2, k) <=> At(scene, k)
  <2>1. k \in 1..(n + 1)
    BY <1>1
  <2>2. \A b : GoneBefore(scene2, b, k) <=> GoneBefore(scene, b, k)
    BY <2>1, OneMoreHides
  <2>3. scene2.overrides[k] = scene.overrides[k]
    BY DEF Extends
  <2>. QED
    BY <2>2, <2>3
<1>4. At(scene2, n + 1) <=> o.name \in Bodies /\ ~GoneBefore(scene, o.name, n + 1)
  <2>1. n + 1 \in 1..(n + 1)
    BY <1>1
  <2>2. \A b : GoneBefore(scene2, b, n + 1) <=> GoneBefore(scene, b, n + 1)
    BY <2>1, OneMoreHides
  <2>3. scene2.overrides[n + 1] = o
    BY DEF Extends
  <2>. QED
    BY <2>2, <2>3
<1>. HIDE DEF At
<1>. QED
  BY <1>1, <1>2, <1>3, <1>4

(* The last position given to a body, when one more override gives one.    *)
LEMMA OneMoreMoves ==
  ASSUME NEW scene, NEW scene2, NEW o, Extends(scene2, scene, o), HasLast(scene)
  PROVE  /\ HasLast(scene2)
         /\ \A b : GivenPlace(scene2, b) =
                     IF o.name = b /\ o.pos # Unset THEN o.pos ELSE GivenPlace(scene, b)
<1>. DEFINE n == Len(scene.overrides)
<1>1. n \in Nat /\ 1..(n + 1) = (1..n) \cup {n + 1}
  BY DEF Extends
<1>2. ASSUME NEW b
      PROVE  /\ Moves(scene, b) \subseteq 1..n
             /\ Moves(scene2, b) = IF o.name = b /\ o.pos # Unset THEN Moves(scene, b) \cup {n + 1}
                                   ELSE Moves(scene, b)
  BY <1>1 DEF Extends, Moves
<1>3. ASSUME NEW sc, NEW b
      PROVE  GivenPlace(sc, b) =
               IF Moves(sc, b) = {} THEN Unset
               ELSE sc.overrides[CHOOSE k \in Moves(sc, b) : \A j \in Moves(sc, b) : j <= k].pos
  BY DEF GivenPlace, Moves
<1>4. ASSUME NEW b, o.name = b, o.pos # Unset
      PROVE  /\ n + 1 \in Moves(scene2, b) /\ \A j \in Moves(scene2, b) : j <= n + 1
             /\ GivenPlace(scene2, b) = o.pos
  <2>1. n + 1 \in Moves(scene2, b) /\ \A j \in Moves(scene2, b) : j <= n + 1
    BY <1>1, <1>2, <1>4
  <2>2. \A k \in Moves(scene2, b) : (\A j \in Moves(scene2, b) : j <= k) => k = n + 1
    <3>1. \A k \in Moves(scene2, b) : k \in 1..(n + 1)
      BY <1>1, <1>2, <1>4
    <3>. QED
      BY <1>1, <2>1, <3>1
  <2>3. (CHOOSE k \in Moves(scene2, b) : \A j \in Moves(scene2, b) : j <= k) = n + 1
    BY <2>1, <2>2
  <2>. QED
    BY <1>3, <2>1, <2>3 DEF Extends
<1>5. ASSUME NEW b, ~(o.name = b /\ o.pos # Unset)
      PROVE  Moves(scene2, b) = Moves(scene, b) /\ GivenPlace(scene2, b) = GivenPlace(scene, b)
  <2>1. Moves(scene2, b) = Moves(scene, b)
    BY <1>2, <1>5
  <2>2. CASE Moves(scene, b) = {}
    BY <1>3, <2>1, <2>2
  <2>3. CASE Moves(scene, b) # {}
    <3>. DEFINE last == CHOOSE k \in Moves(scene, b) : \A j \in Moves(scene, b) : j <= k
    <3>1. last \in Moves(scene, b)
      BY <2>3 DEF HasLast
    <3>2. last \in 1..n
      BY <1>2, <3>1
    <3>3. scene2.overrides[last] = scene.overrides[last]
      BY <3>2 DEF Extends
    <3>4. GivenPlace(scene, b) = scene.overrides[last].pos
      BY <1>3, <2>3
    <3>5. GivenPlace(scene2, b) = scene2.overrides[last].pos
      BY <1>3, <2>1, <2>3
    <3>. QED
      BY <2>1, <3>3, <3>4, <3>5
  <2>. QED
    BY <2>2, <2>3
<1>6. HasLast(scene2)
  BY <1>4, <1>5 DEF HasLast
<1>. QED
  BY <1>4, <1>5, <1>6

(* One more override leaves the world as the longer scene says.            *)
LEMMA OverrideDescribed ==
  ASSUME NEW scene, NEW scene2, NEW o \in SceneOverrides, Extends(scene2, scene, o),
         HasLast(scene), NEW w, Described(w, scene)
  PROVE  Described(ApplyOverride(w, o), scene2)
<1>. DEFINE n == Len(scene.overrides)
            w2 == ApplyOverride(w, o)
<1>1. n \in Nat /\ Len(scene2.overrides) = n + 1 /\ n + 1 \in 1..(n + 1) /\ (n + 1) + 1 = n + 2
  BY DEF Extends
<1>2. /\ w \in Worlds
      /\ w.ok <=> Sound(scene)
      /\ w.ok => /\ w.bodies = {b \in Bodies : ~GoneBefore(scene, b, n + 1)}
                 /\ \A b \in w.bodies : w.at[b] = GivenPlace(scene, b)
  BY DEF Described
<1>3. Sound(scene2) <=> /\ Sound(scene) /\ o.name \in Bodies
                        /\ ~GoneBefore(scene, o.name, n + 1)
  BY OneMoreIsSound
<1>4. \A b : GoneBefore(scene2, b, n + 2) <=>
               \/ GoneBefore(scene, b, n + 1)
               \/ o.visible = "no" /\ o.name \in {b} \cup Within[b]
  BY OneMoreHides
<1>5. \A b : GivenPlace(scene2, b) =
               IF o.name = b /\ o.pos # Unset THEN o.pos ELSE GivenPlace(scene, b)
  BY OneMoreMoves
<1>6. BaseWorld \in Worlds /\ Refused \in Worlds /\ ~Refused.ok
  BY DEF BaseWorld, Refused, World, Worlds
<1>7. /\ w.ok \in BOOLEAN /\ w.bodies \in SUBSET Bodies
      /\ w.at \in [Bodies -> Places \cup {Unset}] /\ w.added = <<>>
  BY <1>2 DEF Worlds
<1>8. o.pos # Unset => o.pos \in Places \cup {Unset}
  BY DEF SceneOverrides
<1>. SUFFICES /\ w2 \in Worlds
              /\ w2.ok <=> Sound(scene2)
              /\ w2.ok => /\ w2.bodies = {b \in Bodies : ~GoneBefore(scene2, b, n + 2)}
                          /\ \A b \in w2.bodies : w2.at[b] = GivenPlace(scene2, b)
  BY <1>1 DEF Described
<1>9. CASE ~w.ok
  BY <1>2, <1>3, <1>9 DEF ApplyOverride
<1>10. CASE w.ok /\ o.name \notin w.bodies
  <2>1. w2 = Refused
    BY <1>10 DEF ApplyOverride
  <2>2. ~Sound(scene2)
    BY <1>2, <1>3, <1>10
  <2>. QED
    BY <1>6, <2>1, <2>2
<1>11. CASE w.ok /\ o.name \in w.bodies /\ o.visible = "no"
  <2>1. w2 = [w EXCEPT !.bodies = {b \in @ : b # o.name /\ o.name \notin Within[b]}]
    BY <1>11 DEF ApplyOverride, RemoveBody
  <2>2. /\ w2 \in Worlds /\ w2.ok = w.ok /\ w2.at = w.at
        /\ w2.bodies = {b \in w.bodies : b # o.name /\ o.name \notin Within[b]}
    BY <1>2, <1>7, <2>1 DEF Worlds
  <2>3. Sound(scene2)
    BY <1>2, <1>3, <1>11
  <2>4. w2.bodies = {b \in Bodies : ~GoneBefore(scene2, b, n + 2)}
    BY <1>2, <1>4, <1>11, <2>2
  <2>5. \A b \in w2.bodies : w2.at[b] = GivenPlace(scene2, b)
    BY <1>2, <1>5, <1>11, <2>2
  <2>. QED
    BY <1>11, <2>2, <2>3, <2>4, <2>5
<1>12. CASE w.ok /\ o.name \in w.bodies /\ o.visible # "no" /\ o.pos = Unset
  <2>1. w2 = w
    BY <1>12 DEF ApplyOverride
  <2>2. Sound(scene2)
    BY <1>2, <1>3, <1>12
  <2>3. w.bodies = {b \in Bodies : ~GoneBefore(scene2, b, n + 2)}
    BY <1>2, <1>4, <1>12
  <2>. QED
    BY <1>2, <1>5, <1>12, <2>1, <2>2, <2>3
<1>13. CASE w.ok /\ o.name \in w.bodies /\ o.visible # "no" /\ o.pos # Unset
  <2>1. w2 = [w EXCEPT !.at[o.name] = o.pos]
    BY <1>13 DEF ApplyOverride
  <2>2. [w.at EXCEPT ![o.name] = o.pos] \in [Bodies -> Places \cup {Unset}]
    BY <1>7, <1>8, <1>13
  <2>3. /\ w2.ok = w.ok /\ w2.bodies = w.bodies /\ w2.added = w.added
        /\ w2.at = [w.at EXCEPT ![o.name] = o.pos]
    BY <1>2, <2>1 DEF Worlds
  <2>4. w2 = [ok |-> w.ok, bodies |-> w.bodies, at |-> [w.at EXCEPT ![o.name] = o.pos],
              added |-> w.added]
    BY <1>2, <2>1 DEF Worlds
  <2>5. w2 \in Worlds
    BY <1>7, <2>2, <2>4 DEF Worlds
  <2>6. Sound(scene2)
    BY <1>2, <1>3, <1>13
  <2>7. w2.bodies = {b \in Bodies : ~GoneBefore(scene2, b, n + 2)}
    BY <1>2, <1>4, <1>13, <2>3
  <2>8. \A b \in w2.bodies : w2.at[b] = GivenPlace(scene2, b)
    BY <1>2, <1>5, <1>7, <1>13, <2>3
  <2>. QED
    BY <1>13, <2>3, <2>5, <2>6, <2>7, <2>8
<1>. QED
  BY <1>7, <1>9, <1>10, <1>11, <1>12, <1>13

(* A scene that reads as it says still does with one more override.        *)
LEMMA OneMoreReadsAlike ==
  ASSUME NEW scene \in SceneSheets, NEW o \in SceneOverrides, ReadsAlike(scene),
         NEW scene2, scene2.overrides = Append(scene.overrides, o)
  PROVE  ReadsAlike(scene2)
<1>. DEFINE n == Len(scene.overrides)
<1>1. Extends(scene2, scene, o)
  BY AppendExtends
<1>2. /\ n \in Nat /\ Len(scene2.overrides) = n + 1
      /\ 0..(n + 1) = (0..n) \cup {n + 1} /\ n + 1 \notin 0..n /\ n + 1 # 0 /\ (n + 1) - 1 = n
      /\ \A k \in 0..n : k = 0 \/ (k \in 1..n /\ k - 1 \in 0..n)
      /\ n \in 0..n
  BY <1>1 DEF Extends
<1>3. /\ \A k \in 1..n : scene2.overrides[k] = scene.overrides[k]
      /\ scene2.overrides[n + 1] = o
  BY <1>1 DEF Extends
<1>. HIDE DEF n
<1>4. ASSUME NEW world
      PROVE  Follows(world, scene) <=>
               world = [k \in 0..n |-> IF k = 0 THEN BaseWorld
                                       ELSE ApplyOverride(world[k - 1], scene.overrides[k])]
  BY DEF Follows, n
<1>5. ASSUME NEW world
      PROVE  Follows(world, scene2) <=>
               world = [k \in 0..(n + 1) |-> IF k = 0 THEN BaseWorld
                                             ELSE ApplyOverride(world[k - 1], scene2.overrides[k])]
  BY <1>2 DEF Follows
<1>6. \E world : Follows(world, scene2)
  <2>1. PICK world : Follows(world, scene)
    BY DEF ReadsAlike
  <2>. DEFINE longer == [k \in 0..(n + 1) |-> IF k = n + 1 THEN ApplyOverride(world[n], o) ELSE world[k]]
  <2>2. /\ longer[n + 1] = ApplyOverride(world[n], o)
        /\ \A k \in 0..n : longer[k] = world[k]
    BY <1>2
  <2>3. ASSUME NEW k \in 0..(n + 1)
        PROVE  longer[k] = IF k = 0 THEN BaseWorld
                           ELSE ApplyOverride(longer[k - 1], scene2.overrides[k])
    <3>1. CASE k = n + 1
      BY <1>2, <1>3, <2>2, <3>1
    <3>2. CASE k \in 0..n
      <4>1. world[k] = IF k = 0 THEN BaseWorld
                       ELSE ApplyOverride(world[k - 1], scene.overrides[k])
        BY <1>4, <2>1, <3>2
      <4>. QED
        BY <1>2, <1>3, <2>2, <3>2, <4>1
    <3>. QED
      BY <1>2, <3>1, <3>2
  <2>4. longer = [k \in 0..(n + 1) |-> IF k = 0 THEN BaseWorld
                                       ELSE ApplyOverride(longer[k - 1], scene2.overrides[k])]
    BY <2>3
  <2>. HIDE DEF longer
  <2>. QED
    BY <1>5, <2>4
<1>7. ASSUME NEW longer, Follows(longer, scene2)
      PROVE  Described(longer[n + 1], scene2)
  <2>. DEFINE world == [k \in 0..n |-> longer[k]]
  <2>1. ASSUME NEW k \in 0..(n + 1)
        PROVE  longer[k] = IF k = 0 THEN BaseWorld
                           ELSE ApplyOverride(longer[k - 1], scene2.overrides[k])
    BY <1>5, <1>7
  <2>2. ASSUME NEW k \in 0..n
        PROVE  world[k] = IF k = 0 THEN BaseWorld
                          ELSE ApplyOverride(world[k - 1], scene.overrides[k])
    <3>1. longer[k] = IF k = 0 THEN BaseWorld
                      ELSE ApplyOverride(longer[k - 1], scene2.overrides[k])
      BY <1>2, <2>1
    <3>. QED
      BY <1>2, <1>3, <3>1
  <2>3. world = [k \in 0..n |-> IF k = 0 THEN BaseWorld
                                ELSE ApplyOverride(world[k - 1], scene.overrides[k])]
    BY <2>2
  <2>4. world[n] = longer[n]
    BY <1>2
  <2>5. longer[n + 1] = ApplyOverride(longer[n], o)
    BY <1>2, <1>3, <2>1
  <2>. HIDE DEF world
  <2>6. Described(world[n], scene)
    BY <1>4, <2>3 DEF ReadsAlike, n
  <2>. QED
    BY <1>1, <2>4, <2>5, <2>6, OverrideDescribed DEF ReadsAlike
<1>8. HasLast(scene2)
  BY <1>1, OneMoreMoves DEF ReadsAlike
<1>. QED
  BY <1>2, <1>6, <1>7, <1>8 DEF ReadsAlike

(* A scene that overrides nothing is the base world.                       *)
LEMMA NothingOverridden ==
  ASSUME NEW scene, scene.overrides = <<>>
  PROVE  ReadsAlike(scene)
<1>1. /\ Len(scene.overrides) = 0 /\ DOMAIN scene.overrides = {} /\ 0..0 = {0}
      /\ 1..((0 + 1) - 1) = {}
  OBVIOUS
<1>2. \A world : Follows(world, scene) <=>
                   world = [k \in {0} |-> IF k = 0 THEN BaseWorld
                                          ELSE ApplyOverride(world[k - 1], scene.overrides[k])]
  BY <1>1 DEF Follows
<1>3. \E world : Follows(world, scene)
  <2>. DEFINE base == [k \in {0} |-> BaseWorld]
  <2>1. base = [k \in {0} |-> IF k = 0 THEN BaseWorld
                              ELSE ApplyOverride(base[k - 1], scene.overrides[k])]
    OBVIOUS
  <2>. QED
    BY <1>2, <2>1
<1>4. Moves(scene, 0) = {} /\ \A b : Moves(scene, b) = {}
  BY <1>1 DEF Moves
<1>5. /\ Sound(scene) /\ \A b : ~GoneBefore(scene, b, 0 + 1)
      /\ \A b : GivenPlace(scene, b) = Unset
  BY <1>1, <1>4 DEF Sound, GoneBefore, GivenPlace, Moves
<1>6. /\ BaseWorld \in Worlds /\ BaseWorld.ok /\ BaseWorld.bodies = Bodies
      /\ \A b \in Bodies : BaseWorld.at[b] = Unset
  BY DEF BaseWorld, World, Worlds
<1>7. Described(BaseWorld, scene)
  BY <1>1, <1>5, <1>6 DEF Described
<1>8. \A world : Follows(world, scene) => world[0] = BaseWorld
  BY <1>2
<1>. QED
  BY <1>1, <1>3, <1>4, <1>7, <1>8 DEF ReadsAlike, HasLast

(* What a scene does to the base world is in its overrides alone.          *)
LEMMA SameOverrides ==
  ASSUME NEW scene, ReadsAlike(scene), NEW scene2, scene2.overrides = scene.overrides
  PROVE  ReadsAlike(scene2)
<1>1. \A world : Follows(world, scene2) <=> Follows(world, scene)
  BY DEF Follows
<1>2. \A b, k : GoneBefore(scene2, b, k) <=> GoneBefore(scene, b, k)
  BY DEF GoneBefore, HidesAt
<1>3. /\ Sound(scene2) <=> Sound(scene)
      /\ \A b : GivenPlace(scene2, b) = GivenPlace(scene, b)
      /\ \A b : Moves(scene2, b) = Moves(scene, b)
  BY <1>2 DEF Sound, GivenPlace, Moves
<1>4. \A w : Described(w, scene2) <=> Described(w, scene)
  BY <1>2, <1>3 DEF Described
<1>. QED
  BY <1>1, <1>3, <1>4 DEF ReadsAlike, HasLast

(* The composer applies the overrides one by one, then adds what is new.   *)
LEMMA ReadsAsDescribed ==
  ASSUME NEW scene, ReadsAlike(scene)
  PROVE  LET w == Compose(scene)
         IN  /\ w.ok <=> Sound(scene)
             /\ w.ok =>
                  /\ w.bodies = {b \in Bodies : ~GoneBefore(scene, b, Len(scene.overrides) + 1)}
                  /\ \A b \in w.bodies : w.at[b] = GivenPlace(scene, b)
                  /\ w.added = SelectSeq(scene.objects, LAMBDA o : o.visible)
<1>1. PICK world : Follows(world, scene) /\ ApplyOverrides(scene) = world[Len(scene.overrides)]
  BY DEF ReadsAlike, ApplyOverrides, Follows
<1>. DEFINE v == ApplyOverrides(scene)
            w == Compose(scene)
            new == SelectSeq(scene.objects, LAMBDA o : o.visible)
<1>2. Described(v, scene)
  BY <1>1 DEF ReadsAlike
<1>3. CASE ~v.ok
  BY <1>2, <1>3 DEF Compose, AddObjects, Described
<1>4. CASE v.ok
  <2>1. w = [v EXCEPT !.added = new]
    BY <1>4 DEF Compose, AddObjects
  <2>2. w.ok = v.ok /\ w.bodies = v.bodies /\ w.at = v.at /\ w.added = new
    <3>1. v \in Worlds
      BY <1>2 DEF Described
    <3>. HIDE DEF v, w, new
    <3>. QED
      BY <2>1, <3>1 DEF Worlds
  <2>. HIDE DEF v, w, new
  <2>. QED
    BY <1>2, <2>2 DEF Described, w, new
<1>. QED
  BY <1>3, <1>4

-------------------------------------------------------------------------------
(* The steps.                                                              *)

LEMMA InitDocuments == DescriptorsInit => DocumentsInv
<1>. SUFFICES ASSUME DescriptorsInit  PROVE DocumentsInv
  OBVIOUS
<1>1. \A S : <<>> \in Seq(S)
  BY EmptySeq
<1>2. /\ BlankRobot \in RobotSheets /\ BlankScene \in SceneSheets /\ BlankApp \in AppSheets
      /\ BlankRobot.kind = "robots" /\ BlankScene.kind = "scenes" /\ BlankApp.kind = "apps"
      /\ Nothing.kind = "none" /\ BlankScene.overrides = <<>>
  BY <1>1 DEF BlankRobot, BlankScene, BlankApp, Nothing, RobotSheets, SceneSheets, AppSheets
<1>3. /\ sheet \in Sheets /\ sheet.kind = kind
      /\ kind = "scenes" => sheet = BlankScene
  BY <1>2 DEF DescriptorsInit, Blank, Sheets
<1>4. kind = "scenes" => ReadsAlike(sheet)
  BY <1>2, <1>3, NothingOverridden
<1>. QED
  BY <1>2, <1>3, <1>4 DEF DescriptorsInit, DocumentsInv, Deployable

(* Of which kind a document is, is in its first key.                       *)
LEMMA KindOfSheet ==
  ASSUME NEW d \in Sheets
  PROVE  /\ d.kind = "robots" => d \in RobotSheets
         /\ d.kind = "scenes" => d \in SceneSheets
         /\ d.kind = "apps" => d \in AppSheets
BY DEF Sheets, RobotSheets, SceneSheets, AppSheets, Nothing

(* A document that grew by an entry is one of its kind.                    *)
LEMMA WritingKeepsDocuments ==
  ASSUME DocumentsInv, NEW d \in Sheets, d.kind = kind, kind = "scenes" => ReadsAlike(d), Writes(d)
  PROVE  DocumentsInv'
<1>1. kind' = kind /\ saved' = saved /\ sheet' = d /\ outcome' = "none"
  BY DEF Writes
<1>2. Deployable'
  BY <1>1 DEF Deployable
<1>3. saved = Nothing \/ (saved \in Sheets /\ saved.kind = kind /\ Storable(saved))
  BY DEF DocumentsInv
<1>4. saved.kind = "scenes" => ReadsAlike(saved)
  BY DEF DocumentsInv
<1>. QED
  BY <1>1, <1>2, <1>3, <1>4 DEF DocumentsInv

LEMMA WriteRobotKeepsDocuments ==
  ASSUME DocumentsInv, WriteRobot
  PROVE  DocumentsInv'
<1>1. sheet \in RobotSheets /\ kind = "robots"
  BY KindOfSheet DEF DocumentsInv, WriteRobot
<1>2. /\ sheet.nodes \in Seq(NodeSpecs) /\ sheet.robots \in Seq(RobotSpecs)
      /\ sheet.motions \in Seq(MotionSpecs) /\ sheet.families \in Seq(FamilySpecs)
  BY <1>1 DEF RobotSheets
<1>3. ASSUME NEW d \in RobotSheets, Writes(d)
      PROVE  DocumentsInv'
  BY <1>1, <1>3, WritingKeepsDocuments DEF Sheets, RobotSheets
<1>4. CASE Writes([sheet EXCEPT !.world = TRUE])
  <2>1. [sheet EXCEPT !.world = TRUE] \in RobotSheets
    BY <1>1 DEF RobotSheets
  <2>. QED
    BY <1>3, <1>4, <2>1
<1>5. ASSUME NEW n \in NodeSpecs, Writes([sheet EXCEPT !.nodes = Append(@, n)])
      PROVE  DocumentsInv'
  <2>1. Append(sheet.nodes, n) \in Seq(NodeSpecs)
    BY <1>2, AppendProperties
  <2>2. [sheet EXCEPT !.nodes = Append(@, n)] \in RobotSheets
    BY <1>1, <2>1 DEF RobotSheets
  <2>. QED
    BY <1>3, <1>5, <2>2
<1>6. ASSUME NEW r \in RobotSpecs, Writes([sheet EXCEPT !.robots = Append(@, r)])
      PROVE  DocumentsInv'
  <2>1. Append(sheet.robots, r) \in Seq(RobotSpecs)
    BY <1>2, AppendProperties
  <2>2. [sheet EXCEPT !.robots = Append(@, r)] \in RobotSheets
    BY <1>1, <2>1 DEF RobotSheets
  <2>. QED
    BY <1>3, <1>6, <2>2
<1>7. ASSUME NEW m \in MotionSpecs, Writes([sheet EXCEPT !.motions = Append(@, m)])
      PROVE  DocumentsInv'
  <2>1. Append(sheet.motions, m) \in Seq(MotionSpecs)
    BY <1>2, AppendProperties
  <2>2. [sheet EXCEPT !.motions = Append(@, m)] \in RobotSheets
    BY <1>1, <2>1 DEF RobotSheets
  <2>. QED
    BY <1>3, <1>7, <2>2
<1>8. ASSUME NEW f \in FamilySpecs, Writes([sheet EXCEPT !.families = Append(@, f)])
      PROVE  DocumentsInv'
  <2>1. Append(sheet.families, f) \in Seq(FamilySpecs)
    BY <1>2, AppendProperties
  <2>2. [sheet EXCEPT !.families = Append(@, f)] \in RobotSheets
    BY <1>1, <2>1 DEF RobotSheets
  <2>. QED
    BY <1>3, <1>8, <2>2
<1>. QED
  BY <1>4, <1>5, <1>6, <1>7, <1>8 DEF WriteRobot

LEMMA WriteSceneKeepsDocuments ==
  ASSUME DocumentsInv, WriteScene
  PROVE  DocumentsInv'
<1>1. sheet \in SceneSheets /\ kind = "scenes" /\ ReadsAlike(sheet)
  BY KindOfSheet DEF DocumentsInv, WriteScene
<1>2. sheet.objects \in Seq(SceneObjects) /\ sheet.overrides \in Seq(SceneOverrides)
  BY <1>1 DEF SceneSheets
<1>3. ASSUME NEW d \in SceneSheets, ReadsAlike(d), Writes(d)
      PROVE  DocumentsInv'
  BY <1>1, <1>3, WritingKeepsDocuments DEF Sheets, SceneSheets
<1>4. CASE Writes([sheet EXCEPT !.base = TRUE])
  <2>. DEFINE d == [sheet EXCEPT !.base = TRUE]
  <2>1. d \in SceneSheets /\ d.overrides = sheet.overrides
    BY <1>1 DEF SceneSheets
  <2>. HIDE DEF d
  <2>2. ReadsAlike(d)
    BY <1>1, <2>1, SameOverrides
  <2>. QED
    BY <1>3, <1>4, <2>1, <2>2 DEF d
<1>5. ASSUME NEW o \in SceneObjects, Writes([sheet EXCEPT !.objects = Append(@, o)])
      PROVE  DocumentsInv'
  <2>. DEFINE d == [sheet EXCEPT !.objects = Append(@, o)]
  <2>1. Append(sheet.objects, o) \in Seq(SceneObjects)
    BY <1>2, AppendProperties
  <2>2. d \in SceneSheets /\ d.overrides = sheet.overrides
    BY <1>1, <2>1 DEF SceneSheets
  <2>. HIDE DEF d
  <2>3. ReadsAlike(d)
    BY <1>1, <2>2, SameOverrides
  <2>. QED
    BY <1>3, <1>5, <2>2, <2>3 DEF d
<1>6. ASSUME NEW o \in SceneOverrides, Writes([sheet EXCEPT !.overrides = Append(@, o)])
      PROVE  DocumentsInv'
  <2>. DEFINE d == [sheet EXCEPT !.overrides = Append(@, o)]
  <2>1. Append(sheet.overrides, o) \in Seq(SceneOverrides)
    BY <1>2, AppendProperties
  <2>2. d \in SceneSheets /\ d.overrides = Append(sheet.overrides, o)
    BY <1>1, <2>1 DEF SceneSheets
  <2>. HIDE DEF d
  <2>3. ReadsAlike(d)
    BY <1>1, <2>2, OneMoreReadsAlike
  <2>. QED
    BY <1>3, <1>6, <2>2, <2>3 DEF d
<1>. QED
  BY <1>4, <1>5, <1>6 DEF WriteScene

LEMMA WriteAppKeepsDocuments ==
  ASSUME DocumentsInv, WriteApp
  PROVE  DocumentsInv'
<1>1. sheet \in AppSheets /\ kind = "apps"
  BY KindOfSheet DEF DocumentsInv, WriteApp
<1>2. PICK s \in AppSteps : Writes([sheet EXCEPT !.program = Append(@, s)])
  BY DEF WriteApp
<1>3. Append(sheet.program, s) \in Seq(AppSteps)
  BY <1>1, AppendProperties DEF AppSheets
<1>. DEFINE d == [sheet EXCEPT !.program = Append(@, s)]
<1>4. d \in AppSheets
  BY <1>1, <1>3 DEF AppSheets
<1>5. d.kind = "apps"
  BY <1>4 DEF AppSheets
<1>. HIDE DEF d
<1>6. d \in Sheets
  BY <1>4 DEF Sheets
<1>. QED
  BY <1>1, <1>2, <1>5, <1>6, WritingKeepsDocuments DEF d

LEMMA SaveKeepsDocuments ==
  ASSUME DocumentsInv, Save
  PROVE  DocumentsInv'
<1>1. kind' = kind /\ sheet' = sheet
  BY DEF Save
<1>2. \/ Storable(sheet) /\ saved' = sheet /\ outcome' = "stored"
      \/ saved' = saved /\ outcome' = "refused"
  BY DEF Save
<1>3. Deployable'
  BY <1>2 DEF Deployable
<1>4. /\ sheet \in Sheets /\ sheet.kind = kind
      /\ saved = Nothing \/ (saved \in Sheets /\ saved.kind = kind /\ Storable(saved))
      /\ kind = "scenes" => ReadsAlike(sheet)
      /\ saved.kind = "scenes" => ReadsAlike(saved)
  BY DEF DocumentsInv
<1>5. CASE Storable(sheet) /\ saved' = sheet
  BY <1>1, <1>3, <1>4, <1>5 DEF DocumentsInv
<1>6. CASE saved' = saved
  BY <1>1, <1>3, <1>4, <1>6 DEF DocumentsInv
<1>. QED
  BY <1>2, <1>5, <1>6

(* What was stored reads back, and what it names is there.                 *)
LEMMA DeployKeepsDocuments ==
  ASSUME DocumentsInv, DeployRobot \/ DeployScene \/ DeployApp
  PROVE  DocumentsInv'
<1>1. kind' = kind /\ sheet' = sheet /\ saved' = saved
  BY DEF DeployRobot, DeployScene, DeployApp, Deploys
<1>2. saved.kind # "none" => saved \in Sheets /\ Storable(saved)
  <2>1. Nothing.kind = "none"
    BY DEF Nothing
  <2>. QED
    BY <2>1 DEF DocumentsInv
<1>. SUFFICES Deployable'
  BY <1>1 DEF DocumentsInv
<1>3. CASE DeployRobot
  <2>1. saved.kind = "robots"
    BY <1>3 DEF DeployRobot
  <2>2. saved \in RobotSheets /\ ParseCell(saved)
    BY <1>2, <2>1, KindOfSheet DEF Storable
  <2>3. AddNodes(saved) => BuildCell(saved)
    BY <2>2, StoredRobotDeploys DEF BuildCell
  <2>4. outcome' \in {"no driver", "live"}
    BY <1>3, <2>2, <2>3 DEF DeployRobot, Deploys
  <2>. QED
    BY <2>4 DEF Deployable
<1>4. CASE DeployScene
  <2>1. saved.kind = "scenes"
    BY <1>4 DEF DeployScene
  <2>2. ParseScene(saved)
    BY <1>2, <2>1 DEF Storable
  <2>3. outcome' \in {"no such body", "live"}
    BY <1>4, <2>2 DEF DeployScene, Deploys
  <2>. QED
    BY <2>3 DEF Deployable
<1>5. CASE DeployApp
  <2>1. saved.kind = "apps"
    BY <1>5 DEF DeployApp
  <2>2. ParseApp(saved) /\ CheckProgram(ParseProgram(saved.program))
    BY <1>2, <2>1 DEF Storable
  <2>3. outcome' = "live"
    BY <1>5, <2>2 DEF DeployApp, Deploys
  <2>. QED
    BY <2>3 DEF Deployable
<1>. QED
  BY <1>3, <1>4, <1>5

LEMMA NextKeepsDocuments ==
  ASSUME DocumentsInv, [DescriptorsNext]_doc_vars
  PROVE  DocumentsInv'
<1>1. CASE UNCHANGED doc_vars
  BY <1>1 DEF doc_vars, DocumentsInv, Deployable
<1>. QED
  BY <1>1, WriteRobotKeepsDocuments, WriteSceneKeepsDocuments, WriteAppKeepsDocuments,
     SaveKeepsDocuments, DeployKeepsDocuments DEF DescriptorsNext

-------------------------------------------------------------------------------
(* The theorems.                                                           *)

(* Every document in the platform is of its kind and was stored as one     *)
(* that reads back, and a scene, however many overrides it has, does to    *)
(* the base world what it says.                                            *)
THEOREM DocumentsInvariant == DescriptorsSpec => []DocumentsInv
BY InitDocuments, NextKeepsDocuments, PTL DEF DescriptorsSpec

(* A robot, a scene or a program the platform stored does not fail to be   *)
(* read, to bind its axes or to name its verbs when it is deployed, and    *)
(* the motions of a robot drive the axes they were written for             *)
(* (platform.hpp:326).                                                     *)
THEOREM StoredDocumentsAreGood == DescriptorsSpec => []StoredDocumentsDeploy
<1>1. ASSUME DocumentsInv  PROVE StoredDocumentsDeploy
  <2>1. CASE saved.kind = "robots"
    <3>1. saved # Nothing /\ saved \in Sheets /\ Storable(saved)
      BY <1>1, <2>1 DEF DocumentsInv, Nothing
    <3>2. saved \in RobotSheets /\ ParseCell(saved)
      BY <2>1, <3>1, KindOfSheet DEF Storable
    <3>. QED
      BY <1>1, <3>2, StoredRobotDeploys DEF StoredDocumentsDeploy, DocumentsInv, Deployable
  <2>. QED
    BY <1>1, <2>1 DEF StoredDocumentsDeploy, DocumentsInv, Deployable
<1>. QED
  BY <1>1, DocumentsInvariant, PTL

(* The composer, which applies the overrides of a scene one by one to what *)
(* the last one left, ends with the world the scene describes read as a    *)
(* whole, and with an error exactly when it names a body that is not there *)
(* or no longer (mjcf_composer.hpp).                                       *)
THEOREM ScenesAreComposedAsDescribed == DescriptorsSpec => []ComposedAsDescribed
<1>1. ASSUME DocumentsInv  PROVE ComposedAsDescribed
  BY <1>1, ReadsAsDescribed DEF DocumentsInv, ComposedAsDescribed
<1>. QED
  BY <1>1, DocumentsInvariant, PTL

-------------------------------------------------------------------------------
(* What makes induction possible without an operator to instantiate: a set *)
(* of numbers that is not empty has a least one.                           *)
LEMMA LeastNumber ==
  ASSUME NEW T, T \subseteq Nat, T # {}
  PROVE  \E x \in T : \A y \in T : x <= y
<1>. DEFINE R == StrictSubsetOrdering(Nat)
            UpTo(x) == 0..x
            U == {UpTo(x) : x \in T}
<1>1. IsWellFoundedOn(R, FiniteSubsetsOf(Nat))
  BY FS_StrictSubsetOrderingWellFounded
<1>2. \A x \in T : IsFiniteSet(UpTo(x)) /\ UpTo(x) \in SUBSET Nat
  BY FS_Interval
<1>3. U \subseteq FiniteSubsetsOf(Nat) /\ U # {}
  BY <1>2 DEF FiniteSubsetsOf
<1>4. PICK u \in U : \A v \in U : ~(<<v, u>> \in R)
  BY <1>1, <1>3, WFMin
<1>5. PICK x \in T : u = UpTo(x)
  BY <1>4
<1>6. ASSUME NEW y \in T, y < x
      PROVE  <<UpTo(y), UpTo(x)>> \in R
  BY <1>6 DEF StrictSubsetOrdering
<1>7. ASSUME NEW y \in T PROVE x <= y
  <2>1. ~(<<UpTo(y), UpTo(x)>> \in R)
    BY <1>4, <1>5
  <2>2. ~(y < x)
    BY <1>6, <2>1
  <2> QED BY <2>2
<1>. QED
  BY <1>7

LEMMA Induction ==
  ASSUME NEW S, 0 \in S, \A n \in Nat : n \in S => n + 1 \in S
  PROVE  Nat \subseteq S
<1>1. SUFFICES ASSUME Nat \ S # {} PROVE FALSE
  OBVIOUS
<1>2. PICK x \in Nat \ S : \A y \in Nat \ S : x <= y
  BY <1>1, LeastNumber
<1>3. x - 1 \in Nat
  BY <1>2
<1>4. x - 1 \in S
  BY <1>2, <1>3
<1>5. (x - 1) + 1 = x
  BY <1>2
<1> QED BY <1>2, <1>3, <1>4, <1>5


-------------------------------------------------------------------------------
(* What the sums of a window come to.                                      *)

Sums(f, x, m) == f = [k \in 0..m |-> IF k = 0 THEN 0 ELSE f[k - 1] + x[k]]

LEMMA SumsExist ==
  ASSUME NEW x, NEW m \in Nat
  PROVE  \E f : Sums(f, x, m)
<1>. DEFINE S == {n \in Nat : \E f : Sums(f, x, n)}
<1>1. 0 \in S
  <2>1. Sums([n \in 0..0 |-> 0], x, 0)
    BY DEF Sums
  <2> QED BY <2>1
<1>2. ASSUME NEW n \in Nat, n \in S PROVE n + 1 \in S
  <2>1. PICK f : Sums(f, x, n)
    BY <1>2
  <2>. DEFINE g == [k \in 0..(n + 1) |-> IF k = n + 1 THEN f[n] + x[k] ELSE f[k]]
  <2>2. ASSUME NEW k \in 0..(n + 1)
        PROVE  g[k] = IF k = 0 THEN 0 ELSE g[k - 1] + x[k]
    <3>1. CASE k = n + 1
      BY <3>1
    <3>2. CASE k # n + 1
      <4>1. k \in 0..n /\ g[k] = f[k]
        BY <3>2
      <4>2. f[k] = IF k = 0 THEN 0 ELSE f[k - 1] + x[k]
        BY <2>1, <4>1 DEF Sums
      <4>3. k # 0 => g[k - 1] = f[k - 1]
        BY <4>1
      <4> QED BY <4>1, <4>2, <4>3
    <3> QED BY <3>1, <3>2
  <2>3. Sums(g, x, n + 1)
    BY <2>2 DEF Sums
  <2> QED BY <2>3
<1>3. Nat \subseteq S
  <2> HIDE DEF S
  <2> QED BY <1>1, <1>2, Induction
<1> QED BY <1>3

LEMMA TotalIsASum ==
  ASSUME NEW n \in Nat, NEW x \in [1..n -> Int]
  PROVE  \E f : Sums(f, x, n) /\ f[n] = Total(x) /\ f \in [0..n -> Int]
<1>. DEFINE F == CHOOSE f : Sums(f, x, n)
<1>1. Len(x) = n
  OBVIOUS
<1>2. Sums(F, x, n)
  BY SumsExist
<1>3. Total(x) = F[n]
  BY <1>1 DEF Total, Sums
<1> HIDE DEF F
<1>. DEFINE S == {k \in Nat : k <= n => F[k] \in Int}
<1>4. 0 \in S
  BY <1>2 DEF Sums
<1>5. ASSUME NEW k \in Nat, k \in S PROVE k + 1 \in S
  <2>1. SUFFICES ASSUME k + 1 <= n PROVE F[k + 1] \in Int
    OBVIOUS
  <2>2. F[k] \in Int /\ x[k + 1] \in Int
    BY <1>5, <2>1
  <2>3. F[k + 1] = F[k] + x[k + 1]
    BY <1>2, <2>1 DEF Sums
  <2> QED BY <2>2, <2>3
<1>6. Nat \subseteq S
  <2> HIDE DEF S
  <2> QED BY <1>4, <1>5, Induction
<1>7. \A k \in 0..n : F[k] \in Int
  BY <1>6
<1>8. F \in [0..n -> Int]
  <2>1. F = [k \in 0..n |-> F[k]]
    BY <1>2 DEF Sums
  <2> QED BY <1>7, <2>1
<1> QED BY <1>2, <1>3, <1>8

(* A window of one lap: its sightings lie on the line of the belt and      *)
(* follow each other in time.                                              *)
OnALine(s, b) ==
  /\ \A k \in 1..Len(s) : s[k].at \in Int /\ s[k].place = Speed * (s[k].at - b)
  /\ \A i, k \in 1..Len(s) : i < k => s[i].at < s[k].at

Frame == [at : Int, place : Int]

LEMMA SlopeOfALine ==
  ASSUME NEW b \in Int, NEW s \in Seq(Frame), Len(s) >= 2, OnALine(s, b)
  PROVE  Slope(s) = Scale * Speed
<1>. DEFINE n == Len(s)
            x1 == [k \in 1..n |-> s[k].at]
            x2 == [k \in 1..n |-> s[k].place]
            x3 == [k \in 1..n |-> s[k].at * s[k].place]
            x4 == [k \in 1..n |-> s[k].at * s[k].at]
<1>1. n \in Nat /\ n >= 2 /\ \A k \in 1..n : s[k] \in Frame
  BY LenProperties, ElementOfSeq
<1>2. \A k \in 1..n : s[k].at \in Int /\ s[k].place \in Int
  BY <1>1 DEF Frame
<1>3. \A x, y \in Int : x * y \in Int
  OBVIOUS
<1>4. /\ x1 \in [1..n -> Int] /\ x2 \in [1..n -> Int]
      /\ x3 \in [1..n -> Int] /\ x4 \in [1..n -> Int]
  BY <1>2, <1>3
<1>5. PICK f1 : Sums(f1, x1, n) /\ f1[n] = Total(x1) /\ f1 \in [0..n -> Int]
  BY <1>1, <1>4, TotalIsASum
<1>6. PICK f2 : Sums(f2, x2, n) /\ f2[n] = Total(x2) /\ f2 \in [0..n -> Int]
  BY <1>1, <1>4, TotalIsASum
<1>7. PICK f3 : Sums(f3, x3, n) /\ f3[n] = Total(x3) /\ f3 \in [0..n -> Int]
  BY <1>1, <1>4, TotalIsASum
<1>8. PICK f4 : Sums(f4, x4, n) /\ f4[n] = Total(x4) /\ f4 \in [0..n -> Int]
  BY <1>1, <1>4, TotalIsASum
<1>9. f1[0] = 0 /\ f2[0] = 0 /\ f3[0] = 0 /\ f4[0] = 0
  BY <1>1, <1>5, <1>6, <1>7, <1>8 DEF Sums
<1>10. ASSUME NEW k \in Nat, k + 1 <= n
       PROVE  \E x \in Int :
                /\ x = s[k + 1].at
                /\ f1[k + 1] = f1[k] + x
                /\ f2[k + 1] = f2[k] + Speed * (x - b)
                /\ f3[k + 1] = f3[k] + x * (Speed * (x - b))
                /\ f4[k + 1] = f4[k] + x * x
                /\ f1[k] \in Int /\ f2[k] \in Int /\ f3[k] \in Int /\ f4[k] \in Int
  <2>1. k + 1 \in 1..n /\ k + 1 \in 0..n /\ k \in 0..n /\ k + 1 # 0 /\ (k + 1) - 1 = k
    BY <1>1, <1>10
  <2>2. /\ f1[k + 1] = f1[k] + x1[k + 1] /\ f2[k + 1] = f2[k] + x2[k + 1]
        /\ f3[k + 1] = f3[k] + x3[k + 1] /\ f4[k + 1] = f4[k] + x4[k + 1]
    <3> HIDE DEF x1, x2, x3, x4
    <3> QED BY <1>5, <1>6, <1>7, <1>8, <2>1 DEF Sums
  <2>3. PICK x \in Int : x = s[k + 1].at
    BY <1>2, <2>1
  <2>4. s[k + 1].place = Speed * (x - b)
    BY <2>1, <2>3 DEF OnALine
  <2>5. /\ x1[k + 1] = x /\ x2[k + 1] = Speed * (x - b)
        /\ x3[k + 1] = x * (Speed * (x - b)) /\ x4[k + 1] = x * x
    BY <2>1, <2>3, <2>4
  <2> HIDE DEF x1, x2, x3, x4
  <2> QED BY <1>5, <1>6, <1>7, <1>8, <2>1, <2>2, <2>3, <2>5
<1>11. Speed \in Int /\ Speed > 0 /\ Scale \in Int /\ Scale > 0
  BY SightingsAssumption
<1> HIDE DEF x1, x2, x3, x4
<1>12. /\ f2[n] = Speed * (f1[n] - n * b)
       /\ f3[n] = Speed * (f4[n] - b * f1[n])
  <2>. DEFINE S == {k \in Nat : k <= n => /\ f2[k] = Speed * (f1[k] - k * b)
                                          /\ f3[k] = Speed * (f4[k] - b * f1[k])}
  <2>1. 0 \in S
    <3>1. Speed * (0 - 0 * b) = 0 /\ Speed * (0 - b * 0) = 0
      BY <1>11
    <3> QED BY <1>9, <3>1
  <2>2. ASSUME NEW k \in Nat, k \in S PROVE k + 1 \in S
    <3>1. SUFFICES ASSUME k + 1 <= n
                   PROVE  /\ f2[k + 1] = Speed * (f1[k + 1] - (k + 1) * b)
                          /\ f3[k + 1] = Speed * (f4[k + 1] - b * f1[k + 1])
      OBVIOUS
    <3>2. PICK x \in Int :
            /\ f1[k + 1] = f1[k] + x
            /\ f2[k + 1] = f2[k] + Speed * (x - b)
            /\ f3[k + 1] = f3[k] + x * (Speed * (x - b))
            /\ f4[k + 1] = f4[k] + x * x
            /\ f1[k] \in Int /\ f2[k] \in Int /\ f3[k] \in Int /\ f4[k] \in Int
      BY <1>10, <3>1
    <3>3. f2[k] = Speed * (f1[k] - k * b) /\ f3[k] = Speed * (f4[k] - b * f1[k])
      BY <1>1, <2>2, <3>1
    <3>4. PICK t \in Int : t = f1[k]
      BY <3>2
    <3>5. PICK tt \in Int : tt = f4[k]
      BY <3>2
    <3>6. Speed * (t - k * b) + Speed * (x - b) = Speed * ((t + x) - (k + 1) * b)
      BY <1>11
    <3>7. Speed * (tt - b * t) + x * (Speed * (x - b)) = Speed * ((tt + x * x) - b * (t + x))
      BY <1>11
    <3>8. f2[k + 1] = Speed * (f1[k + 1] - (k + 1) * b)
      BY <3>2, <3>3, <3>4, <3>6
    <3>9. f3[k + 1] = Speed * (f4[k + 1] - b * f1[k + 1])
      BY <3>2, <3>3, <3>4, <3>5, <3>7
    <3> QED BY <3>8, <3>9
  <2>3. Nat \subseteq S
    <3> HIDE DEF S
    <3> QED BY <2>1, <2>2, Induction
  <2> QED BY <1>1, <2>3
<1>13. ASSUME NEW m \in 1..n, NEW y \in Int, \A i \in 1..m : s[i].at < y
       PROVE  f4[m] - 2 * y * f1[m] + m * (y * y) > 0
  <2>. DEFINE S == {k \in Nat : k <= m => /\ f4[k] - 2 * y * f1[k] + k * (y * y) >= 0
                                          /\ k >= 1 => f4[k] - 2 * y * f1[k] + k * (y * y) > 0}
  <2>1. 0 \in S
    <3>1. 0 - 2 * y * 0 + 0 * (y * y) = 0
      OBVIOUS
    <3> QED BY <1>9, <3>1
  <2>2. ASSUME NEW k \in Nat, k \in S PROVE k + 1 \in S
    <3>1. SUFFICES ASSUME k + 1 <= m
                   PROVE  /\ f4[k + 1] - 2 * y * f1[k + 1] + (k + 1) * (y * y) >= 0
                          /\ f4[k + 1] - 2 * y * f1[k + 1] + (k + 1) * (y * y) > 0
      OBVIOUS
    <3>2. k + 1 <= n /\ k + 1 \in 1..m
      BY <1>1, <3>1
    <3>3. PICK x \in Int :
            /\ x = s[k + 1].at
            /\ f1[k + 1] = f1[k] + x
            /\ f4[k + 1] = f4[k] + x * x
            /\ f1[k] \in Int /\ f4[k] \in Int
      BY <1>10, <3>2
    <3>4. x < y
      BY <1>13, <3>2, <3>3
    <3>5. PICK t \in Int : t = f1[k]
      BY <3>3
    <3>6. PICK tt \in Int : tt = f4[k]
      BY <3>3
    <3>7. tt - 2 * y * t + k * (y * y) >= 0
      BY <2>2, <3>1, <3>5, <3>6
    <3>8. PICK d \in Int : d = tt - 2 * y * t + k * (y * y)
      OBVIOUS
    <3>9. (x - y) * (x - y) > 0
      BY <3>4
    <3>10. PICK e \in Int : e = (x - y) * (x - y)
      OBVIOUS
    <3>11. (tt + x * x) - 2 * y * (t + x) + (k + 1) * (y * y) = d + e
      BY <3>8, <3>10
    <3>12. f4[k + 1] - 2 * y * f1[k + 1] + (k + 1) * (y * y) = d + e
      BY <3>3, <3>5, <3>6, <3>11
    <3>13. d >= 0 /\ e > 0
      BY <3>7, <3>8, <3>9, <3>10
    <3> QED BY <3>12, <3>13
  <2>3. Nat \subseteq S
    <3> HIDE DEF S
    <3> QED BY <2>1, <2>2, Induction
  <2> QED BY <1>1, <2>3
<1>14. n * f4[n] - f1[n] * f1[n] > 0
  <2>. DEFINE S == {k \in Nat : k + 1 <= n =>
                      /\ (k + 1) * f4[k + 1] - f1[k + 1] * f1[k + 1] >= 0
                      /\ k >= 1 => (k + 1) * f4[k + 1] - f1[k + 1] * f1[k + 1] > 0}
  <2>1. 0 \in S
    <3>1. PICK x \in Int : f1[0 + 1] = f1[0] + x /\ f4[0 + 1] = f4[0] + x * x
      BY <1>1, <1>10
    <3>2. f1[0 + 1] = x /\ f4[0 + 1] = x * x
      BY <1>3, <1>9, <3>1
    <3>3. (0 + 1) * (x * x) - x * x = 0
      OBVIOUS
    <3>4. (0 + 1) * f4[0 + 1] - f1[0 + 1] * f1[0 + 1] = 0
      BY <3>2, <3>3
    <3> QED BY <3>4
  <2>2. ASSUME NEW k \in Nat, k \in S PROVE k + 1 \in S
    <3>1. SUFFICES ASSUME (k + 1) + 1 <= n
                   PROVE  /\ ((k + 1) + 1) * f4[(k + 1) + 1] - f1[(k + 1) + 1] * f1[(k + 1) + 1] >= 0
                          /\ ((k + 1) + 1) * f4[(k + 1) + 1] - f1[(k + 1) + 1] * f1[(k + 1) + 1] > 0
      OBVIOUS
    <3>2. PICK m \in Nat : m = k + 1
      OBVIOUS
    <3>3. m \in 1..n /\ m + 1 <= n /\ m + 1 \in 1..n
      BY <1>1, <3>1, <3>2
    <3>4. PICK x \in Int :
            /\ x = s[m + 1].at
            /\ f1[m + 1] = f1[m] + x
            /\ f4[m + 1] = f4[m] + x * x
            /\ f1[m] \in Int /\ f4[m] \in Int
      BY <1>10, <3>3
    <3>5. \A i \in 1..m : s[i].at < x
      <4>1. \A i \in 1..m : i \in 1..n /\ i < m + 1
        BY <1>1, <3>3
      <4> QED BY <3>3, <3>4, <4>1 DEF OnALine
    <3>6. PICK t \in Int : t = f1[m]
      BY <3>4
    <3>7. PICK tt \in Int : tt = f4[m]
      BY <3>4
    <3>8. tt - 2 * x * t + m * (x * x) > 0
      BY <1>13, <3>3, <3>5, <3>6, <3>7
    <3>9. m * tt - t * t >= 0
      BY <2>2, <3>2, <3>3, <3>6, <3>7
    <3>10. PICK d \in Int : d = tt - 2 * x * t + m * (x * x)
      OBVIOUS
    <3>11. PICK v \in Int : v = m * tt - t * t
      OBVIOUS
    <3>12. (m + 1) * (tt + x * x) - (t + x) * (t + x) = v + d
      BY <3>10, <3>11
    <3>13. (m + 1) * f4[m + 1] - f1[m + 1] * f1[m + 1] = v + d
      BY <3>4, <3>6, <3>7, <3>12
    <3>14. d > 0 /\ v >= 0
      BY <3>8, <3>9, <3>10, <3>11
    <3> QED BY <3>2, <3>13, <3>14
  <2>3. Nat \subseteq S
    <3> HIDE DEF S
    <3> QED BY <2>1, <2>2, Induction
  <2>4. n - 1 \in Nat /\ (n - 1) + 1 = n /\ n - 1 >= 1
    BY <1>1
  <2>5. n - 1 \in S
    <3> HIDE DEF S
    <3> QED BY <2>3, <2>4
  <2> QED BY <1>1, <2>4, <2>5
<1>15. PICK var \in Int : var = n * f4[n] - f1[n] * f1[n]
  BY <1>1, <1>3, <1>5, <1>8
<1>16. n * f3[n] - f1[n] * f2[n] = Speed * var
  <2>1. f1[n] \in Int /\ f2[n] \in Int /\ f3[n] \in Int /\ f4[n] \in Int
    <3>1. n \in 0..n
      BY <1>1
    <3> HIDE DEF n
    <3> QED BY <3>1, <1>5, <1>6, <1>7, <1>8
  <2>2. PICK t \in Int : t = f1[n]
    BY <2>1
  <2>3. PICK tt \in Int : tt = f4[n]
    BY <2>1
  <2>4. PICK m \in Int : m = n
    BY <1>1
  <2>5. m * (Speed * (tt - b * t)) - t * (Speed * (t - m * b)) = Speed * (m * tt - t * t)
    BY <1>11
  <2> HIDE DEF n
  <2> QED BY <1>12, <1>15, <2>2, <2>3, <2>4, <2>5
<1>17. Slope(s) = (Scale * (Speed * var)) \div var
  BY <1>5, <1>6, <1>7, <1>8, <1>15, <1>16 DEF Slope, x1, x2, x3, x4
<1>18. \A a, v, w \in Int : w > 0 => (a * (v * w)) \div w = a * v
  <2>1. \A c, w \in Int : w > 0 => (c * w) \div w = c
    OBVIOUS
  <2>2. \A a, v, w \in Int : a * (v * w) = (a * v) * w /\ a * v \in Int
    OBVIOUS
  <2> QED BY <2>1, <2>2
<1> QED BY <1>11, <1>14, <1>15, <1>17, <1>18

-------------------------------------------------------------------------------
(* What a tracker keeps.                                                   *)

(* A sighting of a part on the belt, and two of them in order: of one part *)
(* or of parts a belt apart.                                               *)
Real(o) == o \in Frame /\ Lap(o) \in Int /\ o.place = Speed * (o.at - Lap(o))
Ordered(o, p) ==
  o.at <= p.at => Lap(o) = Lap(p) \/ Speed * (Lap(p) - Lap(o)) >= BeltEnd

Tracks == [seen : Seq(Frame), speed : Int, span : Int, last : SUBSET Frame]
Kept(tr) == {tr.seen[k] : k \in DOMAIN tr.seen} \cup tr.last

TrackOK(tr) ==
  /\ tr \in Tracks
  /\ \E b \in Int : OnALine(tr.seen, b)
  /\ tr.speed \in 0..(Scale * Speed)
  /\ \A o, p \in tr.last : o = p

(* The next sighting of a tracker comes before the belt has gone round.    *)
InTime(tr, next) ==
  tr.seen # <<>> /\ next.seen # <<>> =>
    Speed * (Last(next.seen).at - Last(tr.seen).at) < BeltEnd - Gate

LEMMA Settings ==
  /\ Speed \in Int /\ Speed > 0 /\ Scale \in Int /\ Scale > 0
  /\ Scale * Speed \in Int /\ Scale * Speed > 0
<1>1. \A x, y \in Nat \ {0} : x * y \in Nat /\ x * y > 0
  OBVIOUS
<1> QED BY <1>1, SightingsAssumption

LEMMA VelocityIsReal ==
  ASSUME NEW tr, TrackOK(tr)
  PROVE  /\ Velocity(tr) \in 0..(Scale * Speed)
         /\ tracker \in {"constant", "sandboxed"} => Velocity(tr) \in {0, Scale * Speed}
<1>1. 0 \in 0..(Scale * Speed) /\ Scale * Speed \in 0..(Scale * Speed)
  BY Settings
<1>2. CASE tracker = "snapshot"
  BY <1>1, <1>2 DEF Velocity
<1>3. CASE tracker = "smoothed"
  BY <1>1, <1>3 DEF Velocity, TrackOK
<1>4. CASE tracker \notin {"snapshot", "smoothed"}
  <2>1. Velocity(tr) = 0 \/ (~(Len(tr.seen) < 2) /\ Velocity(tr) = Slope(tr.seen))
    BY <1>4 DEF Velocity
  <2>2. ASSUME ~(Len(tr.seen) < 2) PROVE Slope(tr.seen) = Scale * Speed
    <3>1. tr.seen \in Seq(Frame)
      BY DEF TrackOK, Tracks
    <3>2. Len(tr.seen) >= 2
      BY <2>2, <3>1, LenProperties
    <3>3. PICK b \in Int : OnALine(tr.seen, b)
      BY DEF TrackOK
    <3> QED BY <3>1, <3>2, <3>3, SlopeOfALine
  <2> QED BY <1>1, <2>1, <2>2
<1> QED BY <1>2, <1>3, <1>4

LEMMA LastOfSequence ==
  ASSUME NEW S, NEW s \in Seq(S), s # <<>>
  PROVE  /\ Len(s) \in Nat /\ Len(s) >= 1 /\ DOMAIN s = 1..Len(s)
         /\ Last(s) = s[Len(s)] /\ Last(s) \in S
         /\ Last(s) \in {s[k] : k \in DOMAIN s}
<1>1. Len(s) \in Nat \ {0} /\ DOMAIN s = 1..Len(s)
  BY EmptySeq, LenProperties
<1>2. s[Len(s)] \in S
  BY <1>1, ElementOfSeq
<1> QED BY <1>1, <1>2 DEF Last

LEMMA GreaterOfTwo ==
  \A k \in Int : Max({1, k}) = IF k > 1 THEN k ELSE 1
<1> SUFFICES ASSUME NEW k \in Int PROVE Max({1, k}) = IF k > 1 THEN k ELSE 1
  OBVIOUS
<1>. DEFINE m == IF k > 1 THEN k ELSE 1
<1>1. m \in {1, k} /\ \A y \in {1, k} : m >= y
  OBVIOUS
<1>2. \A x \in {1, k} : (\A y \in {1, k} : x >= y) => x = m
  OBVIOUS
<1>3. Max({1, k}) = CHOOSE x \in {1, k} : \A y \in {1, k} : x >= y
  BY DEF Max
<1> HIDE DEF m
<1>4. (CHOOSE x \in {1, k} : \A y \in {1, k} : x >= y) = m
  BY <1>1, <1>2
<1> QED BY <1>3, <1>4 DEF m

(* The newest so many of a queue.                                          *)
LEMMA Newest ==
  ASSUME NEW S, NEW all \in Seq(S), all # <<>>, NEW w \in Nat
  PROVE  \E cut : \E m \in Nat :
           /\ cut = SubSeq(all, Max({1, Len(all) - w + 1}), Len(all))
           /\ cut \in Seq(S) /\ Len(cut) \in Nat /\ DOMAIN cut = 1..Len(cut)
           /\ \A k \in 1..Len(cut) : m + k \in 1..Len(all) /\ cut[k] = all[m + k]
           /\ w > 0 => cut # <<>> /\ Last(cut) = Last(all)
<1>. DEFINE n == Len(all)
            from == Max({1, n - w + 1})
            cut == SubSeq(all, from, n)
<1>1. n \in Nat /\ n >= 1 /\ Last(all) = all[n]
  BY LastOfSequence
<1>2. \A k \in 1..n : all[k] \in S
  BY <1>1, ElementOfSeq
<1> HIDE DEF n
<1>3. from \in Nat /\ from >= 1 /\ from <= n + 1 /\ (w > 0 => from <= n)
  <2>1. n - w + 1 \in Int
    BY <1>1
  <2>2. from = IF n - w + 1 > 1 THEN n - w + 1 ELSE 1
    BY <2>1, GreaterOfTwo
  <2> HIDE DEF from
  <2> QED BY <1>1, <2>2
<1> HIDE DEF from
<1>4. \A k \in from..n : all[k] \in S
  BY <1>1, <1>2, <1>3
<1>5. /\ cut \in Seq(S)
      /\ Len(cut) = IF from <= n THEN n - from + 1 ELSE 0
      /\ \A k \in 1..(n - from + 1) : cut[k] = all[from + k - 1]
  BY <1>1, <1>3, <1>4, SubSeqProperties
<1> HIDE DEF cut
<1>6. DOMAIN cut = 1..Len(cut) /\ Len(cut) = n - from + 1
  BY <1>1, <1>3, <1>5, LenProperties
<1>7. PICK m \in Nat : m = from - 1
  BY <1>3
<1>8. \A k \in 1..Len(cut) : m + k \in 1..n /\ cut[k] = all[m + k]
  <2>1. ASSUME NEW k \in 1..Len(cut)
        PROVE  m + k \in 1..n /\ from + k - 1 = m + k /\ k \in 1..(n - from + 1)
    BY <1>1, <1>3, <1>6, <1>7
  <2> QED BY <1>5, <2>1
<1>9. ASSUME w > 0 PROVE cut # <<>> /\ Last(cut) = Last(all)
  <2>1. Len(cut) \in 1..Len(cut) /\ m + Len(cut) = n /\ Len(cut) # 0
    BY <1>1, <1>3, <1>6, <1>7, <1>9
  <2>2. cut[Len(cut)] = all[n]
    BY <1>8, <2>1
  <2>3. cut # <<>>
    BY <2>1, EmptySeq
  <2> QED BY <1>1, <2>2, <2>3 DEF Last
<1>10. Len(cut) \in Nat
  BY <1>5, LenProperties
<1>11. cut = SubSeq(all, Max({1, Len(all) - w + 1}), Len(all))
  BY DEF cut, from, n
<1> QED BY <1>5, <1>6, <1>8, <1>9, <1>10, <1>11 DEF n

(* A queue with one more.                                                  *)
LEMMA OneMore ==
  ASSUME NEW S, NEW s \in Seq(S), NEW o \in S
  PROVE  /\ Append(s, o) \in Seq(S) /\ Append(s, o) # <<>> /\ Last(Append(s, o)) = o
         /\ \A k \in 1..Len(Append(s, o)) :
              Append(s, o)[k] = o \/ (k \in DOMAIN s /\ Append(s, o)[k] = s[k])
<1>. DEFINE all == Append(s, o)
<1>1. /\ Len(s) \in Nat /\ DOMAIN s = 1..Len(s)
      /\ all \in Seq(S) /\ Len(all) = Len(s) + 1
      /\ \A k \in 1..Len(s) : all[k] = s[k]
      /\ all[Len(s) + 1] = o
  BY LenProperties, AppendProperties
<1> HIDE DEF all
<1>2. \A k \in 1..Len(all) : k = Len(s) + 1 \/ k \in 1..Len(s)
  BY <1>1
<1>3. all # <<>>
  BY <1>1, EmptySeq
<1> QED BY <1>1, <1>2, <1>3 DEF Last, all

(* A window told of one sighting more of the part it is about is still     *)
(* about that part.                                                        *)
LEMMA LineGrows ==
  ASSUME NEW s \in Seq(Frame), NEW b \in Int, OnALine(s, b),
         NEW o \in Frame, Real(o), s # <<>> => Last(s).at < o.at /\ Lap(o) = b, s = <<>> => Lap(o) = b
  PROVE  OnALine(Append(s, o), b)
<1>. DEFINE all == Append(s, o)
<1>1. /\ Len(s) \in Nat /\ Len(all) = Len(s) + 1
      /\ \A k \in 1..Len(s) : all[k] = s[k] /\ s[k] \in Frame
      /\ all[Len(s) + 1] = o
  BY LenProperties, AppendProperties, ElementOfSeq
<1> HIDE DEF all
<1>2. Lap(o) = b /\ o.at \in Int /\ o.place = Speed * (o.at - b)
  BY DEF Real, Frame
<1>3. \A k \in 1..Len(s) : s[k].at < o.at
  <2>1. SUFFICES ASSUME NEW k \in 1..Len(s) PROVE s[k].at < o.at
    OBVIOUS
  <2>2. s # <<>>
    BY <1>1, EmptySeq
  <2>3. s[Len(s)].at < o.at /\ Len(s) \in 1..Len(s)
    BY <1>1, <2>2 DEF Last
  <2>4. s[k].at \in Int /\ s[Len(s)].at \in Int
    BY <1>1, <2>3 DEF Frame
  <2>5. k = Len(s) \/ s[k].at < s[Len(s)].at
    BY <1>1, <2>3 DEF OnALine
  <2> QED BY <1>2, <2>3, <2>4, <2>5
<1>4. \A k \in 1..(Len(s) + 1) : k = Len(s) + 1 \/ k \in 1..Len(s)
  BY <1>1
<1>5. \A k \in 1..(Len(s) + 1) : all[k].at \in Int /\ all[k].place = Speed * (all[k].at - b)
  BY <1>1, <1>2, <1>4 DEF OnALine
<1>6. ASSUME NEW i \in 1..(Len(s) + 1), NEW k \in 1..(Len(s) + 1), i < k
      PROVE  all[i].at < all[k].at
  <2>1. i \in 1..Len(s)
    BY <1>1, <1>6
  <2>2. CASE k = Len(s) + 1
    BY <1>1, <1>3, <2>1, <2>2
  <2>3. CASE k \in 1..Len(s)
    BY <1>1, <1>6, <2>1, <2>3 DEF OnALine
  <2> QED BY <1>4, <2>2, <2>3
<1> QED BY <1>1, <1>5, <1>6 DEF OnALine, all

(* So is what is left of it when its oldest sightings are dropped.         *)
LEMMA LineIsCut ==
  ASSUME NEW all, NEW cut, NEW b \in Int, OnALine(all, b), Len(cut) \in Nat,
         NEW m \in Nat, \A k \in 1..Len(cut) : m + k \in 1..Len(all) /\ cut[k] = all[m + k]
  PROVE  OnALine(cut, b)
<1>1. \A i, k \in 1..Len(cut) : i < k => m + i < m + k
  OBVIOUS
<1> QED BY <1>1 DEF OnALine

(* A sighting that is late by less than a lap is taken for the part it is  *)
(* of, whether or not a speed is known yet.                                *)
LEMMA OfThePartOrAnother ==
  ASSUME NEW tr, TrackOK(tr), tr.seen # <<>>, NEW o, Real(o),
         Real(Last(tr.seen)), Ordered(Last(tr.seen), o), ~Stale(tr, o),
         Speed * (o.at - Last(tr.seen).at) < BeltEnd - Gate
  PROVE  Another(tr, o) \/ Lap(o) = Lap(Last(tr.seen))
<1>. DEFINE p == Last(tr.seen)
            v == Velocity(tr)
<1>1. /\ o.at \in Int /\ p.at \in Int /\ Lap(o) \in Int /\ Lap(p) \in Int
      /\ o.place = Speed * (o.at - Lap(o)) /\ p.place = Speed * (p.at - Lap(p))
  BY DEF Real, Frame
<1>2. v \in Int /\ v >= 0
  <2>1. v \in 0..(Scale * Speed)
    BY VelocityIsReal
  <2> QED BY <2>1, Settings
<1>3. p.at < o.at
  BY <1>1 DEF Stale
<1>4. SUFFICES ASSUME Lap(o) # Lap(p) PROVE Another(tr, o)
  OBVIOUS
<1>5. Speed * (Lap(o) - Lap(p)) >= BeltEnd
  BY <1>1, <1>3, <1>4 DEF Ordered
<1>6. BeltEnd \in Int /\ Gate \in Int /\ Gate >= 0
  BY SightingsAssumption
<1> HIDE DEF p, v
<1>7. PICK dt \in Int : dt = o.at - p.at
  BY <1>1
<1>8. PICK db \in Int : db = Lap(o) - Lap(p)
  BY <1>1
<1>9. PICK sdt \in Int : sdt = Speed * dt
  BY Settings
<1>10. PICK sdb \in Int : sdb = Speed * db
  BY Settings
<1>11. sdt < BeltEnd - Gate /\ sdb >= BeltEnd
  BY <1>5, <1>7, <1>8, <1>9, <1>10 DEF p
<1>12. o.place = p.place + (sdt - sdb) /\ p.place \in Int
  <2>1. PICK oa \in Int : oa = o.at
    BY <1>1
  <2>2. PICK pa \in Int : pa = p.at
    BY <1>1
  <2>3. PICK ol \in Int : ol = Lap(o)
    BY <1>1
  <2>4. PICK pl \in Int : pl = Lap(p)
    BY <1>1
  <2>5. /\ Speed * (oa - ol) = Speed * (pa - pl) + (Speed * (oa - pa) - Speed * (ol - pl))
        /\ Speed * (pa - pl) \in Int
    BY Settings
  <2> QED BY <1>1, <1>7, <1>8, <1>9, <1>10, <2>1, <2>2, <2>3, <2>4, <2>5
<1>13. PICK vdt \in Int : vdt = v * dt
  BY <1>2
<1>14. vdt >= 0
  <2>1. dt > 0
    BY <1>1, <1>3, <1>7
  <2> QED BY <1>2, <1>13, <2>1
<1>15. PICK q \in Int : q = p.place
  BY <1>12
<1>16. Scale * (q + (sdt - sdb)) - (Scale * q + vdt) < -(Scale * Gate)
  <2>1. PICK x \in Int : x = sdt - sdb
    OBVIOUS
  <2>2. x < -Gate
    BY <1>6, <1>11, <2>1
  <2>3. Scale * x < Scale * (-Gate)
    BY <1>6, <2>2, Settings
  <2>4. Scale * (q + x) = Scale * q + Scale * x /\ Scale * (-Gate) = -(Scale * Gate)
    BY <1>6, Settings
  <2>5. PICK sx \in Int : sx = Scale * x
    BY Settings
  <2>6. PICK sq \in Int : sq = Scale * q
    BY Settings
  <2>7. PICK sg \in Int : sg = Scale * Gate
    BY <1>6, Settings
  <2>8. (sq + sx) - (sq + vdt) < -sg
    BY <1>14, <2>3, <2>4, <2>5, <2>7
  <2> QED BY <2>1, <2>4, <2>5, <2>6, <2>7, <2>8
<1>17. Extrapolated(tr, p, o.at) = Scale * q + vdt
  BY <1>7, <1>13, <1>15 DEF Extrapolated, v
<1>18. Scale * o.place - Extrapolated(tr, p, o.at) < -(Scale * Gate)
  BY <1>12, <1>15, <1>16, <1>17
<1> QED BY <1>18 DEF Another, p

LEMMA LapOfALine ==
  ASSUME NEW s \in Seq(Frame), s # <<>>, NEW b \in Int, OnALine(s, b), Real(Last(s))
  PROVE  Lap(Last(s)) = b
<1>1. Len(s) \in 1..Len(s) /\ Last(s) = s[Len(s)]
  BY LastOfSequence
<1>2. PICK o : o = Last(s)
  OBVIOUS
<1>3. o.at \in Int /\ Lap(o) \in Int /\ o.place = Speed * (o.at - Lap(o)) /\ o.place = Speed * (o.at - b)
  BY <1>1, <1>2 DEF OnALine, Real, Frame
<1>4. \A x, y \in Int : Speed * x = Speed * y => x = y
  BY Settings
<1>5. o.at - Lap(o) = o.at - b
  BY <1>3, <1>4
<1> QED BY <1>2, <1>3, <1>5

LEMMA NoTrackIsOK == TrackOK(NoTrack) /\ Kept(NoTrack) = {}
<1>1. NoTrack \in Tracks
  BY DEF NoTrack, Tracks, None
<1>2. OnALine(NoTrack.seen, 0)
  BY DEF NoTrack, OnALine
<1>3. NoTrack.speed \in 0..(Scale * Speed)
  BY Settings DEF NoTrack
<1>4. Kept(NoTrack) = {} /\ NoTrack.last = {}
  BY DEF Kept, NoTrack, None
<1> QED BY <1>1, <1>2, <1>3, <1>4 DEF TrackOK

LEMMA WindowKeepsTrack ==
  ASSUME NEW tr, TrackOK(tr), NEW K, Kept(tr) \subseteq K, NEW o \in K,
         \A x \in K : Real(x), \A x, y \in K : Ordered(x, y),
         InTime(tr, ConstantVelocity(tr, o))
  PROVE  TrackOK(ConstantVelocity(tr, o)) /\ Kept(ConstantVelocity(tr, o)) \subseteq K
<1>. DEFINE base == IF Another(tr, o) THEN <<>> ELSE tr.seen
            all == Append(base, o)
            cut == SubSeq(all, Max({1, Len(all) - Window + 1}), Len(all))
            next == [tr EXCEPT !.seen = cut, !.last = {o}]
<1>1. CASE Stale(tr, o)
  BY <1>1 DEF ConstantVelocity
<1>2. CASE ~Stale(tr, o)
  <2>1. ConstantVelocity(tr, o) = next
    BY <1>2 DEF ConstantVelocity
  <2>2. tr \in Tracks /\ tr.seen \in Seq(Frame) /\ o \in Frame /\ Real(o) /\ Lap(o) \in Int
    BY DEF TrackOK, Tracks, Real
  <2>3. base \in Seq(Frame)
    BY <2>2
  <2>4. Window \in Nat /\ Window > 0
    BY SightingsAssumption
  <2>5. /\ cut \in Seq(Frame)
        /\ {cut[k] : k \in DOMAIN cut} \subseteq {base[k] : k \in DOMAIN base} \cup {o}
        /\ cut # <<>> /\ Last(cut) = o
        /\ \E m \in Nat : \A k \in 1..Len(cut) :
             m + k \in 1..Len(all) /\ cut[k] = all[m + k]
    <3>1. /\ all \in Seq(Frame) /\ all # <<>> /\ Last(all) = o
          /\ \A k \in 1..Len(all) : all[k] = o \/ (k \in DOMAIN base /\ all[k] = base[k])
      <4> HIDE DEF base
      <4> QED BY <2>2, <2>3, OneMore
    <3> HIDE DEF all
    <3>2. PICK c : \E m \in Nat :
            /\ c = SubSeq(all, Max({1, Len(all) - Window + 1}), Len(all))
            /\ c \in Seq(Frame) /\ Len(c) \in Nat /\ DOMAIN c = 1..Len(c)
            /\ \A k \in 1..Len(c) : m + k \in 1..Len(all) /\ c[k] = all[m + k]
            /\ Window > 0 => c # <<>> /\ Last(c) = Last(all)
      BY <2>4, <3>1, Newest
    <3>3. c = cut
      BY <3>2
    <3> HIDE DEF cut, base
    <3> QED BY <2>4, <3>1, <3>2, <3>3
  <2> HIDE DEF cut
  <2>6. next.seen = cut /\ next.last = {o} /\ next.speed = tr.speed /\ next \in Tracks
    BY <2>2, <2>5 DEF Tracks
  <2> HIDE DEF next
  <2>7. ASSUME tr.seen # <<>>, ~Another(tr, o)
        PROVE  Last(tr.seen).at < o.at /\ Lap(o) = Lap(Last(tr.seen)) /\ Real(Last(tr.seen))
    <3>1. Last(tr.seen) \in Kept(tr)
      BY <2>2, <2>7, LastOfSequence DEF Kept
    <3>2. Real(Last(tr.seen)) /\ Ordered(Last(tr.seen), o)
      BY <3>1
    <3>3. Last(tr.seen).at \in Int /\ o.at \in Int
      BY <2>2, <3>2 DEF Real, Frame
    <3>4. Last(tr.seen).at < o.at
      BY <1>2, <2>7, <3>3 DEF Stale
    <3>5. Speed * (o.at - Last(tr.seen).at) < BeltEnd - Gate
      BY <2>1, <2>5, <2>6, <2>7 DEF InTime
    <3> QED BY <1>2, <2>2, <2>7, <3>2, <3>4, <3>5, OfThePartOrAnother
  <2>8. OnALine(base, Lap(o))
    <3>1. CASE base = <<>>
      BY <3>1 DEF OnALine
    <3>2. CASE base # <<>>
      <4>1. base = tr.seen /\ tr.seen # <<>> /\ ~Another(tr, o)
        BY <3>2
      <4>2. PICK b \in Int : OnALine(tr.seen, b)
        BY DEF TrackOK
      <4>3. Lap(Last(tr.seen)) = b
        BY <2>2, <2>7, <4>1, <4>2, LapOfALine
      <4> QED BY <2>7, <4>1, <4>2, <4>3
    <3> QED BY <3>1, <3>2
  <2>9. base # <<>> => Last(base).at < o.at
    BY <2>7
  <2> HIDE DEF base
  <2>10. OnALine(all, Lap(o))
    BY <2>2, <2>3, <2>8, <2>9, LineGrows
  <2> HIDE DEF all
  <2>11. OnALine(cut, Lap(o))
    <3>1. Len(cut) \in Nat
      BY <2>5, LenProperties
    <3> QED BY <2>2, <2>5, <2>10, <3>1, LineIsCut
  <2>12. TrackOK(next)
    BY <2>2, <2>6, <2>11 DEF TrackOK
  <2>13. {base[k] : k \in DOMAIN base} \subseteq Kept(tr)
    BY DEF base, Kept
  <2>14. Kept(next) \subseteq K
    BY <2>5, <2>6, <2>13 DEF Kept
  <2> QED BY <2>1, <2>12, <2>14
<1> QED BY <1>1, <1>2

LEMMA SmoothingKeepsTrack ==
  ASSUME NEW tr, TrackOK(tr), NEW K, Kept(tr) \subseteq K, NEW o \in K,
         \A x \in K : Real(x), \A x, y \in K : Ordered(x, y),
         InTime(tr, Smoothed(tr, o))
  PROVE  TrackOK(Smoothed(tr, o)) /\ Kept(Smoothed(tr, o)) \subseteq K
<1>1. /\ tr \in Tracks /\ tr.seen \in Seq(Frame) /\ tr.span \in Int
      /\ tr.speed \in 0..(Scale * Speed) /\ o \in Frame /\ Real(o)
  BY DEF TrackOK, Tracks, Real
<1>2. /\ <<o>> \in Seq(Frame) /\ Len(<<o>>) = 1 /\ <<o>>[1] = o /\ DOMAIN <<o>> = 1..1
      /\ Last(<<o>>) = o /\ <<o>> # <<>>
  BY <1>1 DEF Last
<1>3. Lap(o) \in Int /\ OnALine(<<o>>, Lap(o))
  <2>1. \A k \in 1..1 : k = 1
    OBVIOUS
  <2>2. o.at \in Int /\ o.place = Speed * (o.at - Lap(o)) /\ Lap(o) \in Int
    BY <1>1 DEF Real, Frame
  <2>3. PICK s : s = <<o>>
    OBVIOUS
  <2>4. Len(s) = 1 /\ s[1] = o
    BY <1>2, <2>3
  <2>5. OnALine(s, Lap(o))
    BY <2>1, <2>2, <2>4 DEF OnALine
  <2> QED BY <2>2, <2>3, <2>5
<1>4. CASE Stale(tr, o)
  BY <1>4 DEF Smoothed
<1>5. CASE ~Stale(tr, o) /\ (tr.seen = <<>> \/ Another(tr, o))
  <2>. DEFINE next == [NoTrack EXCEPT !.seen = <<o>>, !.last = {o}]
  <2>1. Smoothed(tr, o) = next
    BY <1>5 DEF Smoothed
  <2>2. next.seen = <<o>> /\ next.last = {o} /\ next.speed = 0 /\ next \in Tracks
    <3>1. PICK t \in Tracks : t = NoTrack /\ t.speed = 0
      BY NoTrackIsOK DEF TrackOK, NoTrack
    <3>2. PICK s \in Seq(Frame) : s = <<o>>
      BY <1>2
    <3>3. PICK l \in SUBSET Frame : l = {o}
      BY <1>1
    <3>4. PICK u : u = [t EXCEPT !.seen = s, !.last = l]
      OBVIOUS
    <3>5. u \in Tracks /\ u.seen = s /\ u.last = l /\ u.speed = 0
      BY <3>1, <3>4 DEF Tracks
    <3> QED BY <3>1, <3>2, <3>3, <3>4, <3>5
  <2> HIDE DEF next
  <2>3. 0 \in 0..(Scale * Speed)
    BY Settings
  <2>4. TrackOK(next)
    BY <1>3, <2>2, <2>3 DEF TrackOK
  <2>5. Kept(next) \subseteq {o}
    <3>1. \A k \in DOMAIN <<o>> : <<o>>[k] = o
      BY <1>2
    <3> QED BY <2>2, <3>1 DEF Kept
  <2> QED BY <2>1, <2>4, <2>5
<1>6. CASE ~Stale(tr, o) /\ tr.seen # <<>> /\ ~Another(tr, o)
  <2>. DEFINE prior == Last(tr.seen)
              dt == o.at - prior.at
              measured == (Scale * (o.place - prior.place)) \div dt
              speed == tr.speed + (Smoothing * (measured - tr.speed)) \div Scale
              next == [seen  |-> <<o>>, last |-> {o}, span |-> tr.span + dt, speed |-> speed]
  <2>1. Smoothed(tr, o) = next
    BY <1>6 DEF Smoothed
  <2>2. prior \in Kept(tr)
    BY <1>1, <1>6, LastOfSequence DEF Kept
  <2>3. Real(prior) /\ Ordered(prior, o)
    BY <2>2
  <2>4. next.seen = <<o>> /\ next.last = {o} /\ next.speed = speed
    OBVIOUS
  <2>5. Speed * (o.at - prior.at) < BeltEnd - Gate
    BY <1>2, <1>6, <2>1, <2>4 DEF InTime
  <2>6. Lap(o) = Lap(prior)
    BY <1>1, <1>6, <2>3, <2>5, OfThePartOrAnother
  <2> HIDE DEF prior
  <2>7. /\ prior.at \in Int /\ o.at \in Int /\ Lap(o) \in Int
        /\ prior.place = Speed * (prior.at - Lap(o))
        /\ o.place = Speed * (o.at - Lap(o))
    BY <1>1, <2>3, <2>6 DEF Real, Frame
  <2>8. dt \in Int /\ dt > 0
    BY <1>6, <2>7 DEF Stale, prior
  <2>9. measured = Scale * Speed
    <3>1. PICK x \in Int : x = o.at
      BY <2>7
    <3>2. PICK y \in Int : y = prior.at
      BY <2>7
    <3>3. PICK l \in Int : l = Lap(o)
      BY <2>7
    <3>4. Scale * (Speed * (x - l) - Speed * (y - l)) = (Scale * Speed) * (x - y)
      BY Settings
    <3>5. Scale * (o.place - prior.place) = (Scale * Speed) * dt
      BY <2>7, <3>1, <3>2, <3>3, <3>4
    <3>6. \A c, w \in Int : w > 0 => (c * w) \div w = c
      OBVIOUS
    <3> HIDE DEF dt
    <3> QED BY <2>8, <3>5, <3>6, Settings
  <2> HIDE DEF measured
  <2>10. speed \in 0..(Scale * Speed)
    <3>1. PICK left \in Nat : left = Scale * Speed - tr.speed
      BY <1>1, Settings
    <3>2. Smoothing \in Int /\ Smoothing >= 0 /\ Smoothing <= Scale
      BY SightingsAssumption
    <3>3. (Smoothing * left) \div Scale \in Int
      BY <3>2, Settings
    <3>4. (Smoothing * left) \div Scale >= 0
      <4>1. Smoothing * left >= 0 /\ Smoothing * left \in Int
        BY <3>2
      <4> QED BY <4>1, Settings
    <3>5. (Smoothing * left) \div Scale <= left
      <4>1. Smoothing * left <= left * Scale /\ Smoothing * left \in Int /\ left * Scale \in Int
        BY <3>2, Settings
      <4>2. \A x, y, w \in Int : w > 0 /\ x <= y => x \div w <= y \div w
        OBVIOUS
      <4>3. (left * Scale) \div Scale = left
        BY Settings
      <4> QED BY <4>1, <4>2, <4>3, Settings
    <3>6. PICK step \in Int : step = (Smoothing * left) \div Scale
      BY <3>3
    <3>7. speed = tr.speed + step
      BY <2>9, <3>1, <3>6
    <3> HIDE DEF speed
    <3> QED BY <1>1, <3>1, <3>4, <3>5, <3>6, <3>7, Settings
  <2>11. speed \in Int /\ tr.span + dt \in Int
    BY <1>1, <2>8, <2>10, Settings
  <2> HIDE DEF speed, dt
  <2>12. next \in Tracks
    BY <1>1, <1>2, <2>11 DEF Tracks
  <2> HIDE DEF next
  <2>13. TrackOK(next)
    BY <1>3, <2>4, <2>10, <2>12 DEF TrackOK
  <2>14. Kept(next) \subseteq {o}
    <3>1. \A k \in DOMAIN <<o>> : <<o>>[k] = o
      BY <1>2
    <3> QED BY <2>4, <3>1 DEF Kept
  <2> QED BY <2>1, <2>13, <2>14
<1> QED BY <1>4, <1>5, <1>6

LEMMA LastKeepsTrack ==
  ASSUME NEW tr, TrackOK(tr), NEW o \in Frame, NEW next, next = [tr EXCEPT !.last = {o}]
  PROVE  TrackOK(next) /\ Kept(next) \subseteq Kept(tr) \cup {o} /\ next.seen = tr.seen
<1>1. tr \in Tracks
  BY DEF TrackOK
<1>2. PICK l \in SUBSET Frame : l = {o}
  OBVIOUS
<1>3. next \in Tracks /\ next.last = {o} /\ next.seen = tr.seen /\ next.speed = tr.speed
  BY <1>1, <1>2 DEF Tracks
<1>4. TrackOK(next)
  BY <1>3 DEF TrackOK
<1>5. Kept(next) \subseteq Kept(tr) \cup {o}
  BY <1>3 DEF Kept
<1> QED BY <1>3, <1>4, <1>5

LEMMA ObservedKeepsTrack ==
  ASSUME tracker \in Trackers, NEW tr, TrackOK(tr), NEW K, Kept(tr) \subseteq K, NEW o \in K,
         \A x \in K : Real(x), \A x, y \in K : Ordered(x, y),
         InTime(tr, Observed(tr, o))
  PROVE  TrackOK(Observed(tr, o)) /\ Kept(Observed(tr, o)) \subseteq K
<1>0. o \in Frame
  BY DEF Real
<1>1. CASE tracker = "snapshot"
  <2>1. Observed(tr, o) = [tr EXCEPT !.last = {o}]
    BY <1>1 DEF Observed, Snapshot
  <2> QED BY <1>0, <2>1, LastKeepsTrack
<1>2. CASE tracker = "constant"
  <2>1. Observed(tr, o) = ConstantVelocity(tr, o)
    BY <1>2 DEF Observed
  <2> QED BY <2>1, WindowKeepsTrack
<1>3. CASE tracker = "smoothed"
  <2>1. Observed(tr, o) = Smoothed(tr, o)
    BY <1>3 DEF Observed
  <2> QED BY <2>1, SmoothingKeepsTrack
<1>4. CASE tracker = "sandboxed"
  <2>1. Observed(tr, o) = [ConstantVelocity(tr, o) EXCEPT !.last = {o}]
    BY <1>4 DEF Observed, Sandboxed
  <2>2. "seen" \in DOMAIN ConstantVelocity(tr, o)
    <3>1. "seen" \in DOMAIN tr
      BY DEF TrackOK, Tracks
    <3>2. DOMAIN ConstantVelocity(tr, o) = DOMAIN tr
      BY DEF ConstantVelocity
    <3> QED BY <3>1, <3>2
  <2>3. PICK c : c = ConstantVelocity(tr, o)
    OBVIOUS
  <2>4. Observed(tr, o).seen = c.seen
    BY <2>1, <2>2, <2>3
  <2>5. InTime(tr, c)
    BY <2>4 DEF InTime
  <2>6. TrackOK(c) /\ Kept(c) \subseteq K
    BY <2>3, <2>5, WindowKeepsTrack
  <2> QED BY <1>0, <2>1, <2>3, <2>6, LastKeepsTrack
<1> QED BY <1>1, <1>2, <1>3, <1>4 DEF Trackers

-------------------------------------------------------------------------------
(* What a camera has.                                                      *)

Shown(frames) == {frames[k] : k \in DOMAIN frames}

LEMMA GrabbedFrames ==
  ASSUME NEW frames \in Seq(Frame), NEW o \in Frame
  PROVE  Grabbed(frames, o) \in Seq(Frame) /\ Shown(Grabbed(frames, o)) \subseteq Shown(frames) \cup {o}
<1>. DEFINE all == Append(frames, o)
            cut == SubSeq(all, Max({1, Len(all) - MaxPending + 1}), Len(all))
<1>1. Grabbed(frames, o) = frames \/ Grabbed(frames, o) = cut
  BY DEF Grabbed, Captured
<1>2. /\ all \in Seq(Frame) /\ all # <<>>
      /\ \A k \in 1..Len(all) : all[k] = o \/ (k \in DOMAIN frames /\ all[k] = frames[k])
  BY OneMore
<1>3. MaxPending \in Nat
  BY SightingsAssumption
<1> HIDE DEF all
<1>4. PICK c : \E m \in Nat :
        /\ c = SubSeq(all, Max({1, Len(all) - MaxPending + 1}), Len(all))
        /\ c \in Seq(Frame) /\ Len(c) \in Nat /\ DOMAIN c = 1..Len(c)
        /\ \A k \in 1..Len(c) : m + k \in 1..Len(all) /\ c[k] = all[m + k]
        /\ MaxPending > 0 => c # <<>> /\ Last(c) = Last(all)
  BY <1>2, <1>3, Newest
<1>5. c = cut
  BY <1>4
<1> HIDE DEF cut
<1>6. \A k \in DOMAIN c : c[k] \in Shown(frames) \cup {o}
  BY <1>2, <1>4 DEF Shown
<1> QED BY <1>1, <1>4, <1>5, <1>6 DEF Shown

LEMMA LookIsAFrame ==
  ASSUME NEW frames \in Seq(Frame), NEW o
  PROVE  Look(frames, o) \subseteq Shown(frames) \cup {o}
<1>. DEFINE ready == {k \in DOMAIN frames : o.at - frames[k].at >= detector.sensor.latency}
<1>1. ready # {} => Max(ready) \in ready
  <2>1. SUFFICES ASSUME ready # {} PROVE Max(ready) \in ready
    OBVIOUS
  <2>2. Len(frames) \in Nat /\ ready \subseteq 1..Len(frames)
    BY LenProperties
  <2> HIDE DEF ready
  <2>3. PICK n \in Nat : n = Len(frames)
    BY <2>2
  <2>. DEFINE T == {n - k : k \in ready}
  <2>4. T \subseteq Nat /\ T # {}
    <3>1. \A k \in ready : n - k \in Nat
      BY <2>2, <2>3
    <3> QED BY <2>1, <3>1
  <2>5. PICK x \in T : \A y \in T : x <= y
    BY <2>4, LeastNumber
  <2>6. PICK m \in ready : \A k \in ready : m >= k
    <3>1. PICK m \in ready : x = n - m
      BY <2>5
    <3>2. ASSUME NEW k \in ready PROVE m >= k
      <4>1. n - m <= n - k
        BY <2>5, <3>1
      <4> QED BY <2>2, <2>3, <4>1
    <3> QED BY <3>2
  <2>7. \E u \in ready : \A k \in ready : u >= k
    BY <2>6
  <2> QED BY <2>7 DEF Max
<1>2. Delivered(frames, o.at) \subseteq Shown(frames)
  BY <1>1 DEF Delivered, Shown, None
<1>3. Look(frames, o) = {o} \/ Look(frames, o) \subseteq Delivered(frames, o.at)
  BY DEF Look, Detected
<1> QED BY <1>2, <1>3

(* A look at the world tells the tracker of nothing but what is in sight.  *)
LEMMA LookKeeps ==
  ASSUME tracker \in Trackers, NEW frames \in Seq(Frame), NEW tr, TrackOK(tr),
         NEW K, Shown(frames) \subseteq K, Kept(tr) \subseteq K, NEW o \in K,
         \A x \in K : Real(x), \A x, y \in K : Ordered(x, y),
         NEW f, f = Grabbed(frames, o),
         NEW next, next = AllObserved(tr, Look(f, o)), InTime(tr, next)
  PROVE  /\ f \in Seq(Frame) /\ Shown(f) \subseteq K
         /\ TrackOK(next) /\ Kept(next) \subseteq K
<1>1. o \in Frame
  BY DEF Real
<1>2. f \in Seq(Frame) /\ Shown(f) \subseteq K
  BY <1>1, GrabbedFrames
<1>3. Look(f, o) \subseteq K
  BY <1>2, LookIsAFrame
<1>4. CASE Look(f, o) = None
  BY <1>2, <1>4 DEF AllObserved
<1>5. CASE Look(f, o) # None
  <2>1. PICK x \in K : x = CHOOSE y \in Look(f, o) : TRUE
    BY <1>3, <1>5 DEF None
  <2>2. next = Observed(tr, x)
    BY <1>5, <2>1 DEF AllObserved
  <2>3. TrackOK(Observed(tr, x)) /\ Kept(Observed(tr, x)) \subseteq K
    BY <2>2, ObservedKeepsTrack
  <2> QED BY <1>2, <2>2, <2>3
<1> QED BY <1>4, <1>5

-------------------------------------------------------------------------------
(* The belt.                                                               *)

LEMMA HereIsReal ==
  ASSUME NEW t \in Int, NEW b \in Int
  PROVE  Lap(Here(t, b)) = b /\ Real(Here(t, b)) /\ Here(t, b).at = t
<1>1. Speed * (t - b) \in Int /\ (Speed * (t - b)) \div Speed = t - b
  <2>1. \A c, w \in Int : w > 0 => w * c \in Int /\ (w * c) \div w = c
    OBVIOUS
  <2>2. t - b \in Int
    OBVIOUS
  <2> QED BY <2>1, <2>2, Settings
<1>2. Here(t, b).at = t /\ Here(t, b).place = Speed * (t - b) /\ Here(t, b) \in Frame
  BY <1>1 DEF Here, Frame
<1>3. Lap(Here(t, b)) = b
  <2>1. PICK h : h = Here(t, b)
    OBVIOUS
  <2>2. Lap(h) = t - (Speed * (t - b)) \div Speed
    BY <1>2, <2>1 DEF Lap
  <2>3. t - (t - b) = b
    OBVIOUS
  <2> QED BY <1>1, <2>1, <2>2, <2>3
<1> QED BY <1>2, <1>3 DEF Real

(* The part that is on the belt was put there at b and is seen at t.       *)
OnTheBelt(t, b) == t \in Nat /\ b \in Nat /\ b <= t /\ Speed * (t - b) < BeltEnd

LEMMA BeltGoesOn ==
  ASSUME NEW t, NEW b, OnTheBelt(t, b), NEW d \in Nat, NEW tt, tt = t + d,
         NEW bb, bb = Recirculated(tt, b)
  PROVE  /\ OnTheBelt(tt, bb)
         /\ bb = b \/ Speed * (bb - b) >= BeltEnd
         /\ d = 0 => bb = b
<1>1. t \in Nat /\ b \in Nat /\ tt \in Nat /\ b <= t /\ t <= tt /\ BeltEnd \in Nat /\ BeltEnd > 0
  BY SightingsAssumption DEF OnTheBelt
<1>2. bb = IF Speed * (tt - b) >= BeltEnd THEN tt ELSE b
  BY DEF Recirculated, Here
<1>3. CASE Speed * (tt - b) >= BeltEnd
  <2>1. Speed * (tt - tt) = 0
    BY <1>1, Settings
  <2>2. d # 0
    <3>1. SUFFICES ASSUME d = 0 PROVE FALSE
      OBVIOUS
    <3>2. tt = t
      BY <1>1, <3>1
    <3>3. Speed * (t - b) \in Int /\ Speed * (t - b) < BeltEnd
      BY <1>1, Settings DEF OnTheBelt
    <3> QED BY <1>1, <1>3, <3>2, <3>3
  <2> QED BY <1>1, <1>2, <1>3, <2>1, <2>2 DEF OnTheBelt
<1>4. CASE ~(Speed * (tt - b) >= BeltEnd)
  <2>1. Speed * (tt - b) \in Int
    BY <1>1, Settings
  <2> QED BY <1>1, <1>2, <1>4, <2>1 DEF OnTheBelt
<1> QED BY <1>3, <1>4

(* What can be in sight at t of the part put on the belt at b, and of the  *)
(* parts before it.                                                        *)
Sight(K, t, b) ==
  /\ Here(t, b) \in K
  /\ \A x \in K : Real(x) /\ x.at <= t
  /\ \A x, y \in K : Ordered(x, y)

LEMMA SightGoesOn ==
  ASSUME NEW t, NEW b, OnTheBelt(t, b), NEW K, Sight(K, t, b),
         NEW d \in Nat, NEW tt, tt = t + d, NEW bb, bb = Recirculated(tt, b)
  PROVE  Sight(K \cup {Here(tt, bb)}, tt, bb)
<1>1. /\ t \in Int /\ b \in Int /\ tt \in Int /\ bb \in Int /\ t <= tt
      /\ bb = b \/ Speed * (bb - b) >= BeltEnd
      /\ d = 0 => bb = b
  <2>1. OnTheBelt(tt, bb) /\ (bb = b \/ Speed * (bb - b) >= BeltEnd) /\ (d = 0 => bb = b)
    BY BeltGoesOn
  <2>2. t \in Nat /\ t <= tt
    BY DEF OnTheBelt
  <2> QED BY <2>1, <2>2 DEF OnTheBelt
<1>2. PICK h : h = Here(t, b)
  OBVIOUS
<1>3. PICK n : n = Here(tt, bb)
  OBVIOUS
<1>4. /\ h \in K /\ Real(h) /\ Lap(h) = b /\ h.at = t
      /\ Real(n) /\ Lap(n) = bb /\ n.at = tt
  BY <1>1, <1>2, <1>3, HereIsReal DEF Sight
<1>5. \A x \in K : Real(x) /\ x.at \in Int /\ Lap(x) \in Int /\ x.at <= t
  BY DEF Sight, Real, Frame
<1>6. ASSUME NEW x \in K PROVE Ordered(x, n)
  <2>1. PICK l \in Int : l = Lap(x)
    BY <1>5
  <2>2. b = l \/ Speed * (b - l) >= BeltEnd
    BY <1>4, <1>5, <2>1 DEF Sight, Ordered
  <2>3. BeltEnd \in Int /\ BeltEnd >= 0
    BY SightingsAssumption
  <2>4. bb = l \/ Speed * (bb - l) >= BeltEnd
    <3>1. Speed * (bb - l) = Speed * (bb - b) + Speed * (b - l)
      BY <1>1, Settings
    <3>2. Speed * (bb - b) \in Int /\ Speed * (b - l) \in Int
      BY <1>1, Settings
    <3> QED BY <1>1, <2>2, <2>3, <3>1, <3>2
  <2> QED BY <1>4, <2>1, <2>4 DEF Ordered
<1>7. ASSUME NEW x \in K PROVE Ordered(n, x)
  <2>1. SUFFICES ASSUME tt <= x.at PROVE Ordered(n, x)
    BY <1>4 DEF Ordered
  <2>2. d = 0 /\ tt = t
    BY <1>1, <1>5, <2>1
  <2>3. n = h
    BY <1>1, <1>2, <1>3, <2>2
  <2> QED BY <1>4, <2>3 DEF Sight
<1>8. Ordered(n, n)
  BY <1>4 DEF Ordered
<1>9. \A x \in K \cup {n} : x = n \/ x \in K
  OBVIOUS
<1>10. \A x \in K \cup {n} : Real(x) /\ x.at <= tt
  BY <1>1, <1>4, <1>5, <1>9
<1>11. \A x, y \in K \cup {n} : Ordered(x, y)
  BY <1>6, <1>7, <1>8, <1>9 DEF Sight
<1> QED BY <1>3, <1>10, <1>11 DEF Sight

-------------------------------------------------------------------------------
(* The specification.                                                      *)

Phases == {"idle", "sighting", "reaching", "holding"}
Reaches == [phase : Phases, attempt : Int, lead : Nat, waited : Int, started : Nat,
         took : Approaches \cup {0}, aim : Int, seen : SUBSET Frame, sure : BOOLEAN]

(* The aim of a reach is on the line of one speed through what was seen.   *)
AimIsOnALine ==
  \E v \in 0..(Scale * Speed) :
    /\ run.sure => v # 0
    /\ tracker \in {"constant", "sandboxed"} => v \in {0, Scale * Speed}
    /\ \A o \in run.seen :
         /\ Real(o) /\ o.at <= run.started
         /\ run.aim = Scale * o.place + v * ((run.started + run.lead) - o.at)

InSight == {Here(now, born)} \cup Shown(pending) \cup Kept(track)

SightingsInv ==
  /\ tracker \in Trackers
  /\ OnTheBelt(now, born)
  /\ pending \in Seq(Frame)
  /\ TrackOK(track)
  /\ Sight(InSight, now, born)
  /\ run \in Reaches
  /\ run.started <= now
  /\ run.phase = "reaching" => AimIsOnALine

(* The next sighting a tracker takes comes before the belt has gone round, *)
(* less the gate: a part a lap later in the same place is the same to it.  *)
SeenInTime == [][InTime(track, track')]_sight_vars

LEMMA RestingIsARun == Resting \in Reaches /\ Resting.phase = "idle" /\ Resting.started = 0
<1>1. FirstLead \in Nat
  BY SightingsAssumption
<1>2. Resting.phase = "idle" /\ Resting.started = 0
  BY DEF Resting
<1>3. None \in SUBSET Frame
  BY DEF None
<1>4. Resting \in Reaches
  <2>1. /\ "idle" \in Phases /\ 0 \in Approaches \cup {0} /\ FALSE \in BOOLEAN
        /\ 0 \in Int /\ 1 \in Int /\ 0 \in Nat
    BY DEF Phases
  <2> QED BY <1>1, <1>3, <2>1 DEF Resting, Reaches
<1> QED BY <1>2, <1>4

LEMMA InitiallySighted == SightingsInit => SightingsInv
<1> SUFFICES ASSUME SightingsInit PROVE SightingsInv
  OBVIOUS
<1>1. /\ now = 0 /\ born = 0 /\ pending = <<>> /\ tracker \in Trackers
      /\ track = NoTrack /\ run = Resting
  BY DEF SightingsInit
<1>2. OnTheBelt(0, 0)
  <2>1. Speed * (0 - 0) = 0
    BY Settings
  <2> QED BY <2>1, SightingsAssumption DEF OnTheBelt
<1>3. PICK h : h = Here(0, 0)
  OBVIOUS
<1>4. InSight = {h}
  BY <1>1, <1>3, NoTrackIsOK DEF InSight, Shown
<1>5. Sight({h}, 0, 0)
  <2>1. Real(h) /\ h.at = 0
    BY <1>3, HereIsReal
  <2>2. Ordered(h, h)
    BY DEF Ordered
  <2> QED BY <1>3, <2>1, <2>2 DEF Sight
<1>6. pending \in Seq(Frame)
  BY <1>1
<1> QED BY <1>1, <1>2, <1>4, <1>5, <1>6, NoTrackIsOK, RestingIsARun DEF SightingsInv

(* Time passes, and what is in sight stays true.                           *)
LEMMA PassesKeeps ==
  ASSUME SightingsInv, NEW d \in Nat, Passes(d), InTime(track, track')
  PROVE  /\ tracker' \in Trackers
         /\ OnTheBelt(now', born')
         /\ pending' \in Seq(Frame)
         /\ TrackOK(track)'
         /\ Sight(InSight', now', born')
         /\ now <= now' /\ tracker' = tracker
<1>. DEFINE o == Here(now', born')
            K == InSight \cup {o}
<1>1. /\ now' = now + d /\ born' = Recirculated(now', born)
      /\ pending' = Grabbed(pending, o)
      /\ track' = AllObserved(track, Look(pending', o))
      /\ tracker' = tracker
  BY DEF Passes
<1>2. /\ tracker \in Trackers /\ OnTheBelt(now, born) /\ pending \in Seq(Frame)
      /\ TrackOK(track) /\ Sight(InSight, now, born)
  BY DEF SightingsInv
<1>3. OnTheBelt(now', born')
  BY <1>1, <1>2, BeltGoesOn
<1>4. Sight(K, now', born')
  BY <1>1, <1>2, SightGoesOn
<1>5. Shown(pending) \subseteq K /\ Kept(track) \subseteq K /\ o \in K
  BY DEF InSight
<1>6. \A x \in K : Real(x)
  BY <1>4 DEF Sight
<1>7. \A x, y \in K : Ordered(x, y)
  BY <1>4 DEF Sight
<1> HIDE DEF K, o
<1>8. /\ pending' \in Seq(Frame) /\ Shown(pending') \subseteq K
      /\ TrackOK(track') /\ Kept(track') \subseteq K
  BY <1>1, <1>2, <1>5, <1>6, <1>7, LookKeeps
<1>9. InSight' \subseteq K /\ o \in InSight'
  BY <1>5, <1>8 DEF InSight, o, Shown, Kept
<1>10. Sight(InSight', now', born')
  BY <1>4, <1>9 DEF Sight, o
<1>11. now <= now'
  BY <1>1, <1>2 DEF OnTheBelt
<1> QED BY <1>1, <1>2, <1>3, <1>8, <1>10, <1>11 DEF TrackOK

(* So it does when the program looks once more.                            *)
LEMMA SightsKeeps ==
  ASSUME SightingsInv, Sights, InTime(track, track')
  PROVE  /\ pending' \in Seq(Frame)
         /\ TrackOK(Told) /\ Told = track' /\ Kept(Told) \subseteq InSight
         /\ Sight(InSight', now, born)
         /\ now' = now /\ born' = born /\ tracker' = tracker /\ run.phase = "sighting"
<1>. DEFINE o == Here(now, born)
<1>1. /\ now' = now /\ born' = born /\ tracker' = tracker /\ run.phase = "sighting"
      /\ pending' = Grabbed(pending, o)
      /\ track' = AllObserved(track, Look(pending', o))
      /\ track' = Told
  BY DEF Sights, Frames, Seen, Told
<1>2. /\ tracker \in Trackers /\ pending \in Seq(Frame) /\ TrackOK(track)
      /\ Sight(InSight, now, born)
  BY DEF SightingsInv
<1>3. Shown(pending) \subseteq InSight /\ Kept(track) \subseteq InSight /\ o \in InSight
  BY DEF InSight
<1>4. \A x \in InSight : Real(x)
  BY <1>2 DEF Sight
<1>5. \A x, y \in InSight : Ordered(x, y)
  BY <1>2 DEF Sight
<1> HIDE DEF o
<1>6. /\ pending' \in Seq(Frame) /\ Shown(pending') \subseteq InSight
      /\ TrackOK(track') /\ Kept(track') \subseteq InSight
  BY <1>1, <1>2, <1>3, <1>4, <1>5, LookKeeps
<1>7. InSight' \subseteq InSight /\ Here(now, born) \in InSight'
  <2>1. InSight' = {Here(now, born)} \cup Shown(pending') \cup Kept(track')
    BY <1>1 DEF InSight, Shown, Kept, Here
  <2> QED BY <1>3, <1>6, <2>1 DEF o
<1>8. Sight(InSight', now, born)
  BY <1>2, <1>7 DEF Sight
<1> QED BY <1>1, <1>6, <1>8

(* Where a tracker says that a part will be is on the line of its speed.   *)
LEMMA AimsOnALine ==
  ASSUME SightingsInv, Aim, InTime(track, track')
  PROVE  /\ run' \in Reaches /\ run'.started = now /\ AimIsOnALine'
<1>1. PICK x \in Targets, took \in Approaches :
        run' = [run EXCEPT !.phase = "reaching", !.started = now, !.took = took, !.aim = x,
                           !.seen = Told.last, !.sure = Velocity(Told) # 0]
  BY DEF Aim
<1>2. Sights
  BY DEF Aim
<1>3. /\ TrackOK(Told) /\ Kept(Told) \subseteq InSight /\ tracker' = tracker
  BY <1>2, SightsKeeps
<1>4. PICK v : v = Velocity(Told)
  OBVIOUS
<1>5. v \in 0..(Scale * Speed) /\ (tracker \in {"constant", "sandboxed"} => v \in {0, Scale * Speed})
  BY <1>3, <1>4, VelocityIsReal
<1>6. v \in Int /\ Scale \in Int
  BY <1>5, Settings
<1>7. PICK o \in Told.last : x = Scale * o.place + v * ((now + run.lead) - o.at)
  BY <1>1, <1>4 DEF Targets, Predictions, Extrapolated
<1>8. \A y \in Told.last : y = o
  BY <1>3, <1>7 DEF TrackOK
<1>9. Real(o) /\ o.at <= now /\ Told.last \in SUBSET Frame
  BY <1>3, <1>7 DEF Kept, TrackOK, Tracks, SightingsInv, Sight
<1>10. now \in Nat /\ run \in Reaches /\ run.lead \in Nat
  BY DEF SightingsInv, OnTheBelt, Reaches
<1>11. x \in Int
  <2>1. o.place \in Int /\ o.at \in Int
    BY <1>9 DEF Real, Frame
  <2> QED BY <1>6, <1>7, <1>10, <2>1
<1>12. PICK sure \in BOOLEAN : sure = (v # 0)
  OBVIOUS
<1>13. PICK phase \in Phases : phase = "reaching"
  BY DEF Phases
<1>14. PICK seen \in SUBSET Frame : seen = Told.last
  BY <1>9
<1>15. PICK t \in Approaches \cup {0} : t = took
  OBVIOUS
<1>16. run' = [run EXCEPT !.phase = phase, !.started = now, !.took = t, !.aim = x,
                          !.seen = seen, !.sure = sure]
  BY <1>1, <1>4, <1>12, <1>13, <1>14, <1>15
<1>17. /\ run' \in Reaches /\ run'.started = now /\ run'.lead = run.lead
       /\ run'.aim = x /\ run'.seen = seen /\ run'.sure = sure
  BY <1>10, <1>11, <1>16 DEF Reaches
<1>18. AimIsOnALine'
  BY <1>3, <1>5, <1>7, <1>8, <1>9, <1>12, <1>14, <1>17 DEF AimIsOnALine, Real, Lap
<1> QED BY <1>17, <1>18

LEMMA SightingsGoOn ==
  ASSUME SightingsInv, [SightingsNext]_sight_vars, [InTime(track, track')]_sight_vars
  PROVE  SightingsInv'
<1>0. /\ tracker \in Trackers /\ OnTheBelt(now, born) /\ pending \in Seq(Frame)
      /\ TrackOK(track) /\ Sight(InSight, now, born)
      /\ run \in Reaches /\ run.started <= now
      /\ run.phase = "reaching" => AimIsOnALine
  BY DEF SightingsInv
<1>1. ASSUME sight_vars' = sight_vars PROVE SightingsInv'
  <2>1. UNCHANGED <<now, born, tracker, pending, track, run>>
    BY <1>1 DEF sight_vars
  <2> QED BY <1>0, <2>1 DEF SightingsInv, InSight, Shown, Kept, AimIsOnALine, OnTheBelt,
                            Sight, Here, TrackOK, Ordered, Real, Lap
<1>2. ASSUME SightingsNext, InTime(track, track') PROVE SightingsInv'
  <2>1. now \in Nat /\ Jitter \subseteq Nat
    BY <1>0, SightingsAssumption DEF OnTheBelt
  <2>2. ASSUME UNCHANGED <<now, born>>, InSight' \subseteq InSight
        PROVE  Sight(InSight', now', born')
    <3>1. Here(now, born) \in InSight'
      BY <2>2 DEF InSight, Here
    <3> QED BY <1>0, <2>2, <3>1 DEF Sight, Here
  <2>3. ASSUME NEW d \in Jitter, Passes(d), UNCHANGED run PROVE SightingsInv'
    <3>1. /\ tracker' \in Trackers /\ OnTheBelt(now', born') /\ pending' \in Seq(Frame)
          /\ TrackOK(track)' /\ Sight(InSight', now', born')
          /\ now <= now' /\ tracker' = tracker
      BY <1>2, <2>1, <2>3, PassesKeeps
    <3>2. run.started <= now'
      <4>1. run.started \in Nat /\ run.started <= now
        BY <1>0 DEF Reaches
      <4>2. now' \in Nat /\ now <= now'
        BY <3>1 DEF OnTheBelt
      <4> QED BY <2>1, <4>1, <4>2
    <3>3. run.phase = "reaching" => AimIsOnALine'
      BY <1>0, <2>3, <3>1 DEF AimIsOnALine, Real, Lap
    <3> QED BY <1>0, <2>3, <3>1, <3>2, <3>3 DEF SightingsInv, Sight, OnTheBelt, Here, Ordered, Real, Lap
  <2>4. ASSUME UNCHANGED <<now, born, pending, track, tracker>>,
               run' \in Reaches, run'.started <= now, run'.phase # "reaching"
        PROVE  SightingsInv'
    <3>1. InSight' = InSight
      BY <2>4 DEF InSight, Here, Shown, Kept
    <3>2. Sight(InSight', now', born')
      BY <2>2, <2>4, <3>1
    <3> QED BY <1>0, <2>4, <3>2 DEF SightingsInv, Sight, OnTheBelt, Here, Ordered, Real, Lap, TrackOK
  <2>5. CASE Idle
    BY <2>3, <2>5 DEF Idle
  <2>6. CASE Intercept
    <3>1. UNCHANGED <<now, born, pending, track, tracker>>
      BY <2>6 DEF Intercept
    <3>2. PICK p \in Phases : p = "sighting"
      BY DEF Phases
    <3>3. run' = [Resting EXCEPT !.phase = p]
      BY <2>6, <3>2 DEF Intercept
    <3>4. run' \in Reaches /\ run'.started = 0 /\ run'.phase = p
      BY <3>3, RestingIsARun DEF Reaches
    <3> QED BY <2>1, <2>4, <3>1, <3>2, <3>4
  <2>7. CASE AwaitSighting
    <3>1. PICK d \in Jitter : Passes(d) /\ run' = [run EXCEPT !.waited = @ + d]
      BY <2>7 DEF AwaitSighting
    <3>2. d \in Nat /\ run.phase = "sighting"
      BY <2>1, <2>7 DEF AwaitSighting
    <3>3. /\ tracker' \in Trackers /\ OnTheBelt(now', born') /\ pending' \in Seq(Frame)
          /\ TrackOK(track)' /\ Sight(InSight', now', born')
          /\ now <= now' /\ tracker' = tracker
      BY <1>2, <3>1, <3>2, PassesKeeps
    <3>4. run' \in Reaches /\ run'.started = run.started /\ run'.phase = "sighting"
      BY <1>0, <3>1, <3>2 DEF Reaches
    <3>5. run'.started <= now'
      <4>1. run.started \in Nat /\ run.started <= now
        BY <1>0 DEF Reaches
      <4>2. now' \in Nat /\ now <= now'
        BY <3>3 DEF OnTheBelt
      <4> QED BY <2>1, <3>4, <4>1, <4>2
    <3> QED BY <3>3, <3>4, <3>5 DEF SightingsInv, Sight, OnTheBelt, Here, Ordered, Real, Lap
  <2>8. CASE NothingCame
    BY <2>1, <2>4, <2>8, RestingIsARun DEF NothingCame
  <2>9. ASSUME Sights, run' \in Reaches, run'.started <= now,
               run'.phase = "reaching" => AimIsOnALine'
        PROVE  SightingsInv'
    <3>1. /\ pending' \in Seq(Frame) /\ TrackOK(track')
          /\ Sight(InSight', now, born)
          /\ now' = now /\ born' = born /\ tracker' = tracker
      BY <1>2, <2>9, SightsKeeps
    <3> QED BY <1>0, <2>9, <3>1 DEF SightingsInv, Sight, OnTheBelt, Here, Ordered, Real, Lap, TrackOK
  <2>10. CASE Aim
    <3>1. run' \in Reaches /\ run'.started = now /\ AimIsOnALine'
      BY <1>2, <2>10, AimsOnALine
    <3> QED BY <2>1, <2>9, <2>10, <3>1 DEF Aim
  <2>11. CASE NoPrediction
    BY <2>1, <2>9, <2>11, RestingIsARun DEF NoPrediction
  <2>12. CASE Reach
    BY <2>3, <2>12 DEF Reach
  <2>13. CASE Close
    <3>1. UNCHANGED <<now, born, pending, track, tracker>> /\ now - run.started \in Nat
      BY <1>0, <2>1, <2>13 DEF Close, Reaches
    <3>2. PICK lead \in Nat : lead = now - run.started
      BY <3>1
    <3>3. PICK p \in Phases : p = "sighting"
      BY DEF Phases
    <3>4. PICK q \in Phases : q = "holding"
      BY DEF Phases
    <3>5. PICK n \in Int : n = run.attempt + 1
      BY <1>0 DEF Reaches
    <3>6. \/ run' = [Resting EXCEPT !.phase = q]
          \/ run' = [Resting EXCEPT !.phase = p, !.attempt = n, !.lead = lead]
          \/ run' = Resting
      BY <2>13, <3>2, <3>3, <3>4, <3>5 DEF Close
    <3>7. run' \in Reaches /\ run'.started = 0 /\ run'.phase # "reaching"
      BY <3>3, <3>4, <3>6, RestingIsARun DEF Reaches
    <3> QED BY <2>1, <2>4, <3>1, <3>7
  <2>14. ASSUME NEW v \in Trackers, SelectTracker(v) PROVE SightingsInv'
    <3>1. /\ tracker' = v /\ track' = NoTrack /\ UNCHANGED <<now, born, pending, run>>
          /\ run.phase = "idle"
      BY <2>14 DEF SelectTracker, Selects
    <3>2. InSight' \subseteq InSight
      BY <3>1, NoTrackIsOK DEF InSight, Here, Shown, Kept
    <3>3. Sight(InSight', now', born')
      BY <2>2, <3>1, <3>2
    <3> QED BY <1>0, <2>14, <3>1, <3>3, NoTrackIsOK
            DEF SightingsInv, Sight, OnTheBelt, Here, Ordered, Real, Lap, TrackOK
  <2>15. ASSUME UNCHANGED <<now, born, track, run, tracker>>, run.phase = "idle",
                pending' \in Seq(Frame), Shown(pending') \subseteq InSight
         PROVE  SightingsInv'
    <3>1. InSight' \subseteq InSight
      BY <2>15 DEF InSight, Here, Shown, Kept
    <3>2. Sight(InSight', now', born')
      BY <2>2, <2>15, <3>1
    <3> QED BY <1>0, <2>15, <3>2
            DEF SightingsInv, Sight, OnTheBelt, Here, Ordered, Real, Lap, TrackOK
  <2>16. /\ <<>> \in Seq(Frame) /\ Shown(<<>>) = {}
         /\ <<Here(now, born)>> \in Seq(Frame)
         /\ Shown(<<Here(now, born)>>) = {Here(now, born)}
    <3>1. PICK h \in Frame : h = Here(now, born)
      BY <1>0, HereIsReal DEF Real, OnTheBelt
    <3>2. \A k \in DOMAIN <<h>> : <<h>>[k] = h
      OBVIOUS
    <3>3. 1 \in DOMAIN <<h>>
      OBVIOUS
    <3> QED BY <3>1, <3>2, <3>3 DEF Shown
  <2>17. ASSUME NEW name \in {"cv", "toy"}, SelectDetector(name) PROVE SightingsInv'
    <3>1. /\ UNCHANGED <<now, born, track, run, tracker>> /\ run.phase = "idle"
          /\ pending' = <<>> \/ pending' = <<Here(now, born)>>
      BY <2>17 DEF SelectDetector, Selects
    <3>2. pending' \in Seq(Frame) /\ Shown(pending') \subseteq InSight
      BY <2>16, <3>1 DEF InSight
    <3> QED BY <2>15, <3>1, <3>2
  <2>18. ASSUME NEW c \in Cameras, SelectCamera(c) PROVE SightingsInv'
    <3>1. /\ UNCHANGED <<now, born, track, run, tracker>> /\ run.phase = "idle"
          /\ pending' = <<>> \/ pending' = pending
      BY <2>18 DEF SelectCamera, Selects
    <3>2. pending' \in Seq(Frame) /\ Shown(pending') \subseteq InSight
      BY <1>0, <2>16, <3>1 DEF InSight
    <3> QED BY <2>15, <3>1, <3>2
  <2> QED BY <1>2, <2>5, <2>6, <2>7, <2>8, <2>10, <2>11, <2>12, <2>13, <2>14, <2>17, <2>18
          DEF SightingsNext
<1> QED BY <1>1, <1>2

(* What the camera holds and what the tracker keeps are places the parts   *)
(* really were, in order; a window is of one part; a reach aims along the  *)
(* line of one speed (ConstantVelocityTracker, SmoothedTracker,            *)
(* ProgramRunner::intercept).                                              *)
THEOREM SightingsInvariant ==
  SightingsSpec /\ SeenInTime => []SightingsInv
<1>1. SightingsInit => SightingsInv
  BY InitiallySighted
<1>2. SightingsInv /\ [SightingsNext]_sight_vars /\ [InTime(track, track')]_sight_vars
      => SightingsInv'
  BY SightingsGoOn
<1> QED BY <1>1, <1>2, PTL DEF SightingsSpec, SeenInTime

(* An aim on the line of a speed the belt has meets the part, or lags it.  *)
LEMMA AimsAreTrue ==
  ASSUME SightingsInv
  PROVE  AimsMeetThePart
<1>1. SUFFICES ASSUME run.phase = "reaching", now = run.started + run.lead,
                      NEW o \in run.seen, Lap(o) = born
               PROVE  /\ run.aim >= Scale * o.place
                      /\ run.aim <= Scale * Here(now, born).place
                      /\ run.sure /\ tracker \in {"constant", "sandboxed"} => Off = 0
  BY DEF AimsMeetThePart
<1>2. PICK v \in 0..(Scale * Speed) :
        /\ run.sure => v # 0
        /\ tracker \in {"constant", "sandboxed"} => v \in {0, Scale * Speed}
        /\ Real(o) /\ o.at <= run.started
        /\ run.aim = Scale * o.place + v * ((run.started + run.lead) - o.at)
  BY <1>1 DEF SightingsInv, AimIsOnALine
<1>3. /\ now \in Int /\ born \in Int /\ run.started \in Int /\ run.started <= now
      /\ o.at \in Int /\ o.place = Speed * (o.at - born) /\ v \in Int
  BY <1>1, <1>2, Settings DEF SightingsInv, OnTheBelt, Reaches, Real, Frame
<1>4. PICK a \in Int : a = o.at
  BY <1>3
<1>5. PICK dt \in Nat : dt = now - a
  BY <1>2, <1>3, <1>4
<1>6. PICK q \in Int : q = Scale * o.place
  <2>1. Speed * (a - born) \in Int
    BY <1>3, Settings
  <2> QED BY <1>3, <1>4, <2>1, Settings
<1>7. PICK vdt \in Int : vdt = v * dt
  BY <1>3
<1>8. run.aim = q + vdt
  BY <1>1, <1>2, <1>4, <1>5, <1>6, <1>7
<1>9. PICK full \in Int : full = (Scale * Speed) * dt
  BY Settings
<1>10. Scale * Here(now, born).place = q + full
  <2>1. Here(now, born).place = Speed * (now - born)
    BY DEF Here
  <2>2. Scale * (Speed * (now - born)) = Scale * (Speed * (a - born)) + (Scale * Speed) * (now - a)
    BY <1>3, Settings
  <2> QED BY <1>3, <1>4, <1>5, <1>6, <1>9, <2>1, <2>2
<1>11. vdt >= 0 /\ vdt <= full
  <2>1. v >= 0 /\ v <= Scale * Speed
    BY <1>2, <1>3, Settings
  <2>2. PICK c \in Int : c = Scale * Speed
    BY Settings
  <2>3. v * dt >= 0 /\ v * dt <= c * dt
    BY <1>3, <2>1, <2>2
  <2> QED BY <1>7, <1>9, <2>2, <2>3
<1>12. run.sure /\ tracker \in {"constant", "sandboxed"} => Off = 0
  <2>1. SUFFICES ASSUME run.sure, tracker \in {"constant", "sandboxed"} PROVE Off = 0
    OBVIOUS
  <2>2. vdt = full
    BY <1>2, <1>7, <1>9, <2>1
  <2> QED BY <1>8, <1>10, <2>2 DEF Off
<1> QED BY <1>6, <1>8, <1>9, <1>10, <1>11, <1>12

(* For any belt, sensors, clutter, window, gate, smoothing and pauses, no  *)
(* tracker claims a speed the belt never had, and an arm that takes as     *)
(* long as it was given aims between where the part was seen and where it  *)
(* is, at the part itself if a speed was fitted (tracker.hpp,              *)
(* ProgramRunner::intercept).                                              *)
THEOREM RendezvousHolds ==
  SightingsSpec /\ SeenInTime => []RendezvousIsTrue
<1>1. SightingsInv => RendezvousIsTrue
  <2>1. SUFFICES ASSUME SightingsInv PROVE RendezvousIsTrue
    OBVIOUS
  <2>2. SpeedsAreReal
    BY <2>1, VelocityIsReal DEF SpeedsAreReal, SightingsInv
  <2>3. AimsMeetThePart
    BY <2>1, AimsAreTrue
  <2> QED BY <2>2, <2>3 DEF RendezvousIsTrue
<1> QED BY <1>1, SightingsInvariant, PTL

===============================================================================
