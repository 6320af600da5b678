-------------------------------- MODULE Trials --------------------------------
(***************************************************************************)
(* Platform::compare (platform.hpp): the work that exercises a capability, *)
(* run once per version, and a row of what happened for each.  The         *)
(* comparer is one thread that submits, waits and reads; the cell's worker *)
(* executes what is queued; another client may submit, e-stop and resume   *)
(* while the comparison runs; a wait may give up before the cell has come  *)
(* to rest.                                                                *)
(*                                                                         *)
(* Composes the ledger a command bus implements (CommandLedger) with       *)
(* CellSupervisor.  A command is the steps it performs; of the cell there  *)
(* is the selected version, the gripper, whether the arm is away from the  *)
(* start of its default motion, and the record of the last motion.         *)
(***************************************************************************)
EXTENDS CellSupervisor, Sequences, FiniteSets

CONSTANTS
  Known,       \* the versions the capability has
  Default,     \* the one it starts with
  Comparisons, \* what may be asked: sequences of version names, known or not
  TrialApp,    \* the application that exercises the capability, as steps
  Items, NoItem, MaxId,
  Capacity,    \* queue_capacity
  Client,      \* the other client of the cell
  Disturbances, \* bound: verbs of the other client, and waits that end early
  Failed

(***************************************************************************)
(* A step of a program, or of the single-step program a verb stands for.   *)
(***************************************************************************)
Choose(v) == [do |-> "choose", version |-> v]
Do(what)  == [do |-> what, version |-> Default]

Release == <<Do("open")>>
Home    == <<Do("home")>>
Move    == <<Do("move")>>
Receipt == <<>>              \* what stop, e-stop and resume queue: no motion

Versions == Known \cup UNION {{c[k] : k \in DOMAIN c} : c \in Comparisons}

Acts  == {"open", "home", "move", "pick"}
Steps == {Choose(v) : v \in Versions} \cup {Do(what) : what \in Acts}

Choice(item)  == Len(item) = 1 /\ item[1].do = "choose"
Chooses(item) == \E k \in DOMAIN item : item[k].do = "choose"

ASSUME TrialsAssumption ==
  /\ Default \in Known
  /\ Client \in Callers /\ Failed \in Errors
  /\ Items = {<<Choose(v)>> : v \in Versions} \cup {Release, Home, Move, TrialApp, Receipt}
  /\ NoItem \notin Items
  /\ TrialApp \in Seq(Steps) \ {<<>>} \* run_program refuses an empty one
  /\ ~Choice(TrialApp)               \* a program has no key, a choice has
  /\ Capacity \in Nat \ {0} /\ MaxId \in Nat /\ Disturbances \in Nat

VARIABLES
  fate, work,  \* the commands of the cell, by id
  applied,     \* the bus's applied()
  at,          \* the step the worker is at; 0 when the command is over
  live,        \* the selected version
  held, away,  \* the part is in the gripper; the arm is not at the start
  runs, maker, \* quality_run_, and the command whose motion made the record
  pc, asked, was, before, rows,  \* the comparer, and its report so far
  early,       \* waits it left early
  calls, verb, \* the other client: verbs used, and where it is in one
  tale         \* history of the row: see Fresh

queue_vars == <<fate, work, applied>>
cell_vars  == <<at, live, held, away, runs, maker>>
judge_vars == <<pc, asked, was, before, rows, early>>
other_vars == <<calls, verb>>
trial_vars == <<queue_vars, sup_vars, cell_vars, judge_vars, other_vars, tale>>

Queue == INSTANCE CommandLedger

Pending == {i \in Queue!Ids : fate[i] = "pending"}
Issued  == {i \in Queue!Ids : fate[i] # "free"}
Accepted == Cardinality(Issued)          \* ids are handed out in order

(***************************************************************************)
(* History of one row: nobody else has touched the cell and every wait     *)
(* ended with the cell at rest (calm); the id of the trial; the versions   *)
(* its motions ran under; what it started from.  A row that is no longer   *)
(* calm has no history: nothing is said of it.                             *)
(***************************************************************************)
NoStart == [held |-> FALSE, away |-> FALSE, homed |-> FALSE]
Fresh(calm) == [calm |-> calm, trial |-> 0, ran |-> {}, homed |-> FALSE, start |-> NoStart]

TrialsInit ==
  /\ Queue!LedgerInit /\ applied = 0 /\ SupInit
  /\ at = 0 /\ live = Default /\ held = FALSE /\ away = FALSE /\ runs = 0 /\ maker = 0
  /\ pc = "idle" /\ asked = <<>> /\ was = Default /\ before = 0 /\ rows = <<>>
  /\ early = 0
  /\ calls = 0 /\ verb = "free"
  /\ tale = Fresh(TRUE)

-------------------------------------------------------------------------------
(* Submitting.  A version is keyed by its capability: one that is pending  *)
(* takes the new choice in its place.                                      *)

Keyed(i) == i \in Pending /\ Choice(work[i])
Coalesces(item) == Choice(item) /\ \E i \in Pending : Keyed(i)
Full(item)      == ~Coalesces(item) /\ Cardinality(Pending) >= Capacity

Accept(item) ==
  /\ IF Coalesces(item)
     THEN Queue!Amend(CHOOSE i \in Pending : Keyed(i), item)
     ELSE /\ Cardinality(Pending) < Capacity
          /\ Accepted < MaxId
          /\ Queue!Issue(Accepted + 1, item)
  /\ UNCHANGED applied

-------------------------------------------------------------------------------
(* The comparer                                                            *)

Quiet == Issued = {} \/ \A i \in Issued : fate[i] \in {"done", "dropped"}

Compare(versions) ==
  /\ pc = "idle"
  /\ asked' = versions
  /\ was' = live
  /\ pc' = IF versions = <<>> THEN "restore" ELSE "select"
  /\ UNCHANGED <<queue_vars, sup_vars, cell_vars, before, rows, early, other_vars, tale>>

(* A call of apply(): the result is looked at only when a row begins.      *)
Call(here, item, next) ==
  /\ pc = here
  /\ IF Full(item) THEN UNCHANGED queue_vars ELSE Accept(item)
  /\ pc' = next
  /\ UNCHANGED <<sup_vars, cell_vars, asked, was, before, rows, early, other_vars>>

NextRow(entry) ==
  /\ rows' = Append(rows, entry)
  /\ pc' = IF Len(rows) + 1 = Len(asked) THEN "restore" ELSE "select"

Chosen == asked[Len(rows) + 1]

SelectVersion ==
  /\ pc = "select"
  /\ ~Full(<<Choose(Chosen)>>)
  /\ Call("select", <<Choose(Chosen)>>, "release")
  /\ tale' = Fresh(Quiet /\ ~latched /\ ~cancel)

RefusedRow ==
  /\ pc = "select"
  /\ Full(<<Choose(Chosen)>>)
  /\ NextRow([version |-> Chosen, ok |-> FALSE, quality |-> FALSE, own |-> FALSE,
              tale |-> Fresh(FALSE)])
  /\ UNCHANGED <<queue_vars, sup_vars, cell_vars, asked, was, before, early, other_vars, tale>>

(* Mutated form of OpenHand: homing is thought to be enough.               *)
OpenHand_Skipped ==
  /\ pc = "release"
  /\ pc' = "released"
  /\ UNCHANGED <<queue_vars, sup_vars, cell_vars, asked, was, before, rows, early, other_vars, tale>>

OpenHand == Call("release", Release, "released") /\ UNCHANGED tale
GoHome   == Call("home", Home, "homed") /\ UNCHANGED tale

CountRuns ==
  /\ pc = "count"
  /\ before' = runs
  /\ pc' = "app"
  /\ UNCHANGED <<queue_vars, sup_vars, cell_vars, asked, was, rows, early, other_vars, tale>>

RunTrial ==
  /\ Call("app", TrialApp, IF Full(TrialApp) THEN "refused" ELSE "ran")
  /\ tale' = [tale EXCEPT !.trial = IF tale.calm /\ ~Full(TrialApp) THEN Accepted + 1 ELSE 0]

(* Mutated form of Moved: whatever record there is belongs to the trial.   *)
Moved_Ever == runs > 0

(* The record is of a motion that ran after the count was taken.           *)
Moved == runs > before

Judged(ok, calm) ==
  /\ NextRow([version |-> Chosen, ok |-> ok, quality |-> Moved, own |-> maker = tale.trial,
              tale |-> IF calm THEN tale ELSE Fresh(FALSE)])
  /\ UNCHANGED <<queue_vars, sup_vars, cell_vars, asked, was, before, other_vars>>

TrialRefused == pc = "refused" /\ Judged(FALSE, TRUE) /\ UNCHANGED <<early, tale>>

(* Mutated form of Restore: the last version judged stays.                 *)
Restore_Skipped ==
  /\ pc = "restore"
  /\ pc' = "restored"
  /\ UNCHANGED <<queue_vars, sup_vars, cell_vars, asked, was, before, rows, early, other_vars, tale>>

Restore ==
  /\ Call("restore", <<Choose(was)>>, IF Full(<<Choose(was)>>) THEN "lost" ELSE "restored")
  /\ UNCHANGED tale

(* await_settled(): what every wait decides on.                            *)
Settled == applied >= Accepted /\ ~Working

AwaitIn == {"released", "homed", "ran", "restored", "lost"}

(* What follows a wait that answered `ok`; only the trial's is listened to. *)
Resumes(ok, calm) ==
  /\ pc \in AwaitIn
  /\ IF pc = "ran"
     THEN Judged(ok, calm)
     ELSE /\ pc' = CASE pc = "released" -> "home"
                     [] pc = "homed"    -> "count"
                     [] pc = "restored" -> "done"
                     [] pc = "lost"     -> "unrestored"
          /\ UNCHANGED <<queue_vars, sup_vars, cell_vars, asked, was, before, rows, other_vars>>

SeeSettled ==
  /\ Settled
  /\ UNCHANGED early
  /\ Resumes(last_error = NoError, TRUE)
  /\ UNCHANGED tale

(* The limit of silence is over, or the frame that was read is older than  *)
(* the submission it is taken to be about (CellService).                   *)
LeaveEarly ==
  /\ ~Settled
  /\ early + calls < Disturbances
  /\ early' = early + 1
  /\ \E ok \in BOOLEAN : Resumes(ok, FALSE)
  /\ tale' = Fresh(FALSE)

-------------------------------------------------------------------------------
(* The worker.  What ControlPlane has of the steps of execute() is one     *)
(* step here up to the first step of the command.                          *)

Outside == UNCHANGED <<judge_vars, other_vars>>

Take(i) ==
  /\ at = 0
  /\ Queue!Start(i)
  /\ IF work[i] = Receipt
     THEN UNCHANGED <<sup_vars, at>>
     ELSE \/ BeginOk("moving") /\ at' = 1
          \/ latched /\ Fault(Failed) /\ UNCHANGED at
  /\ tale' = IF i = tale.trial
             THEN [tale EXCEPT !.start = [held |-> held, away |-> away, homed |-> tale.homed]]
             ELSE tale
  /\ UNCHANGED <<applied, live, held, away, runs, maker>>
  /\ Outside

Retire(i) ==
  /\ at = 0
  /\ Queue!End(i)
  /\ applied' = i
  /\ UNCHANGED <<sup_vars, cell_vars, tale>>
  /\ Outside

(* A motion that was refused leaves no record; one that ran leaves its own, *)
(* whatever became of it.                                                   *)
Records(i) ==
  /\ runs' = runs + 1
  /\ maker' = i
  /\ tale' = IF i = tale.trial THEN [tale EXCEPT !.ran = @ \cup {live}]
             ELSE [tale EXCEPT !.homed = tale.calm /\ work[i] = Home /\ ~away']
  /\ UNCHANGED live

Rests == UNCHANGED <<live, runs, maker, tale>>

Perform(i, step, ok) ==
  CASE step.do = "choose" ->
         /\ ok = (step.version \in Known)
         /\ live' = IF ok THEN step.version ELSE live
         /\ UNCHANGED <<held, away, runs, maker, tale>>
    [] step.do = "open" ->
         /\ ok => held
         /\ held' = FALSE
         /\ UNCHANGED away /\ Rests
    [] step.do = "home" ->
         \/ ~ok /\ UNCHANGED <<held, away>> /\ Rests
         \/ /\ away' \in BOOLEAN
            /\ ok /\ ~cancel => ~away'
            /\ UNCHANGED held /\ Records(i)
    [] step.do = "move" ->
         \/ ~ok /\ UNCHANGED <<held, away>> /\ Rests
         \/ away' = TRUE /\ UNCHANGED held /\ Records(i)
    [] step.do = "pick" ->
         \/ ~ok /\ UNCHANGED <<held, away>> /\ Rests
         \/ /\ away' = TRUE
            /\ ok => ~held
            /\ held' = (held \/ ok)
            /\ Records(i)

Step(i) ==
  /\ fate[i] = "running"
  /\ at > 0
  /\ \E ok \in BOOLEAN :
       /\ Perform(i, work[i][at], ok)
       /\ \/ ~ok /\ Fault(Failed) /\ at' = 0
          \/ ok /\ at = Len(work[i]) /\ End /\ at' = 0
          \/ ok /\ at < Len(work[i]) /\ UNCHANGED sup_vars /\ at' = at + 1
  /\ UNCHANGED queue_vars
  /\ Outside

-------------------------------------------------------------------------------
(* The other client.  Whatever it does, the row is no longer the trial's   *)
(* alone.                                                                   *)

Meddles == tale' = Fresh(FALSE) /\ UNCHANGED <<cell_vars, judge_vars>>

Uses ==
  /\ verb = "free"
  /\ early + calls < Disturbances
  /\ calls' = calls + 1

ClientSubmits(item) ==
  /\ Uses /\ Accept(item)
  /\ UNCHANGED <<verb, sup_vars>>
  /\ Meddles

Estop ==
  /\ Uses /\ EstopLatch(Client)
  /\ verb' = "estop"
  /\ UNCHANGED queue_vars
  /\ Meddles

EstopRequest ==
  /\ verb = "estop" /\ EstopCancel(Client)
  /\ UNCHANGED <<queue_vars, other_vars>>
  /\ Meddles

EstopDiscard ==
  /\ verb = "estop" /\ Client \notin estopping
  /\ Queue!DropPending
  /\ applied' = IF Pending = {} THEN applied ELSE Accepted
  /\ verb' = "receipt"
  /\ UNCHANGED <<sup_vars, calls>>
  /\ Meddles

ClientResume ==
  /\ Uses /\ Resume
  /\ verb' = "receipt"
  /\ UNCHANGED queue_vars
  /\ Meddles

QueueReceipt ==
  /\ verb = "receipt"
  /\ IF Full(Receipt) THEN UNCHANGED queue_vars ELSE Accept(Receipt)
  /\ verb' = "free"
  /\ UNCHANGED <<sup_vars, calls>>
  /\ Meddles

-------------------------------------------------------------------------------
ComparerStep ==
  \/ SelectVersion \/ RefusedRow \/ OpenHand \/ GoHome \/ CountRuns \/ RunTrial
  \/ TrialRefused \/ Restore \/ SeeSettled \/ LeaveEarly

WorkerStep == \E i \in Queue!Ids : Take(i) \/ Step(i) \/ Retire(i)

ClientStep ==
  \/ \E v \in Known : ClientSubmits(<<Choose(v)>>)
  \/ ClientSubmits(Move)
  \/ Estop \/ EstopRequest \/ EstopDiscard \/ ClientResume \/ QueueReceipt

TrialsNext ==
  \/ \E versions \in Comparisons : Compare(versions)
  \/ ComparerStep \/ WorkerStep \/ ClientStep

TrialsSpec == TrialsInit /\ [][TrialsNext]_trial_vars

-------------------------------------------------------------------------------
(* Properties                                                              *)

Rows == {rows[k] : k \in DOMAIN rows}

(* A row nobody disturbed is about its own trial: the record attached to   *)
(* it was made by a motion of that trial, and a trial that moved and       *)
(* worked never goes without one.  A row that was disturbed promises       *)
(* nothing.                                                                *)
RowsAreTrue ==
  \A r \in Rows : r.tale.calm =>
    /\ r.quality => r.own /\ r.tale.trial # 0
    /\ r.ok /\ r.tale.ran # {} => r.quality

(* Whatever a trial before it picked up, dropped, or left where, every     *)
(* undisturbed trial begins with an empty gripper, and at the start unless *)
(* its own way there failed.  A queue of one has no room to open the       *)
(* gripper behind the choice of the version, and nobody looks.             *)
TrialsStartAlike ==
  \A r \in Rows : r.tale.calm =>
    /\ Capacity > 1 => ~r.tale.start.held
    /\ r.tale.start.homed => ~r.tale.start.away

(* Comparing does not change what the cell runs: once the comparison is    *)
(* over and its commands with it, the version that was live is live again, *)
(* even if a wait gave up on the way - unless the queue had no room for    *)
(* the last command, whose refusal nobody looks at, or the trial chooses a *)
(* version itself and is still queued behind the choice the last command   *)
(* takes the place of.                                                     *)
LiveVersionRestored ==
  pc = "done" /\ Quiet /\ calls = 0 /\ (early = 0 \/ ~Chooses(TrialApp)) => live = was

(* "Run the work that exercises a capability once per version": a trial    *)
(* that worked, undisturbed, ran under the version its row names           *)
(* (platform.hpp:131).                                                     *)
EachVersionIsRun ==
  \A r \in Rows : r.tale.calm /\ r.ok => r.tale.ran \subseteq {r.version}

===============================================================================
