------------------------------ MODULE CellService ------------------------------
(***************************************************************************)
(* A command as a caller sees it: submitted, acknowledged, waited for by   *)
(* reading what the cell shows of itself (platform.hpp, cell_client.hpp,   *)
(* gateway/progress.hpp), while the worker executes, the idle ticker keeps *)
(* the world alive, and both publish (cell_gateway.hpp).                   *)
(*                                                                         *)
(* Composes CommandBus, CellSupervisor and Telemetry.  What a command does *)
(* is left out: it works, may rebuild the cell, may publish, and succeeds  *)
(* or fails.                                                               *)
(***************************************************************************)
EXTENDS CommandBus, CellSupervisor, Telemetry, FiniteSets

CONSTANTS
  Worker, Ticker,   \* the two threads of a cell
  Work, Receipt,    \* a program, and a command that only notes a verb
  Refused, Failed   \* why a command ends badly

ASSUME ServiceAssumption ==
  /\ Writers = Callers \cup {Worker, Ticker}
  /\ Items = {Work, Receipt}
  /\ Errors = {Refused, Failed}
  /\ IsFiniteSet(Callers)

VARIABLES
  at,        \* where the worker is with the entry it took
  ticking,   \* the ticker has found the cell idle
  pc,        \* where each caller is
  mine       \* the id it was acknowledged, 0 for a refusal

svc_vars == <<bus_vars, sup_vars, tele_vars, at, ticking, pc, mine>>

CallerAt  == {"free", "estop", "receipt", "acked", "waiting"}
WorkerIn  == {"none", "fresh", "refused", "run", "building", "frame", "report", "over", "settled"}

(* Bound: a caller begins a verb only while an id is left for it.          *)
RoomForIds ==
  last_id + Cardinality({c \in Callers : pc[c] \in {"estop", "receipt"}}) < MaxId

ServiceInit ==
  /\ BusInit /\ SupInit /\ TeleInit
  /\ at = "none"
  /\ ticking = FALSE
  /\ pc = [c \in Callers |-> "free"]
  /\ mine = [c \in Callers |-> 0]

-------------------------------------------------------------------------------
(* Callers                                                                 *)

Goes(c, next) == pc' = [pc EXCEPT ![c] = next]

(* What submit() acknowledged: the new id, or 0.                           *)
Acknowledged(c) ==
  mine' = [mine EXCEPT ![c] = IF last_id' # last_id THEN last_id' ELSE 0]

RunApp(c) ==
  /\ pc[c] = "free"
  /\ RoomForIds
  /\ Submit(NoKey, Work)
  /\ Acknowledged(c)
  /\ Goes(c, "acked")
  /\ UNCHANGED <<sup_vars, tele_vars, at, ticking>>

EstopCall(c) ==
  /\ pc[c] = "free"
  /\ RoomForIds
  /\ EstopLatch(c)
  /\ Goes(c, "estop")
  /\ UNCHANGED <<bus_vars, tele_vars, at, ticking, mine>>

EstopRequest(c) ==
  /\ pc[c] = "estop"
  /\ EstopCancel(c)
  /\ UNCHANGED <<bus_vars, tele_vars, at, ticking, pc, mine>>

EstopDiscard(c) ==
  /\ pc[c] = "estop"
  /\ c \notin estopping
  /\ DiscardPending
  /\ Goes(c, "receipt")
  /\ UNCHANGED <<sup_vars, tele_vars, at, ticking, mine>>

ResumeCall(c) ==
  /\ pc[c] = "free"
  /\ RoomForIds
  /\ Resume
  /\ Goes(c, "receipt")
  /\ UNCHANGED <<bus_vars, tele_vars, at, ticking, mine>>

QueueReceipt(c) ==
  /\ pc[c] = "receipt"
  /\ Submit(NoKey, Receipt)
  /\ Acknowledged(c)
  /\ Goes(c, "acked")
  /\ UNCHANGED <<sup_vars, tele_vars, at, ticking>>

(* accept(): the progress is refreshed before the acknowledgement goes out. *)
Accepting(c) == pc[c] = "acked"

Acknowledge(c) ==
  /\ Accepting(c)
  /\ Store(c)
  /\ Goes(c, IF mine[c] = 0 THEN "free" ELSE "waiting")
  /\ UNCHANGED <<bus_vars, sup_vars, at, ticking, mine>>

(* await_settled(), RemoteCell::settled(): look until the cell reads as     *)
(* settled, or until it has been silent for the whole of the limit.  Time  *)
(* is not modelled: the limit may be over at any look that is not settled. *)
Leaves(c) ==
  /\ pc[c] = "waiting"
  /\ Goes(c, "free")
  /\ mine' = [mine EXCEPT ![c] = 0]
  /\ UNCHANGED <<bus_vars, sup_vars, tele_vars, at, ticking>>

SeeSettled(c) == Settled(shown) /\ Leaves(c)
GiveUp(c)     == ~Settled(shown) /\ Leaves(c)

-------------------------------------------------------------------------------
(* The worker, inside CellGateway::execute                                 *)

Works(next) == at' = next /\ UNCHANGED <<ticking, pc, mine>>

TakeCommand == Take /\ Works("fresh") /\ UNCHANGED <<sup_vars, tele_vars>>

Admit ==
  /\ at = "fresh"
  /\ IF entry.item = Work THEN BeginOk("moving") ELSE UNCHANGED sup_vars
  /\ Works("run")
  /\ UNCHANGED <<bus_vars, tele_vars>>

Refuse ==
  /\ at = "fresh"
  /\ entry.item = Work
  /\ BeginRefused
  /\ Works("refused")
  /\ UNCHANGED <<bus_vars, tele_vars>>

ReportRefusal ==
  /\ at = "refused"
  /\ Fault(Refused)
  /\ Works("report")
  /\ UNCHANGED <<bus_vars, tele_vars>>

(* A step sink, a streamed cycle, a pause that ticks the world.            *)
PublishMidway ==
  /\ at = "run"
  /\ entry.item = Work
  /\ Works("frame")
  /\ UNCHANGED <<bus_vars, sup_vars, tele_vars>>

BeginBuild ==
  /\ at = "run"
  /\ entry.item = Work
  /\ BeginOk("building") \/ BeginRefused
  /\ Works("building")
  /\ UNCHANGED <<bus_vars, tele_vars>>

EndBuild ==
  /\ at = "building"
  /\ End
  /\ Works("frame")
  /\ UNCHANGED <<bus_vars, tele_vars>>

FailRun ==
  /\ at \in {"run", "building"}
  /\ entry.item = Work
  /\ Fault(Failed)
  /\ Works("over")
  /\ UNCHANGED <<bus_vars, tele_vars>>

CompleteRun ==
  /\ at = "run"
  /\ IF entry.item = Work THEN End ELSE UNCHANGED sup_vars
  /\ Works("over")
  /\ UNCHANGED <<bus_vars, tele_vars>>

Retire ==
  /\ at = "over"
  /\ Finish
  /\ Works("settled")
  /\ UNCHANGED <<sup_vars, tele_vars>>

(* Every publication of the worker, then on to what follows it.            *)
PublishFrame ==
  /\ at \in {"frame", "report", "settled"}
  /\ Store(Worker)
  /\ IF at = "settled"
     THEN Settle /\ Works("none")
     ELSE UNCHANGED bus_vars /\ Works(IF at = "frame" THEN "run" ELSE "over")
  /\ UNCHANGED sup_vars

-------------------------------------------------------------------------------
(* The idle ticker looks at the state, and only then takes any lock.       *)

Tick ==
  /\ ~ticking
  /\ state = "idle"
  /\ ticking' = TRUE
  /\ UNCHANGED <<bus_vars, sup_vars, tele_vars, at, pc, mine>>

(* Mutated form of PublishTick: the tick moves the world and shows nothing. *)
PublishTick_WorldOnly ==
  /\ ticking
  /\ Complete(Ticker)
  /\ draft' = [draft EXCEPT ![Ticker] = NoDraft]
  /\ ticking' = FALSE
  /\ UNCHANGED <<shown, bus_vars, sup_vars, at, pc, mine>>

(* tick_scene(): the world advances, and is shown.                         *)
PublishTick ==
  /\ ticking
  /\ Store(Ticker)
  /\ ticking' = FALSE
  /\ UNCHANGED <<bus_vars, sup_vars, at, pc, mine>>

(* CellGateway::progress(), on whichever thread publishes.                 *)
Publishing(w) ==
  IF w = Worker THEN at \in {"frame", "report", "settled"}
  ELSE IF w = Ticker THEN ticking
  ELSE Accepting(w)

Read(w) ==
  /\ Publishing(w)
  /\ \/ ReadCounts(w, applied, last_id)
     \/ ReadDeclared(w, state, latched, Working)
  /\ UNCHANGED <<bus_vars, sup_vars, at, ticking, pc, mine>>

-------------------------------------------------------------------------------
CallerStep(c) ==
  \/ EstopRequest(c) \/ EstopDiscard(c) \/ QueueReceipt(c)
  \/ Read(c) \/ Acknowledge(c)

WorkerRuns ==
  \/ TakeCommand \/ Admit \/ Refuse \/ ReportRefusal \/ PublishMidway \/ BeginBuild
  \/ EndBuild \/ FailRun \/ CompleteRun \/ Retire \/ Read(Worker) \/ PublishFrame
  \/ /\ FindEmpty \/ Park
     /\ UNCHANGED <<sup_vars, tele_vars, at, ticking, pc, mine>>

TickerRuns == Tick \/ Read(Ticker) \/ PublishTick

Woken ==
  /\ SpuriousWake
  /\ UNCHANGED <<sup_vars, tele_vars, at, ticking, pc, mine>>

ServiceNext ==
  \/ \E c \in Callers :
       RunApp(c) \/ EstopCall(c) \/ ResumeCall(c) \/ CallerStep(c) \/ SeeSettled(c) \/ GiveUp(c)
  \/ WorkerRuns
  \/ TickerRuns
  \/ Woken

ServiceSpec == ServiceInit /\ [][ServiceNext]_svc_vars

(***************************************************************************)
(* The two threads of the cell keep running, what a command does returns,  *)
(* and a caller inside a call finishes it (SF: it may find the bus's mutex *)
(* taken).  Nobody has to call anything, nor ever to stop waiting.         *)
(***************************************************************************)
ServiceFairSpec ==
  /\ ServiceSpec
  /\ WF_svc_vars(WorkerRuns)
  /\ WF_svc_vars(TickerRuns)
  /\ \A c \in Callers : SF_svc_vars(CallerStep(c))

-------------------------------------------------------------------------------
(* Properties                                                              *)

(* A frame that reads as settled, however old, is right about every id it  *)
(* has heard of: the command is done or was dropped.  The one exception is *)
(* a command an e-stop caught running with others behind it: discarding    *)
(* those lets applied() cover it while it decelerates.                     *)
SettledMeansOver ==
  Settled(shown) =>
    \A i \in 1..shown.accepted :
      \/ FateOf(i) \in {"done", "dropped"}
      \/ FateOf(i) = "running" /\ \E d \in dropped : i < d /\ d <= shown.applied

(* Nobody is inside a call and the worker sleeps.                          *)
AtRest ==
  /\ worker = "parked"
  /\ queue = <<>>
  /\ \A c \in Callers : pc[c] \in {"free", "waiting"}

(* A cell at rest reads as settled whatever it came to rest in: a waiter   *)
(* hears of a failure or a latch at once, and does not sit out its limit.  *)
RestReadsSettled == AtRest => applied >= last_id /\ ~Running(state, Working)

(* A frame that was overtaken does not stay: once the cell rests idle, the *)
(* ticker sees to it that what is shown becomes, and remains, what is.  A  *)
(* cell that rests held or faulted has no ticker and no such promise.      *)
IdleIsShown ==
  <>[](AtRest /\ state = "idle") =>
  <>[](shown = [applied |-> applied, accepted |-> last_id, latched |-> FALSE, working |-> FALSE])

===============================================================================
