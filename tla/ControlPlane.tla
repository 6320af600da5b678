------------------------------ MODULE ControlPlane ------------------------------
(***************************************************************************)
(* How a cell is commanded: callers' threads that submit commands, stop,   *)
(* e-stop and resume (gateway/command_router.hpp, cell_supervisor.hpp),    *)
(* the worker that executes what the bus hands it (cell_gateway.hpp,       *)
(* program_runner.hpp, motion_service.hpp), and the executive the worker   *)
(* is inside while the cell moves.                                         *)
(*                                                                         *)
(* The three parts are CommandBus, CellSupervisor and SyncExecutive: every *)
(* step here is a step of one of them, placed in its caller's code.  A     *)
(* command is the sequence of its steps.  What a step computes is left     *)
(* out; whether it drives the cell, rebuilds it or fails is kept.          *)
(***************************************************************************)
EXTENDS CommandBus, CellSupervisor, SyncExecutive, FiniteSets

CONSTANTS
  Families,    \* the driver families a cell can be built under
  BootFamily,  \* the one it boots into
  Refused,     \* "cell is latched -- resume first"
  Failed,      \* why any other step fails
  Stopped      \* "stopped before the goal"

Motions == {"move", "jog"}
Steps   == Motions \cup {"work"} \cup Families
Receipt == <<>>     \* a Command whose starts_motion is false

ASSUME ControlAssumption ==
  /\ Items \subseteq Seq(Steps)
  /\ Receipt \in Items
  /\ BootFamily \in Families
  /\ Families \cap (Motions \cup {"work"}) = {}
  /\ Errors = {Refused, Failed, Stopped}
  /\ Stopped \notin {Refused, Failed}
  /\ IsFiniteSet(Callers)

VARIABLES
  phase,       \* where the worker is inside CellGateway::execute
  todo,        \* the steps of the running command not yet over
  family,      \* family_: what the live cell was built under
  why,         \* the Status a failed step returned
  pc,          \* where each caller is inside a verb of the supervisor
  resumed      \* history: a resume fell inside the command being executed

exe_vars == <<phase, todo, family, why>>
ctl_vars == <<bus_vars, sup_vars, exec_vars, exe_vars, pc, resumed>>

Phase == {"none", "fresh", "refused", "steps", "building", "driving", "driven",
          "failed", "over"}

(* Bound: a caller starts a verb only while an id is left for its receipt. *)
RoomForIds == last_id + Cardinality({c \in Callers : pc[c] # "free"}) < MaxId

ControlInit ==
  /\ BusInit
  /\ SupInit
  /\ ExecInit
  /\ phase = "none"
  /\ todo = <<>>
  /\ family = BootFamily
  /\ why = NoError
  /\ pc = [c \in Callers |-> "free"]
  /\ resumed = FALSE

-------------------------------------------------------------------------------
(* Callers.  What the verb commands, it does before its receipt is queued. *)

(* The verb that rebuilds the cell coalesces; programs and moves do not.   *)
KeysFor(item) ==
  IF Len(item) = 1 /\ item[1] \in Families THEN Keys ELSE {NoKey}

SubmitCommand ==
  /\ RoomForIds
  /\ \E item \in Items \ {Receipt}, key \in Keys \cup {NoKey} :
       key \in KeysFor(item) /\ Submit(key, item)
  /\ UNCHANGED <<sup_vars, exec_vars, exe_vars, pc, resumed>>

StopCall(c) ==
  /\ pc[c] = "free"
  /\ RoomForIds
  /\ Stop
  /\ pc' = [pc EXCEPT ![c] = "receipt"]
  /\ UNCHANGED <<bus_vars, exec_vars, exe_vars, resumed>>

EstopCall(c) ==
  /\ pc[c] = "free"
  /\ RoomForIds
  /\ EstopLatch(c)
  /\ pc' = [pc EXCEPT ![c] = "estop"]
  /\ UNCHANGED <<bus_vars, exec_vars, exe_vars, resumed>>

EstopRequest(c) ==
  /\ pc[c] = "estop"
  /\ EstopCancel(c)
  /\ UNCHANGED <<bus_vars, exec_vars, exe_vars, pc, resumed>>

(* Mutated form of EstopDiscard: the verb queues no receipt.               *)
EstopDiscard_NoReceipt(c) ==
  /\ pc[c] = "estop"
  /\ c \notin estopping
  /\ DiscardPending
  /\ pc' = [pc EXCEPT ![c] = "free"]
  /\ UNCHANGED <<sup_vars, exec_vars, exe_vars, resumed>>

EstopDiscard(c) ==
  /\ pc[c] = "estop"
  /\ c \notin estopping
  /\ DiscardPending
  /\ pc' = [pc EXCEPT ![c] = "receipt"]
  /\ UNCHANGED <<sup_vars, exec_vars, exe_vars, resumed>>

ResumeCall(c) ==
  /\ pc[c] = "free"
  /\ RoomForIds
  /\ Resume
  /\ pc' = [pc EXCEPT ![c] = "receipt"]
  /\ resumed' = TRUE
  /\ UNCHANGED <<bus_vars, exec_vars, exe_vars>>

(* A cell that is not latched answers with an error and queues nothing.    *)
ResumeRefused(c) ==
  /\ pc[c] = "free"
  /\ ~latched
  /\ UNCHANGED ctl_vars

QueueReceipt(c) ==
  /\ pc[c] = "receipt"
  /\ Submit(NoKey, Receipt)
  /\ pc' = [pc EXCEPT ![c] = "free"]
  /\ UNCHANGED <<sup_vars, exec_vars, exe_vars, resumed>>

VerbStep(c) == EstopRequest(c) \/ EstopDiscard(c) \/ QueueReceipt(c)

-------------------------------------------------------------------------------
(* The worker, inside CellGateway::execute                                 *)

TakeCommand ==
  /\ Take
  /\ phase' = "fresh"
  /\ todo' = entry'.item
  /\ resumed' = FALSE
  /\ UNCHANGED <<sup_vars, exec_vars, family, why, pc>>

(* Nothing but the worker's place in the command changes.                  *)
Reaches(next) ==
  /\ phase' = next
  /\ UNCHANGED <<bus_vars, exec_vars, family, pc, resumed>>

AdmitMotion ==
  /\ phase = "fresh"
  /\ todo # Receipt
  /\ BeginOk("moving")
  /\ Reaches("steps")
  /\ UNCHANGED <<todo, why>>

AdmitReceipt ==
  /\ phase = "fresh"
  /\ todo = Receipt
  /\ Reaches("steps")
  /\ UNCHANGED <<sup_vars, todo, why>>

RefuseMotion ==
  /\ phase = "fresh"
  /\ todo # Receipt
  /\ BeginRefused
  /\ Reaches("refused")
  /\ UNCHANGED <<todo, why>>

ReportRefusal ==
  /\ phase = "refused"
  /\ Fault(Refused)
  /\ Reaches("over")
  /\ UNCHANGED <<todo, why>>

(* A step that neither drives nor rebuilds: a capability, a tool, a wait.  *)
DoWork ==
  /\ phase = "steps"
  /\ todo # <<>>
  /\ Head(todo) = "work"
  /\ todo' = Tail(todo)
  /\ Reaches("steps")
  /\ UNCHANGED <<sup_vars, why>>

(* The planner, the validator or the work itself says no.                  *)
FailStep ==
  /\ phase = "steps"
  /\ todo # <<>>
  /\ Head(todo) \notin Families
  /\ why' = Failed
  /\ Reaches("failed")
  /\ UNCHANGED <<sup_vars, todo>>

SkipBuild ==
  /\ phase = "steps"
  /\ todo # <<>>
  /\ Head(todo) = family
  /\ todo' = Tail(todo)
  /\ Reaches("steps")
  /\ UNCHANGED <<sup_vars, why>>

(* build() goes on whatever begin() says.                                  *)
BeginBuild ==
  /\ phase = "steps"
  /\ todo # <<>>
  /\ Head(todo) \in Families \ {family}
  /\ BeginOk("building") \/ BeginRefused
  /\ Reaches("building")
  /\ UNCHANGED <<todo, why>>

EndBuild ==
  /\ phase = "building"
  /\ End
  /\ family' = Head(todo)
  /\ todo' = Tail(todo)
  /\ phase' = "steps"
  /\ UNCHANGED <<bus_vars, exec_vars, why, pc, resumed>>

FailBuild ==
  /\ phase = "building"
  /\ Fault(Failed)
  /\ why' = Failed
  /\ Reaches("failed")
  /\ UNCHANGED todo

BeginRun ==
  /\ phase = "steps"
  /\ todo # <<>>
  /\ Head(todo) \in Motions
  /\ StartRun
  /\ phase' = "driving"
  /\ UNCHANGED <<bus_vars, sup_vars, todo, family, why, pc, resumed>>

RunCycle(unsafe) ==
  /\ phase = "driving"
  /\ Cycle(cancel, unsafe)
  /\ phase' = IF run' = "returned" THEN "driven" ELSE "driving"
  /\ UNCHANGED <<bus_vars, sup_vars, todo, family, why, pc, resumed>>

(* Mutated form of CutShort: whether a stop was asked for is not looked at. *)
CutShort_AnyStop == Head(todo) = "move" /\ stopped_early
(* A move that ended early fails, unless a stop stands; a jog never does.  *)
CutShort == Head(todo) = "move" /\ stopped_early /\ ~cancel

EndMotion ==
  /\ phase = "driven"
  /\ EndRun
  /\ IF CutShort
     THEN phase' = "failed" /\ why' = Stopped /\ UNCHANGED todo
     ELSE phase' = "steps" /\ todo' = Tail(todo) /\ UNCHANGED why
  /\ UNCHANGED <<bus_vars, sup_vars, family, pc, resumed>>

CompleteMotion ==
  /\ phase = "steps"
  /\ todo = <<>>
  /\ entry.item # Receipt
  /\ End
  /\ Reaches("over")
  /\ UNCHANGED <<todo, why>>

CompleteReceipt ==
  /\ phase = "steps"
  /\ todo = <<>>
  /\ entry.item = Receipt
  /\ Reaches("over")
  /\ UNCHANGED <<sup_vars, todo, why>>

(* Mutated form of ReportFailure: the failure is logged and not declared.  *)
ReportFailure_Silent ==
  /\ phase = "failed"
  /\ why' = NoError
  /\ Reaches("over")
  /\ UNCHANGED <<sup_vars, todo>>

ReportFailure ==
  /\ phase = "failed"
  /\ Fault(why)
  /\ why' = NoError
  /\ Reaches("over")
  /\ UNCHANGED todo

RetireCommand ==
  /\ phase = "over"
  /\ Finish
  /\ phase' = "none"
  /\ todo' = <<>>
  /\ UNCHANGED <<sup_vars, exec_vars, family, why, pc, resumed>>

Execute ==
  \/ AdmitMotion \/ AdmitReceipt \/ RefuseMotion \/ ReportRefusal
  \/ DoWork \/ FailStep \/ SkipBuild \/ BeginBuild \/ EndBuild \/ FailBuild
  \/ BeginRun \/ (\E unsafe \in BOOLEAN : RunCycle(unsafe)) \/ EndMotion
  \/ CompleteMotion \/ CompleteReceipt \/ ReportFailure

LoopStep ==
  \/ TakeCommand
  \/ RetireCommand
  \/ /\ FindEmpty \/ Park \/ Settle
     /\ UNCHANGED <<sup_vars, exec_vars, exe_vars, pc, resumed>>

Woken ==
  /\ SpuriousWake
  /\ UNCHANGED <<sup_vars, exec_vars, exe_vars, pc, resumed>>

-------------------------------------------------------------------------------
ControlNext ==
  \/ SubmitCommand
  \/ \E c \in Callers :
       StopCall(c) \/ EstopCall(c) \/ ResumeCall(c) \/ ResumeRefused(c) \/ VerbStep(c)
  \/ Execute
  \/ LoopStep
  \/ Woken

ControlSpec == ControlInit /\ [][ControlNext]_ctl_vars

(***************************************************************************)
(* The worker keeps running and what it executes returns; a caller inside  *)
(* a verb finishes it, which needs the bus's mutex each time it is free    *)
(* (SF: the worker may take it in between).  Nobody has to call anything.  *)
(***************************************************************************)
ControlFairSpec ==
  /\ ControlSpec
  /\ WF_ctl_vars(Execute \/ LoopStep)
  /\ \A c \in Callers : SF_ctl_vars(VerbStep(c))

-------------------------------------------------------------------------------
(* Properties                                                              *)

(* Every variable of the composition has its type.                         *)
ControlTypeOK ==
  /\ BusTypeOK /\ SupTypeOK /\ ExecTypeOK
  /\ phase \in Phase
  /\ todo \in Seq(Steps)
  /\ family \in Families
  /\ why \in Errors \cup {NoError}
  /\ pc \in [Callers -> {"free", "estop", "receipt"}]
  /\ resumed \in BOOLEAN

(* The steps of the running command that are over include a rebuild.       *)
RebuiltBefore ==
  \E k \in 1..(Len(entry.item) - Len(todo)) : entry.item[k] \in Families

(* Once an e-stop has returned from the supervisor, a run it finds in      *)
(* progress, or that a later step of the same program starts, is always    *)
(* decelerating, unless the program rebuilt the cell in between.           *)
LatchedRunIsStopping ==
  phase = "driving" /\ latched /\ estopping = {} => cancel \/ RebuiltBefore

(* Between commands the cell never declares work in flight: whichever way  *)
(* a command ended, it left the state idle, held or faulted.               *)
RestingCellIsNotWorking == phase = "none" => ~Working

(* A motion cut short by a stop is reported as a failure only if a resume  *)
(* withdrew that stop while the command ran.                               *)
StopIsNotAFailure == why = Stopped => resumed

(* When the worker sleeps on an empty queue and no caller is inside a verb *)
(* every id handed out reads as applied.  A discard alone cannot give      *)
(* this: a command it overtook stores its older id afterwards, and only    *)
(* the receipt queued behind it brings applied up again.                   *)
QuiescentMeansApplied ==
  worker \in {"parking", "parked"} /\ queue = <<>> /\ (\A c \in Callers : pc[c] = "free")
    => applied = last_id

(* Waiting for an id ends, and stays ended: applied covers every id from   *)
(* some point on, though it may step back in between.                      *)
EveryIdIsCovered == \A i \in 1..MaxId : (last_id >= i) ~> [](applied >= i)

(* What cell_supervisor.hpp says of an e-stop: it cancels the running      *)
(* motion and latches the cell so nothing new starts until resume().       *)
LatchStopsMotion == phase = "driving" /\ latched /\ estopping = {} => cancel

===============================================================================
