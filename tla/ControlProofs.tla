------------------------------ MODULE ControlProofs ------------------------------
(***************************************************************************)
(* What the parts of a cell promise when they are put together: the proofs *)
(* of the bus, of the supervisor and of the executive are reused, because  *)
(* every step of the composition is a step of one of them or leaves it     *)
(* alone; the rest is about where the worker is inside a command.          *)
(***************************************************************************)
EXTENDS ControlPlane, CellProofs, SyncExecutiveProofs

(* Where the worker is, against what it has in hand.                       *)
PlaceOK ==
  /\ phase \in Phase
  /\ phase = "none" <=> worker # "handling"
  /\ todo \in Seq(Steps)
  /\ family \in Families
  /\ phase \in {"building", "driving", "driven"} => todo # <<>>
  /\ phase = "building" => Head(todo) \in Families
  /\ phase = "fresh" => todo = entry.item
  /\ why \in Errors \cup {NoError}
  /\ phase = "failed" <=> why # NoError

(* What is left of a command is its tail.                                  *)
TodoIsTail ==
  phase # "none" =>
    /\ entry.item \in Seq(Steps)
    /\ Len(todo) <= Len(entry.item)
    /\ \A j \in 1..Len(todo) : todo[j] = entry.item[Len(entry.item) - Len(todo) + j]

RunFollowsPhase ==
  /\ run = "cycling" <=> phase = "driving"
  /\ run = "returned" <=> phase = "driven"

CallersOK ==
  /\ pc \in [Callers -> {"free", "estop", "receipt"}]
  /\ resumed \in BOOLEAN

(* A latched cell that executes a motion has been asked to stop.           *)
LatchIsSeen ==
  /\ phase \in {"steps", "driving", "driven"}
  /\ entry.item # Receipt
  /\ latched
  /\ estopping = {}
  => cancel \/ RebuiltBefore

(* Only a command that moves or builds declares that it does.              *)
WorkIsDeclared ==
  phase \in {"none", "fresh", "refused", "over"} \/ entry.item = Receipt => ~Working

(* A run slows down for a stop that stands or that a resume withdrew.      *)
RampHasReason ==
  phase \in {"driving", "driven"} /\ rate < FullRate => cancel \/ resumed

(* With an empty backlog, the newest id is in the worker's hands, about to *)
(* be followed by a receipt, or applied.                                   *)
NewestIsAccounted ==
  queue = <<>> =>
    \/ worker = "handling" /\ entry.id = last_id
    \/ \E c \in Callers : pc[c] = "receipt"
    \/ worker # "handling" /\ applied = last_id

ControlInv ==
  /\ BusInv
  /\ SupInv
  /\ ExecInv
  /\ PlaceOK
  /\ TodoIsTail
  /\ RunFollowsPhase
  /\ CallersOK
  /\ LatchIsSeen
  /\ WorkIsDeclared
  /\ RampHasReason
  /\ StopIsNotAFailure
  /\ NewestIsAccounted

-------------------------------------------------------------------------------
(* Steps outside a command, and what they leave alone.                     *)

CallerStep(c) ==
  StopCall(c) \/ EstopCall(c) \/ ResumeCall(c) \/ ResumeRefused(c) \/ VerbStep(c)

IdleStep ==
  /\ FindEmpty \/ Park \/ Settle
  /\ UNCHANGED <<sup_vars, exec_vars, exe_vars, pc, resumed>>

Outside ==
  \/ SubmitCommand
  \/ \E c \in Callers : CallerStep(c)
  \/ IdleStep
  \/ Woken
  \/ UNCHANGED ctl_vars

LEMMA NextIsOneOf ==
  [ControlNext]_ctl_vars => Outside \/ Execute \/ TakeCommand \/ RetireCommand
  BY DEF ControlNext, LoopStep, Outside, CallerStep, IdleStep

LEMMA SubmitLeavesWorker ==
  ASSUME NEW key, NEW item, Submit(key, item)
  PROVE  /\ UNCHANGED <<entry, applied>>
         /\ worker' = worker \/ (worker = "parked" /\ worker' = "poll")
  BY DEF Submit, Coalesce, Enqueue, RefuseFull, Notified, bus_vars

LEMMA OutsideFacts ==
  ASSUME Outside
  PROVE  /\ UNCHANGED <<phase, todo, family, why>> /\ UNCHANGED exec_vars
         /\ worker' = "handling" <=> worker = "handling"
         /\ worker = "handling" => entry' = entry
<1>1. CASE SubmitCommand
  BY <1>1, SubmitLeavesWorker DEF SubmitCommand, exe_vars
<1>2. ASSUME NEW c \in Callers, CallerStep(c)
      PROVE  /\ UNCHANGED <<phase, todo, family, why>> /\ UNCHANGED exec_vars
             /\ worker' = "handling" <=> worker = "handling"
             /\ worker = "handling" => entry' = entry
  <2>1. CASE QueueReceipt(c)
    BY <2>1, SubmitLeavesWorker DEF QueueReceipt, exe_vars
  <2>2. CASE EstopDiscard(c)
    BY <2>2 DEF EstopDiscard, DiscardPending, exe_vars
  <2>3. CASE StopCall(c) \/ EstopCall(c) \/ ResumeCall(c) \/ ResumeRefused(c) \/ EstopRequest(c)
    BY <2>3 DEF StopCall, EstopCall, ResumeCall, ResumeRefused, EstopRequest, bus_vars,
       exe_vars, ctl_vars
  <2> QED BY <1>2, <2>1, <2>2, <2>3 DEF CallerStep, VerbStep
<1>3. CASE IdleStep
  BY <1>3 DEF IdleStep, FindEmpty, Park, Settle, exe_vars
<1>4. CASE Woken
  BY <1>4 DEF Woken, SpuriousWake, exe_vars
<1>5. CASE UNCHANGED ctl_vars
  BY <1>5 DEF ctl_vars, exe_vars, bus_vars
<1> QED BY <1>1, <1>2, <1>3, <1>4, <1>5 DEF Outside

(* The worker inside a command disturbs neither the bus nor the callers.   *)
LEMMA ExecuteFacts ==
  Execute => UNCHANGED bus_vars /\ UNCHANGED <<pc, resumed>>
  BY DEF Execute, AdmitMotion, AdmitReceipt, RefuseMotion, ReportRefusal, DoWork, FailStep,
     SkipBuild, BeginBuild, EndBuild, FailBuild, BeginRun, RunCycle, EndMotion,
     CompleteMotion, CompleteReceipt, ReportFailure, Reaches

-------------------------------------------------------------------------------
(* Every step is a step of each part.                                      *)

LEMMA ControlStepIsBusStep == [ControlNext]_ctl_vars => [BusNext]_bus_vars
<1> SUFFICES ASSUME [ControlNext]_ctl_vars PROVE [BusNext]_bus_vars
  OBVIOUS
<1>1. CASE SubmitCommand
  <2>1. PICK item \in Items \ {Receipt}, key \in Keys \cup {NoKey} : Submit(key, item)
    BY <1>1 DEF SubmitCommand
  <2> QED BY <2>1 DEF BusNext
<1>2. ASSUME NEW c \in Callers, CallerStep(c)
      PROVE  [BusNext]_bus_vars
  <2>1. CASE QueueReceipt(c)
    BY <2>1, ControlAssumption DEF QueueReceipt, BusNext
  <2>2. CASE EstopDiscard(c)
    BY <2>2 DEF EstopDiscard, BusNext
  <2>3. CASE StopCall(c) \/ EstopCall(c) \/ ResumeCall(c) \/ ResumeRefused(c) \/ EstopRequest(c)
    BY <2>3 DEF StopCall, EstopCall, ResumeCall, ResumeRefused, EstopRequest, ctl_vars
  <2> QED BY <1>2, <2>1, <2>2, <2>3 DEF CallerStep, VerbStep
<1>3. CASE IdleStep
  BY <1>3 DEF IdleStep, BusNext, WorkerStep
<1>4. CASE Woken
  BY <1>4 DEF Woken, BusNext
<1>5. CASE UNCHANGED ctl_vars
  BY <1>5 DEF ctl_vars
<1>6. CASE Execute
  BY <1>6, ExecuteFacts
<1>7. CASE TakeCommand \/ RetireCommand
  BY <1>7 DEF TakeCommand, RetireCommand, BusNext, WorkerStep
<1> QED BY <1>1, <1>2, <1>3, <1>4, <1>5, <1>6, <1>7, NextIsOneOf DEF Outside

(* What a command can end with is one of the reasons the supervisor keeps. *)
LEMMA ReasonsAreErrors == Refused \in Errors /\ Failed \in Errors /\ Stopped \in Errors
  BY ControlAssumption

LEMMA ControlStepIsSupStep ==
  PlaceOK /\ [ControlNext]_ctl_vars => [SupNext]_sup_vars
<1> SUFFICES ASSUME PlaceOK, [ControlNext]_ctl_vars PROVE [SupNext]_sup_vars
  OBVIOUS
<1>1. CASE SubmitCommand
  BY <1>1 DEF SubmitCommand
<1>2. ASSUME NEW c \in Callers, CallerStep(c)
      PROVE  [SupNext]_sup_vars
  BY <1>2 DEF CallerStep, VerbStep, StopCall, EstopCall, ResumeCall, ResumeRefused,
     EstopRequest, EstopDiscard, QueueReceipt, ctl_vars, SupNext
<1>3. CASE IdleStep \/ Woken \/ UNCHANGED ctl_vars
  BY <1>3 DEF IdleStep, Woken, ctl_vars
<1>4. CASE TakeCommand \/ RetireCommand
  BY <1>4 DEF TakeCommand, RetireCommand
<1>5. CASE Execute
  <2>1. CASE AdmitMotion
    BY <2>1 DEF AdmitMotion, SupNext
  <2>2. CASE BeginBuild
    BY <2>2 DEF BeginBuild, BeginRefused, SupNext
  <2>3. CASE EndBuild \/ CompleteMotion
    BY <2>3 DEF EndBuild, CompleteMotion, SupNext
  <2>4. CASE ReportRefusal \/ FailBuild
    BY <2>4, ReasonsAreErrors DEF ReportRefusal, FailBuild, SupNext
  <2>5. CASE ReportFailure
    <3>1. why \in Errors /\ Fault(why)
      BY <2>5 DEF ReportFailure, PlaceOK
    <3> QED BY <3>1 DEF SupNext
  <2>6. CASE \/ AdmitReceipt \/ RefuseMotion \/ DoWork \/ FailStep \/ SkipBuild
             \/ BeginRun \/ (\E unsafe \in BOOLEAN : RunCycle(unsafe))
             \/ EndMotion \/ CompleteReceipt
    BY <2>6 DEF AdmitReceipt, RefuseMotion, BeginRefused, DoWork, FailStep, SkipBuild,
       BeginRun, RunCycle, EndMotion, CompleteReceipt
  <2> QED BY <1>5, <2>1, <2>2, <2>3, <2>4, <2>5, <2>6 DEF Execute
<1> QED BY <1>1, <1>2, <1>3, <1>4, <1>5, NextIsOneOf DEF Outside

LEMMA ControlStepKeepsExecInv ==
  ExecInv /\ SupTypeOK /\ [ControlNext]_ctl_vars => ExecInv'
<1> SUFFICES ASSUME ExecInv, SupTypeOK, [ControlNext]_ctl_vars PROVE ExecInv'
  OBVIOUS
<1>1. CASE Outside \/ TakeCommand \/ RetireCommand
  BY <1>1, OutsideFacts, ExecUnchanged DEF TakeCommand, RetireCommand
<1>2. CASE BeginRun
  BY <1>2, StartRunKeepsExecInv DEF BeginRun
<1>3. ASSUME NEW unsafe \in BOOLEAN, RunCycle(unsafe)
      PROVE  ExecInv'
  BY <1>3, CycleKeepsExecInv DEF RunCycle, SupTypeOK
<1>4. CASE EndMotion
  BY <1>4, EndRunKeepsExecInv DEF EndMotion
<1>5. CASE /\ Execute
           /\ ~BeginRun
           /\ ~\E unsafe \in BOOLEAN : RunCycle(unsafe)
           /\ ~EndMotion
  <2>1. UNCHANGED exec_vars
    BY <1>5 DEF Execute, AdmitMotion, AdmitReceipt, RefuseMotion, ReportRefusal, DoWork,
       FailStep, SkipBuild, BeginBuild, EndBuild, FailBuild, CompleteMotion,
       CompleteReceipt, ReportFailure, Reaches
  <2> QED BY <2>1, ExecUnchanged
<1> QED BY <1>1, <1>2, <1>3, <1>4, <1>5, NextIsOneOf

-------------------------------------------------------------------------------
(* Where the worker is.                                                    *)

(* The head of a command that is not over, and what is left behind it.     *)
LEMMA TodoFacts ==
  ASSUME PlaceOK, todo # <<>>
  PROVE  /\ Head(todo) \in Steps /\ Tail(todo) \in Seq(Steps)
         /\ Len(todo) \in Nat /\ Len(todo) >= 1 /\ Len(Tail(todo)) = Len(todo) - 1
         /\ Head(todo) = todo[1]
         /\ \A j \in 1..Len(Tail(todo)) : Tail(todo)[j] = todo[j + 1]
  BY DEF PlaceOK

LEMMA TakenCommand ==
  ASSUME BusInv, TakeCommand
  PROVE  /\ entry' \in Entry /\ todo' = entry'.item /\ entry'.item \in Seq(Steps)
         /\ worker = "poll" /\ worker' = "handling" /\ phase' = "fresh"
<1>1. queue \in Seq(Entry) /\ queue # <<>> /\ entry' = Head(queue)
  BY DEF TakeCommand, Take, BusInv, BusTypeOK
<1>2. entry' \in Entry
  BY <1>1
<1>3. entry'.item \in Items
  BY <1>2 DEF Entry
<1> QED BY <1>2, <1>3, ControlAssumption DEF TakeCommand, Take

LEMMA StepKeepsPlace ==
  ASSUME ControlInv, [ControlNext]_ctl_vars
  PROVE  PlaceOK'
<1> USE DEF ControlInv
<1>1. CASE Outside
  BY <1>1, OutsideFacts DEF PlaceOK
<1>2. CASE TakeCommand
  <2>1. why = NoError
    BY <1>2, TakenCommand DEF PlaceOK
  <2> QED BY <1>2, <2>1, TakenCommand DEF TakeCommand, PlaceOK, Phase
<1>3. CASE RetireCommand
  BY <1>3 DEF RetireCommand, Finish, PlaceOK, Phase
<1>4. CASE Execute
  <2>0. worker' = worker /\ entry' = entry
    BY <1>4, ExecuteFacts DEF bus_vars
  <2>1. CASE AdmitMotion \/ AdmitReceipt \/ RefuseMotion \/ ReportRefusal
    BY <2>0, <2>1 DEF AdmitMotion, AdmitReceipt, RefuseMotion, ReportRefusal, Reaches,
       PlaceOK, Phase
  <2>2. CASE DoWork \/ SkipBuild
    BY <2>0, <2>2, TodoFacts DEF DoWork, SkipBuild, Reaches, PlaceOK, Phase
  <2>3. CASE FailStep \/ FailBuild
    BY <2>0, <2>3, ReasonsAreErrors, SupervisorAssumption
       DEF FailStep, FailBuild, Reaches, PlaceOK, Phase
  <2>4. CASE BeginBuild
    BY <2>0, <2>4 DEF BeginBuild, Reaches, PlaceOK, Phase
  <2>5. CASE EndBuild
    BY <2>0, <2>5, TodoFacts DEF EndBuild, PlaceOK, Phase
  <2>6. CASE BeginRun
    BY <2>0, <2>6 DEF BeginRun, PlaceOK, Phase
  <2>7. CASE \E unsafe \in BOOLEAN : RunCycle(unsafe)
    BY <2>0, <2>7 DEF RunCycle, PlaceOK, Phase
  <2>8. CASE EndMotion
    <3>1. CASE CutShort
      BY <2>0, <2>8, <3>1, ReasonsAreErrors, SupervisorAssumption DEF EndMotion, PlaceOK, Phase
    <3>2. CASE ~CutShort
      BY <2>0, <2>8, <3>2, TodoFacts DEF EndMotion, PlaceOK, Phase
    <3> QED BY <3>1, <3>2
  <2>9. CASE CompleteMotion \/ CompleteReceipt
    BY <2>0, <2>9 DEF CompleteMotion, CompleteReceipt, Reaches, PlaceOK, Phase
  <2>10. CASE ReportFailure
    BY <2>0, <2>10 DEF ReportFailure, Reaches, PlaceOK, Phase
  <2> QED
    BY <1>4, <2>1, <2>2, <2>3, <2>4, <2>5, <2>6, <2>7, <2>8, <2>9, <2>10 DEF Execute
<1> QED BY <1>1, <1>2, <1>3, <1>4, NextIsOneOf

LEMMA ShiftedIndex ==
  \A n, m, j \in Nat : n - m + (j + 1) = n - (m - 1) + j
  OBVIOUS

(* Dropping the head of what is left keeps it the tail of the command.     *)
LEMMA TailStaysTail ==
  ASSUME ControlInv, phase # "none", todo # <<>>, entry' = entry, todo' = Tail(todo)
  PROVE  TodoIsTail'
<1> USE DEF ControlInv
<1>1. /\ entry.item \in Seq(Steps) /\ Len(entry.item) \in Nat
      /\ Len(todo) <= Len(entry.item)
      /\ \A j \in 1..Len(todo) : todo[j] = entry.item[Len(entry.item) - Len(todo) + j]
  BY DEF TodoIsTail
<1>2. Len(todo') <= Len(entry.item)
  BY <1>1, TodoFacts
<1>3. ASSUME NEW j \in 1..Len(todo')
      PROVE  todo'[j] = entry.item[Len(entry.item) - Len(todo') + j]
  <2>1. j + 1 \in 1..Len(todo) /\ todo'[j] = todo[j + 1]
    BY TodoFacts
  <2>2. /\ Len(todo) \in Nat /\ Len(todo') = Len(todo) - 1 /\ Len(entry.item) \in Nat
        /\ j \in Nat
    BY <1>1, TodoFacts
  <2>3. Len(entry.item) - Len(todo) + (j + 1) = Len(entry.item) - (Len(todo) - 1) + j
    BY <2>2, ShiftedIndex
  <2> QED BY <1>1, <2>1, <2>2, <2>3, Zenon
<1> QED BY <1>1, <1>2, <1>3 DEF TodoIsTail

LEMMA StepKeepsTail ==
  ASSUME ControlInv, [ControlNext]_ctl_vars
  PROVE  TodoIsTail'
<1> USE DEF ControlInv
<1>1. CASE Outside
  BY <1>1, OutsideFacts DEF PlaceOK, TodoIsTail
<1>2. CASE TakeCommand
  <2>1. /\ entry'.item \in Seq(Steps) /\ todo' = entry'.item
        /\ Len(todo') \in Nat
    BY <1>2, TakenCommand
  <2>2. \A j \in 1..Len(todo') : Len(entry'.item) - Len(todo') + j = j
    BY <2>1
  <2> QED BY <2>1, <2>2 DEF TodoIsTail
<1>3. CASE RetireCommand
  BY <1>3 DEF RetireCommand, TodoIsTail
<1>4. CASE Execute
  <2>0. entry' = entry
    BY <1>4, ExecuteFacts DEF bus_vars
  <2>1. CASE DoWork \/ SkipBuild
    BY <2>0, <2>1, TailStaysTail DEF DoWork, SkipBuild
  <2>2. CASE EndBuild
    BY <2>0, <2>2, TailStaysTail DEF EndBuild, PlaceOK
  <2>3. CASE EndMotion /\ ~CutShort
    BY <2>0, <2>3, TailStaysTail DEF EndMotion, PlaceOK
  <2>4. CASE /\ ~(DoWork \/ SkipBuild \/ EndBuild) /\ ~(EndMotion /\ ~CutShort)
    <3>1. todo' = todo /\ phase # "none"
      BY <1>4, <2>4 DEF Execute, AdmitMotion, AdmitReceipt, RefuseMotion, ReportRefusal,
         FailStep, BeginBuild, FailBuild, BeginRun, RunCycle, EndMotion, CompleteMotion,
         CompleteReceipt, ReportFailure
    <3> QED BY <2>0, <3>1 DEF TodoIsTail
  <2> QED BY <2>1, <2>2, <2>3, <2>4
<1> QED BY <1>1, <1>2, <1>3, <1>4, NextIsOneOf

LEMMA StepKeepsRunPhase ==
  ASSUME ControlInv, [ControlNext]_ctl_vars
  PROVE  RunFollowsPhase'
<1> USE DEF ControlInv
<1>1. CASE Outside
  BY <1>1, OutsideFacts DEF RunFollowsPhase, exec_vars
<1>2. CASE TakeCommand \/ RetireCommand
  <2>1. phase = "none" \/ phase = "over"
    BY <1>2, TakenCommand DEF RetireCommand, PlaceOK
  <2> QED BY <1>2, <2>1 DEF TakeCommand, RetireCommand, RunFollowsPhase, exec_vars
<1>3. CASE Execute
  <2>1. CASE BeginRun
    BY <2>1 DEF BeginRun, StartRun, RunFollowsPhase
  <2>2. ASSUME NEW unsafe \in BOOLEAN, RunCycle(unsafe)
        PROVE  RunFollowsPhase'
    <3>1. run' \in {"cycling", "returned"}
      BY <2>2, CycleMoves DEF RunCycle, SupInv, SupTypeOK
    <3> QED BY <2>2, <3>1 DEF RunCycle, RunFollowsPhase
  <2>3. CASE EndMotion
    BY <2>3 DEF EndMotion, EndRun, RunFollowsPhase
  <2>4. CASE ~(BeginRun \/ EndMotion \/ \E unsafe \in BOOLEAN : RunCycle(unsafe))
    <3>1. /\ run' = run
          /\ phase \notin {"driving", "driven"} /\ phase' \notin {"driving", "driven"}
      BY <1>3, <2>4 DEF Execute, AdmitMotion, AdmitReceipt, RefuseMotion, ReportRefusal,
         DoWork, FailStep, SkipBuild, BeginBuild, EndBuild, FailBuild, CompleteMotion,
         CompleteReceipt, ReportFailure, Reaches, exec_vars
    <3> QED BY <3>1 DEF RunFollowsPhase
  <2> QED BY <2>1, <2>2, <2>3, <2>4
<1> QED BY <1>1, <1>2, <1>3, NextIsOneOf

LEMMA StepKeepsCallers ==
  ASSUME ControlInv, [ControlNext]_ctl_vars
  PROVE  CallersOK'
<1> USE DEF ControlInv
<1>1. CASE SubmitCommand \/ IdleStep \/ Woken \/ UNCHANGED ctl_vars
  BY <1>1 DEF SubmitCommand, IdleStep, Woken, ctl_vars, CallersOK
<1>2. ASSUME NEW c \in Callers, CallerStep(c)
      PROVE  CallersOK'
  <2>1. \/ pc' = pc
        \/ \E at \in {"free", "estop", "receipt"} : pc' = [pc EXCEPT ![c] = at]
    BY <1>2 DEF CallerStep, VerbStep, StopCall, EstopCall, ResumeCall, ResumeRefused,
       EstopRequest, EstopDiscard, QueueReceipt, ctl_vars
  <2>2. resumed' \in BOOLEAN
    BY <1>2 DEF CallerStep, VerbStep, StopCall, EstopCall, ResumeCall, ResumeRefused,
       EstopRequest, EstopDiscard, QueueReceipt, ctl_vars, CallersOK
  <2> QED BY <2>1, <2>2 DEF CallersOK
<1>3. CASE Execute
  BY <1>3, ExecuteFacts DEF CallersOK
<1>4. CASE TakeCommand \/ RetireCommand
  BY <1>4 DEF TakeCommand, RetireCommand, CallersOK
<1> QED BY <1>1, <1>2, <1>3, <1>4, NextIsOneOf DEF Outside

-------------------------------------------------------------------------------
(* What the latch, the token and the declared state say of the command.    *)

(* A caller that leaves the latch and nobody between its two steps has     *)
(* either requested the stop or changed nothing of it.                     *)
LEMMA OutsideAndTheToken ==
  ASSUME ControlInv, Outside
  PROVE  /\ latched' /\ estopping' = {} => cancel' \/ (latched /\ estopping = {} /\ ~cancel)
         /\ cancel => cancel' \/ resumed'
         /\ resumed => resumed'
         /\ state' \in {state, "held", "idle"}
<1> USE DEF ControlInv
<1>1. CASE SubmitCommand \/ IdleStep \/ Woken \/ UNCHANGED ctl_vars
  BY <1>1 DEF SubmitCommand, IdleStep, Woken, ctl_vars, sup_vars
<1>2. ASSUME NEW c \in Callers, CallerStep(c)
      PROVE  /\ latched' /\ estopping' = {} => cancel' \/ (latched /\ estopping = {} /\ ~cancel)
             /\ cancel => cancel' \/ resumed'
             /\ resumed => resumed'
             /\ state' \in {state, "held", "idle"}
  <2>1. CASE StopCall(c)
    BY <2>1 DEF StopCall, Stop
  <2>2. CASE EstopCall(c)
    BY <2>2 DEF EstopCall, EstopLatch
  <2>3. CASE EstopRequest(c)
    BY <2>3 DEF EstopRequest, EstopCancel
  <2>4. CASE ResumeCall(c)
    BY <2>4 DEF ResumeCall, Resume
  <2>5. CASE ResumeRefused(c) \/ EstopDiscard(c) \/ QueueReceipt(c)
    BY <2>5 DEF ResumeRefused, EstopDiscard, QueueReceipt, ctl_vars, sup_vars
  <2> QED BY <1>2, <2>1, <2>2, <2>3, <2>4, <2>5 DEF CallerStep, VerbStep
<1> QED BY <1>1, <1>2 DEF Outside

LEMMA RebuiltStays ==
  ASSUME TodoIsTail, phase # "none", RebuiltBefore, entry' = entry,
         todo' = todo \/ (todo # <<>> /\ todo \in Seq(Steps) /\ todo' = Tail(todo))
  PROVE  RebuiltBefore'
<1>1. PICK k \in 1..(Len(entry.item) - Len(todo)) : entry.item[k] \in Families
  BY DEF RebuiltBefore
<1>2. Len(entry.item) \in Nat /\ Len(todo) <= Len(entry.item)
  BY DEF TodoIsTail
<1>3. k \in 1..(Len(entry.item) - Len(todo'))
  <2>1. CASE todo' = todo
    BY <2>1
  <2>2. CASE todo # <<>> /\ todo \in Seq(Steps) /\ todo' = Tail(todo)
    <3>1. Len(todo) \in Nat /\ Len(Tail(todo)) = Len(todo) - 1
      BY <2>2
    <3>2. k \in 1..(Len(entry.item) - Len(Tail(todo)))
      BY <1>2, <3>1
    <3> QED BY <2>2, <3>2
  <2> QED BY <2>1, <2>2
<1> QED BY <1>1, <1>3 DEF RebuiltBefore

LEMMA FirstBehind ==
  \A n, m \in Nat : 1 <= m /\ m <= n => n - m + 1 \in 1..(n - (m - 1))
  OBVIOUS

(* After a rebuild inside the command there is one behind the worker.      *)
LEMMA BuildIsBehind ==
  ASSUME ControlInv, phase = "building", entry' = entry, todo' = Tail(todo)
  PROVE  RebuiltBefore'
<1> USE DEF ControlInv
<1>1. todo # <<>> /\ Head(todo) \in Families
  BY DEF PlaceOK
<1>2. Len(entry.item) \in Nat /\ Len(todo) <= Len(entry.item)
  BY DEF TodoIsTail
<1>3. /\ Len(todo) \in Nat /\ 1 <= Len(todo) /\ Len(Tail(todo)) = Len(todo) - 1
      /\ Head(todo) = todo[1]
  BY <1>1, TodoFacts
<1> DEFINE k == Len(entry.item) - Len(todo) + 1
<1>4. k \in 1..(Len(entry.item) - Len(Tail(todo)))
  <2>1. k \in 1..(Len(entry.item) - (Len(todo) - 1))
    BY <1>2, <1>3, FirstBehind, Zenon
  <2> QED BY <1>3, <2>1, Zenon
<1>5. entry.item[k] \in Families
  <2>1. \A j \in 1..Len(todo) : todo[j] = entry.item[Len(entry.item) - Len(todo) + j]
    BY DEF TodoIsTail
  <2> QED BY <1>1, <1>3, <2>1
<1>6. k \in 1..(Len(entry'.item) - Len(todo')) /\ entry'.item[k] \in Families
  BY <1>4, <1>5
<1> HIDE DEF k
<1> QED BY <1>6 DEF RebuiltBefore

LEMMA StepKeepsLatchSeen ==
  ASSUME ControlInv, [ControlNext]_ctl_vars
  PROVE  LatchIsSeen'
<1> USE DEF ControlInv
<1>1. CASE Outside
  <2> SUFFICES ASSUME phase' \in {"steps", "driving", "driven"}, entry'.item # Receipt,
                      latched', estopping' = {}, ~cancel'
               PROVE  RebuiltBefore'
    BY DEF LatchIsSeen
  <2>1. UNCHANGED <<phase, todo>> /\ entry' = entry
    BY <1>1, OutsideFacts DEF PlaceOK
  <2>2. latched /\ estopping = {} /\ ~cancel
    BY <1>1, OutsideAndTheToken
  <2>3. RebuiltBefore /\ phase # "none"
    BY <2>1, <2>2 DEF LatchIsSeen
  <2> QED BY <2>1, <2>3, RebuiltStays
<1>2. CASE TakeCommand \/ RetireCommand
  BY <1>2 DEF TakeCommand, RetireCommand, LatchIsSeen
<1>3. CASE Execute
  <2>0. entry' = entry
    BY <1>3, ExecuteFacts DEF bus_vars
  <2>1. CASE AdmitMotion
    BY <2>1 DEF AdmitMotion, BeginOk, LatchIsSeen
  <2>2. CASE AdmitReceipt
    BY <2>0, <2>2 DEF AdmitReceipt, PlaceOK, LatchIsSeen
  <2>3. CASE EndBuild
    BY <2>0, <2>3, BuildIsBehind DEF EndBuild, LatchIsSeen
  <2>4. CASE \/ DoWork \/ SkipBuild \/ BeginRun \/ (\E unsafe \in BOOLEAN : RunCycle(unsafe))
             \/ (EndMotion /\ ~CutShort)
    <3>1. /\ UNCHANGED sup_vars
          /\ phase \in {"steps", "driving", "driven"}
          /\ todo' = todo \/ (todo # <<>> /\ todo' = Tail(todo))
      BY <2>4 DEF DoWork, SkipBuild, BeginRun, RunCycle, EndMotion, PlaceOK
    <3> SUFFICES ASSUME RebuiltBefore PROVE RebuiltBefore'
      BY <2>0, <3>1 DEF LatchIsSeen, sup_vars
    <3> QED BY <2>0, <3>1, RebuiltStays DEF PlaceOK
  <2>5. CASE \/ RefuseMotion \/ ReportRefusal \/ FailStep \/ BeginBuild \/ FailBuild
             \/ (EndMotion /\ CutShort) \/ CompleteMotion \/ CompleteReceipt \/ ReportFailure
    BY <2>5 DEF RefuseMotion, ReportRefusal, FailStep, BeginBuild, FailBuild, EndMotion,
       CompleteMotion, CompleteReceipt, ReportFailure, Reaches, LatchIsSeen
  <2> QED BY <1>3, <2>1, <2>2, <2>3, <2>4, <2>5 DEF Execute
<1> QED BY <1>1, <1>2, <1>3, NextIsOneOf

-------------------------------------------------------------------------------
(* Work is declared while it goes on, and no longer.                       *)

LEMMA ReceiptHasNoSteps ==
  ASSUME ControlInv, phase # "none", todo # <<>>
  PROVE  entry.item # Receipt
<1>1. Len(todo) \in Nat /\ Len(todo) >= 1
  BY TodoFacts DEF ControlInv
<1>2. Len(todo) <= Len(entry.item)
  BY DEF ControlInv, TodoIsTail
<1>3. Len(Receipt) = 0
  BY DEF Receipt
<1> QED BY <1>1, <1>2, <1>3

LEMMA EndedIsNotWorking ==
  ASSUME SupInv, End \/ \E reason \in Errors : Fault(reason)
  PROVE  ~Working'
<1> USE DEF SupInv, SupTypeOK, HeldIffLatched, Working
<1>1. CASE latched = TRUE
  BY <1>1 DEF End, Fault
<1>2. CASE latched = FALSE
  BY <1>2 DEF End, Fault
<1> QED BY <1>1, <1>2

LEMMA StepKeepsDeclared ==
  ASSUME ControlInv, [ControlNext]_ctl_vars
  PROVE  WorkIsDeclared'
<1> USE DEF ControlInv
<1>1. CASE Outside
  <2>1. phase' = phase /\ (phase # "none" => entry' = entry)
    BY <1>1, OutsideFacts DEF PlaceOK
  <2>2. ~Working => ~Working'
    BY <1>1, OutsideAndTheToken DEF Working
  <2> QED BY <2>1, <2>2 DEF WorkIsDeclared
<1>2. CASE TakeCommand \/ RetireCommand
  <2>1. phase = "none" \/ phase = "over"
    BY <1>2, TakenCommand DEF RetireCommand, PlaceOK
  <2>2. state' = state
    BY <1>2 DEF TakeCommand, RetireCommand, sup_vars
  <2> QED BY <2>1, <2>2 DEF WorkIsDeclared, Working
<1>3. CASE Execute
  <2>0. entry' = entry
    BY <1>3, ExecuteFacts DEF bus_vars
  <2>1. CASE AdmitMotion
    BY <2>0, <2>1 DEF AdmitMotion, Reaches, PlaceOK, WorkIsDeclared
  <2>2. CASE AdmitReceipt \/ RefuseMotion
    BY <2>0, <2>2 DEF AdmitReceipt, RefuseMotion, BeginRefused, Reaches, sup_vars,
       WorkIsDeclared, Working
  <2>3. CASE ReportRefusal \/ EndBuild \/ FailBuild \/ CompleteMotion \/ ReportFailure
    <3>1. ReportFailure => why \in Errors
      BY DEF ReportFailure, PlaceOK
    <3>2. End \/ \E reason \in Errors : Fault(reason)
      BY <2>3, <3>1, ReasonsAreErrors
         DEF ReportRefusal, EndBuild, FailBuild, CompleteMotion, ReportFailure
    <3> QED BY <3>2, EndedIsNotWorking DEF WorkIsDeclared
  <2>4. CASE BeginBuild
    BY <2>0, <2>4, ReceiptHasNoSteps DEF BeginBuild, Reaches, WorkIsDeclared
  <2>5. CASE \/ DoWork \/ FailStep \/ SkipBuild \/ BeginRun
             \/ (\E unsafe \in BOOLEAN : RunCycle(unsafe)) \/ EndMotion \/ CompleteReceipt
    <3>1. /\ state' = state
          /\ phase' \notin {"none", "fresh", "refused", "over"} \/ entry.item = Receipt
      BY <2>5 DEF DoWork, FailStep, SkipBuild, BeginRun, RunCycle, EndMotion,
         CompleteReceipt, Reaches, sup_vars
    <3> QED BY <2>0, <3>1 DEF WorkIsDeclared, Working
  <2> QED BY <1>3, <2>1, <2>2, <2>3, <2>4, <2>5 DEF Execute
<1> QED BY <1>1, <1>2, <1>3, NextIsOneOf

-------------------------------------------------------------------------------
(* Why a run slows down, and why a motion fails.                           *)

LEMMA StepKeepsReason ==
  ASSUME ControlInv, [ControlNext]_ctl_vars
  PROVE  RampHasReason'
<1> USE DEF ControlInv
<1>1. CASE Outside
  BY <1>1, OutsideFacts, OutsideAndTheToken DEF RampHasReason, exec_vars
<1>2. CASE TakeCommand \/ RetireCommand
  BY <1>2 DEF TakeCommand, RetireCommand, RampHasReason
<1>3. CASE Execute
  <2>1. CASE BeginRun
    <3>1. rate' = FullRate
      BY <2>1 DEF BeginRun, StartRun, ExecInv
    <3>2. ~(rate' < FullRate)
      BY <3>1, ExecNumbers
    <3> QED BY <3>2 DEF RampHasReason
  <2>2. ASSUME NEW unsafe \in BOOLEAN, RunCycle(unsafe)
        PROVE  RampHasReason'
    <3>1. /\ UNCHANGED <<cancel, resumed>> /\ cancel \in BOOLEAN
          /\ phase = "driving" /\ Cycle(cancel, unsafe)
      BY <2>2 DEF RunCycle, sup_vars, SupInv, SupTypeOK
    <3>2. cancel = FALSE => rate' = rate
      BY <3>1, CycleMoves, Zenon
    <3> QED BY <3>1, <3>2 DEF RampHasReason
  <2>3. CASE ~(BeginRun \/ \E unsafe \in BOOLEAN : RunCycle(unsafe))
    <3>1. phase' \notin {"driving", "driven"}
      BY <1>3, <2>3 DEF Execute, AdmitMotion, AdmitReceipt, RefuseMotion, ReportRefusal,
         DoWork, FailStep, SkipBuild, BeginBuild, EndBuild, FailBuild, EndMotion,
         CompleteMotion, CompleteReceipt, ReportFailure, Reaches
    <3> QED BY <3>1 DEF RampHasReason
  <2> QED BY <2>1, <2>2, <2>3
<1> QED BY <1>1, <1>2, <1>3, NextIsOneOf

LEMMA StepKeepsStopHarmless ==
  ASSUME ControlInv, [ControlNext]_ctl_vars
  PROVE  StopIsNotAFailure'
<1> USE DEF ControlInv
<1>1. CASE Outside
  BY <1>1, OutsideFacts, OutsideAndTheToken DEF StopIsNotAFailure
<1>2. CASE TakeCommand
  <2>1. why = NoError /\ why' = why
    BY <1>2, TakenCommand DEF TakeCommand, PlaceOK
  <2> QED BY <2>1, ReasonsAreErrors, SupervisorAssumption DEF StopIsNotAFailure
<1>3. CASE RetireCommand
  BY <1>3 DEF RetireCommand, StopIsNotAFailure
<1>4. CASE Execute
  <2>0. resumed' = resumed
    BY <1>4, ExecuteFacts
  <2>1. CASE EndMotion
    <3>1. CASE CutShort
      <4>1. stopped_early = TRUE /\ ~cancel /\ phase = "driven"
        BY <2>1, <3>1 DEF EndMotion, CutShort, ExecInv, ExecTypeOK
      <4>2. rate = 0
        BY <4>1 DEF ExecInv
      <4>3. rate < FullRate
        BY <4>2, ExecNumbers
      <4> QED BY <2>0, <4>1, <4>3 DEF RampHasReason, StopIsNotAFailure
    <3>2. CASE ~CutShort
      BY <2>0, <2>1, <3>2 DEF EndMotion, StopIsNotAFailure
    <3> QED BY <3>1, <3>2
  <2>2. CASE ~EndMotion
    <3>1. why' \in {why, Failed, NoError}
      BY <1>4, <2>2 DEF Execute, AdmitMotion, AdmitReceipt, RefuseMotion, ReportRefusal,
         DoWork, FailStep, SkipBuild, BeginBuild, EndBuild, FailBuild, BeginRun, RunCycle,
         CompleteMotion, CompleteReceipt, ReportFailure, Reaches
    <3>2. Stopped # Failed /\ Stopped # NoError
      BY ControlAssumption, SupervisorAssumption
    <3> QED BY <2>0, <3>1, <3>2 DEF StopIsNotAFailure
  <2> QED BY <2>1, <2>2
<1> QED BY <1>1, <1>2, <1>3, <1>4, NextIsOneOf

-------------------------------------------------------------------------------
(* Every id is on its way to being covered.                                *)

(* A receipt that is owed stays owed while another caller goes its way.    *)
LEMMA OwedReceipt ==
  ASSUME CallersOK, NEW c \in Callers, pc[c] = "free",
         NEW at, pc' = [pc EXCEPT ![c] = at],
         \E d \in Callers : pc[d] = "receipt"
  PROVE  \E d \in Callers : pc'[d] = "receipt"
<1>1. PICK d \in Callers : pc[d] = "receipt"
  OBVIOUS
<1>2. d # c
  BY <1>1
<1>3. pc'[d] = pc[d]
  BY <1>2 DEF CallersOK
<1> QED BY <1>1, <1>3

LEMMA CallerKeepsAccount ==
  ASSUME ControlInv, NEW c \in Callers, CallerStep(c)
  PROVE  NewestIsAccounted'
<1> USE DEF ControlInv
<1>1. CASE StopCall(c) \/ ResumeCall(c) \/ EstopDiscard(c)
  <2>1. pc'[c] = "receipt"
    BY <1>1 DEF StopCall, ResumeCall, EstopDiscard, CallersOK
  <2> QED BY <2>1 DEF NewestIsAccounted
<1>2. CASE EstopCall(c)
  <2>1. UNCHANGED bus_vars /\ pc[c] = "free" /\ pc' = [pc EXCEPT ![c] = "estop"]
    BY <1>2 DEF EstopCall
  <2> QED BY <2>1, OwedReceipt DEF NewestIsAccounted, bus_vars
<1>3. CASE EstopRequest(c) \/ ResumeRefused(c)
  <2>1. UNCHANGED bus_vars /\ pc' = pc
    BY <1>3 DEF EstopRequest, ResumeRefused, ctl_vars
  <2> QED BY <2>1 DEF NewestIsAccounted, bus_vars
<1>4. CASE QueueReceipt(c)
  BY <1>4, SubmitFills DEF QueueReceipt, NewestIsAccounted
<1> QED BY <1>1, <1>2, <1>3, <1>4 DEF CallerStep, VerbStep

LEMMA TakeKeepsAccount ==
  ASSUME ControlInv, TakeCommand
  PROVE  NewestIsAccounted'
<1>1. BusInv /\ Take /\ worker' = "handling" /\ last_id' = last_id
  BY DEF ControlInv, TakeCommand, Take
<1>2. queue' = <<>> => entry'.id = last_id
  BY <1>1, TakesTheNewestLast
<1> QED BY <1>1, <1>2 DEF NewestIsAccounted

LEMMA StepKeepsAccount ==
  ASSUME ControlInv, [ControlNext]_ctl_vars
  PROVE  NewestIsAccounted'
<1> USE DEF ControlInv
<1>1. CASE SubmitCommand
  BY <1>1, SubmitFills DEF SubmitCommand, NewestIsAccounted
<1>2. CASE IdleStep \/ Woken \/ UNCHANGED ctl_vars
  <2>1. /\ UNCHANGED <<queue, last_id, applied, pc>>
        /\ worker' = "handling" <=> worker = "handling"
        /\ worker = "handling" => entry' = entry
    BY <1>2 DEF IdleStep, Woken, FindEmpty, Park, Settle, SpuriousWake, ctl_vars, bus_vars
  <2> QED BY <2>1 DEF NewestIsAccounted
<1>3. CASE RetireCommand
  BY <1>3 DEF RetireCommand, Finish, NewestIsAccounted
<1>4. CASE Execute
  BY <1>4, ExecuteFacts DEF NewestIsAccounted, bus_vars
<1> QED BY <1>1, <1>2, <1>3, <1>4, CallerKeepsAccount, TakeKeepsAccount, NextIsOneOf DEF Outside

-------------------------------------------------------------------------------
LEMMA InitControlInv == ControlInit => ControlInv
<1> SUFFICES ASSUME ControlInit PROVE ControlInv
  OBVIOUS
<1> USE DEF ControlInit
<1>1. BusInv /\ SupInv /\ ExecInv
  BY InitBusInv, InitSupInv, InitExecInv
<1>2. PlaceOK
  BY ControlAssumption, SupervisorAssumption DEF PlaceOK, Phase, BusInit
<1>3. TodoIsTail /\ RunFollowsPhase /\ CallersOK /\ LatchIsSeen /\ RampHasReason
  BY DEF TodoIsTail, RunFollowsPhase, CallersOK, LatchIsSeen, RampHasReason, ExecInit
<1>4. WorkIsDeclared
  BY DEF WorkIsDeclared, Working, SupInit
<1>5. StopIsNotAFailure
  BY ReasonsAreErrors, SupervisorAssumption DEF StopIsNotAFailure
<1>6. NewestIsAccounted
  BY DEF NewestIsAccounted, BusInit
<1> QED BY <1>1, <1>2, <1>3, <1>4, <1>5, <1>6 DEF ControlInv

LEMMA NextKeepsControlInv == ControlInv /\ [ControlNext]_ctl_vars => ControlInv'
<1> SUFFICES ASSUME ControlInv, [ControlNext]_ctl_vars PROVE ControlInv'
  OBVIOUS
<1>1. BusInv'
  BY ControlStepIsBusStep, NextKeepsBusInv DEF ControlInv
<1>2. SupInv'
  BY ControlStepIsSupStep, SupNextKeepsSupInv DEF ControlInv
<1>3. ExecInv'
  BY ControlStepKeepsExecInv DEF ControlInv, SupInv
<1> QED
  BY <1>1, <1>2, <1>3, StepKeepsPlace, StepKeepsTail, StepKeepsRunPhase, StepKeepsCallers,
     StepKeepsLatchSeen, StepKeepsDeclared, StepKeepsReason, StepKeepsStopHarmless,
     StepKeepsAccount DEF ControlInv

(* The invariant of the composition holds in every state of it.            *)
THEOREM ControlInvariant == ControlSpec => []ControlInv
  BY InitControlInv, NextKeepsControlInv, PTL DEF ControlSpec

(* The composition uses the bus as the bus may be used: what is proved of  *)
(* the bus alone, the ledger it implements included, holds of a cell.      *)
THEOREM CellImplementsLedger == ControlSpec => ImplementsLedger
<1>1. ControlInit => BusInit
  BY DEF ControlInit
<1>2. ControlSpec => BusSpec
  BY <1>1, ControlStepIsBusStep, PTL DEF ControlSpec, BusSpec
<1> QED BY <1>2, BusImplementsLedger, PTL

(* Every variable of the composition has its type.                         *)
THEOREM ControlTypeCorrect == ControlSpec => []ControlTypeOK
<1>1. ControlInv => ControlTypeOK
  BY DEF ControlInv, ControlTypeOK, BusInv, SupInv, ExecInv, PlaceOK, CallersOK
<1> QED BY <1>1, ControlInvariant, PTL

(* A latched cell says "held" and a held cell is latched: no report of the *)
(* command an e-stop interrupted outranks the operator.                    *)
THEOREM LatchOutranksTheCommand == ControlSpec => []HeldIffLatched
<1>1. ControlInv => HeldIffLatched
  BY DEF ControlInv, SupInv
<1> QED BY <1>1, ControlInvariant, PTL

(* An idle cell carries no failure and a faulted one says why.             *)
THEOREM ErrorGoesWithState == ControlSpec => []ErrorMatchesState
<1>1. ControlInv => ErrorMatchesState
  BY DEF ControlInv, SupInv
<1> QED BY <1>1, ControlInvariant, PTL

(* Once an e-stop has returned, whatever drives is decelerating, but for a *)
(* program that rebuilt the cell before it moved.                          *)
THEOREM LatchStopsEveryRun == ControlSpec => []LatchedRunIsStopping
<1>1. ControlInv => LatchedRunIsStopping
  <2> SUFFICES ASSUME ControlInv, phase = "driving", latched, estopping = {}
               PROVE  cancel \/ RebuiltBefore
    BY DEF LatchedRunIsStopping
  <2>1. todo # <<>> /\ phase # "none"
    BY DEF ControlInv, PlaceOK
  <2> QED BY <2>1, ReceiptHasNoSteps DEF ControlInv, LatchIsSeen
<1> QED BY <1>1, ControlInvariant, PTL

(* However a command ends, the cell no longer declares work in flight.     *)
THEOREM CommandsEndAtRest == ControlSpec => []RestingCellIsNotWorking
<1>1. ControlInv => RestingCellIsNotWorking
  BY DEF ControlInv, WorkIsDeclared, RestingCellIsNotWorking
<1> QED BY <1>1, ControlInvariant, PTL

(* A motion fails for having been stopped only if a resume withdrew that   *)
(* stop while the command ran.                                             *)
THEOREM StopsAreNotFailures == ControlSpec => []StopIsNotAFailure
<1>1. ControlInv => StopIsNotAFailure
  BY DEF ControlInv
<1> QED BY <1>1, ControlInvariant, PTL

(* A cell at rest, with no caller inside a verb, has covered every id it   *)
(* handed out, whatever applied() read in between.                         *)
THEOREM RestCoversEveryId == ControlSpec => []QuiescentMeansApplied
<1>1. ControlInv => QuiescentMeansApplied
  BY DEF ControlInv, NewestIsAccounted, QuiescentMeansApplied
<1> QED BY <1>1, ControlInvariant, PTL

===============================================================================
