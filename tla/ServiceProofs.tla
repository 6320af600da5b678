------------------------------ MODULE ServiceProofs ------------------------------
(***************************************************************************)
(* What a caller may conclude from what a cell shows of itself, for any    *)
(* number of callers and commands: the proofs of the bus and of the        *)
(* supervisor carry over, and what was once true of an id stays true while *)
(* a frame that says so is put together, overtaken or late.                *)
(***************************************************************************)
EXTENDS CellService, CellProofs

(* Where the worker is, against what it has in hand.                       *)
PlaceOK ==
  /\ at \in WorkerIn
  /\ at = "none" <=> worker \notin {"handling", "settling"}
  /\ at = "settled" <=> worker = "settling"
  /\ pc \in [Callers -> CallerAt]

(* Only a program declares work, and not once it is over.                  *)
WorkIsDeclared ==
  at \notin {"run", "building", "frame"} \/ entry.item # Work => ~Working

(* With an empty backlog, the newest id is in the worker's hands, about to *)
(* be followed by a receipt, or applied.                                   *)
NewestIsAccounted ==
  queue = <<>> =>
    \/ worker = "handling" /\ entry.id = last_id
    \/ \E c \in Callers : pc[c] = "receipt"
    \/ worker # "handling" /\ applied = last_id

(* An id that a reading of applied() covers is over; or it is the command  *)
(* that was running when younger ones were discarded.                      *)
Over(i, reading) ==
  \/ FateOf(i) \in {"done", "dropped"}
  \/ FateOf(i) = "running" /\ \E d \in dropped : i < d /\ d <= reading

AppliedIsOver == \A i \in 1..applied : Over(i, applied)

(* Whatever has read the two numbers, when it did and what it does next.   *)
Sound(frame) ==
  /\ frame.applied \in Nat /\ frame.accepted \in 0..MaxId
  /\ frame.applied >= frame.accepted =>
       \A i \in 1..frame.accepted : Over(i, frame.applied)

Counts == [applied : Nat, accepted : Nat]
Frames == [applied : Nat, accepted : Nat, latched : BOOLEAN, working : BOOLEAN]

FramesAreSound ==
  /\ draft \in [Writers -> {NoDraft} \cup Counts \cup Frames]
  /\ shown \in Frames
  /\ Sound(shown)
  /\ \A w \in Writers : draft[w] # NoDraft => Sound(draft[w])

ServiceInv ==
  /\ BusInv
  /\ SupInv
  /\ PlaceOK
  /\ WorkIsDeclared
  /\ NewestIsAccounted
  /\ AppliedIsOver
  /\ FramesAreSound

-------------------------------------------------------------------------------
(* Every step is a step of each part.                                      *)

VerbOf(c) ==
  \/ RunApp(c) \/ EstopCall(c) \/ ResumeCall(c) \/ EstopRequest(c) \/ EstopDiscard(c)
  \/ QueueReceipt(c) \/ Acknowledge(c) \/ SeeSettled(c) \/ GiveUp(c)

Executes ==
  \/ Admit \/ Refuse \/ ReportRefusal \/ PublishMidway \/ BeginBuild \/ EndBuild
  \/ FailRun \/ CompleteRun

Idles ==
  \/ FindEmpty \/ Park
  \/ SpuriousWake

Rests == Idles /\ UNCHANGED <<sup_vars, tele_vars, at, ticking, pc, mine>>

LEMMA NextIsOneOf ==
  ASSUME [ServiceNext]_svc_vars
  PROVE  \/ \E c \in Callers : VerbOf(c)
         \/ TakeCommand \/ Executes \/ Retire \/ PublishFrame
         \/ Tick \/ PublishTick
         \/ \E w \in Writers : Read(w)
         \/ Rests
         \/ UNCHANGED svc_vars
<1>1. ASSUME NEW c \in Callers, CallerStep(c)
      PROVE  VerbOf(c) \/ \E w \in Writers : Read(w)
  BY <1>1, ServiceAssumption DEF CallerStep, VerbOf
<1>2. CASE WorkerRuns
  BY <1>2, ServiceAssumption DEF WorkerRuns, Executes, Rests, Idles
<1>3. CASE TickerRuns
  BY <1>3, ServiceAssumption DEF TickerRuns
<1>4. CASE Woken
  BY <1>4 DEF Woken, Rests, Idles
<1> QED BY <1>1, <1>2, <1>3, <1>4 DEF ServiceNext, VerbOf

LEMMA ExecutesFacts ==
  Executes => UNCHANGED <<bus_vars, tele_vars, pc, mine>>
  BY DEF Executes, Admit, Refuse, ReportRefusal, PublishMidway, BeginBuild, EndBuild,
     FailRun, CompleteRun, Works

LEMMA ServiceStepIsBusStep == [ServiceNext]_svc_vars => [BusNext]_bus_vars
<1> SUFFICES ASSUME [ServiceNext]_svc_vars PROVE [BusNext]_bus_vars
  OBVIOUS
<1>0. Work \in Items /\ Receipt \in Items
  BY ServiceAssumption
<1>1. ASSUME NEW c \in Callers, VerbOf(c)
      PROVE  [BusNext]_bus_vars
  <2>1. CASE RunApp(c) \/ QueueReceipt(c)
    BY <2>1, <1>0 DEF RunApp, QueueReceipt, BusNext
  <2>2. CASE EstopDiscard(c)
    BY <2>2 DEF EstopDiscard, BusNext
  <2>3. CASE \/ EstopCall(c) \/ ResumeCall(c) \/ EstopRequest(c) \/ Acknowledge(c)
             \/ SeeSettled(c) \/ GiveUp(c)
    BY <2>3 DEF EstopCall, ResumeCall, EstopRequest, Acknowledge, SeeSettled, GiveUp, Leaves
  <2> QED BY <1>1, <2>1, <2>2, <2>3 DEF VerbOf
<1>2. CASE TakeCommand \/ Retire
  BY <1>2 DEF TakeCommand, Retire, BusNext, WorkerStep
<1>3. CASE Executes
  BY <1>3, ExecutesFacts
<1>4. CASE PublishFrame
  BY <1>4 DEF PublishFrame, BusNext, WorkerStep
<1>5. CASE Tick \/ PublishTick \/ \E w \in Writers : Read(w)
  BY <1>5 DEF Tick, PublishTick, Read
<1>6. CASE Rests
  BY <1>6 DEF Rests, Idles, BusNext, WorkerStep
<1>7. CASE UNCHANGED svc_vars
  BY <1>7 DEF svc_vars
<1> QED BY <1>1, <1>2, <1>3, <1>4, <1>5, <1>6, <1>7, NextIsOneOf

LEMMA ServiceStepIsSupStep == [ServiceNext]_svc_vars => [SupNext]_sup_vars
<1> SUFFICES ASSUME [ServiceNext]_svc_vars PROVE [SupNext]_sup_vars
  OBVIOUS
<1>0. Refused \in Errors /\ Failed \in Errors
  BY ServiceAssumption
<1>1. ASSUME NEW c \in Callers, VerbOf(c)
      PROVE  [SupNext]_sup_vars
  BY <1>1 DEF VerbOf, RunApp, EstopCall, ResumeCall, EstopRequest, EstopDiscard, QueueReceipt,
     Acknowledge, SeeSettled, GiveUp, Leaves, SupNext
<1>2. CASE Executes
  BY <1>0, <1>2 DEF Executes, Admit, Refuse, ReportRefusal, PublishMidway, BeginBuild,
     EndBuild, FailRun, CompleteRun, BeginRefused, SupNext
<1>3. CASE \/ TakeCommand \/ Retire \/ PublishFrame \/ Tick \/ PublishTick
           \/ (\E w \in Writers : Read(w)) \/ Rests \/ UNCHANGED svc_vars
  BY <1>3 DEF TakeCommand, Retire, PublishFrame, Tick, PublishTick, Read, Rests, svc_vars
<1> QED BY <1>1, <1>2, <1>3, NextIsOneOf

-------------------------------------------------------------------------------
(* An id that is over stays over.                                          *)

(* By the ledger the bus implements, a fate only goes forward.             *)
LEMMA FatesOnlyAdvance ==
  ASSUME BusInv, BusInv', [BusNext]_bus_vars, NEW i \in 1..MaxId
  PROVE  /\ FateOf(i) \in {"done", "dropped"} => FateOf(i)' = FateOf(i)
         /\ FateOf(i) = "running" => FateOf(i)' \in {"running", "done"}
<1> USE DEF Ledger!Ids
<1>1. Ledger!LedgerNext \/ UNCHANGED <<fateMap, workMap>>
  BY NextRefines
<1>2. fateMap[i] = FateOf(i) /\ fateMap'[i] = FateOf(i)' /\ DOMAIN fateMap = 1..MaxId
  BY DEF fateMap
<1> SUFFICES /\ fateMap[i] \in {"done", "dropped"} => fateMap'[i] = fateMap[i]
             /\ fateMap[i] = "running" => fateMap'[i] \in {"running", "done"}
  BY <1>2
<1>3. ASSUME NEW j \in 1..MaxId, NEW item \in Items, Ledger!Issue(j, item) \/ Ledger!Amend(j, item)
      PROVE  fateMap[i] \in {"done", "dropped", "running"} => fateMap'[i] = fateMap[i]
  <2>1. CASE Ledger!Issue(j, item)
    <3>1. fateMap' = [fateMap EXCEPT ![j] = "pending"] /\ fateMap[j] = "free"
      BY <2>1 DEF Ledger!Issue
    <3> QED BY <1>2, <3>1
  <2>2. CASE Ledger!Amend(j, item)
    BY <2>2 DEF Ledger!Amend
  <2> QED BY <1>3, <2>1, <2>2
<1>4. ASSUME NEW j \in 1..MaxId, Ledger!Start(j)
      PROVE  fateMap[i] \in {"done", "dropped", "running"} => fateMap'[i] = fateMap[i]
  <2>1. fateMap' = [fateMap EXCEPT ![j] = "running"] /\ fateMap[j] = "pending"
    BY <1>4 DEF Ledger!Start
  <2> QED BY <1>2, <2>1
<1>5. ASSUME NEW j \in 1..MaxId, Ledger!End(j)
      PROVE  /\ fateMap[i] \in {"done", "dropped"} => fateMap'[i] = fateMap[i]
             /\ fateMap[i] = "running" => fateMap'[i] \in {"running", "done"}
  <2>1. fateMap' = [fateMap EXCEPT ![j] = "done"] /\ fateMap[j] = "running"
    BY <1>5 DEF Ledger!End
  <2> QED BY <1>2, <2>1
<1>6. CASE Ledger!DropPending
  BY <1>6 DEF Ledger!DropPending
<1> QED BY <1>1, <1>3, <1>4, <1>5, <1>6 DEF Ledger!LedgerNext

LEMMA DroppedOnlyGrows == [BusNext]_bus_vars => dropped \subseteq dropped'
  BY DEF BusNext, Submit, Coalesce, Enqueue, RefuseFull, DiscardPending, WorkerStep, Leave,
     FindEmpty, Park, Take, Finish, Settle, SpuriousWake, RequestStop, DtorStep, NotifyAll,
     Join, bus_vars

LEMMA OverStaysOver ==
  ASSUME BusInv, BusInv', [BusNext]_bus_vars,
         NEW i \in 1..MaxId, NEW reading, Over(i, reading)
  PROVE  Over(i, reading)'
  BY FatesOnlyAdvance, DroppedOnlyGrows DEF Over

(* A discard covers what it drops and, at most, the running command below. *)
LEMMA DiscardCoversOver ==
  ASSUME BusInv, BusInv', AppliedIsOver, DiscardPending
  PROVE  AppliedIsOver'
<1>0. [BusNext]_bus_vars /\ MaxId \in Nat
  BY BusAssumption DEF BusNext
<1>1. CASE queue = <<>>
  <2>1. applied' = applied /\ applied \in 0..MaxId
    BY <1>1 DEF DiscardPending, BusInv, BusTypeOK
  <2> QED BY <1>0, <2>1, OverStaysOver DEF AppliedIsOver
<1>2. CASE queue # <<>>
  <2>1. /\ queue \in Seq(Entry) /\ last_id \in Nat /\ last_id <= MaxId
        /\ PendingIds = (last_id - Len(queue) + 1)..last_id
        /\ Len(queue) \in Nat /\ Len(queue) <= last_id
    BY PendingIdsRange
  <2>2. Len(queue) >= 1
    BY <1>2, <2>1, EmptySeq
  <2>3. /\ applied' = last_id /\ queue' = <<>> /\ last_id' = last_id
        /\ dropped' = dropped \cup PendingIds
        /\ worker' = worker /\ entry' = entry
    <3>1. queue[Len(queue)].id = last_id
      BY <2>1, <2>2 DEF BusInv, PendingAreTheNewest
    <3> QED BY <1>2, <3>1 DEF DiscardPending, PendingIds
  <2>4. PendingIds' = {} /\ last_id \in dropped'
    <3>1. Len(queue') = 0
      BY <2>3
    <3>2. PendingIds' = {}
      BY <3>1 DEF PendingIds
    <3>3. last_id \in PendingIds
      BY <2>1, <2>2
    <3> QED BY <2>3, <3>2, <3>3
  <2>5. ASSUME NEW i \in 1..last_id
        PROVE  Over(i, last_id)'
    <3>1. FateOf(i)' \in {"dropped", "running", "done"}
      BY <2>1, <2>3, <2>4 DEF FateOf
    <3>2. ASSUME FateOf(i)' = "running"
          PROVE  i < last_id
      <4>1. i \notin dropped'
        BY <2>1, <2>3, <2>4, <3>2 DEF FateOf
      <4> QED BY <2>1, <2>4, <4>1
    <3> QED BY <2>1, <2>3, <2>4, <3>1, <3>2 DEF Over
  <2> QED BY <2>3, <2>5 DEF AppliedIsOver, Over
<1> QED BY <1>1, <1>2

(* Nothing older than the running command is pending, so its end covers    *)
(* only what is over.                                                      *)
LEMMA FinishCoversOver ==
  ASSUME BusInv, Finish
  PROVE  AppliedIsOver'
<1>1. /\ entry.id \in Nat /\ entry.id <= last_id - Len(queue)
      /\ PendingIds = (last_id - Len(queue) + 1)..last_id
      /\ last_id \in Nat /\ Len(queue) \in Nat
  BY PendingIdsRange
<1>2. /\ applied' = entry.id /\ worker' = "settling"
      /\ UNCHANGED <<queue, last_id, dropped, entry>>
  BY DEF Finish
<1>3. PendingIds' = PendingIds
  BY <1>2 DEF PendingIds
<1>4. ASSUME NEW i \in 1..entry.id
      PROVE  FateOf(i)' \in {"done", "dropped"}
  <2>1. i \notin PendingIds /\ ~(i > last_id)
    BY <1>1
  <2> QED BY <1>2, <1>3, <2>1 DEF FateOf
<1> QED BY <1>2, <1>4 DEF AppliedIsOver, Over

LEMMA StepCoversOver ==
  ASSUME BusInv, BusInv', AppliedIsOver, [BusNext]_bus_vars
  PROVE  AppliedIsOver'
<1>1. CASE DiscardPending
  BY <1>1, DiscardCoversOver
<1>2. CASE Finish
  BY <1>2, FinishCoversOver
<1>3. CASE ~DiscardPending /\ ~Finish
  <2>1. applied' = applied
    BY <1>3 DEF BusNext, Submit, Coalesce, Enqueue, RefuseFull, WorkerStep, Leave,
       FindEmpty, Park, Take, Settle, SpuriousWake, RequestStop, DtorStep, NotifyAll,
       Join, bus_vars
  <2>2. applied \in 0..MaxId /\ MaxId \in Nat
    BY BusAssumption DEF BusInv, BusTypeOK
  <2> QED BY <2>1, <2>2, OverStaysOver DEF AppliedIsOver
<1> QED BY <1>1, <1>2, <1>3

-------------------------------------------------------------------------------
(* A frame stays sound from its first reading to the next one shown.       *)

LEMMA SoundStays ==
  ASSUME BusInv, BusInv', [BusNext]_bus_vars, NEW f, Sound(f)
  PROVE  Sound(f)'
<1>1. f.accepted \in 0..MaxId /\ MaxId \in Nat
  BY BusAssumption DEF Sound
<1>2. ASSUME NEW i \in 1..f.accepted, Over(i, f.applied)
      PROVE  Over(i, f.applied)'
  <2>1. i \in 1..MaxId
    BY <1>1
  <2> QED BY <1>2, <2>1, OverStaysOver
<1> QED BY <1>2 DEF Sound

(* The fields a draft has say how far its thread has come.                 *)
LEMMA FieldsOfDrafts ==
  /\ DOMAIN NoDraft = {}
  /\ \A f \in Counts : DOMAIN f = {"applied", "accepted"} /\ f # NoDraft
  /\ \A f \in Frames : DOMAIN f = {"applied", "accepted", "latched", "working"} /\ f # NoDraft
<1>1. DOMAIN NoDraft = {}
  BY DEF NoDraft
<1>2. \A f \in Counts : DOMAIN f = {"applied", "accepted"}
  BY DEF Counts
<1>3. \A f \in Frames : DOMAIN f = {"applied", "accepted", "latched", "working"}
  BY DEF Frames
<1> QED BY <1>1, <1>2, <1>3

LEMMA StoreKeepsFrames ==
  ASSUME FramesAreSound, NEW w \in Writers, Store(w),
         \A f : Sound(f) => Sound(f)'
  PROVE  FramesAreSound'
<1>1. draft \in [Writers -> {NoDraft} \cup Counts \cup Frames] /\ shown \in Frames
  BY DEF FramesAreSound
<1>2. shown' = draft[w] /\ draft' = [draft EXCEPT ![w] = NoDraft]
  BY DEF Store
<1>3. draft[w] \in Frames /\ draft[w] # NoDraft
  <2>1. DOMAIN draft[w] = {"applied", "accepted", "latched", "working"}
    BY <1>1, FieldsOfDrafts DEF Store, Complete, Has
  <2>2. draft[w] \notin Counts /\ draft[w] # NoDraft
    BY <2>1, FieldsOfDrafts
  <2> QED BY <1>1, <2>2
<1>4. Sound(draft[w])
  BY <1>3 DEF FramesAreSound
<1>5. Sound(shown)'
  BY <1>2, <1>4 DEF Sound, Over
<1>6. ASSUME NEW v \in Writers, draft'[v] # NoDraft
      PROVE  Sound(draft[v])'
  <2>1. draft'[v] = draft[v] /\ draft[v] # NoDraft
    BY <1>1, <1>2, <1>6
  <2>2. Sound(draft[v])
    BY <2>1 DEF FramesAreSound
  <2> QED BY <2>1, <2>2 DEF Sound, Over
<1>7. draft' \in [Writers -> {NoDraft} \cup Counts \cup Frames] /\ shown' \in Frames
  BY <1>1, <1>2, <1>3
<1> QED BY <1>5, <1>6, <1>7 DEF FramesAreSound

LEMMA ReadKeepsFrames ==
  ASSUME BusInv, SupInv, AppliedIsOver, FramesAreSound, NEW w \in Writers, Read(w)
  PROVE  FramesAreSound'
<1>1. draft \in [Writers -> {NoDraft} \cup Counts \cup Frames] /\ shown \in Frames
  BY DEF FramesAreSound
<1>2. /\ shown' = shown
      /\ UNCHANGED bus_vars
      /\ \/ draft' = [draft EXCEPT ![w] = [applied |-> applied, accepted |-> last_id]]
         \/ /\ DOMAIN draft[w] = {"applied", "accepted"}
            /\ draft' = [draft EXCEPT ![w] =
                 [applied |-> draft[w].applied, accepted |-> draft[w].accepted,
                  latched |-> latched, working |-> Working]]
  BY DEF Read, ReadCounts, ReadDeclared, Draft, Has, Running
<1>3. \A i \in 1..MaxId : FateOf(i)' = FateOf(i)
  BY <1>2 DEF FateOf, PendingIds, bus_vars
<1>4. \A f : Sound(f) => Sound(f)'
  <2>1. MaxId \in Nat
    BY BusAssumption
  <2>2. dropped' = dropped
    BY <1>2 DEF bus_vars
  <2> SUFFICES ASSUME NEW f, Sound(f) PROVE Sound(f)'
    OBVIOUS
  <2>3. f.accepted \in 0..MaxId
    BY DEF Sound
  <2>4. ASSUME NEW i \in 1..f.accepted, Over(i, f.applied)
        PROVE  Over(i, f.applied)'
    <3>1. i \in 1..MaxId
      BY <2>1, <2>3
    <3> QED BY <1>3, <2>2, <2>4, <3>1 DEF Over
  <2> QED BY <2>4 DEF Sound
<1>5. /\ draft'[w] \in Counts \cup Frames
      /\ Sound(draft'[w])
  <2>1. CASE draft' = [draft EXCEPT ![w] = [applied |-> applied, accepted |-> last_id]]
    <3>1. draft'[w] = [applied |-> applied, accepted |-> last_id]
      BY <1>1, <2>1
    <3>2. applied \in Nat /\ last_id \in 0..MaxId
      BY BusAssumption DEF BusInv, BusTypeOK
    <3>3. draft'[w] \in Counts
      BY <3>1, <3>2, BusAssumption DEF Counts
    <3>4. ASSUME applied >= last_id, NEW i \in 1..last_id
          PROVE  Over(i, applied)
      <4>1. i \in 1..applied
        BY <3>2, <3>4, BusAssumption
      <4> QED BY <4>1 DEF AppliedIsOver
    <3> QED BY <3>1, <3>2, <3>3, <3>4 DEF Sound
  <2>2. CASE /\ DOMAIN draft[w] = {"applied", "accepted"}
             /\ draft' = [draft EXCEPT ![w] =
                  [applied |-> draft[w].applied, accepted |-> draft[w].accepted,
                   latched |-> latched, working |-> Working]]
    <3>1. draft'[w] = [applied |-> draft[w].applied, accepted |-> draft[w].accepted,
                       latched |-> latched, working |-> Working]
      BY <1>1, <2>2
    <3>2. draft[w] # NoDraft
      BY <2>2, FieldsOfDrafts
    <3>3. Sound(draft[w])
      BY <3>2 DEF FramesAreSound
    <3>4. draft[w] \in Counts
      <4>1. draft[w] \notin Frames
        BY <2>2, FieldsOfDrafts
      <4> QED BY <1>1, <3>2, <4>1
    <3>5. draft'[w] \in Frames
      BY <3>1, <3>4 DEF Counts, Frames, Working, SupInv, SupTypeOK
    <3> QED BY <3>1, <3>3, <3>5 DEF Sound
  <2> QED BY <1>2, <2>1, <2>2
<1>6. draft' \in [Writers -> {NoDraft} \cup Counts \cup Frames]
  <2>1. /\ DOMAIN draft' = Writers /\ draft' = [v \in Writers |-> draft'[v]]
        /\ \A v \in Writers : v # w => draft'[v] = draft[v]
    BY <1>1, <1>2
  <2> QED BY <1>1, <1>5, <2>1
<1>7. ASSUME NEW v \in Writers, draft'[v] # NoDraft
      PROVE  Sound(draft[v])'
  <2>1. Sound(draft'[v])
    <3>1. CASE v = w
      BY <1>5, <3>1
    <3>2. CASE v # w
      <4>1. draft'[v] = draft[v]
        BY <1>1, <1>2, <3>2
      <4> QED BY <1>7, <4>1 DEF FramesAreSound
    <3> QED BY <3>1, <3>2
  <2> QED BY <1>4, <2>1 DEF Sound, Over
<1>8. Sound(shown)'
  BY <1>2, <1>4 DEF FramesAreSound, Sound, Over
<1> QED BY <1>1, <1>2, <1>6, <1>7, <1>8 DEF FramesAreSound

LEMMA OtherStepsKeepFrames ==
  ASSUME FramesAreSound, UNCHANGED tele_vars, \A f : Sound(f) => Sound(f)'
  PROVE  FramesAreSound'
<1>1. shown' = shown /\ draft' = draft
  BY DEF tele_vars
<1>2. Sound(shown)'
  BY <1>1 DEF FramesAreSound, Sound, Over
<1>3. ASSUME NEW v \in Writers, draft'[v] # NoDraft
      PROVE  Sound(draft[v])'
  <2>1. Sound(draft[v])
    BY <1>1, <1>3 DEF FramesAreSound
  <2> QED BY <1>1, <2>1 DEF Sound, Over
<1> QED BY <1>1, <1>2, <1>3 DEF FramesAreSound

LEMMA StepKeepsFrames ==
  ASSUME ServiceInv, BusInv', [ServiceNext]_svc_vars
  PROVE  FramesAreSound'
<1> USE DEF ServiceInv
<1>1. \A f : Sound(f) => Sound(f)'
  BY SoundStays, ServiceStepIsBusStep
<1>2. Worker \in Writers /\ Ticker \in Writers /\ Callers \subseteq Writers
  BY ServiceAssumption
<1>3. ASSUME NEW c \in Callers, VerbOf(c)
      PROVE  FramesAreSound'
  <2>1. CASE Acknowledge(c)
    <3>1. Store(c)
      BY <2>1 DEF Acknowledge
    <3> QED BY <1>1, <1>2, <3>1, StoreKeepsFrames
  <2>2. CASE ~Acknowledge(c)
    <3>1. UNCHANGED tele_vars
      BY <1>3, <2>2 DEF VerbOf, RunApp, EstopCall, ResumeCall, EstopRequest, EstopDiscard,
         QueueReceipt, SeeSettled, GiveUp, Leaves
    <3> QED BY <1>1, <3>1, OtherStepsKeepFrames
  <2> QED BY <2>1, <2>2
<1>4. CASE PublishFrame \/ PublishTick
  <2>1. Store(Worker) \/ Store(Ticker)
    BY <1>4 DEF PublishFrame, PublishTick
  <2> QED BY <1>1, <1>2, <2>1, StoreKeepsFrames
<1>5. CASE \E w \in Writers : Read(w)
  BY <1>5, ReadKeepsFrames
<1>6. CASE TakeCommand \/ Executes \/ Retire \/ Tick \/ Rests \/ UNCHANGED svc_vars
  <2>1. UNCHANGED tele_vars
    BY <1>6, ExecutesFacts DEF TakeCommand, Retire, Tick, Rests, svc_vars
  <2> QED BY <1>1, <2>1, OtherStepsKeepFrames
<1> QED BY <1>3, <1>4, <1>5, <1>6, NextIsOneOf

-------------------------------------------------------------------------------
(* Where the worker is, and what the cell declares meanwhile.              *)

LEMMA StepKeepsPlace ==
  ASSUME ServiceInv, [ServiceNext]_svc_vars
  PROVE  PlaceOK'
<1> USE DEF ServiceInv, PlaceOK, WorkerIn, CallerAt
<1>1. ASSUME NEW c \in Callers, VerbOf(c)
      PROVE  PlaceOK'
  <2>1. at' = at
    BY <1>1 DEF VerbOf, RunApp, EstopCall, ResumeCall, EstopRequest, EstopDiscard,
       QueueReceipt, Acknowledge, SeeSettled, GiveUp, Leaves
  <2>2. /\ worker' \notin {"handling", "settling"} <=> worker \notin {"handling", "settling"}
        /\ worker' = "settling" <=> worker = "settling"
    BY <1>1 DEF VerbOf, RunApp, EstopCall, ResumeCall, EstopRequest, EstopDiscard,
       QueueReceipt, Acknowledge, SeeSettled, GiveUp, Leaves, Submit, Coalesce, Enqueue,
       RefuseFull, DiscardPending, Notified, bus_vars
  <2>3. pc' \in [Callers -> CallerAt]
    BY <1>1 DEF VerbOf, RunApp, EstopCall, ResumeCall, EstopRequest, EstopDiscard,
       QueueReceipt, Acknowledge, SeeSettled, GiveUp, Leaves, Goes
  <2> QED BY <2>1, <2>2, <2>3
<1>2. CASE TakeCommand
  BY <1>2 DEF TakeCommand, Take, Works
<1>3. CASE Executes
  <2>1. worker' = worker /\ pc' = pc
    BY <1>3, ExecutesFacts DEF bus_vars
  <2>2. /\ at \notin {"none", "settled"}
        /\ at' \in WorkerIn \ {"none", "settled"}
    BY <1>3 DEF Executes, Admit, Refuse, ReportRefusal, PublishMidway, BeginBuild, EndBuild,
       FailRun, CompleteRun, Works
  <2> QED BY <2>1, <2>2
<1>4. CASE Retire
  BY <1>4 DEF Retire, Finish, Works
<1>5. CASE PublishFrame
  BY <1>5 DEF PublishFrame, Settle, Works, bus_vars
<1>6. CASE Tick \/ PublishTick \/ \E w \in Writers : Read(w)
  BY <1>6 DEF Tick, PublishTick, Read, bus_vars
<1>7. CASE Rests
  BY <1>7 DEF Rests, Idles, FindEmpty, Park, SpuriousWake
<1>8. CASE UNCHANGED svc_vars
  BY <1>8 DEF svc_vars, bus_vars
<1> QED BY <1>1, <1>2, <1>3, <1>4, <1>5, <1>6, <1>7, <1>8, NextIsOneOf

LEMMA StepKeepsWork ==
  ASSUME ServiceInv, [ServiceNext]_svc_vars
  PROVE  WorkIsDeclared'
<1> USE DEF ServiceInv, WorkIsDeclared, Working
<1>1. ASSUME NEW c \in Callers, VerbOf(c)
      PROVE  WorkIsDeclared'
  <2>1. at' = at
    BY <1>1 DEF VerbOf, RunApp, EstopCall, ResumeCall, EstopRequest, EstopDiscard,
       QueueReceipt, Acknowledge, SeeSettled, GiveUp, Leaves
  <2>2. entry' = entry
    BY <1>1 DEF VerbOf, RunApp, EstopCall, ResumeCall, EstopRequest, EstopDiscard,
       QueueReceipt, Acknowledge, SeeSettled, GiveUp, Leaves, Submit, Coalesce, Enqueue,
       RefuseFull, DiscardPending, bus_vars
  <2>3. state' \in {state, "held", "idle"}
    BY <1>1 DEF VerbOf, RunApp, EstopCall, ResumeCall, EstopRequest, EstopDiscard,
       QueueReceipt, Acknowledge, SeeSettled, GiveUp, Leaves, EstopLatch, EstopCancel,
       Resume, sup_vars
  <2> QED BY <2>1, <2>2, <2>3
<1>2. CASE TakeCommand
  <2>1. at = "none" /\ at' = "fresh" /\ state' = state
    BY <1>2 DEF TakeCommand, Take, Works, PlaceOK, sup_vars
  <2> QED BY <2>1
<1>3. CASE Executes
  <2>0. entry' = entry
    BY <1>3, ExecutesFacts DEF bus_vars
  <2>1. CASE Admit \/ Refuse \/ ReportRefusal \/ PublishMidway
    BY <2>0, <2>1 DEF Admit, Refuse, ReportRefusal, PublishMidway, BeginOk, BeginRefused,
       Fault, Works, sup_vars, SupInv, HeldIffLatched
  <2>2. CASE BeginBuild \/ EndBuild
    BY <2>0, <2>2 DEF BeginBuild, EndBuild, End, Works, SupInv, HeldIffLatched
  <2>3. CASE FailRun
    BY <2>0, <2>3 DEF FailRun, Fault, Works, SupInv, HeldIffLatched
  <2>4. CASE CompleteRun
    BY <2>0, <2>4 DEF CompleteRun, End, Works, sup_vars, SupInv, HeldIffLatched
  <2> QED BY <1>3, <2>1, <2>2, <2>3, <2>4 DEF Executes
<1>4. CASE Retire
  BY <1>4 DEF Retire, Works, sup_vars
<1>5. CASE PublishFrame
  BY <1>5 DEF PublishFrame, Works, sup_vars, bus_vars
<1>6. CASE Tick \/ PublishTick \/ \E w \in Writers : Read(w)
  BY <1>6 DEF Tick, PublishTick, Read, bus_vars, sup_vars
<1>7. CASE Rests
  BY <1>7 DEF Rests, Idles, FindEmpty, Park, SpuriousWake, sup_vars
<1>8. CASE UNCHANGED svc_vars
  BY <1>8 DEF svc_vars, bus_vars, sup_vars
<1> QED BY <1>1, <1>2, <1>3, <1>4, <1>5, <1>6, <1>7, <1>8, NextIsOneOf

-------------------------------------------------------------------------------
(* The newest id is never lost sight of.                                   *)

(* A receipt that is owed stays owed while another caller goes its way.    *)
LEMMA ReceiptStaysOwed ==
  ASSUME PlaceOK, NEW c \in Callers, pc[c] # "receipt",
         NEW next, Goes(c, next),
         \E d \in Callers : pc[d] = "receipt"
  PROVE  \E d \in Callers : pc'[d] = "receipt"
<1>1. PICK d \in Callers : pc[d] = "receipt"
  OBVIOUS
<1>2. pc'[d] = pc[d]
  BY <1>1 DEF Goes, PlaceOK
<1> QED BY <1>1, <1>2

LEMMA VerbKeepsNewest ==
  ASSUME ServiceInv, NEW c \in Callers, VerbOf(c)
  PROVE  NewestIsAccounted'
<1> USE DEF ServiceInv
<1>1. CASE RunApp(c) \/ QueueReceipt(c)
  <2>1. queue' # <<>>
    BY <1>1, SubmitFills DEF RunApp, QueueReceipt
  <2> QED BY <2>1 DEF NewestIsAccounted
<1>2. CASE EstopDiscard(c) \/ ResumeCall(c)
  <2>1. pc'[c] = "receipt"
    BY <1>2 DEF EstopDiscard, ResumeCall, Goes, PlaceOK
  <2> QED BY <2>1 DEF NewestIsAccounted
<1>3. CASE EstopRequest(c)
  BY <1>3 DEF EstopRequest, NewestIsAccounted, bus_vars
<1>4. CASE EstopCall(c) \/ Acknowledge(c) \/ SeeSettled(c) \/ GiveUp(c)
  <2>1. UNCHANGED bus_vars /\ pc[c] # "receipt" /\ \E next : Goes(c, next)
    BY <1>4 DEF EstopCall, Acknowledge, Accepting, SeeSettled, GiveUp, Leaves
  <2>2. (\E d \in Callers : pc[d] = "receipt") => \E d \in Callers : pc'[d] = "receipt"
    BY <2>1, ReceiptStaysOwed
  <2> QED BY <2>1, <2>2 DEF NewestIsAccounted, bus_vars
<1> QED BY <1>1, <1>2, <1>3, <1>4 DEF VerbOf

LEMMA StepKeepsNewest ==
  ASSUME ServiceInv, [ServiceNext]_svc_vars
  PROVE  NewestIsAccounted'
<1> USE DEF ServiceInv
<1>1. CASE TakeCommand
  <2>1. Take /\ worker' = "handling" /\ last_id' = last_id
    BY <1>1 DEF TakeCommand, Take
  <2>2. queue' = <<>> => entry'.id = last_id
    BY <2>1, TakesTheNewestLast
  <2> QED BY <2>1, <2>2 DEF NewestIsAccounted
<1>2. CASE Retire
  BY <1>2 DEF Retire, Finish, Works, NewestIsAccounted
<1>3. CASE PublishFrame
  BY <1>3 DEF PublishFrame, Settle, Works, NewestIsAccounted, bus_vars
<1>4. CASE Executes
  BY <1>4, ExecutesFacts DEF NewestIsAccounted, bus_vars
<1>5. CASE Tick \/ PublishTick \/ \E w \in Writers : Read(w)
  BY <1>5 DEF Tick, PublishTick, Read, NewestIsAccounted, bus_vars
<1>6. CASE Rests
  BY <1>6 DEF Rests, Idles, FindEmpty, Park, SpuriousWake, NewestIsAccounted
<1>7. CASE UNCHANGED svc_vars
  BY <1>7 DEF svc_vars, NewestIsAccounted, bus_vars
<1> QED
  BY <1>1, <1>2, <1>3, <1>4, <1>5, <1>6, <1>7, VerbKeepsNewest, NextIsOneOf

-------------------------------------------------------------------------------
LEMMA InitServiceInv == ServiceInit => ServiceInv
<1> SUFFICES ASSUME ServiceInit PROVE ServiceInv
  OBVIOUS
<1> USE DEF ServiceInit
<1>1. BusInv /\ SupInv
  BY InitBusInv, InitSupInv
<1>2. PlaceOK /\ WorkIsDeclared /\ NewestIsAccounted
  BY DEF PlaceOK, WorkerIn, CallerAt, WorkIsDeclared, Working, NewestIsAccounted, BusInit, SupInit
<1>3. AppliedIsOver
  BY DEF AppliedIsOver, BusInit
<1>4. FramesAreSound
  <2>1. Sound(shown)
    BY BusAssumption DEF Sound, TeleInit
  <2>2. shown \in Frames /\ draft = [w \in Writers |-> NoDraft]
    BY DEF TeleInit, Frames
  <2> QED BY <2>1, <2>2 DEF FramesAreSound
<1> QED BY <1>1, <1>2, <1>3, <1>4 DEF ServiceInv

LEMMA NextKeepsServiceInv == ServiceInv /\ [ServiceNext]_svc_vars => ServiceInv'
<1> SUFFICES ASSUME ServiceInv, [ServiceNext]_svc_vars PROVE ServiceInv'
  OBVIOUS
<1>1. BusInv' /\ SupInv'
  BY NextKeepsBusInv, SupNextKeepsSupInv, ServiceStepIsBusStep, ServiceStepIsSupStep DEF ServiceInv
<1>2. AppliedIsOver'
  BY <1>1, StepCoversOver, ServiceStepIsBusStep DEF ServiceInv
<1> QED
  BY <1>1, <1>2, StepKeepsPlace, StepKeepsWork, StepKeepsNewest, StepKeepsFrames DEF ServiceInv

THEOREM ServiceInvariant == ServiceSpec => []ServiceInv
  BY InitServiceInv, NextKeepsServiceInv, PTL DEF ServiceSpec

(* A frame that reads as settled tells the truth about every command it    *)
(* has heard of, whichever thread put it together and however late it was  *)
(* stored: CellGateway::progress() and whoever waits on it.                *)
THEOREM WhatReadsSettledIsOver == ServiceSpec => []SettledMeansOver
<1>1. ServiceInv => SettledMeansOver
  BY DEF ServiceInv, FramesAreSound, Sound, Over, SettledMeansOver, Settled
<1> QED BY <1>1, ServiceInvariant, PTL

(* A cell at rest reads as settled, whatever it came to rest in: nobody    *)
(* waits out a limit for a command that has failed or been discarded.      *)
THEOREM WhatRestsReadsSettled == ServiceSpec => []RestReadsSettled
<1>1. ServiceInv => RestReadsSettled
  <2> SUFFICES ASSUME ServiceInv, AtRest
               PROVE  applied >= last_id /\ ~Running(state, Working)
    BY DEF RestReadsSettled
  <2>1. worker = "parked" /\ queue = <<>> /\ \A c \in Callers : pc[c] # "receipt"
    BY DEF AtRest
  <2>2. applied = last_id /\ last_id \in Int
    BY <2>1 DEF ServiceInv, NewestIsAccounted, BusInv, BusTypeOK
  <2>3. ~Working
    BY <2>1 DEF ServiceInv, PlaceOK, WorkIsDeclared
  <2> QED BY <2>2, <2>3 DEF Running
<1> QED BY <1>1, ServiceInvariant, PTL

(* With its callers, its worker and its ticker around it, the bus still is *)
(* the ledger: no id a caller was given runs twice, out of order, or after *)
(* it was dropped.                                                         *)
THEOREM ServiceImplementsLedger == ServiceSpec => ImplementsLedger
<1>1. ServiceInit => Ledger!LedgerInit
  BY InitRefines DEF ServiceInit
<1>2. ServiceInv /\ ServiceInv' /\ [ServiceNext]_svc_vars => [Ledger!LedgerNext]_(Ledger!ledger_vars)
  BY NextRefines, ServiceStepIsBusStep DEF ServiceInv, Ledger!ledger_vars
<1> QED
  BY <1>1, <1>2, ServiceInvariant, PTL DEF ServiceSpec, ImplementsLedger, Ledger!LedgerSpec

===============================================================================
