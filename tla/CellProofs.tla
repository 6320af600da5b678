------------------------------ MODULE CellProofs ------------------------------
(***************************************************************************)
(* The two parts every thread of a cell shares.  What the command bus      *)
(* guarantees for every capacity and every set of keys and payloads,       *)
(* whatever its callers do; and what the supervisor's own state keeps      *)
(* under any order of its calls, whoever makes them.                       *)
(***************************************************************************)
EXTENDS CommandBus, CellSupervisor, SequenceTheorems, TLAPS

-------------------------------------------------------------------------------
(* The supervisor.                                                         *)

SupInv ==
  /\ SupTypeOK
  /\ HeldIffLatched
  /\ ErrorMatchesState

LEMMA InitSupInv == SupInit => SupInv
  BY DEF SupInit, SupInv, SupTypeOK, CellState, HeldIffLatched, ErrorMatchesState

LEMMA BeginKeepsSupInv ==
  ASSUME SupInv, NEW next \in {"building", "moving"}, BeginOk(next)
  PROVE  SupInv'
  BY DEF BeginOk, SupInv, SupTypeOK, CellState, HeldIffLatched, ErrorMatchesState

LEMMA EndKeepsSupInv == SupInv /\ End => SupInv'
<1> SUFFICES ASSUME SupInv, End PROVE SupInv'
  OBVIOUS
<1> USE DEF SupInv, SupTypeOK, CellState, HeldIffLatched, ErrorMatchesState
<1>1. CASE latched = TRUE
  BY <1>1 DEF End
<1>2. CASE latched = FALSE
  BY <1>2 DEF End
<1> QED BY <1>1, <1>2

LEMMA FaultKeepsSupInv ==
  ASSUME SupInv, NEW why \in Errors, Fault(why)
  PROVE  SupInv'
  BY SupervisorAssumption
     DEF Fault, SupInv, SupTypeOK, CellState, HeldIffLatched, ErrorMatchesState

LEMMA StopKeepsSupInv == SupInv /\ Stop => SupInv'
  BY DEF Stop, SupInv, SupTypeOK, CellState, HeldIffLatched, ErrorMatchesState

LEMMA EstopKeepsSupInv ==
  ASSUME SupInv, NEW c \in Callers, EstopLatch(c) \/ EstopCancel(c)
  PROVE  SupInv'
<1>1. CASE EstopLatch(c)
  BY <1>1 DEF EstopLatch, SupInv, SupTypeOK, CellState, HeldIffLatched, ErrorMatchesState
<1>2. CASE EstopCancel(c)
  BY <1>2 DEF EstopCancel, SupInv, SupTypeOK, CellState, HeldIffLatched, ErrorMatchesState
<1> QED BY <1>1, <1>2

LEMMA ResumeKeepsSupInv == SupInv /\ Resume => SupInv'
  BY DEF Resume, SupInv, SupTypeOK, CellState, HeldIffLatched, ErrorMatchesState

LEMMA SupNextKeepsSupInv == SupInv /\ [SupNext]_sup_vars => SupInv'
<1> SUFFICES ASSUME SupInv, [SupNext]_sup_vars PROVE SupInv'
  OBVIOUS
<1>1. CASE UNCHANGED sup_vars
  BY <1>1 DEF sup_vars, SupInv, SupTypeOK, CellState, HeldIffLatched, ErrorMatchesState
<1> QED
  BY <1>1, BeginKeepsSupInv, EndKeepsSupInv, FaultKeepsSupInv, StopKeepsSupInv,
     EstopKeepsSupInv, ResumeKeepsSupInv DEF SupNext

THEOREM SupInvariant == SupSpec => []SupInv
  BY InitSupInv, SupNextKeepsSupInv, PTL DEF SupSpec

-------------------------------------------------------------------------------
(* The bus.                                                                *)

(***************************************************************************)
(* The inductive invariant.  The four properties are not inductive alone:  *)
(* that a new id is not already covered by applied needs AppliedBehind,    *)
(* and that the worker's store does not cover a pending id needs the       *)
(* running command to be older than the whole backlog, which is the last   *)
(* conjunct of PendingAreTheNewest.                                        *)
(***************************************************************************)
AppliedBehind == applied <= last_id - Len(queue)

(* What was discarded is older than the backlog and is not being handled.  *)
DropsAreOver ==
  /\ dropped \subseteq 1..(last_id - Len(queue))
  /\ entry.id \notin dropped

WorkerHoldsEntry == worker \in {"handling", "settling"} <=> entry # NoEntry

BusInv ==
  /\ BusTypeOK
  /\ BoundedBacklog
  /\ PendingAreTheNewest
  /\ PendingKeysDistinct
  /\ AppliedBehind
  /\ WorkerHoldsEntry
  /\ DropsAreOver

LEMMA NoEntryIsNoEntry == NoEntry \notin Entry
  BY DEF NoEntry, Entry

LEMMA InitBusInv == BusInit => BusInv
<1> SUFFICES ASSUME BusInit PROVE BusInv
  OBVIOUS
<1> USE DEF BusInit
<1>1. queue \in Seq(Entry) /\ Len(queue) = 0
  OBVIOUS
<1>2. BusTypeOK
  <2>1. last_id \in 0..MaxId /\ applied \in 0..MaxId
    BY BusAssumption
  <2>2. worker \in WorkerAt
    BY DEF WorkerAt
  <2>3. dropped \in SUBSET (1..MaxId) /\ stop \in BOOLEAN
    OBVIOUS
  <2> QED BY <1>1, <2>1, <2>2, <2>3 DEF BusTypeOK
<1>3. BoundedBacklog /\ PendingAreTheNewest /\ PendingKeysDistinct /\ AppliedBehind
  BY <1>1, BusAssumption
     DEF BoundedBacklog, PendingAreTheNewest, PendingKeysDistinct, AppliedBehind, NoEntry
<1>4. WorkerHoldsEntry /\ DropsAreOver
  BY DEF WorkerHoldsEntry, DropsAreOver
<1> QED BY <1>2, <1>3, <1>4 DEF BusInv

LEMMA CoalesceKeepsBusInv ==
  ASSUME BusInv, NEW key \in Keys \cup {NoKey}, NEW item \in Items,
         Coalesce(key, item)
  PROVE  BusInv'
<1>1. PICK i \in Pending(key) :
        /\ queue' = [queue EXCEPT ![i].item = item]
  BY DEF Coalesce
<1>2. /\ i \in 1..Len(queue)
      /\ queue \in Seq(Entry)
      /\ queue[i] \in Entry
  BY <1>1 DEF Pending, BusInv, BusTypeOK
<1>3. [queue[i] EXCEPT !.item = item] \in Entry
  BY <1>2 DEF Entry
<1>4. /\ queue' = [queue EXCEPT ![i] = [queue[i] EXCEPT !.item = item]]
      /\ queue' \in Seq(Entry)
      /\ Len(queue') = Len(queue)
      /\ \A j \in 1..Len(queue) : queue'[j].id = queue[j].id /\ queue'[j].key = queue[j].key
  <2>1. queue' = [queue EXCEPT ![i] = [queue[i] EXCEPT !.item = item]]
    BY <1>1, <1>2
  <2>2. queue' \in Seq(Entry) /\ Len(queue') = Len(queue)
    BY <2>1, <1>2, <1>3, ExceptSeq
  <2>3. ASSUME NEW j \in 1..Len(queue)
        PROVE  queue'[j].id = queue[j].id /\ queue'[j].key = queue[j].key
    <3>1. queue[j] \in Entry
      BY <1>2
    <3>2. queue'[j] = IF j = i THEN [queue[i] EXCEPT !.item = item] ELSE queue[j]
      BY <2>1, <1>2, <1>3, ExceptSeq
    <3>3. [queue[i] EXCEPT !.item = item].id = queue[i].id
          /\ [queue[i] EXCEPT !.item = item].key = queue[i].key
      BY <1>2 DEF Entry
    <3> QED BY <3>1, <3>2, <3>3
  <2> QED BY <2>1, <2>2, <2>3
<1>6. UNCHANGED <<last_id, applied, stop, entry, dtor, dropped>> /\ worker' = Notified
  BY DEF Coalesce
<1>7. BusTypeOK'
  BY <1>4, <1>6 DEF BusInv, BusTypeOK, Notified, WorkerAt
<1>8. BoundedBacklog' /\ PendingAreTheNewest' /\ AppliedBehind'
  BY <1>4, <1>6 DEF BusInv, BoundedBacklog, PendingAreTheNewest, AppliedBehind
<1>9. PendingKeysDistinct'
  BY <1>4 DEF BusInv, PendingKeysDistinct
<1>10. WorkerHoldsEntry'
  BY <1>6 DEF BusInv, WorkerHoldsEntry, Notified
<1>11. DropsAreOver'
  BY <1>4, <1>6 DEF BusInv, DropsAreOver
<1> QED BY <1>7, <1>8, <1>9, <1>10, <1>11 DEF BusInv

LEMMA EnqueueKeepsBusInv ==
  ASSUME BusInv, NEW key \in Keys \cup {NoKey}, NEW item \in Items,
         Enqueue(key, item)
  PROVE  BusInv'
<1> DEFINE e == [id |-> last_id + 1, key |-> key, item |-> item]
<1>1. /\ queue \in Seq(Entry)
      /\ last_id \in Nat /\ last_id + 1 \in 1..MaxId
      /\ applied \in Nat
      /\ MaxId \in Nat /\ Capacity \in Nat
  BY BusAssumption DEF BusInv, BusTypeOK, Enqueue
<1>2. e \in Entry
  BY <1>1 DEF Entry
<1>3. /\ queue' \in Seq(Entry)
      /\ Len(queue') = Len(queue) + 1
      /\ \A i \in 1..Len(queue) : queue'[i] = queue[i]
      /\ queue'[Len(queue) + 1] = e
  <2>1. queue' = Append(queue, e)
    BY DEF Enqueue
  <2> HIDE DEF e
  <2> QED BY <1>1, <1>2, <2>1, AppendProperties
<1>4. /\ last_id' = last_id + 1
      /\ worker' = Notified
      /\ UNCHANGED <<applied, stop, entry, dtor, dropped>>
  BY DEF Enqueue
<1>5. Len(queue) \in Nat /\ Len(queue) < Capacity
  BY <1>1, LenProperties DEF Enqueue
<1>6. BusTypeOK'
  BY <1>1, <1>3, <1>4 DEF BusInv, BusTypeOK, Notified, WorkerAt
<1>7. BoundedBacklog' /\ AppliedBehind'
  BY <1>1, <1>3, <1>4, <1>5 DEF BusInv, BoundedBacklog, AppliedBehind
<1>8. PendingAreTheNewest'
  <2>1. ASSUME NEW i \in 1..Len(queue')
        PROVE  queue'[i].id = last_id' - Len(queue') + i
    <3>1. CASE i = Len(queue) + 1
      BY <1>1, <1>3, <1>4, <1>5, <3>1
    <3>2. CASE i # Len(queue) + 1
      <4>1. i \in 1..Len(queue)
        BY <1>3, <1>5, <3>2
      <4> QED BY <1>1, <1>3, <1>4, <1>5, <4>1 DEF BusInv, PendingAreTheNewest
    <3> QED BY <3>1, <3>2
  <2>2. entry.id \in Nat
    BY <1>1 DEF BusInv, BusTypeOK, Entry, NoEntry
  <2>3. Len(queue') <= last_id' /\ entry'.id <= last_id' - Len(queue')
    <3>1. Len(queue) <= last_id /\ entry.id <= last_id - Len(queue)
      BY DEF BusInv, PendingAreTheNewest
    <3>2. entry'.id = entry.id
      BY <1>4
    <3> QED BY <1>1, <1>3, <1>4, <1>5, <2>2, <3>1, <3>2
  <2> QED BY <2>1, <2>3 DEF PendingAreTheNewest
<1>9. PendingKeysDistinct'
  <2>1. \A i \in 1..Len(queue) : key # NoKey => queue[i].key # key
    BY DEF Enqueue, Pending
  <2>2. e.key = key
    OBVIOUS
  <2> HIDE DEF e
  <2> QED BY <1>3, <1>5, <2>1, <2>2 DEF BusInv, PendingKeysDistinct
<1>10. WorkerHoldsEntry'
  BY <1>4 DEF BusInv, WorkerHoldsEntry, Notified
<1>11. DropsAreOver'
  <2>1. last_id' - Len(queue') = last_id - Len(queue)
    BY <1>1, <1>3, <1>4, <1>5
  <2> QED BY <1>4, <2>1 DEF BusInv, DropsAreOver
<1> QED BY <1>6, <1>7, <1>8, <1>9, <1>10, <1>11 DEF BusInv

LEMMA DiscardKeepsBusInv ==
  ASSUME BusInv, DiscardPending
  PROVE  BusInv'
<1>1. /\ queue \in Seq(Entry)
      /\ last_id \in 0..MaxId
      /\ MaxId \in Nat /\ Capacity \in Nat
  BY BusAssumption DEF BusInv, BusTypeOK
<1>2. UNCHANGED <<last_id, stop, entry, worker, dtor>>
  BY DEF DiscardPending
<1>3. CASE queue = <<>>
  <2>1. UNCHANGED <<queue, applied, dropped>>
    BY <1>3 DEF DiscardPending
  <2> QED BY <1>2, <2>1 DEF BusInv, BusTypeOK, BoundedBacklog, PendingAreTheNewest,
             PendingKeysDistinct, AppliedBehind, WorkerHoldsEntry, DropsAreOver
<1>4. CASE queue # <<>>
  <2>1. /\ applied' = queue[Len(queue)].id
        /\ queue' = <<>>
        /\ dropped' = dropped \cup {queue[i].id : i \in 1..Len(queue)}
    BY <1>4 DEF DiscardPending
  <2>2. Len(queue) \in Nat /\ Len(queue) \in 1..Len(queue)
    BY <1>1, <1>4, EmptySeq
  <2>3. applied' = last_id
    BY <1>1, <2>1, <2>2 DEF BusInv, PendingAreTheNewest
  <2>4. queue' \in Seq(Entry) /\ Len(queue') = 0
    BY <2>1
  <2>5. dropped' \in SUBSET (1..MaxId)
    <3>1. ASSUME NEW i \in 1..Len(queue)
          PROVE  queue[i].id \in 1..MaxId
      <4>1. queue[i] \in Entry
        BY <1>1, ElementOfSeq
      <4> QED BY <4>1 DEF Entry
    <3>2. dropped \in SUBSET (1..MaxId)
      BY DEF BusInv, BusTypeOK
    <3> QED BY <2>1, <3>1, <3>2
  <2>6. BusTypeOK'
    BY <1>1, <1>2, <2>3, <2>4, <2>5 DEF BusInv, BusTypeOK
  <2>7. entry.id \in Nat
    BY <1>1 DEF BusInv, BusTypeOK, Entry, NoEntry
  <2>8. BoundedBacklog' /\ PendingAreTheNewest' /\ PendingKeysDistinct' /\ AppliedBehind'
    BY <1>1, <1>2, <2>2, <2>3, <2>4, <2>7
       DEF BusInv, BoundedBacklog, PendingAreTheNewest, PendingKeysDistinct, AppliedBehind
  <2>9. DropsAreOver'
    <3>1. ASSUME NEW d \in dropped'
          PROVE  d \in 1..last_id /\ d # entry.id
      <4>1. CASE d \in dropped
        BY <1>1, <2>2, <4>1 DEF BusInv, PendingAreTheNewest, DropsAreOver
      <4>2. CASE \E i \in 1..Len(queue) : d = queue[i].id
        BY <1>1, <2>2, <2>7, <4>2 DEF BusInv, PendingAreTheNewest
      <4> QED BY <2>1, <4>1, <4>2
    <3>2. last_id' - Len(queue') = last_id /\ entry'.id = entry.id
      BY <1>1, <1>2, <2>4
    <3> QED BY <3>1, <3>2 DEF DropsAreOver
  <2> QED BY <1>2, <2>6, <2>8, <2>9 DEF BusInv, WorkerHoldsEntry
<1> QED BY <1>3, <1>4

LEMMA TakeKeepsBusInv ==
  ASSUME BusInv, Take
  PROVE  BusInv'
<1>1. /\ queue \in Seq(Entry)
      /\ queue # <<>>
      /\ last_id \in Nat /\ applied \in Nat
      /\ MaxId \in Nat /\ Capacity \in Nat
  BY BusAssumption DEF BusInv, BusTypeOK, Take
<1>2. /\ queue' = Tail(queue)
      /\ entry' = Head(queue)
      /\ worker' = "handling"
      /\ UNCHANGED <<last_id, applied, stop, dtor, dropped>>
  BY DEF Take
<1>3. /\ queue' \in Seq(Entry)
      /\ Len(queue') = Len(queue) - 1
      /\ \A i \in 1..Len(queue') : queue'[i] = queue[i + 1]
  BY <1>1, <1>2, HeadTailProperties
<1>4. Len(queue) \in Nat \ {0}
  BY <1>1, EmptySeq
<1>5. entry' = queue[1] /\ entry' \in Entry
  BY <1>1, <1>2, <1>4, HeadTailProperties
<1>6. BusTypeOK'
  BY <1>2, <1>3, <1>5 DEF BusInv, BusTypeOK, WorkerAt
<1>7. entry'.id = last_id - Len(queue) + 1
  BY <1>1, <1>4, <1>5 DEF BusInv, PendingAreTheNewest
<1>8. BoundedBacklog' /\ AppliedBehind'
  BY <1>1, <1>2, <1>3, <1>4 DEF BusInv, BoundedBacklog, AppliedBehind
<1>9. PendingAreTheNewest'
  <2>1. ASSUME NEW i \in 1..Len(queue')
        PROVE  queue'[i].id = last_id' - Len(queue') + i
    <3>1. i + 1 \in 1..Len(queue)
      BY <1>3, <1>4
    <3> QED BY <1>1, <1>2, <1>3, <1>4, <3>1 DEF BusInv, PendingAreTheNewest
  <2> QED BY <1>1, <1>2, <1>3, <1>4, <1>7, <2>1 DEF BusInv, PendingAreTheNewest
<1>10. PendingKeysDistinct'
  <2> SUFFICES ASSUME NEW i \in 1..Len(queue'), NEW j \in 1..Len(queue'),
                      queue'[i].key # NoKey, queue'[i].key = queue'[j].key
               PROVE  i = j
    BY DEF PendingKeysDistinct
  <2>1. i + 1 \in 1..Len(queue) /\ j + 1 \in 1..Len(queue)
    BY <1>3, <1>4
  <2>2. i + 1 = j + 1
    BY <1>3, <2>1 DEF BusInv, PendingKeysDistinct
  <2> QED BY <2>2
<1>11. WorkerHoldsEntry'
  BY <1>2, <1>5, NoEntryIsNoEntry DEF WorkerHoldsEntry
<1>12. DropsAreOver'
  <2>1. last_id' - Len(queue') = last_id - Len(queue) + 1
    BY <1>1, <1>2, <1>3, <1>4
  <2>2. last_id - Len(queue) \in Int
    BY <1>1, <1>4
  <2> QED BY <1>2, <1>7, <2>1, <2>2 DEF BusInv, DropsAreOver
<1> QED BY <1>6, <1>8, <1>9, <1>10, <1>11, <1>12 DEF BusInv

LEMMA FinishKeepsBusInv ==
  ASSUME BusInv, Finish
  PROVE  BusInv'
<1>1. /\ applied' = entry.id
      /\ worker' = "settling"
      /\ UNCHANGED <<queue, last_id, stop, entry, dtor, dropped>>
  BY DEF Finish
<1>2. entry \in Entry
  BY DEF Finish, BusInv, BusTypeOK, WorkerHoldsEntry
<1>3. applied' \in 0..MaxId
  BY <1>1, <1>2, BusAssumption DEF Entry
<1>4. BusTypeOK'
  BY <1>1, <1>3 DEF BusInv, BusTypeOK, WorkerAt
<1>5. BoundedBacklog' /\ PendingAreTheNewest' /\ PendingKeysDistinct'
  BY <1>1 DEF BusInv, BoundedBacklog, PendingAreTheNewest, PendingKeysDistinct
<1>6. AppliedBehind'
  BY <1>1 DEF BusInv, PendingAreTheNewest, AppliedBehind
<1>7. WorkerHoldsEntry' /\ DropsAreOver'
  BY <1>1 DEF BusInv, WorkerHoldsEntry, DropsAreOver, Finish
<1> QED BY <1>4, <1>5, <1>6, <1>7 DEF BusInv

(* The steps that touch neither the backlog nor applied().                 *)
LEMMA OtherStepsKeepBusInv ==
  ASSUME BusInv,
         \/ \E key \in Keys \cup {NoKey} : RefuseFull(key)
         \/ Leave \/ FindEmpty \/ Park \/ SpuriousWake \/ Settle
         \/ RequestStop \/ DtorStep
         \/ UNCHANGED bus_vars
  PROVE  BusInv'
<1>1. UNCHANGED <<queue, last_id, applied, dropped>>
  BY DEF RefuseFull, Leave, FindEmpty, Park, SpuriousWake, Settle, RequestStop, DtorStep,
         NotifyAll, Join, bus_vars
<1>2. entry' \in {entry, NoEntry} /\ entry'.id <= entry.id
  <2>1. entry.id \in Nat
    BY BusAssumption DEF BusInv, BusTypeOK, Entry, NoEntry
  <2>2. entry' \in {entry, NoEntry}
    BY DEF RefuseFull, Leave, FindEmpty, Park, SpuriousWake, Settle, RequestStop, DtorStep,
           NotifyAll, Join, bus_vars
  <2> QED BY <2>1, <2>2 DEF NoEntry
<1>3. BoundedBacklog' /\ PendingAreTheNewest' /\ PendingKeysDistinct' /\ AppliedBehind'
  <2>1. entry.id \in Nat /\ entry'.id \in Nat
    BY <1>2, BusAssumption DEF BusInv, BusTypeOK, Entry, NoEntry
  <2>2. last_id \in Nat /\ Len(queue) \in Nat
    BY BusAssumption DEF BusInv, BusTypeOK
  <2> QED BY <1>1, <1>2, <2>1, <2>2
             DEF BusInv, BoundedBacklog, PendingAreTheNewest, PendingKeysDistinct, AppliedBehind
<1>5. /\ stop' \in BOOLEAN
      /\ worker' \in WorkerAt
      /\ dtor' \in {"live", "flagged", "joining", "joined"}
  BY DEF BusInv, BusTypeOK, RefuseFull, Leave, FindEmpty, Park, SpuriousWake,
     Settle, RequestStop, DtorStep, NotifyAll, Join, bus_vars, WorkerAt, Notified
<1>6. BusTypeOK'
  BY <1>1, <1>2, <1>5 DEF BusInv, BusTypeOK
<1>7. WorkerHoldsEntry'
  BY DEF BusInv, WorkerHoldsEntry, RefuseFull, Leave, FindEmpty, Park, SpuriousWake,
     Settle, RequestStop, DtorStep, NotifyAll, Join, bus_vars, Notified
<1>8. DropsAreOver'
  <2>1. 0 \notin dropped
    BY DEF BusInv, BusTypeOK
  <2> QED BY <1>1, <1>2, <2>1 DEF BusInv, DropsAreOver, NoEntry
<1> QED BY <1>3, <1>6, <1>7, <1>8 DEF BusInv

LEMMA NextKeepsBusInv == BusInv /\ [BusNext]_bus_vars => BusInv'
<1> SUFFICES ASSUME BusInv, [BusNext]_bus_vars PROVE BusInv'
  OBVIOUS
<1>1. ASSUME NEW key \in Keys \cup {NoKey}, NEW item \in Items,
             Submit(key, item)
      PROVE  BusInv'
  BY <1>1, CoalesceKeepsBusInv, EnqueueKeepsBusInv, OtherStepsKeepBusInv DEF Submit
<1>2. CASE WorkerStep
  BY <1>2, TakeKeepsBusInv, FinishKeepsBusInv, OtherStepsKeepBusInv DEF WorkerStep
<1> QED BY <1>1, <1>2, DiscardKeepsBusInv, OtherStepsKeepBusInv DEF BusNext

THEOREM BusInvariant == BusSpec => []BusInv
  BY InitBusInv, NextKeepsBusInv, PTL DEF BusSpec

(* The state of the bus is always well-typed.                              *)
THEOREM BusTypeCorrect == BusSpec => []BusTypeOK
<1>1. BusInv => BusTypeOK
  BY DEF BusInv
<1> QED BY <1>1, BusInvariant, PTL

(* The backlog never exceeds the capacity.                                 *)
THEOREM BacklogIsBounded == BusSpec => []BoundedBacklog
<1>1. BusInv => BoundedBacklog
  BY DEF BusInv
<1> QED BY <1>1, BusInvariant, PTL

(* The backlog is the newest ids in order.                                 *)
THEOREM BacklogIsInOrder == BusSpec => []PendingAreTheNewest
<1>1. BusInv => PendingAreTheNewest
  BY DEF BusInv
<1> QED BY <1>1, BusInvariant, PTL

(* A key is pending once.                                                  *)
THEOREM BacklogKeysDiffer == BusSpec => []PendingKeysDistinct
<1>1. BusInv => PendingKeysDistinct
  BY DEF BusInv
<1> QED BY <1>1, BusInvariant, PTL

(* No pending command is ever reported applied.                            *)
THEOREM AppliedIsSound == BusSpec => []AppliedNeverCoversPending
<1>1. BusInv => AppliedNeverCoversPending
  <2> SUFFICES ASSUME BusInv, NEW i \in 1..Len(queue) PROVE queue[i].id > applied
    BY DEF AppliedNeverCoversPending
  <2>1. last_id \in Nat /\ applied \in Nat /\ Len(queue) \in Nat
    BY BusAssumption DEF BusInv, BusTypeOK
  <2> QED BY <2>1 DEF BusInv, PendingAreTheNewest, AppliedBehind
<1> QED BY <1>1, BusInvariant, PTL

-------------------------------------------------------------------------------
(***************************************************************************)
(* The bus implements the ledger.  One lemma per kind of step says what    *)
(* the step does to the fates; the refinement follows by cases.            *)
(***************************************************************************)

(* A backlog of consecutive ids up to n covers a range of ids.             *)
LEMMA ConsecutiveIds ==
  ASSUME NEW q \in Seq(Entry), NEW n \in Nat, Len(q) <= n,
         \A i \in 1..Len(q) : q[i].id = n - Len(q) + i
  PROVE  {q[i].id : i \in 1..Len(q)} = (n - Len(q) + 1)..n
<1>1. Len(q) \in Nat
  OBVIOUS
<1>2. ASSUME NEW x \in (n - Len(q) + 1)..n
      PROVE  \E i \in 1..Len(q) : x = q[i].id
  <2> DEFINE k == x - (n - Len(q))
  <2>1. k \in 1..Len(q) /\ x = n - Len(q) + k
    BY <1>1
  <2> HIDE DEF k
  <2> QED BY <2>1
<1>3. ASSUME NEW i \in 1..Len(q)
      PROVE  q[i].id \in (n - Len(q) + 1)..n
  BY <1>1
<1> QED BY <1>2, <1>3

(* What the invariant says of the variables the fates are read from.       *)
LEMMA PendingIdsRange ==
  ASSUME BusInv
  PROVE  /\ queue \in Seq(Entry)
         /\ Len(queue) \in Nat
         /\ last_id \in Nat /\ last_id <= MaxId
         /\ Len(queue) <= last_id
         /\ entry.id \in Nat /\ entry.id <= last_id - Len(queue)
         /\ PendingIds = (last_id - Len(queue) + 1)..last_id
<1>1. queue \in Seq(Entry) /\ last_id \in Nat /\ last_id <= MaxId
  BY BusAssumption DEF BusInv, BusTypeOK
<1>2. Len(queue) \in Nat
  BY <1>1
<1>3. /\ Len(queue) <= last_id
      /\ \A i \in 1..Len(queue) : queue[i].id = last_id - Len(queue) + i
      /\ entry.id <= last_id - Len(queue)
  BY DEF BusInv, PendingAreTheNewest
<1>4. entry.id \in Nat
  BY BusAssumption DEF BusInv, BusTypeOK, Entry, NoEntry
<1>5. PendingIds = (last_id - Len(queue) + 1)..last_id
  BY <1>1, <1>2, <1>3, ConsecutiveIds DEF PendingIds
<1> QED BY <1>1, <1>2, <1>3, <1>4, <1>5

LEMMA PendingIdsRangeNext ==
  ASSUME BusInv'
  PROVE  PendingIds' = (last_id' - Len(queue') + 1)..last_id'
<1>1. queue' \in Seq(Entry) /\ last_id' \in Nat /\ Len(queue') <= last_id'
  BY BusAssumption DEF BusInv, BusTypeOK, PendingAreTheNewest
<1>2. \A i \in 1..Len(queue') : queue'[i].id = last_id' - Len(queue') + i
  BY DEF BusInv, PendingAreTheNewest
<1>3. {queue'[i].id : i \in 1..Len(queue')} = (last_id' - Len(queue') + 1)..last_id'
  BY <1>1, <1>2, ConsecutiveIds
<1> QED BY <1>3 DEF PendingIds

LEMMA InitRefines == BusInit => Ledger!LedgerInit
<1> SUFFICES ASSUME BusInit PROVE Ledger!LedgerInit
  OBVIOUS
<1>1. ASSUME NEW i \in 1..MaxId
      PROVE  FateOf(i) = "free" /\ WorkOf(i) = NoItem
  <2>1. PendingIds = {}
    BY DEF BusInit, PendingIds
  <2> QED BY <2>1, BusAssumption DEF BusInit, FateOf, WorkOf
<1> QED BY <1>1 DEF Ledger!LedgerInit, Ledger!Ids, fateMap, workMap

(* A step after which every id stands as it did is a stutter.              *)
LEMMA SameFates ==
  ASSUME \A i \in 1..MaxId : FateOf(i)' = FateOf(i) /\ WorkOf(i)' = WorkOf(i)
  PROVE  UNCHANGED <<fateMap, workMap>>
  BY DEF fateMap, workMap

LEMMA EnqueueRefines ==
  ASSUME BusInv, BusInv', NEW key \in Keys \cup {NoKey},
         NEW item \in Items, Enqueue(key, item)
  PROVE  Ledger!LedgerNext
<1>0. PICK n \in 1..MaxId : n = last_id + 1
  BY BusAssumption DEF BusInv, BusTypeOK, Enqueue
<1> DEFINE e == [id |-> n, key |-> key, item |-> item]
<1>1. /\ queue' = Append(queue, e)
      /\ last_id' = n
      /\ worker' = Notified
      /\ UNCHANGED <<entry, dropped>>
  BY <1>0 DEF Enqueue
<1>2. /\ queue \in Seq(Entry)
      /\ Len(queue) \in Nat /\ last_id \in Nat /\ n = last_id + 1
      /\ entry.id \in Nat /\ entry.id <= last_id - Len(queue)
      /\ Len(queue) <= last_id
      /\ PendingIds = (last_id - Len(queue) + 1)..last_id
      /\ MaxId \in Nat
  BY <1>0, BusAssumption, PendingIdsRange
<1>3. e \in Entry
  BY <1>2 DEF Entry
<1>4. /\ Len(queue') = Len(queue) + 1
      /\ \A i \in 1..Len(queue) : queue'[i] = queue[i]
      /\ queue'[Len(queue) + 1] = e
  <2> HIDE DEF e
  <2> QED BY <1>1, <1>2, <1>3, AppendProperties
<1>5. PendingIds' = (last_id - Len(queue) + 1)..n
  BY <1>1, <1>2, <1>4, PendingIdsRangeNext
<1>6. (worker' = "handling") = (worker = "handling")
  BY <1>1 DEF Notified
<1>7. FateOf(n) = "free" /\ FateOf(n)' = "pending" /\ WorkOf(n)' = item
  <2>1. n - (last_id' - Len(queue')) = Len(queue) + 1
    BY <1>1, <1>2, <1>4
  <2>2. n > last_id /\ ~(n > last_id') /\ n \in PendingIds'
    BY <1>1, <1>2, <1>5
  <2>3. FateOf(n) = "free" /\ FateOf(n)' = "pending"
    BY <2>2 DEF FateOf
  <2>4. queue'[Len(queue) + 1].item = item
    BY <1>4
  <2>5. WorkOf(n)' = item
    BY <2>1, <2>2, <2>4 DEF WorkOf
  <2> QED BY <2>3, <2>5
<1>8. ASSUME NEW i \in 1..MaxId, i # n
      PROVE  FateOf(i)' = FateOf(i) /\ WorkOf(i)' = WorkOf(i)
  <2>1. i \in PendingIds' <=> i \in PendingIds
    BY <1>2, <1>5, <1>8
  <2>2. i > last_id' <=> i > last_id
    BY <1>1, <1>2, <1>8
  <2>3. FateOf(i)' = FateOf(i)
    BY <1>1, <1>6, <2>1, <2>2 DEF FateOf
  <2>4. i \in PendingIds =>
          /\ i - (last_id - Len(queue)) \in 1..Len(queue)
          /\ i - (last_id' - Len(queue')) = i - (last_id - Len(queue))
    BY <1>1, <1>2, <1>4
  <2>5. WorkOf(i)' = WorkOf(i)
    BY <1>1, <1>4, <1>6, <2>1, <2>4 DEF WorkOf
  <2> QED BY <2>3, <2>5
<1>9. \A j \in 1..(n - 1) : FateOf(j) # "free"
  BY <1>2 DEF FateOf
<1>10. Ledger!Issue(n, item)
  <2> HIDE DEF e
  <2>1. fateMap' = [fateMap EXCEPT ![n] = "pending"]
    BY <1>2, <1>7, <1>8 DEF fateMap
  <2>2. workMap' = [workMap EXCEPT ![n] = item]
    BY <1>2, <1>7, <1>8 DEF workMap
  <2>3. \A j \in 1..(n - 1) : fateMap[j] # "free"
    BY <1>2, <1>9 DEF fateMap
  <2>4. fateMap[n] = "free"
    BY <1>2, <1>7 DEF fateMap
  <2> QED BY <2>1, <2>2, <2>3, <2>4 DEF Ledger!Issue
<1> QED BY <1>2, <1>10 DEF Ledger!LedgerNext, Ledger!Ids

LEMMA CoalesceRefines ==
  ASSUME BusInv, BusInv', NEW key \in Keys \cup {NoKey},
         NEW item \in Items, Coalesce(key, item)
  PROVE  Ledger!LedgerNext
<1>1. PICK k \in 1..Len(queue) : queue' = [queue EXCEPT ![k].item = item]
  BY DEF Coalesce, Pending
<1>2. UNCHANGED <<last_id, entry, dropped>> /\ worker' = Notified
  BY DEF Coalesce
<1>3. /\ queue \in Seq(Entry)
      /\ Len(queue) \in Nat /\ last_id \in Nat
      /\ Len(queue) <= last_id
      /\ PendingIds = (last_id - Len(queue) + 1)..last_id
  BY PendingIdsRange
<1>4. PICK n \in 1..MaxId : n = queue[k].id
  <2>1. queue[k] \in Entry
    BY <1>3, ElementOfSeq
  <2> QED BY <2>1 DEF Entry
<1>5. n = last_id - Len(queue) + k
  BY <1>4 DEF BusInv, PendingAreTheNewest
<1>6. /\ Len(queue') = Len(queue)
      /\ queue'[k].item = item
      /\ \A j \in 1..Len(queue) : j # k => queue'[j] = queue[j]
  <2>1. queue[k] \in Entry /\ [queue[k] EXCEPT !.item = item] \in Entry
    <3>1. queue[k] \in Entry
      BY <1>3, ElementOfSeq
    <3> QED BY <3>1 DEF Entry
  <2>2. queue' = [queue EXCEPT ![k] = [queue[k] EXCEPT !.item = item]]
    BY <1>1, <1>3
  <2>3. [queue[k] EXCEPT !.item = item].item = item
    BY <2>1 DEF Entry
  <2> QED BY <1>3, <2>1, <2>2, <2>3, ExceptSeq
<1>7. PendingIds' = PendingIds
  BY <1>2, <1>3, <1>6, PendingIdsRangeNext
<1>8. ASSUME NEW i \in 1..MaxId
      PROVE  FateOf(i)' = FateOf(i) /\ (i # n => WorkOf(i)' = WorkOf(i))
  <2>1. (worker' = "handling") = (worker = "handling")
    BY <1>2 DEF Notified
  <2>2. FateOf(i)' = FateOf(i)
    BY <1>2, <1>7, <2>1 DEF FateOf
  <2>3. i \in PendingIds => i - (last_id - Len(queue)) \in 1..Len(queue)
    BY <1>3
  <2>4. i # n => i - (last_id - Len(queue)) # k
    BY <1>3, <1>5
  <2>5. i # n => WorkOf(i)' = WorkOf(i)
    BY <1>2, <1>6, <1>7, <2>1, <2>3, <2>4 DEF WorkOf
  <2> QED BY <2>2, <2>5
<1>9. FateOf(n) = "pending" /\ WorkOf(n)' = item
  <2>1. n \in PendingIds /\ ~(n > last_id)
    BY <1>3, <1>5
  <2>2. n - (last_id - Len(queue)) = k
    BY <1>3, <1>5
  <2>3. FateOf(n) = "pending"
    BY <2>1 DEF FateOf
  <2>4. WorkOf(n)' = item
    BY <1>2, <1>6, <1>7, <2>1, <2>2 DEF WorkOf
  <2> QED BY <2>3, <2>4
<1>10. Ledger!Amend(n, item)
  <2>1. fateMap[n] = "pending" /\ fateMap' = fateMap
    BY <1>8, <1>9 DEF fateMap
  <2>2. workMap' = [workMap EXCEPT ![n] = item]
    BY <1>8, <1>9 DEF workMap
  <2> QED BY <2>1, <2>2 DEF Ledger!Amend
<1> QED BY <1>10 DEF Ledger!LedgerNext, Ledger!Ids

LEMMA DiscardRefines ==
  ASSUME BusInv, BusInv', DiscardPending
  PROVE  Ledger!LedgerNext
<1>1. /\ queue \in Seq(Entry)
      /\ Len(queue) \in Nat /\ last_id \in Nat
      /\ Len(queue) <= last_id
      /\ entry.id \in Nat /\ entry.id <= last_id - Len(queue)
      /\ PendingIds = (last_id - Len(queue) + 1)..last_id
  BY PendingIdsRange
<1>2. UNCHANGED <<last_id, entry, worker>>
  BY DEF DiscardPending
<1>3. queue' = <<>> /\ PendingIds' = {}
  BY DEF DiscardPending, PendingIds
<1>4. dropped' = dropped \cup PendingIds
  BY DEF DiscardPending, PendingIds
<1>5. ASSUME NEW i \in 1..MaxId
      PROVE  /\ FateOf(i)' = IF FateOf(i) = "pending" THEN "dropped" ELSE FateOf(i)
             /\ WorkOf(i)' = IF FateOf(i) = "pending" THEN NoItem ELSE WorkOf(i)
  <2>1. CASE i \in PendingIds
    <3>1. i <= last_id /\ i # entry.id
      BY <1>1, <2>1
    <3>2. FateOf(i) = "pending" /\ FateOf(i)' = "dropped" /\ WorkOf(i)' = NoItem
      BY <1>1, <1>2, <1>3, <1>4, <2>1, <3>1 DEF FateOf, WorkOf
    <3> QED BY <3>2
  <2>2. CASE i \notin PendingIds
    BY <1>2, <1>3, <1>4, <2>2 DEF FateOf, WorkOf
  <2> QED BY <2>1, <2>2
<1>6. Ledger!DropPending
  <2>1. fateMap' = [i \in 1..MaxId |-> IF fateMap[i] = "pending" THEN "dropped" ELSE fateMap[i]]
    BY <1>5 DEF fateMap
  <2>2. workMap' = [i \in 1..MaxId |-> IF fateMap[i] = "pending" THEN NoItem ELSE workMap[i]]
    BY <1>5 DEF fateMap, workMap
  <2> QED BY <2>1, <2>2 DEF Ledger!DropPending, Ledger!Ids
<1> QED BY <1>6 DEF Ledger!LedgerNext

LEMMA TakeRefines ==
  ASSUME BusInv, BusInv', Take
  PROVE  Ledger!LedgerNext
<1>1. /\ queue \in Seq(Entry)
      /\ Len(queue) \in Nat /\ last_id \in Nat
      /\ Len(queue) <= last_id
      /\ PendingIds = (last_id - Len(queue) + 1)..last_id
  BY PendingIdsRange
<1>2. /\ queue # <<>> /\ worker = "poll" /\ worker' = "handling"
      /\ queue' = Tail(queue) /\ entry' = Head(queue)
      /\ UNCHANGED <<last_id, dropped>>
  BY DEF Take
<1>3. /\ Len(queue') = Len(queue) - 1
      /\ \A j \in 1..Len(queue') : queue'[j] = queue[j + 1]
      /\ Len(queue) >= 1
      /\ entry' = queue[1]
  BY <1>1, <1>2, HeadTailProperties, EmptySeq
<1>4. PICK n \in 1..MaxId : n = queue[1].id
  <2>1. queue[1] \in Entry
    BY <1>1, <1>3, ElementOfSeq
  <2> QED BY <2>1 DEF Entry
<1>5. n = last_id - Len(queue) + 1
  BY <1>1, <1>3, <1>4 DEF BusInv, PendingAreTheNewest
<1>6. PendingIds' = (n + 1)..last_id
  BY <1>1, <1>2, <1>3, <1>5, PendingIdsRangeNext
<1>7. n \notin dropped
  BY <1>1, <1>5 DEF BusInv, DropsAreOver
<1>8. ASSUME NEW i \in 1..MaxId, i # n
      PROVE  /\ FateOf(i)' = FateOf(i)
             /\ WorkOf(i)' = WorkOf(i)
             /\ FateOf(i) # "running"
             /\ (i < n => FateOf(i) # "pending")
  <2>1. i \in PendingIds' <=> i \in PendingIds
    BY <1>1, <1>5, <1>6, <1>8
  <2>2. entry'.id # i
    BY <1>3, <1>4, <1>8
  <2>3. FateOf(i)' = FateOf(i) /\ FateOf(i) # "running"
    BY <1>2, <2>1, <2>2 DEF FateOf
  <2>4. i < n => i \notin PendingIds
    BY <1>1, <1>5
  <2>5. i < n => FateOf(i) # "pending"
    BY <2>4 DEF FateOf
  <2>6. i \in PendingIds =>
          LET k == i - (last_id' - Len(queue'))
          IN  k \in 1..Len(queue') /\ k + 1 = i - (last_id - Len(queue))
    BY <1>1, <1>2, <1>3, <1>5, <1>6, <2>1
  <2>7. WorkOf(i)' = WorkOf(i)
    BY <1>2, <1>3, <2>1, <2>2, <2>6 DEF WorkOf
  <2> QED BY <2>3, <2>5, <2>7
<1>9. /\ FateOf(n) = "pending" /\ FateOf(n)' = "running"
      /\ WorkOf(n)' = WorkOf(n)
  <2>1. n \in PendingIds /\ n \notin PendingIds' /\ ~(n > last_id)
    BY <1>1, <1>3, <1>5, <1>6
  <2>2. n - (last_id - Len(queue)) = 1 /\ entry'.id = n
    BY <1>1, <1>3, <1>4, <1>5
  <2>3. FateOf(n) = "pending" /\ FateOf(n)' = "running"
    BY <1>2, <1>7, <2>1, <2>2 DEF FateOf
  <2>4. WorkOf(n)' = WorkOf(n)
    BY <1>2, <1>3, <2>1, <2>2 DEF WorkOf
  <2> QED BY <2>3, <2>4
<1>10. Ledger!Start(n)
  <2>1. fateMap[n] = "pending" /\ fateMap' = [fateMap EXCEPT ![n] = "running"]
    BY <1>8, <1>9 DEF fateMap
  <2>2. workMap' = workMap
    BY <1>8, <1>9 DEF workMap
  <2>3. \A j \in 1..MaxId : fateMap[j] # "running"
    BY <1>8, <1>9 DEF fateMap
  <2>4. ASSUME NEW j \in 1..(n - 1)
        PROVE  fateMap[j] # "pending"
    <3>1. j \in 1..MaxId /\ j < n
      BY BusAssumption
    <3> QED BY <1>8, <3>1 DEF fateMap
  <2> QED BY <2>1, <2>2, <2>3, <2>4 DEF Ledger!Start, Ledger!Ids
<1> QED BY <1>10 DEF Ledger!LedgerNext, Ledger!Ids

LEMMA FinishRefines ==
  ASSUME BusInv, BusInv', Finish
  PROVE  Ledger!LedgerNext
<1>1. /\ worker = "handling" /\ worker' = "settling"
      /\ UNCHANGED <<queue, last_id, entry, dropped>>
  BY DEF Finish
<1>2. PICK n \in 1..MaxId : n = entry.id
  BY DEF Finish, BusInv, BusTypeOK, WorkerHoldsEntry, Entry
<1>3. n \notin PendingIds /\ n \notin dropped /\ ~(n > last_id)
  BY <1>2, PendingIdsRange DEF BusInv, DropsAreOver
<1>4. PendingIds' = PendingIds
  BY <1>1 DEF PendingIds
<1>5. /\ FateOf(n) = "running" /\ FateOf(n)' = "done"
      /\ WorkOf(n)' = NoItem
  BY <1>1, <1>2, <1>3, <1>4 DEF FateOf, WorkOf
<1>6. ASSUME NEW i \in 1..MaxId, i # n
      PROVE  FateOf(i)' = FateOf(i) /\ WorkOf(i)' = WorkOf(i)
  BY <1>1, <1>2, <1>4, <1>6 DEF FateOf, WorkOf
<1>7. Ledger!End(n)
  <2>1. fateMap[n] = "running" /\ fateMap' = [fateMap EXCEPT ![n] = "done"]
    BY <1>5, <1>6 DEF fateMap
  <2>2. workMap' = [workMap EXCEPT ![n] = NoItem]
    BY <1>5, <1>6 DEF workMap
  <2> QED BY <2>1, <2>2 DEF Ledger!End
<1> QED BY <1>7 DEF Ledger!LedgerNext, Ledger!Ids

(* Every other step leaves each id where it stood.                         *)
LEMMA OtherStepsRefine ==
  ASSUME BusInv,
         \/ \E key \in Keys \cup {NoKey} : RefuseFull(key)
         \/ Leave \/ FindEmpty \/ Park \/ SpuriousWake \/ Settle
         \/ RequestStop \/ DtorStep
         \/ UNCHANGED bus_vars
  PROVE  UNCHANGED <<fateMap, workMap>>
<1>1. UNCHANGED <<queue, last_id, dropped>>
  BY DEF RefuseFull, Leave, FindEmpty, Park, SpuriousWake, Settle, RequestStop, DtorStep,
         NotifyAll, Join, bus_vars
<1>2. /\ (worker' = "handling") = (worker = "handling")
      /\ worker = "handling" => entry' = entry
  BY DEF RefuseFull, Leave, FindEmpty, Park, SpuriousWake, Settle, RequestStop, DtorStep,
         NotifyAll, Join, bus_vars, Notified
<1>3. PendingIds' = PendingIds
  BY <1>1 DEF PendingIds
<1>4. ASSUME NEW i \in 1..MaxId
      PROVE  FateOf(i)' = FateOf(i) /\ WorkOf(i)' = WorkOf(i)
  BY <1>1, <1>2, <1>3 DEF FateOf, WorkOf
<1> QED BY <1>4, SameFates

LEMMA NextRefines ==
  BusInv /\ BusInv' /\ [BusNext]_bus_vars => [Ledger!LedgerNext]_<<fateMap, workMap>>
<1> SUFFICES ASSUME BusInv, BusInv', [BusNext]_bus_vars
             PROVE  Ledger!LedgerNext \/ UNCHANGED <<fateMap, workMap>>
  OBVIOUS
<1>1. ASSUME NEW key \in Keys \cup {NoKey}, NEW item \in Items,
             Submit(key, item)
      PROVE  Ledger!LedgerNext \/ UNCHANGED <<fateMap, workMap>>
  BY <1>1, CoalesceRefines, EnqueueRefines, OtherStepsRefine DEF Submit
<1>2. CASE WorkerStep
  BY <1>2, TakeRefines, FinishRefines, OtherStepsRefine DEF WorkerStep
<1> QED BY <1>1, <1>2, DiscardRefines, OtherStepsRefine DEF BusNext

(* Every behaviour of the bus is a behaviour of the ledger: an id is given *)
(* out once, starts in order and alone, with the payload last put under    *)
(* it, and ends done or dropped.                                           *)
THEOREM BusImplementsLedger == BusSpec => ImplementsLedger
<1>1. BusInv /\ BusInv' /\ [BusNext]_bus_vars => [Ledger!LedgerNext]_(Ledger!ledger_vars)
  BY NextRefines DEF Ledger!ledger_vars
<1> QED
  BY <1>1, InitRefines, BusInvariant, PTL DEF BusSpec, ImplementsLedger, Ledger!LedgerSpec

-------------------------------------------------------------------------------
(* What the modules that build on the bus need of its steps.               *)

(* Whatever a submission is answered, the backlog is not empty after it.   *)
LEMMA SubmitFills ==
  ASSUME BusInv, NEW key, NEW item, Submit(key, item)
  PROVE  queue' # <<>>
<1>1. queue \in Seq(Entry) /\ Capacity >= 1 /\ Capacity \in Nat
  BY BusAssumption DEF BusInv, BusTypeOK
<1>2. CASE Coalesce(key, item)
  <2>1. PICK i \in Pending(key) : queue' = [queue EXCEPT ![i].item = item]
    BY <1>2 DEF Coalesce
  <2>2. i \in DOMAIN queue
    BY <1>1 DEF Pending
  <2>3. i \in DOMAIN queue'
    BY <2>1, <2>2
  <2> QED BY <2>3
<1>3. CASE Enqueue(key, item)
  <2> DEFINE e == [id |-> last_id + 1, key |-> key, item |-> item]
  <2>1. queue' = Append(queue, e)
    BY <1>3 DEF Enqueue
  <2> HIDE DEF e
  <2>2. Len(queue) + 1 \in DOMAIN queue'
    BY <1>1, <2>1
  <2> QED BY <2>2
<1>4. CASE RefuseFull(key)
  BY <1>1, <1>4 DEF RefuseFull, bus_vars
<1> QED BY <1>2, <1>3, <1>4 DEF Submit

(* Who empties the backlog by taking from it has taken the newest id.      *)
LEMMA TakesTheNewestLast ==
  ASSUME BusInv, Take, queue' = <<>>
  PROVE  entry'.id = last_id
<1>1. /\ queue \in Seq(Entry) /\ queue # <<>> /\ last_id \in Nat
      /\ queue' = Tail(queue) /\ entry' = Head(queue)
  BY BusAssumption DEF BusInv, BusTypeOK, Take
<1>2. Tail(queue) = <<>>
  BY <1>1
<1>3. Len(queue) = 1 /\ entry' = queue[1]
  <2>1. Len(queue) \in Nat /\ Len(queue) >= 1 /\ Len(Tail(queue)) = Len(queue) - 1
    BY <1>1
  <2>2. Len(<<>>) = 0
    OBVIOUS
  <2>3. Len(Tail(queue)) = 0
    BY <1>2, <2>2, Zenon
  <2>4. Len(queue) = 1
    BY <2>1, <2>3
  <2> QED BY <1>1, <2>4
<1>4. queue[1].id = last_id - Len(queue) + 1
  BY <1>3 DEF BusInv, PendingAreTheNewest
<1>5. last_id - 1 + 1 = last_id
  BY <1>1
<1> QED BY <1>3, <1>4, <1>5

===============================================================================
