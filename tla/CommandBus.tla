------------------------------ MODULE CommandBus ------------------------------
(***************************************************************************)
(* The single-consumer command queue of a cell (gateway/command_bus.hpp):  *)
(* bounded, coalescing, every accepted command known by an id.             *)
(*                                                                         *)
(* Callers' threads run submit() and discard_pending() under the mutex, so *)
(* each is one step.  The worker's loop is split where it gives the mutex  *)
(* up or publishes something: the wait on the condition variable, the      *)
(* handler, the store to applied_, the settled callback.  The destructor   *)
(* takes no mutex, so its two steps interleave with all of these.          *)
(***************************************************************************)
EXTENDS Naturals, Sequences

CONSTANTS
  Items,      \* payloads a command may carry
  NoItem,     \* the payload of a default-constructed entry
  Keys,       \* coalescing keys a command may carry
  NoKey,      \* the empty key: never coalesced
  Capacity,   \* capacity_: how many commands may be pending
  MaxId       \* bound on the ids one behaviour hands out (uint64 in the code)

ASSUME BusAssumption ==
  /\ Capacity \in Nat \ {0}
  /\ MaxId \in Nat
  /\ NoKey \notin Keys
  /\ NoItem \notin Items

VARIABLES
  queue,      \* queue_: pending entries, oldest first
  last_id,    \* last_id_: the last id handed out
  applied,    \* applied_: what applied() reports
  stop,       \* stop_: the destructor has asked the worker to leave
  entry,      \* the worker's local entry; NoEntry outside a loop iteration
  worker,     \* where the worker is in loop()
  dtor,       \* where the destructor is
  dropped     \* history: the ids discard_pending() threw away

bus_vars == <<queue, last_id, applied, stop, entry, worker, dtor, dropped>>

Entry   == [id : 1..MaxId, key : Keys \cup {NoKey}, item : Items]
NoEntry == [id |-> 0, key |-> NoKey, item |-> NoItem]

(***************************************************************************)
(* "parking" is the worker holding the mutex, its predicate found false,   *)
(* about to block; "parked" is the worker blocked with the mutex released. *)
(***************************************************************************)
WorkerAt == {"poll", "parking", "parked", "handling", "settling", "exited"}

MutexFree == worker # "parking"
Alive     == dtor = "live"      \* the object's lifetime: nobody calls a dead bus
(* Mutated form of Notified: a submission that wakes nobody.               *)
Notified_Silent == worker
Notified  == IF worker = "parked" THEN "poll" ELSE worker

BusInit ==
  /\ queue = <<>>
  /\ last_id = 0
  /\ applied = 0
  /\ stop = FALSE
  /\ entry = NoEntry
  /\ worker = "poll"
  /\ dtor = "live"
  /\ dropped = {}

-------------------------------------------------------------------------------
(* submit()                                                                *)

(* Mutated form of Pending: only the oldest entry is looked at.            *)
Pending_FrontOnly(key) ==
  {i \in 1..Len(queue) : i = 1 /\ key # NoKey /\ queue[i].key = key}

Pending(key) == {i \in 1..Len(queue) : key # NoKey /\ queue[i].key = key}

(* Mutated form of Coalesce: the replaced command goes to the back.        *)
Coalesce_ToBack(key, item) ==
  /\ \E i \in Pending(key) :
       /\ queue' = Append([j \in 1..(Len(queue) - 1) |-> IF j < i THEN queue[j] ELSE queue[j + 1]],
                          [queue[i] EXCEPT !.item = item])
  /\ worker' = Notified
  /\ UNCHANGED <<last_id, applied, stop, entry, dtor, dropped>>

(* A pending command with the same key: its payload is replaced in place.  *)
Coalesce(key, item) ==
  /\ \E i \in Pending(key) :
       /\ \A j \in Pending(key) : i <= j
       /\ queue' = [queue EXCEPT ![i].item = item]
  /\ worker' = Notified
  /\ UNCHANGED <<last_id, applied, stop, entry, dtor, dropped>>

(* Mutated form of Enqueue: the id is the value of the counter before it   *)
(* was advanced.                                                           *)
Enqueue_PostIncrement(key, item) ==
  /\ Pending(key) = {}
  /\ Len(queue) < Capacity
  /\ last_id < MaxId
  /\ last_id' = last_id + 1
  /\ queue' = Append(queue, [id |-> last_id, key |-> key, item |-> item])
  /\ worker' = Notified
  /\ UNCHANGED <<applied, stop, entry, dtor, dropped>>

Enqueue(key, item) ==
  /\ Pending(key) = {}
  /\ Len(queue) < Capacity
  /\ last_id < MaxId
  /\ last_id' = last_id + 1
  /\ queue' = Append(queue, [id |-> last_id + 1, key |-> key, item |-> item])
  /\ worker' = Notified
  /\ UNCHANGED <<applied, stop, entry, dtor, dropped>>

RefuseFull(key) ==
  /\ Pending(key) = {}
  /\ Len(queue) >= Capacity
  /\ UNCHANGED bus_vars

Submit(key, item) ==
  /\ Alive
  /\ MutexFree
  /\ Coalesce(key, item) \/ Enqueue(key, item) \/ RefuseFull(key)

-------------------------------------------------------------------------------
(* discard_pending()                                                       *)

DiscardPending ==
  /\ Alive
  /\ MutexFree
  /\ IF queue = <<>>
     THEN UNCHANGED <<queue, applied, dropped>>
     ELSE /\ applied' = queue[Len(queue)].id
          /\ queue' = <<>>
          /\ dropped' = dropped \cup {queue[i].id : i \in 1..Len(queue)}
  /\ UNCHANGED <<last_id, stop, entry, worker, dtor>>

-------------------------------------------------------------------------------
(* loop()                                                                  *)

Leave ==
  /\ worker = "poll"
  /\ stop
  /\ worker' = "exited"
  /\ UNCHANGED <<queue, last_id, applied, stop, entry, dtor, dropped>>

FindEmpty ==
  /\ worker = "poll"
  /\ ~stop
  /\ queue = <<>>
  /\ worker' = "parking"
  /\ UNCHANGED <<queue, last_id, applied, stop, entry, dtor, dropped>>

Park ==
  /\ worker = "parking"
  /\ worker' = "parked"
  /\ UNCHANGED <<queue, last_id, applied, stop, entry, dtor, dropped>>

SpuriousWake ==
  /\ worker = "parked"
  /\ worker' = "poll"
  /\ UNCHANGED <<queue, last_id, applied, stop, entry, dtor, dropped>>

(* Mutated forms of Take: the id reads as applied as soon as it is taken;  *)
(* the front is read but not popped.                                       *)
Take_AppliedFirst ==
  /\ worker = "poll"
  /\ ~stop
  /\ queue # <<>>
  /\ entry' = Head(queue)
  /\ queue' = Tail(queue)
  /\ applied' = Head(queue).id
  /\ worker' = "handling"
  /\ UNCHANGED <<last_id, stop, dtor, dropped>>

Take_NoPop ==
  /\ worker = "poll"
  /\ ~stop
  /\ queue # <<>>
  /\ entry' = Head(queue)
  /\ worker' = "handling"
  /\ UNCHANGED <<queue, last_id, applied, stop, dtor, dropped>>

Take ==
  /\ worker = "poll"
  /\ ~stop
  /\ queue # <<>>
  /\ entry' = Head(queue)
  /\ queue' = Tail(queue)
  /\ worker' = "handling"
  /\ UNCHANGED <<last_id, applied, stop, dtor, dropped>>

(* Mutated form of Finish: the newest id is stored, not the finished one.  *)
Finish_StoresNewest ==
  /\ worker = "handling"
  /\ applied' = last_id
  /\ worker' = "settling"
  /\ UNCHANGED <<queue, last_id, stop, entry, dtor, dropped>>

(* The handler has returned; applied_ is stored without the mutex.         *)
Finish ==
  /\ worker = "handling"
  /\ applied' = entry.id
  /\ worker' = "settling"
  /\ UNCHANGED <<queue, last_id, stop, entry, dtor, dropped>>

(* The settled callback has returned and the iteration's entry is gone.    *)
Settle ==
  /\ worker = "settling"
  /\ entry' = NoEntry
  /\ worker' = "poll"
  /\ UNCHANGED <<queue, last_id, applied, stop, dtor, dropped>>

WorkerStep == Leave \/ FindEmpty \/ Park \/ Take \/ Finish \/ Settle

-------------------------------------------------------------------------------
(* ~CommandBus(): store the flag, notify, join.  No mutex is taken.        *)

RequestStop ==
  /\ dtor = "live"
  /\ stop' = TRUE
  /\ dtor' = "flagged"
  /\ UNCHANGED <<queue, last_id, applied, entry, worker, dropped>>

NotifyAll ==
  /\ dtor = "flagged"
  /\ worker' = Notified
  /\ dtor' = "joining"
  /\ UNCHANGED <<queue, last_id, applied, stop, entry, dropped>>

Join ==
  /\ dtor = "joining"
  /\ worker = "exited"
  /\ dtor' = "joined"
  /\ UNCHANGED <<queue, last_id, applied, stop, entry, worker, dropped>>

DtorStep == NotifyAll \/ Join

-------------------------------------------------------------------------------
BusNext ==
  \/ \E key \in Keys \cup {NoKey}, item \in Items : Submit(key, item)
  \/ DiscardPending
  \/ WorkerStep
  \/ SpuriousWake
  \/ RequestStop
  \/ DtorStep

BusSpec == BusInit /\ [][BusNext]_bus_vars

(***************************************************************************)
(* The worker thread and a running destructor keep taking their steps;     *)
(* nothing obliges a caller to submit, to discard or to destroy, and a     *)
(* spurious wake-up is never owed.  WF on the worker includes Finish: the  *)
(* handler is a call that returns.                                         *)
(***************************************************************************)
BusFairSpec == BusSpec /\ WF_bus_vars(WorkerStep) /\ WF_bus_vars(DtorStep)

-------------------------------------------------------------------------------
(* Properties                                                              *)

(* Every variable has its type.                                            *)
BusTypeOK ==
  /\ queue \in Seq(Entry)
  /\ last_id \in 0..MaxId
  /\ applied \in 0..MaxId
  /\ stop \in BOOLEAN
  /\ entry \in Entry \cup {NoEntry}
  /\ worker \in WorkerAt
  /\ dtor \in {"live", "flagged", "joining", "joined"}
  /\ dropped \in SUBSET (1..MaxId)

(* Backpressure is a refusal: no interleaving of submitters grows the      *)
(* backlog past the capacity the settings give it.                         *)
BoundedBacklog == Len(queue) <= Capacity

(* The backlog is exactly the newest ids, in order and without a gap, and  *)
(* the running command is older than all of it.  Waiting on a number works *)
(* only because of this: a lower id is never behind a higher one.          *)
PendingAreTheNewest ==
  /\ Len(queue) <= last_id
  /\ \A i \in 1..Len(queue) : queue[i].id = last_id - Len(queue) + i
  /\ entry.id <= last_id - Len(queue)

(* A key is pending at most once: a repeat replaces, it never queues twice. *)
PendingKeysDistinct ==
  \A i, j \in 1..Len(queue) :
    queue[i].key # NoKey /\ queue[i].key = queue[j].key => i = j

(* applied() never covers a command that has yet to start, whatever the    *)
(* order in which discards, submissions and the worker's store fall.       *)
AppliedNeverCoversPending ==
  \A i \in 1..Len(queue) : queue[i].id > applied

(* The refinement mapping: what the state of the bus says of an id, and    *)
(* the payload it stands for.                                              *)
PendingIds == {queue[i].id : i \in 1..Len(queue)}

FateOf(i) ==
  IF i > last_id THEN "free"
  ELSE IF i \in PendingIds THEN "pending"
  ELSE IF i \in dropped THEN "dropped"
  ELSE IF worker = "handling" /\ entry.id = i THEN "running"
  ELSE "done"

(* No accepted command is forgotten while the bus lives: its handler runs  *)
(* to its end, or a discard takes it, whatever wake-ups are missed.        *)
EveryIdEnds ==
  \A i \in 1..MaxId :
    (last_id >= i /\ ~stop) ~> (stop \/ FateOf(i) \in {"done", "dropped"})

WorkOf(i) ==
  IF i \in PendingIds THEN queue[i - (last_id - Len(queue))].item
  ELSE IF worker = "handling" /\ entry.id = i THEN entry.item
  ELSE NoItem

fateMap == [i \in 1..MaxId |-> FateOf(i)]
workMap == [i \in 1..MaxId |-> WorkOf(i)]

Ledger == INSTANCE CommandLedger WITH fate <- fateMap, work <- workMap

(* The bus keeps the promise of the ledger: FIFO, one at a time, each id   *)
(* started at most once with the payload last put under it, and nothing    *)
(* that was discarded ever runs.                                           *)
ImplementsLedger == Ledger!LedgerSpec

(* What cell_gateway.hpp says of the bus: its worker joins.                *)
WorkerJoins == (dtor = "flagged") ~> (dtor = "joined")

===============================================================================
