----------------------------- MODULE CommandLedger -----------------------------
(***************************************************************************)
(* What a caller of the command bus may rely on, with no queue, no worker  *)
(* loop and no locks: every id handed out is a commitment that is started  *)
(* in id order, one at a time, and ends either done or dropped, once.      *)
(* CommandBus implements this specification (CommandBus!Ledger).           *)
(***************************************************************************)
EXTENDS Naturals

CONSTANTS Items, NoItem, MaxId

VARIABLES
  fate,       \* what became of each id
  work        \* the payload an id stands for while it is pending or running

ledger_vars == <<fate, work>>

Ids   == 1..MaxId
Fates == {"free", "pending", "running", "done", "dropped"}

LedgerInit ==
  /\ fate = [i \in Ids |-> "free"]
  /\ work = [i \in Ids |-> NoItem]

(* The next id in order is handed out.                                     *)
Issue(i, item) ==
  /\ fate[i] = "free"
  /\ \A j \in 1..(i - 1) : fate[j] # "free"
  /\ fate' = [fate EXCEPT ![i] = "pending"]
  /\ work' = [work EXCEPT ![i] = item]

(* What a pending id stands for may still be replaced, a running one's not. *)
Amend(i, item) ==
  /\ fate[i] = "pending"
  /\ work' = [work EXCEPT ![i] = item]
  /\ UNCHANGED fate

Start(i) ==
  /\ fate[i] = "pending"
  /\ \A j \in Ids : fate[j] # "running"
  /\ \A j \in 1..(i - 1) : fate[j] # "pending"
  /\ fate' = [fate EXCEPT ![i] = "running"]
  /\ UNCHANGED work

End(i) ==
  /\ fate[i] = "running"
  /\ fate' = [fate EXCEPT ![i] = "done"]
  /\ work' = [work EXCEPT ![i] = NoItem]

(* Everything not yet started is given up at once, never a part of it.     *)
DropPending ==
  /\ fate' = [i \in Ids |-> IF fate[i] = "pending" THEN "dropped" ELSE fate[i]]
  /\ work' = [i \in Ids |-> IF fate[i] = "pending" THEN NoItem ELSE work[i]]

LedgerNext ==
  \/ \E i \in Ids, item \in Items : Issue(i, item) \/ Amend(i, item)
  \/ \E i \in Ids : Start(i) \/ End(i)
  \/ DropPending

LedgerSpec == LedgerInit /\ [][LedgerNext]_ledger_vars

===============================================================================
