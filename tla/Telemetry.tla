------------------------------- MODULE Telemetry -------------------------------
(***************************************************************************)
(* What a cell shows of itself (gateway/telemetry_publisher.hpp,           *)
(* CellGateway::progress and publish): the one snapshot every surface      *)
(* reads, and the threads that replace it.                                 *)
(*                                                                         *)
(* A frame is put together outside any lock that covers all it reads, and  *)
(* stored later; the threads that do so are not ordered.  `draft` is what  *)
(* a thread has read so far.  Of a frame only its progress is kept: the    *)
(* positions, poses and contacts that last_ carries from one frame to the  *)
(* next are left out, and last_ with them; so are the reason of a failure  *)
(* and the step of a program, which no waiter decides on.                  *)
(***************************************************************************)
EXTENDS Naturals

CONSTANT
  Writers    \* threads that publish: the worker, the ticker, the callers

VARIABLES
  shown,     \* telem_snap_
  draft      \* per thread, what it has read of its next frame

NoDraft == <<>>   \* a thread that is not putting a frame together

tele_vars == <<shown, draft>>

(* progress_of(): the one predicate every waiter shares.                   *)
Settled(f) == f.applied >= f.accepted /\ ~f.working

(* Mutated form of Running: what is not idle is shown as work.             *)
Running_NotIdle(name, working) == name # "idle"

(* The supervisor's answer, not a guess from the name.                     *)
Running(name, working) == working

TeleInit ==
  /\ shown = [applied |-> 0, accepted |-> 0, latched |-> FALSE, working |-> FALSE]
  /\ draft = [w \in Writers |-> NoDraft]

Has(w, fields) == DOMAIN draft[w] = fields

Draft(w, frame) ==
  /\ draft' = [draft EXCEPT ![w] = frame]
  /\ UNCHANGED shown

(* progress() reads the bus's two numbers and then what the supervisor     *)
(* declares, under one mutex after the other.  The two numbers are one     *)
(* step here: applied is read first, and no reading with a store or a      *)
(* submission between the two shows a cell more settled than it was.       *)
ReadCounts(w, applied, accepted) ==
  /\ Has(w, {})
  /\ Draft(w, [applied |-> applied, accepted |-> accepted])

ReadDeclared(w, name, held, working) ==
  /\ Has(w, {"applied", "accepted"})
  /\ Draft(w, [applied |-> draft[w].applied, accepted |-> draft[w].accepted,
               latched |-> held, working |-> Running(name, working)])

Complete(w) == Has(w, DOMAIN shown)

(* Store the frame, whatever has been stored since its numbers were read.  *)
(* publish() stores the whole frame, update_progress() its numbers only.   *)
Store(w) ==
  /\ Complete(w)
  /\ shown' = draft[w]
  /\ draft' = [draft EXCEPT ![w] = NoDraft]

================================================================================
