---------------------------- MODULE CellSupervisor ----------------------------
(***************************************************************************)
(* The declared state of a cell (gateway/cell_supervisor.hpp): its state,  *)
(* its latch, its last failure, and the cancel token motion reads.         *)
(*                                                                         *)
(* Each member function is one step under the supervisor's mutex, except   *)
(* estop(), which latches under the mutex and requests the cancel after    *)
(* releasing it: two steps.                                                *)
(***************************************************************************)
EXTENDS Naturals

CONSTANTS
  Callers,    \* threads that may be inside estop()
  NoError,    \* last_error_ empty
  Errors      \* the reasons a command can leave behind

ASSUME SupervisorAssumption == NoError \notin Errors

VARIABLES
  state,      \* state_
  last_error, \* last_error_
  latched,    \* latched_
  cancel,     \* cancel_: a stop has been requested and not cleared
  estopping   \* the callers between the two steps of estop()

sup_vars == <<state, last_error, latched, cancel, estopping>>

CellState == {"idle", "building", "planning", "moving", "held", "faulted"}
Working   == state \in {"building", "planning", "moving"}

SupInit ==
  /\ state = "idle"
  /\ last_error = NoError
  /\ latched = FALSE
  /\ cancel = FALSE
  /\ estopping = {}

BeginOk(next) ==
  /\ ~latched
  /\ state' = next
  /\ UNCHANGED <<last_error, latched, cancel, estopping>>

BeginRefused ==
  /\ latched
  /\ UNCHANGED sup_vars

(* Mutated forms of End: the state is written whatever the latch says; the *)
(* error of an earlier command outlives the success of this one.           *)
End_KeepsError ==
  /\ IF latched
     THEN UNCHANGED state
     ELSE state' = "idle"
  /\ cancel' = FALSE
  /\ UNCHANGED <<last_error, latched, estopping>>

End_IgnoresLatch ==
  /\ state' = "idle"
  /\ last_error' = NoError
  /\ cancel' = FALSE
  /\ UNCHANGED <<latched, estopping>>

End ==
  /\ IF latched
     THEN UNCHANGED <<state, last_error>>
     ELSE state' = "idle" /\ last_error' = NoError
  /\ cancel' = FALSE
  /\ UNCHANGED <<latched, estopping>>

Fault(why) ==
  /\ last_error' = why
  /\ state' = IF latched THEN state ELSE "faulted"
  /\ UNCHANGED <<latched, cancel, estopping>>

Stop ==
  /\ cancel' = TRUE
  /\ UNCHANGED <<state, last_error, latched, estopping>>

EstopLatch(c) ==
  /\ c \notin estopping
  /\ latched' = TRUE
  /\ state' = "held"
  /\ estopping' = estopping \cup {c}
  /\ UNCHANGED <<last_error, cancel>>

(* Mutated form of EstopCancel: only a cell that declares itself moving is *)
(* asked to stop, and the latch has already overwritten that.              *)
EstopCancel_OnlyIfMoving(c) ==
  /\ c \in estopping
  /\ cancel' = (cancel \/ state = "moving")
  /\ estopping' = estopping \ {c}
  /\ UNCHANGED <<state, last_error, latched>>

EstopCancel(c) ==
  /\ c \in estopping
  /\ cancel' = TRUE
  /\ estopping' = estopping \ {c}
  /\ UNCHANGED <<state, last_error, latched>>

Resume ==
  /\ latched
  /\ latched' = FALSE
  /\ state' = "idle"
  /\ last_error' = NoError
  /\ cancel' = FALSE
  /\ UNCHANGED estopping

SupNext ==
  \/ \E next \in {"building", "moving"} : BeginOk(next)
  \/ End
  \/ \E why \in Errors : Fault(why)
  \/ Stop
  \/ \E c \in Callers : EstopLatch(c) \/ EstopCancel(c)
  \/ Resume

SupSpec == SupInit /\ [][SupNext]_sup_vars

-------------------------------------------------------------------------------
(* Properties                                                              *)

(* Every variable has its type.                                            *)
SupTypeOK ==
  /\ state \in CellState
  /\ last_error \in Errors \cup {NoError}
  /\ latched \in BOOLEAN
  /\ cancel \in BOOLEAN
  /\ estopping \subseteq Callers

(* The declared state and the latch never disagree, whatever order the     *)
(* worker's and the callers' calls fall in: nothing the interrupted        *)
(* command says about itself outranks the operator.                        *)
HeldIffLatched == latched <=> state = "held"

(* The error a surface shows goes with the state it shows: an idle cell    *)
(* carries no failure, a faulted one says why.                             *)
ErrorMatchesState ==
  /\ state = "idle" => last_error = NoError
  /\ state = "faulted" => last_error # NoError

===============================================================================
