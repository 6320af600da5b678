------------------------------ MODULE ExecutiveRun ------------------------------
(***************************************************************************)
(* The executive under every environment it can meet: in each cycle the    *)
(* cancel token may have been requested or cleared by another thread, and  *)
(* any axis may report that it is not safe.  Three history variables       *)
(* remember what the run went through.                                     *)
(***************************************************************************)
EXTENDS SyncExecutive

VARIABLES
  holds,      \* history: some cycle held for safety (safety_hold_cycles > 0)
  withdrawn,  \* history: a request seen by a cycle was gone in a later one
  ramp_path,  \* history: the path clock when the first request was seen
  rest        \* history: how many cycles ago the path clock last moved

run_vars == <<run, path, rate, cycle, settle_left, stopped_early,
              holds, withdrawn, ramp_path, rest>>

RunInit ==
  /\ ExecInit
  /\ holds = FALSE
  /\ withdrawn = FALSE
  /\ ramp_path = 0
  /\ rest = 0

Begin ==
  /\ StartRun
  /\ UNCHANGED <<holds, withdrawn, ramp_path, rest>>

Step(requested, unsafe) ==
  /\ Cycle(requested, unsafe)
  /\ holds' = (holds \/ unsafe)
  /\ withdrawn' = (withdrawn \/ (~requested /\ rate < FullRate))
  /\ ramp_path' = IF requested /\ rate = FullRate THEN path ELSE ramp_path
  /\ rest' = IF path' = path THEN rest + 1 ELSE 0

Leave ==
  /\ EndRun
  /\ holds' = FALSE
  /\ withdrawn' = FALSE
  /\ ramp_path' = 0
  /\ rest' = 0

RunNext ==
  \/ Begin
  \/ \E requested, unsafe \in BOOLEAN : Step(requested, unsafe)
  \/ Leave

RunSpec == RunInit /\ [][RunNext]_run_vars

-------------------------------------------------------------------------------
(* Properties                                                              *)

(* Every variable has its type: the path clock stays on the plan, and the  *)
(* loop ends within the cycles prepare() reserved rows for.                *)
RunTypeOK ==
  /\ ExecTypeOK
  /\ holds \in BOOLEAN
  /\ withdrawn \in BOOLEAN
  /\ ramp_path \in 0..Goal
  /\ rest \in 0..MaxCycles

(* A run that claims success reached its goal, unless a safety hold or a   *)
(* withdrawn stop ate its cycles: the budget of cycles is enough for the   *)
(* plan, for the settling, and for a stop that begins at any cycle.        *)
GoalOrReason ==
  run = "returned" /\ path < Goal => stopped_early \/ holds \/ withdrawn

(* A stop that stands brings the path clock to rest within the distance a  *)
(* ramp over stop_time_s covers, whenever it arrives and however many      *)
(* safety holds fall into it: half of what full rate would have covered.   *)
StopsWithinRamp ==
  rate < FullRate /\ ~withdrawn =>
    2 * (path - ramp_path) <= StopCycles * (StopCycles - 1) - rate * (rate - 1)

(* Nothing is handed back while it still moves: an undisturbed run returns *)
(* after the settling cycles with the path clock at rest, and a stopped    *)
(* one reports so only after one more.                                     *)
ReturnsAtRest ==
  run = "returned" =>
    /\ ~holds /\ ~withdrawn => rest >= SettleCycles + 1
    /\ stopped_early => rest >= SettleCycles + 2

===============================================================================
