----------------------------- MODULE SyncExecutive -----------------------------
(***************************************************************************)
(* One run of the synchronised executive (motion/sync_executive.hpp): the  *)
(* path clock all axes share, the cancel ramp, the cell-coherent safety    *)
(* hold and the way a run ends.                                            *)
(*                                                                         *)
(* Time is counted in cycles of the control loop.  Path time is counted in *)
(* units of 1/StopCycles of a cycle, which makes the ramp exact: path_rate *)
(* 1.0 is StopCycles units a cycle and a cancelled cycle takes one unit    *)
(* off it.  Axes, setpoints and jitter are abstracted away: they follow    *)
(* the path clock and never feed back into it.                             *)
(***************************************************************************)
EXTENDS Naturals

CONSTANTS
  PlanCycles,   \* duration_s / dt_s
  SettleCycles, \* settle_s / dt_s
  StopCycles    \* stop_time_s / dt_s

ASSUME ExecAssumption ==
  /\ PlanCycles \in Nat
  /\ SettleCycles \in Nat
  /\ StopCycles \in Nat \ {0}

VARIABLES
  run,          \* "off", "cycling", or "returned" with its statistics unread
  path,         \* path_s
  rate,         \* path_rate
  cycle,        \* c
  settle_left,  \* settle_left
  stopped_early \* stats.stopped_early

exec_vars == <<run, path, rate, cycle, settle_left, stopped_early>>

FullRate == StopCycles
Goal     == PlanCycles * StopCycles
NCycles  == PlanCycles + SettleCycles + 1
(* Mutated form of MaxCycles: no allowance for the ramp.                   *)
MaxCycles_NoRamp == NCycles
MaxCycles == NCycles + StopCycles + 1

ExecInit ==
  /\ run = "off"
  /\ path = 0
  /\ rate = FullRate
  /\ cycle = 0
  /\ settle_left = SettleCycles + 1
  /\ stopped_early = FALSE

(* The locals of run() take their initial values.                          *)
StartRun ==
  /\ run = "off"
  /\ run' = "cycling"
  /\ UNCHANGED <<path, rate, cycle, settle_left, stopped_early>>

-------------------------------------------------------------------------------
(* One cycle, given what it reads: the cancel token and the axes' safety.  *)

(* Mutated form of NextRate: the ramp stops one unit short of zero.        *)
NextRate_NeverZero(requested) ==
  IF requested /\ rate > 1 THEN rate - 1 ELSE rate

NextRate(requested) == IF requested /\ rate > 0 THEN rate - 1 ELSE rate

NextPath(requested, unsafe) ==
  IF unsafe THEN path
  ELSE IF path + NextRate(requested) < Goal THEN path + NextRate(requested)
  ELSE Goal

Finished == rate' = 0 \/ path' >= Goal

Advance(requested, unsafe) ==
  /\ run = "cycling"
  /\ rate' = NextRate(requested)
  /\ path' = NextPath(requested, unsafe)
  /\ cycle' = cycle + 1

(* Mutated form of ReturnSettled: one settling cycle is skipped.           *)
ReturnSettled_TooSoon ==
  /\ Finished
  /\ settle_left <= 1
  /\ run' = "returned"
  /\ stopped_early' = (rate' = 0 /\ path' < Goal)
  /\ UNCHANGED settle_left

ReturnSettled ==
  /\ Finished
  /\ settle_left = 0
  /\ run' = "returned"
  /\ stopped_early' = (rate' = 0 /\ path' < Goal)
  /\ UNCHANGED settle_left

KeepCycling ==
  /\ ~(Finished /\ settle_left = 0)
  /\ settle_left' = IF Finished THEN settle_left - 1 ELSE settle_left
  /\ run' = IF cycle' = MaxCycles THEN "returned" ELSE "cycling"
  /\ UNCHANGED stopped_early

Cycle(requested, unsafe) ==
  /\ Advance(requested, unsafe)
  /\ ReturnSettled \/ KeepCycling

(* The caller has read the statistics: nothing of the run is left.         *)
EndRun ==
  /\ run = "returned"
  /\ run' = "off"
  /\ path' = 0
  /\ rate' = FullRate
  /\ cycle' = 0
  /\ settle_left' = SettleCycles + 1
  /\ stopped_early' = FALSE

ExecTypeOK ==
  /\ run \in {"off", "cycling", "returned"}
  /\ path \in 0..Goal
  /\ rate \in 0..FullRate
  /\ cycle \in 0..MaxCycles
  /\ settle_left \in 0..(SettleCycles + 1)
  /\ stopped_early \in BOOLEAN

===============================================================================
