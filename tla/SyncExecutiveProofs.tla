--------------------------- MODULE SyncExecutiveProofs ---------------------------
(***************************************************************************)
(* What one call of the executive keeps, for every length of plan, of      *)
(* settling and of ramp, whatever its cycles read.                         *)
(***************************************************************************)
EXTENDS SyncExecutive, TLAPS

(* The numbers of cycles are numbers.                                      *)
LEMMA ExecConstants ==
  /\ PlanCycles \in Nat
  /\ SettleCycles \in Nat
  /\ StopCycles \in Nat /\ StopCycles >= 1
  /\ FullRate = StopCycles
  /\ Goal \in Nat
  /\ MaxCycles = PlanCycles + SettleCycles + StopCycles + 2
  BY ExecAssumption DEF FullRate, Goal, MaxCycles, NCycles

(***************************************************************************)
(* A run that is not going on is as run() will find its locals; one that   *)
(* is has cycles left; and it settles only once it is finished.            *)
(***************************************************************************)
ExecInv ==
  /\ ExecTypeOK
  /\ run = "off" =>
       /\ path = 0 /\ rate = FullRate /\ cycle = 0
       /\ settle_left = SettleCycles + 1
       /\ stopped_early = FALSE
  /\ run = "cycling" => cycle < MaxCycles /\ stopped_early = FALSE
  /\ stopped_early = TRUE => rate = 0 /\ path < Goal
  /\ run = "cycling" /\ rate > 0 /\ path < Goal => settle_left = SettleCycles + 1

LEMMA InitExecInv == ExecInit => ExecInv
<1> SUFFICES ASSUME ExecInit PROVE ExecInv
  OBVIOUS
<1>1. /\ 0 \in 0..Goal /\ FullRate \in 0..FullRate /\ 0 \in 0..MaxCycles
      /\ SettleCycles + 1 \in 0..(SettleCycles + 1)
  BY ExecConstants
<1>2. stopped_early \in BOOLEAN /\ ~(stopped_early = TRUE)
  BY DEF ExecInit
<1> QED BY <1>1, <1>2 DEF ExecInit, ExecInv, ExecTypeOK

LEMMA StartRunKeepsExecInv == ExecInv /\ StartRun => ExecInv'
  BY ExecConstants DEF ExecInv, ExecTypeOK, StartRun

LEMMA EndRunKeepsExecInv == ExecInv /\ EndRun => ExecInv'
<1> SUFFICES ASSUME EndRun PROVE ExecInv'
  OBVIOUS
<1>1. /\ 0 \in 0..Goal /\ FullRate \in 0..FullRate /\ 0 \in 0..MaxCycles
      /\ SettleCycles + 1 \in 0..(SettleCycles + 1)
  BY ExecConstants
<1>2. stopped_early' \in BOOLEAN /\ ~(stopped_early' = TRUE)
  BY DEF EndRun
<1> QED BY <1>1, <1>2 DEF EndRun, ExecInv, ExecTypeOK

LEMMA ExecNumbers ==
  ASSUME ExecInv
  PROVE  /\ path \in Nat /\ path <= Goal /\ Goal \in Nat
         /\ rate \in Nat /\ rate <= FullRate
         /\ FullRate = StopCycles /\ StopCycles \in Nat /\ StopCycles >= 1
         /\ cycle \in Nat /\ cycle <= MaxCycles /\ MaxCycles \in Nat
         /\ settle_left \in Nat /\ settle_left <= SettleCycles + 1
         /\ SettleCycles \in Nat
  BY ExecConstants DEF ExecInv, ExecTypeOK

(* How a cycle moves the two clocks of a run.                              *)
LEMMA CycleMoves ==
  ASSUME ExecInv, NEW requested \in BOOLEAN, NEW unsafe \in BOOLEAN,
         Cycle(requested, unsafe)
  PROVE  /\ run = "cycling" /\ run' \in {"cycling", "returned"}
         /\ cycle' = cycle + 1
         /\ requested = TRUE /\ rate > 0 => rate' = rate - 1
         /\ requested = FALSE \/ rate = 0 => rate' = rate
         /\ rate' \in Nat /\ rate' <= rate
         /\ path' \in Nat /\ path <= path' /\ path' <= Goal /\ path' <= path + rate'
         /\ unsafe = FALSE =>
              path' = path + rate' \/ (path + rate' >= Goal /\ path' = Goal)
<1>1. run = "cycling" /\ run' \in {"cycling", "returned"} /\ cycle' = cycle + 1
  BY DEF Cycle, Advance, ReturnSettled, KeepCycling
<1>2. rate' = NextRate(requested) /\ path' = NextPath(requested, unsafe)
  BY DEF Cycle, Advance
<1>3. /\ requested = TRUE /\ rate > 0 => rate' = rate - 1
      /\ requested = FALSE \/ rate = 0 => rate' = rate
  BY <1>2, ExecNumbers DEF NextRate
<1>4. rate' \in Nat /\ rate' <= rate
  <2>1. rate = 0 \/ rate > 0
    BY ExecNumbers
  <2>2. (rate > 0 /\ rate' = rate - 1) \/ rate' = rate
    BY <1>3, <2>1, Zenon
  <2> QED BY <2>2, ExecNumbers
<1>5. CASE unsafe = TRUE
  <2>1. path' = path
    BY <1>2, <1>5 DEF NextPath
  <2>2. /\ path' \in Nat /\ path <= path' /\ path' <= Goal /\ path' <= path + rate'
    BY <1>4, <2>1, ExecNumbers
  <2> QED BY <1>1, <1>3, <1>4, <1>5, <2>2, Zenon
<1>6. CASE unsafe = FALSE
  <2>1. path' = IF path + rate' < Goal THEN path + rate' ELSE Goal
    BY <1>2, <1>6 DEF NextPath
  <2>2. /\ path' \in Nat /\ path <= path' /\ path' <= Goal /\ path' <= path + rate'
        /\ path' = path + rate' \/ (path + rate' >= Goal /\ path' = Goal)
    <3>1. CASE path + rate' < Goal
      BY <1>4, <2>1, <3>1, ExecNumbers
    <3>2. CASE path + rate' >= Goal
      BY <1>4, <2>1, <3>2, ExecNumbers
    <3> QED BY <1>4, <3>1, <3>2, ExecNumbers
  <2> QED BY <1>1, <1>3, <1>4, <2>2, Zenon
<1> QED BY <1>5, <1>6

LEMMA CycleKeepsExecInv ==
  ASSUME ExecInv, NEW requested \in BOOLEAN, NEW unsafe \in BOOLEAN,
         Cycle(requested, unsafe)
  PROVE  ExecInv'
<1>1. /\ run = "cycling" /\ run' \in {"cycling", "returned"}
      /\ cycle' = cycle + 1
      /\ rate' \in Nat /\ rate' <= rate
      /\ path' \in Nat /\ path <= path' /\ path' <= Goal
  BY CycleMoves
<1>2. /\ cycle < MaxCycles /\ stopped_early = FALSE
      /\ rate > 0 /\ path < Goal => settle_left = SettleCycles + 1
  BY <1>1 DEF ExecInv
<1>3. rate' \in 0..FullRate /\ path' \in 0..Goal /\ cycle' \in 0..MaxCycles
  BY <1>1, <1>2, ExecNumbers
<1>4. CASE ReturnSettled
  <2>1. /\ run' = "returned" /\ settle_left' = settle_left
        /\ stopped_early' = (rate' = 0 /\ path' < Goal)
    BY <1>4 DEF ReturnSettled
  <2> QED BY <1>3, <2>1, ExecNumbers DEF ExecInv, ExecTypeOK
<1>5. CASE KeepCycling
  <2>1. /\ settle_left' = IF Finished THEN settle_left - 1 ELSE settle_left
        /\ ~(Finished /\ settle_left = 0)
        /\ run' = IF cycle' = MaxCycles THEN "returned" ELSE "cycling"
        /\ stopped_early' = stopped_early
    BY <1>5 DEF KeepCycling
  <2>2. settle_left' \in 0..(SettleCycles + 1)
    BY <2>1, ExecNumbers
  <2>3. run' = "cycling" => cycle' < MaxCycles
    BY <1>1, <1>2, <2>1, ExecNumbers
  <2>4. rate' > 0 /\ path' < Goal => settle_left' = SettleCycles + 1
    BY <1>1, <1>2, <2>1, ExecNumbers DEF Finished
  <2> QED BY <1>1, <1>2, <1>3, <2>1, <2>2, <2>3, <2>4 DEF ExecInv, ExecTypeOK
<1> QED BY <1>4, <1>5 DEF Cycle

LEMMA ExecUnchanged == ExecInv /\ UNCHANGED exec_vars => ExecInv'
  BY DEF ExecInv, ExecTypeOK, exec_vars

===============================================================================
