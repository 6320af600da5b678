------------------------------- MODULE MotionProofs -------------------------------
(***************************************************************************)
(* What the executive promises under every environment it can meet, and    *)
(* that this holds of the executive inside the motion service: planning,   *)
(* validating, governing and reporting never touch the path clock, so a    *)
(* motion is a run of ExecutiveRun or a step that stutters for it.         *)
(***************************************************************************)
EXTENDS Motion, SyncExecutiveProofs, FiniteSetTheorems, SequenceTheorems, TLAPS

Clean == holds = FALSE /\ withdrawn = FALSE

(* A request, once seen and never withdrawn, is what slowed the run down.  *)
RampInv ==
  /\ ramp_path \in 0..Goal
  /\ rate < FullRate /\ withdrawn = FALSE =>
       2 * (path - ramp_path) <= StopCycles * (StopCycles - 1) - rate * (rate - 1)

(* How long the path clock has been still against how long it has settled. *)
RestInv ==
  /\ rest \in 0..cycle
  /\ run = "cycling" =>
       /\ rest + settle_left >= SettleCycles
       /\ path < Goal => rest + settle_left >= SettleCycles + 1

(***************************************************************************)
(* The budget.  Undisturbed, the path clock is exactly the cycles times    *)
(* the full rate, so a request that finds the goal not reached comes in    *)
(* the first PlanCycles cycles; from there the cycles used and the rate    *)
(* left never exceed the plan and the ramp, and what is left of MaxCycles  *)
(* covers the settling.                                                    *)
(***************************************************************************)
BudgetInv ==
  run = "cycling" /\ Clean =>
    /\ rate = FullRate /\ path < Goal => path = cycle * StopCycles
    /\ rate > 0 /\ path < Goal => cycle + rate < PlanCycles + StopCycles
    /\ rate = 0 \/ path = Goal =>
         cycle + settle_left <= PlanCycles + StopCycles + SettleCycles

RunInv ==
  /\ ExecInv
  /\ holds \in BOOLEAN /\ withdrawn \in BOOLEAN
  /\ RampInv
  /\ RestInv
  /\ BudgetInv
  /\ GoalOrReason
  /\ ReturnsAtRest

-------------------------------------------------------------------------------
(* Products with the number of cycles of a ramp compare as their factors.  *)
LEMMA PathOfCycles ==
  /\ \A c \in Nat : (c + 1) * StopCycles = c * StopCycles + StopCycles
  /\ \A c \in Nat : c * StopCycles < Goal => c < PlanCycles
<1>1. ASSUME NEW c \in Nat
      PROVE  (c + 1) * StopCycles = c * StopCycles + StopCycles
  BY ExecConstants
<1>2. ASSUME NEW c \in Nat, c * StopCycles < Goal
      PROVE  c < PlanCycles
  <2> SUFFICES ASSUME c >= PlanCycles PROVE FALSE
    BY ExecConstants
  <2>1. PICK d \in Nat : c = PlanCycles + d
    <3>1. c - PlanCycles \in Nat /\ c = PlanCycles + (c - PlanCycles)
      BY ExecConstants
    <3> QED BY <3>1
  <2>2. c * StopCycles = PlanCycles * StopCycles + d * StopCycles
    BY <2>1, ExecConstants
  <2>3. d * StopCycles >= 0
    BY <2>1, ExecConstants
  <2> QED BY <1>2, <2>2, <2>3, ExecConstants DEF Goal
<1> QED BY <1>1, <1>2

LEMMA SumsCompare ==
  \A c, p, r, s \in Nat : c < p /\ r <= s => c + r < p + s
  OBVIOUS

LEMMA InitRunInv == RunInit => RunInv
<1> SUFFICES ASSUME RunInit PROVE RunInv
  OBVIOUS
<1>1. ExecInv
  BY InitExecInv DEF RunInit
<1>2. run = "off" /\ cycle = 0 /\ rest = 0 /\ rate = FullRate /\ ramp_path = 0
  BY DEF RunInit, ExecInit
<1>3. RampInv /\ RestInv
  BY <1>2, ExecConstants DEF RampInv, RestInv
<1>4. BudgetInv /\ GoalOrReason /\ ReturnsAtRest
  BY <1>2 DEF BudgetInv, GoalOrReason, ReturnsAtRest
<1> QED BY <1>1, <1>3, <1>4 DEF RunInv, RunInit

LEMMA BeginKeepsRunInv == RunInv /\ Begin => RunInv'
<1> SUFFICES ASSUME RunInv, Begin PROVE RunInv'
  OBVIOUS
<1>1. ExecInv' /\ ExecInv
  BY StartRunKeepsExecInv DEF Begin, RunInv
<1>2. /\ run' = "cycling" /\ path' = 0 /\ rate' = FullRate /\ cycle' = 0
      /\ settle_left' = SettleCycles + 1
      /\ UNCHANGED <<holds, withdrawn, ramp_path, rest>>
  BY <1>1 DEF Begin, StartRun, ExecInv
<1>3. RampInv'
  BY <1>2, ExecConstants DEF RunInv, RampInv
<1>4. RestInv' /\ BudgetInv'
  <2>1. rest = 0
    BY <1>1 DEF RunInv, RestInv, Begin, StartRun, ExecInv
  <2>2. 0 = 0 * StopCycles
    BY ExecConstants
  <2>3. 0 < Goal => 0 < PlanCycles
    BY <2>2, PathOfCycles
  <2> QED BY <1>2, <2>1, <2>2, <2>3, ExecConstants DEF RestInv, BudgetInv
<1> QED BY <1>1, <1>2, <1>3, <1>4 DEF RunInv, GoalOrReason, ReturnsAtRest

LEMMA LeaveKeepsRunInv == RunInv /\ Leave => RunInv'
<1> SUFFICES ASSUME RunInv, Leave PROVE RunInv'
  OBVIOUS
<1>1. ExecInv'
  BY EndRunKeepsExecInv DEF Leave, RunInv
<1>2. run' = "off" /\ cycle' = 0 /\ rest' = 0 /\ rate' = FullRate /\ ramp_path' = 0
      /\ holds' = FALSE /\ withdrawn' = FALSE
  BY DEF Leave, EndRun
<1>3. RampInv' /\ RestInv'
  BY <1>2, ExecConstants DEF RampInv, RestInv
<1>4. BudgetInv' /\ GoalOrReason' /\ ReturnsAtRest'
  BY <1>2 DEF BudgetInv, GoalOrReason, ReturnsAtRest
<1> QED BY <1>1, <1>2, <1>3, <1>4 DEF RunInv

-------------------------------------------------------------------------------
(* What one more cycle at rate r adds to twice the distance of a ramp.     *)
LEMMA RampArithmetic ==
  ASSUME NEW s \in Int, NEW r \in Int, NEW p \in Int, NEW q \in Int, NEW m \in Int,
         q <= p + r,
         2 * (p - m) <= s - (r + 1) * r
  PROVE  2 * (q - m) <= s - r * (r - 1)
<1>1. (r + 1) * r = r * (r - 1) + 2 * r
  OBVIOUS
<1>2. PICK b \in Int : b = r * (r - 1)
  OBVIOUS
<1>3. 2 * (p - m) <= s - b - 2 * r
  BY <1>1, <1>2
<1> QED BY <1>2, <1>3

(* One cycle: what it did to the histories beside the clocks.              *)
LEMMA StepFacts ==
  ASSUME RunInv, NEW requested \in BOOLEAN, NEW unsafe \in BOOLEAN,
         Step(requested, unsafe)
  PROVE  /\ ExecInv /\ ExecInv' /\ Cycle(requested, unsafe)
         /\ run = "cycling" /\ cycle < MaxCycles
         /\ rate > 0 /\ path < Goal => settle_left = SettleCycles + 1
<1>1. ExecInv /\ ExecInv' /\ Cycle(requested, unsafe)
  BY CycleKeepsExecInv DEF Step, RunInv
<1> QED BY <1>1, CycleMoves DEF ExecInv

(* A history that is still clear says what this cycle read.                *)
LEMMA StepHistories ==
  ASSUME RunInv, NEW requested \in BOOLEAN, NEW unsafe \in BOOLEAN,
         Step(requested, unsafe)
  PROVE  /\ holds' \in BOOLEAN /\ withdrawn' \in BOOLEAN
         /\ withdrawn' = FALSE => withdrawn = FALSE /\ (requested = TRUE \/ rate = FullRate)
         /\ holds' = FALSE => holds = FALSE /\ unsafe = FALSE
<1>1. rate < FullRate \/ rate = FullRate
  BY StepFacts, ExecNumbers
<1>2. /\ withdrawn' = (withdrawn \/ (~requested /\ rate < FullRate))
      /\ holds' = (holds \/ unsafe)
      /\ withdrawn \in BOOLEAN /\ holds \in BOOLEAN
  BY DEF Step, RunInv
<1> QED BY <1>1, <1>2, Zenon

(* The numbers of one cycle.                                               *)
LEMMA StepNumbers ==
  ASSUME RunInv, NEW requested \in BOOLEAN, NEW unsafe \in BOOLEAN,
         Step(requested, unsafe)
  PROVE  /\ path \in Nat /\ path' \in Nat /\ rate \in Nat /\ rate' \in Nat
         /\ cycle \in Nat /\ settle_left \in Nat /\ settle_left' \in Nat
         /\ Goal \in Nat /\ StopCycles \in Nat /\ SettleCycles \in Nat /\ MaxCycles \in Nat
         /\ FullRate = StopCycles /\ StopCycles >= 1
         /\ path <= Goal /\ path <= path' /\ path' <= Goal /\ path' <= path + rate'
         /\ rate <= FullRate /\ rate' <= rate
         /\ cycle' = cycle + 1 /\ cycle < MaxCycles
<1>1. /\ path \in Nat /\ rate \in Nat /\ cycle \in Nat /\ settle_left \in Nat
      /\ Goal \in Nat /\ StopCycles \in Nat /\ SettleCycles \in Nat /\ MaxCycles \in Nat
      /\ FullRate = StopCycles /\ StopCycles >= 1 /\ path <= Goal /\ rate <= FullRate
  BY StepFacts, ExecNumbers, Zenon
<1>2. settle_left' \in Nat
  <2>1. settle_left' \in 0..(SettleCycles + 1)
    BY StepFacts, Zenon DEF ExecInv, ExecTypeOK
  <2> QED BY <1>1, <2>1
<1>3. /\ path' \in Nat /\ rate' \in Nat /\ rate' <= rate /\ cycle' = cycle + 1
      /\ path <= path' /\ path' <= Goal /\ path' <= path + rate' /\ cycle < MaxCycles
  BY StepFacts, CycleMoves, Zenon
<1> QED BY <1>1, <1>2, <1>3, Zenon

LEMMA StepKeepsRamp ==
  ASSUME RunInv, NEW requested \in BOOLEAN, NEW unsafe \in BOOLEAN,
         Step(requested, unsafe)
  PROVE  RampInv'
<1>1. /\ path \in Nat /\ path <= Goal /\ rate \in Nat /\ rate <= FullRate
      /\ path' \in Nat /\ path' <= Goal /\ path <= path' /\ path' <= path + rate'
      /\ rate' \in Nat
      /\ FullRate = StopCycles /\ StopCycles \in Nat /\ StopCycles >= 1
      /\ Goal \in Nat /\ ramp_path \in 0..Goal
  BY StepFacts, CycleMoves, ExecNumbers DEF RunInv, RampInv
<1>2. ramp_path' \in 0..Goal
  BY <1>1 DEF Step
<1>3. ASSUME rate' < FullRate, withdrawn' = FALSE
      PROVE  2 * (path' - ramp_path') <=
               StopCycles * (StopCycles - 1) - rate' * (rate' - 1)
  <2>1. CASE rate = FullRate
    <3>1. CASE requested = TRUE
      <4>0. rate > 0
        BY <1>1, <2>1
      <4>1. rate' = rate - 1 /\ ramp_path' = path
        BY <2>1, <3>1, <4>0, StepFacts, CycleMoves, Zenon DEF Step
      <4>2. 2 * (path - path) <= StopCycles * (StopCycles - 1) - (rate' + 1) * rate'
        BY <1>1, <2>1, <4>1
      <4> DEFINE s == StopCycles * (StopCycles - 1)
      <4>3. s \in Int
        BY ExecConstants
      <4>4. /\ rate' \in Int /\ path \in Int /\ path' \in Int
        BY <1>1
      <4>5. 2 * (path - path) <= s - (rate' + 1) * rate'
        BY <4>2
      <4>6. 2 * (path' - path) <= s - rate' * (rate' - 1)
        <5> HIDE DEF s
        <5>1. path' <= path + rate'
          BY <1>1
        <5> QED BY <4>3, <4>4, <4>5, <5>1, RampArithmetic
      <4> QED BY <4>1, <4>6
    <3>2. CASE requested = FALSE
      <4>1. rate' = rate
        BY <3>2, StepFacts, CycleMoves, Zenon
      <4> QED BY <1>1, <1>3, <2>1, <4>1
    <3> QED BY <3>1, <3>2
  <2>2. CASE rate < FullRate
    <3>0. rate # FullRate
      BY <1>1, <2>2
    <3>1. requested = TRUE /\ withdrawn = FALSE
      BY <1>3, <3>0, StepHistories, Zenon
    <3>2. ramp_path' = ramp_path
      BY <1>1, <2>2 DEF Step
    <3>3. 2 * (path - ramp_path) <= StopCycles * (StopCycles - 1) - rate * (rate - 1)
      BY <2>2, <3>1 DEF RunInv, RampInv
    <3>4. CASE rate = 0
      <4>1. rate' = rate
        BY <3>4, StepFacts, CycleMoves, Zenon
      <4>2. path' = path
        BY <1>1, <3>4, <4>1
      <4> QED BY <3>2, <3>3, <4>1, <4>2
    <3>5. CASE rate > 0
      <4>1. rate' = rate - 1
        BY <3>1, <3>5, StepFacts, CycleMoves, Zenon
      <4>2. 2 * (path - ramp_path) <= StopCycles * (StopCycles - 1) - (rate' + 1) * rate'
        BY <1>1, <3>3, <4>1
      <4> DEFINE s == StopCycles * (StopCycles - 1)
      <4>3. s \in Int
        BY ExecConstants
      <4>4. /\ rate' \in Int /\ path \in Int /\ path' \in Int
            /\ ramp_path \in Int
        BY <1>1
      <4>5. 2 * (path - ramp_path) <= s - (rate' + 1) * rate'
        BY <4>2
      <4>6. 2 * (path' - ramp_path) <= s - rate' * (rate' - 1)
        <5> HIDE DEF s
        <5>1. path' <= path + rate'
          BY <1>1
        <5> QED BY <4>3, <4>4, <4>5, <5>1, RampArithmetic
      <4> QED BY <3>2, <4>6
    <3> QED BY <1>1, <3>4, <3>5
  <2> QED BY <1>1, <2>1, <2>2
<1> QED BY <1>2, <1>3 DEF RampInv

(* What the counters of one cycle do, when it does not return settled.     *)
LEMMA StepKeepsCycling ==
  ASSUME RunInv, NEW requested \in BOOLEAN, NEW unsafe \in BOOLEAN,
         Step(requested, unsafe), KeepCycling
  PROVE  /\ rate' = 0 \/ path' = Goal => settle_left' = settle_left - 1 /\ settle_left >= 1
         /\ rate' > 0 /\ path' < Goal => settle_left' = settle_left
         /\ stopped_early' = FALSE
         /\ run' = "returned" => cycle' = MaxCycles
<1>1. stopped_early = FALSE
  BY StepFacts DEF ExecInv
<1>2. stopped_early' = FALSE /\ (run' = "returned" => cycle' = MaxCycles)
  BY <1>1 DEF KeepCycling
<1>3. Finished <=> rate' = 0 \/ path' = Goal
  BY StepNumbers DEF Finished
<1>4. rate' > 0 /\ path' < Goal => ~Finished
  BY StepNumbers DEF Finished
<1>5. Finished => settle_left' = settle_left - 1 /\ settle_left >= 1
  BY StepNumbers DEF KeepCycling
<1>6. ~Finished => settle_left' = settle_left
  BY DEF KeepCycling
<1> QED BY <1>2, <1>3, <1>4, <1>5, <1>6

LEMMA StepMovesRest ==
  ASSUME RunInv, NEW requested \in BOOLEAN, NEW unsafe \in BOOLEAN,
         Step(requested, unsafe)
  PROVE  /\ rest \in Nat /\ rest <= cycle
         /\ path' = path => rest' = rest + 1
         /\ path' # path => rest' = 0 /\ rate > 0 /\ rate' > 0 /\ path < Goal
<1>1. rest \in 0..cycle /\ rest' = IF path' = path THEN rest + 1 ELSE 0
  BY DEF Step, RunInv, RestInv
<1>2. path' # path => rate > 0 /\ rate' > 0 /\ path < Goal
  BY StepNumbers
<1> QED BY <1>1, <1>2, StepNumbers

LEMMA StepKeepsRest ==
  ASSUME RunInv, NEW requested \in BOOLEAN, NEW unsafe \in BOOLEAN,
         Step(requested, unsafe)
  PROVE  RestInv'
<1>1. rest' \in 0..cycle'
  BY StepNumbers, StepMovesRest
<1>2. ASSUME run' = "cycling"
      PROVE  /\ rest' + settle_left' >= SettleCycles
             /\ path' < Goal => rest' + settle_left' >= SettleCycles + 1
  <2>1. KeepCycling
    BY <1>2, StepFacts DEF Cycle, ReturnSettled
  <2>2. settle_left' \in Nat /\ settle_left' >= settle_left - 1
    <3>1. (rate' = 0 \/ path' = Goal) \/ (rate' > 0 /\ path' < Goal)
      BY StepNumbers
    <3>2. (settle_left' = settle_left - 1 /\ settle_left >= 1) \/ settle_left' = settle_left
      BY <2>1, <3>1, StepKeepsCycling
    <3> QED BY <3>2, StepNumbers
  <2>3. CASE path' = path
    <3>1. /\ rest + settle_left >= SettleCycles
          /\ path < Goal => rest + settle_left >= SettleCycles + 1
      BY StepFacts DEF RunInv, RestInv
    <3>2. rest' = rest + 1 /\ rest \in Nat
      BY <2>3, StepMovesRest
    <3>3. rest' + settle_left' >= rest + settle_left
      BY <2>2, <3>2, StepNumbers
    <3> QED BY <2>2, <2>3, <3>1, <3>2, <3>3, StepNumbers
  <2>4. CASE path' # path
    <3>1. settle_left = SettleCycles + 1 /\ rest' = 0 /\ rate' > 0
      BY <2>4, StepMovesRest, StepFacts, Zenon
    <3>2. path' < Goal => settle_left' = SettleCycles + 1
      BY <2>1, <3>1, StepKeepsCycling
    <3> QED BY <2>2, <3>1, <3>2, StepNumbers
  <2> QED BY <2>3, <2>4
<1> QED BY <1>1, <1>2 DEF RestInv

(* An undisturbed run never comes to the last cycle of its budget.         *)
LEMMA CleanRunHasTime ==
  ASSUME RunInv, run = "cycling", Clean
  PROVE  cycle + 1 < MaxCycles
<1>1. CASE rate > 0 /\ path < Goal
  <2>1. cycle + rate < PlanCycles + StopCycles
    BY <1>1 DEF RunInv, BudgetInv
  <2> QED BY <1>1, <2>1, ExecNumbers, ExecConstants DEF RunInv
<1>2. CASE rate = 0 \/ path = Goal
  <2>1. cycle + settle_left <= PlanCycles + StopCycles + SettleCycles
    BY <1>2 DEF RunInv, BudgetInv
  <2> QED BY <2>1, ExecNumbers, ExecConstants DEF RunInv
<1>3. (rate > 0 /\ path < Goal) \/ (rate = 0 \/ path = Goal)
  BY ExecNumbers DEF RunInv
<1> QED BY <1>1, <1>2, <1>3

LEMMA StepKeepsBudget ==
  ASSUME RunInv, NEW requested \in BOOLEAN, NEW unsafe \in BOOLEAN,
         Step(requested, unsafe)
  PROVE  BudgetInv'
<1> SUFFICES ASSUME run' = "cycling", Clean'
             PROVE  /\ rate' = FullRate /\ path' < Goal => path' = cycle' * StopCycles
                    /\ rate' > 0 /\ path' < Goal => cycle' + rate' < PlanCycles + StopCycles
                    /\ rate' = 0 \/ path' = Goal =>
                         cycle' + settle_left' <= PlanCycles + StopCycles + SettleCycles
  BY DEF BudgetInv
<1>1. Clean /\ unsafe = FALSE /\ (requested = TRUE \/ rate = FullRate)
  BY StepHistories DEF Clean
<1>2. KeepCycling /\ run = "cycling"
  BY StepFacts DEF Cycle, ReturnSettled
<1>3. path' = path + rate' \/ path' = Goal
  BY <1>1, StepFacts, CycleMoves, Zenon
<1>4. /\ rate = FullRate /\ path < Goal => path = cycle * StopCycles
      /\ rate > 0 /\ path < Goal => cycle + rate < PlanCycles + StopCycles
      /\ rate = 0 \/ path = Goal =>
           cycle + settle_left <= PlanCycles + StopCycles + SettleCycles
  BY <1>1, <1>2 DEF RunInv, BudgetInv
<1>5. ASSUME rate' = FullRate, path' < Goal
      PROVE  path' = cycle' * StopCycles
  <2>1. rate = FullRate /\ path < Goal
    BY <1>5, StepNumbers
  <2>2. path' = path + StopCycles /\ cycle' = cycle + 1 /\ cycle \in Nat
    BY <1>3, <1>5, StepNumbers
  <2>3. (cycle + 1) * StopCycles = cycle * StopCycles + StopCycles
    BY <2>2, PathOfCycles
  <2> QED BY <1>4, <2>1, <2>2, <2>3
<1>6. ASSUME rate' > 0, path' < Goal
      PROVE  cycle' + rate' < PlanCycles + StopCycles
  <2>1. rate > 0 /\ path < Goal
    BY <1>6, StepNumbers
  <2>2. rate' = rate - 1 \/ (rate = FullRate /\ rate' = rate)
    BY <1>1, <2>1, StepFacts, CycleMoves, Zenon
  <2>3. CASE rate' = rate - 1
    BY <1>4, <2>1, <2>3, StepNumbers, ExecConstants
  <2>4. CASE rate = FullRate /\ rate' = rate
    <3>1. cycle' \in Nat /\ path' = cycle' * StopCycles
      BY <1>5, <1>6, <2>4, StepNumbers
    <3>2. cycle' < PlanCycles
      BY <1>6, <3>1, PathOfCycles
    <3>3. rate' \in Nat /\ rate' <= StopCycles /\ cycle' \in Nat
      BY <3>1, StepNumbers
    <3> QED BY <3>2, <3>3, ExecConstants, SumsCompare, Zenon
  <2> QED BY <2>2, <2>3, <2>4
<1>7. ASSUME rate' = 0 \/ path' = Goal
      PROVE  cycle' + settle_left' <= PlanCycles + StopCycles + SettleCycles
  <2>1. settle_left' = settle_left - 1 /\ cycle' = cycle + 1
    BY <1>2, <1>7, StepKeepsCycling, StepNumbers
  <2>2. CASE rate = 0 \/ path = Goal
    BY <1>4, <2>1, <2>2, StepNumbers, ExecConstants
  <2>3. CASE rate > 0 /\ path < Goal
    <3>1. settle_left = SettleCycles + 1 /\ cycle + rate < PlanCycles + StopCycles
      BY <1>4, <2>3, StepFacts
    <3> QED BY <2>1, <2>3, <3>1, StepNumbers, ExecConstants
  <2> QED BY <2>2, <2>3, StepNumbers
<1> QED BY <1>5, <1>6, <1>7

LEMMA StepReturns ==
  ASSUME RunInv, NEW requested \in BOOLEAN, NEW unsafe \in BOOLEAN,
         Step(requested, unsafe)
  PROVE  GoalOrReason' /\ ReturnsAtRest'
<1> SUFFICES ASSUME run' = "returned"
             PROVE  /\ path' < Goal => stopped_early' = TRUE \/ ~Clean'
                    /\ Clean' => rest' >= SettleCycles + 1
                    /\ stopped_early' = TRUE => rest' >= SettleCycles + 2
  <2>1. holds' \in BOOLEAN /\ withdrawn' \in BOOLEAN /\ stopped_early' \in BOOLEAN
    BY StepHistories, StepFacts DEF ExecInv, ExecTypeOK
  <2> QED BY <2>1 DEF GoalOrReason, ReturnsAtRest, Clean
<1>1. CASE ReturnSettled
  <2>1. settle_left = 0 /\ stopped_early' = (rate' = 0 /\ path' < Goal) /\ Finished
    BY <1>1 DEF ReturnSettled
  <2>2. path' = path
    <3>1. path' # path => rate' > 0 /\ settle_left = SettleCycles + 1
      BY StepMovesRest, StepFacts, Zenon
    <3> QED BY <2>1, <3>1, StepNumbers
  <2>3. rest' = rest + 1 /\ rest \in Nat
    BY <2>2, StepMovesRest
  <2>4. /\ rest + 0 >= SettleCycles
        /\ path < Goal => rest + 0 >= SettleCycles + 1
    BY <2>1, StepFacts DEF RunInv, RestInv
  <2>5. path' < Goal => rate' = 0
    BY <2>1, StepNumbers DEF Finished
  <2>6. rest' >= SettleCycles + 1 /\ (path' < Goal => rest' >= SettleCycles + 2)
    BY <2>2, <2>3, <2>4, StepNumbers
  <2>7. path' < Goal => stopped_early' = TRUE
    BY <2>1, <2>5, Zenon
  <2>8. stopped_early' = TRUE => path' < Goal
    BY <2>1, Zenon
  <2> QED BY <2>6, <2>7, <2>8, Zenon
<1>2. CASE KeepCycling
  <2>1. cycle' = MaxCycles /\ stopped_early' = FALSE
    BY <1>2, StepKeepsCycling
  <2>2. ~Clean'
    <3> SUFFICES ASSUME Clean' PROVE FALSE
      OBVIOUS
    <3>1. Clean
      BY StepHistories DEF Clean
    <3>2. cycle + 1 < MaxCycles
      BY <3>1, StepFacts, CleanRunHasTime
    <3> QED BY <2>1, <3>2, StepNumbers
  <2>3. ~(stopped_early' = TRUE)
    BY <2>1
  <2> QED BY <2>2, <2>3, Zenon
<1> QED BY <1>1, <1>2, StepFacts DEF Cycle

-------------------------------------------------------------------------------
LEMMA NextKeepsRunInv == RunInv /\ [RunNext]_run_vars => RunInv'
<1> SUFFICES ASSUME RunInv, [RunNext]_run_vars PROVE RunInv'
  OBVIOUS
<1>1. ASSUME NEW requested \in BOOLEAN, NEW unsafe \in BOOLEAN, Step(requested, unsafe)
      PROVE  RunInv'
  BY <1>1, StepFacts, StepHistories, StepKeepsRamp, StepKeepsRest, StepKeepsBudget,
     StepReturns, Zenon DEF RunInv
<1>2. CASE UNCHANGED run_vars
  BY <1>2 DEF run_vars, RunInv, ExecInv, ExecTypeOK, RampInv, RestInv, BudgetInv, Clean,
     GoalOrReason, ReturnsAtRest
<1> QED BY <1>1, <1>2, BeginKeepsRunInv, LeaveKeepsRunInv DEF RunNext

THEOREM RunInvariant == RunSpec => []RunInv
  BY InitRunInv, NextKeepsRunInv, PTL DEF RunSpec

(* The path clock stays on the plan, and the loop ends within its budget.  *)
THEOREM RunTypeCorrect == RunSpec => []RunTypeOK
<1>1. RunInv => RunTypeOK
  <2> SUFFICES ASSUME RunInv PROVE RunTypeOK
    OBVIOUS
  <2>1. ExecTypeOK /\ holds \in BOOLEAN /\ withdrawn \in BOOLEAN /\ ramp_path \in 0..Goal
    BY DEF RunInv, ExecInv, RampInv
  <2>2. rest \in 0..MaxCycles
    BY ExecNumbers DEF RunInv, RestInv
  <2> QED BY <2>1, <2>2 DEF RunTypeOK
<1> QED BY <1>1, RunInvariant, PTL

(* No run short of its goal claims success, unless a safety hold or a      *)
(* withdrawn stop ate the cycles it was given.                             *)
THEOREM RunsReachGoalOrSayWhy == RunSpec => []GoalOrReason
<1>1. RunInv => GoalOrReason
  BY DEF RunInv
<1> QED BY <1>1, RunInvariant, PTL

(* A stop that stands lets the path clock advance at most half of what the *)
(* full rate would have covered in stop_time_s.                            *)
THEOREM StopDistanceIsBounded == RunSpec => []StopsWithinRamp
<1>1. RunInv => StopsWithinRamp
  BY DEF RunInv, RampInv, StopsWithinRamp
<1> QED BY <1>1, RunInvariant, PTL

(* A run is handed back only after the path clock has been still for the   *)
(* whole settling time.                                                    *)
THEOREM RunsReturnAtRest == RunSpec => []ReturnsAtRest
<1>1. RunInv => ReturnsAtRest
  BY DEF RunInv
<1> QED BY <1>1, RunInvariant, PTL

-------------------------------------------------------------------------------
(* A motion is a run.                                                      *)

(* Whatever the planners and the axes do, a cycle of a motion is a cycle   *)
(* of the executive and nothing else moves its clock.                      *)
THEOREM MotionsAreRuns == MotionSpec => RunSpec
<1>1. MotionInit => RunInit
  BY DEF MotionInit
<1>2. ASSUME [MotionNext]_motion_vars
      PROVE  [RunNext]_run_vars
  <2>1. CASE MoveTo
    BY <2>1 DEF MoveTo, Request, run_vars
  <2>2. CASE RunMotion
    BY <2>2 DEF RunMotion, Request, run_vars
  <2>3. CASE RefuseRoute
    BY <2>3 DEF RefuseRoute, run_vars
  <2>4. CASE Execute \/ Jog
    <3>1. Begin
      BY <2>4 DEF Execute, Jog
    <3> QED BY <3>1 DEF RunNext
  <2>5. CASE Return
    <3>1. Leave
      BY <2>5 DEF Return
    <3> QED BY <3>1 DEF RunNext
  <2>6. CASE \E requested, unsafe \in BOOLEAN : DriveCycle(requested, unsafe)
    <3>1. PICK requested \in BOOLEAN, unsafe \in BOOLEAN : DriveCycle(requested, unsafe)
      BY <2>6
    <3>2. Step(requested, unsafe)
      BY <3>1 DEF DriveCycle
    <3> QED BY <3>2 DEF RunNext
  <2>7. CASE UNCHANGED motion_vars
    BY <2>7 DEF motion_vars
  <2> QED BY <1>2, <2>1, <2>2, <2>3, <2>4, <2>5, <2>6, <2>7 DEF MotionNext
<1> QED BY <1>1, <1>2, PTL DEF MotionSpec, RunSpec

(* So a motion that claims success reached the end of its plan, unless a   *)
(* safety hold or a withdrawn stop ate its cycles,                         *)
THEOREM MotionsReachGoalOrSayWhy == MotionSpec => []GoalOrReason
BY MotionsAreRuns, RunsReachGoalOrSayWhy, PTL

(* stops within its ramp,                                                  *)
THEOREM MotionsStopWithinRamp == MotionSpec => []StopsWithinRamp
BY MotionsAreRuns, StopDistanceIsBounded, PTL

(* and is reported only after the path clock has come to rest.             *)
THEOREM MotionsReturnAtRest == MotionSpec => []ReturnsAtRest
BY MotionsAreRuns, RunsReturnAtRest, PTL

-------------------------------------------------------------------------------
(* The envelope.                                                           *)

(* Setpoints are numbers whatever the sources answer, and the governors of *)
(* a run that has not had a cycle begin where the axes are.                *)
EnvelopeInv ==
  /\ cmd \in [Axes -> Int] /\ at \in [Axes -> Int] /\ limit \in [Axes -> Nat]
  /\ stage = "driving" /\ cycle = 0 => cmd = at

(* What leaves a governor is a number, no further from the last setpoint   *)
(* than the cycle allows, and not further out of the travel.               *)
LEMMA GovernorHolds ==
  ASSUME EnvelopeInv, NEW a \in Axes, NEW setpoint
  PROVE  LET to == Govern(a, setpoint)
         IN  /\ to \in Int
             /\ Magnitude(to - cmd[a]) <= limit[a]
             /\ Magnitude(to - Clamp(to, Lo[a], Hi[a]))
                  <= Magnitude(cmd[a] - Clamp(cmd[a], Lo[a], Hi[a]))
<1>1. /\ cmd[a] \in Int /\ limit[a] \in Nat
      /\ Lo[a] \in Int /\ Hi[a] \in Int /\ Lo[a] <= Hi[a]
  BY MotionAssumption, PlanningAssumption DEF EnvelopeInv
<1>2. CASE setpoint \notin Int
  BY <1>1, <1>2 DEF Govern, Magnitude, Clamp
<1>3. CASE setpoint \in Int
  <2>1. \A c, s, lo, hi \in Int : \A l \in Nat : lo <= hi =>
          LET to == c + Clamp(Clamp(s, lo, hi) - c, -l, l)
          IN  /\ to \in Int
              /\ Magnitude(to - c) <= l
              /\ Magnitude(to - Clamp(to, lo, hi)) <= Magnitude(c - Clamp(c, lo, hi))
    BY DEF Magnitude, Clamp
  <2>2. Govern(a, setpoint) = cmd[a] + Clamp(Clamp(setpoint, Lo[a], Hi[a]) - cmd[a], -limit[a], limit[a])
    BY <1>3 DEF Govern
  <2> QED BY <1>1, <1>3, <2>1, <2>2
<1> QED BY <1>2, <1>3

(* A device that is where it was or where it was told to be is somewhere.  *)
LEMMA CycleKeepsEnvelope ==
  ASSUME EnvelopeInv, RunInv, NEW requested \in BOOLEAN, NEW unsafe \in BOOLEAN,
         DriveCycle(requested, unsafe)
  PROVE  EnvelopeInv'
<1>1. cmd' \in [Axes -> Int]
  <2>1. CASE unsafe
    BY <2>1 DEF DriveCycle, HoldAll, EnvelopeInv
  <2>2. CASE ~unsafe
    BY <2>2, GovernorHolds DEF DriveCycle, FollowAll
  <2> QED BY <2>1, <2>2
<1>2. at' \in [Axes -> Int] /\ limit' \in [Axes -> Nat]
  BY <1>1 DEF DriveCycle, StepAll, EnvelopeInv
<1>3. cycle' # 0
  BY DEF DriveCycle, Step, Cycle, Advance, RunInv, ExecInv, ExecTypeOK
<1> QED BY <1>1, <1>2, <1>3 DEF EnvelopeInv

LEMMA NextKeepsEnvelope ==
  ASSUME EnvelopeInv, RunInv, [MotionNext]_motion_vars
  PROVE  EnvelopeInv'
<1>1. CASE MoveTo
  BY <1>1 DEF MoveTo, Request, EnvelopeInv, run_vars
<1>2. CASE RunMotion
  BY <1>2 DEF RunMotion, Request, EnvelopeInv, run_vars
<1>3. CASE RefuseRoute
  BY <1>3 DEF RefuseRoute, EnvelopeInv, run_vars
<1>4. CASE Execute
  <2>1. cmd' = at /\ at' = at
    BY <1>4 DEF Execute, Seed
  <2>2. PICK duration : limit' = [a \in Axes |-> Allowance(a, duration)]
    BY <1>4 DEF Execute
  <2>3. ASSUME NEW a \in Axes PROVE Allowance(a, duration) \in Nat
    <3>1. \A x \in Nat, y \in Nat : y > 0 => (x + y - 1) \div y \in Nat
      OBVIOUS
    <3>2. VelMax[a] \in Nat /\ PlanCycles \in Nat /\ PlanCycles > 0
      BY MotionAssumption, ExecConstants
    <3>3. \A d \in Nat : VelMax[a] * d \in Nat
      BY <3>2
    <3> QED BY <3>1, <3>2, <3>3 DEF Allowance, Ceil
  <2>4. limit' \in [Axes -> Nat]
    BY <2>2, <2>3
  <2> QED BY <2>1, <2>4 DEF EnvelopeInv
<1>5. CASE Jog
  <2>1. cmd' = at /\ at' = at /\ limit' = [a \in Axes |-> JogSpeed]
    BY <1>5 DEF Jog, Seed
  <2> QED BY <2>1, MotionAssumption DEF EnvelopeInv
<1>6. CASE Return
  BY <1>6 DEF Return, EnvelopeInv
<1>7. CASE \E requested, unsafe \in BOOLEAN : DriveCycle(requested, unsafe)
  BY <1>7, CycleKeepsEnvelope
<1>8. CASE UNCHANGED motion_vars
  BY <1>8 DEF motion_vars, axis_vars, run_vars, EnvelopeInv
<1> QED BY <1>1, <1>2, <1>3, <1>4, <1>5, <1>6, <1>7, <1>8 DEF MotionNext

THEOREM EnvelopeInvariant == MotionSpec => []EnvelopeInv
<1>1. MotionInit => EnvelopeInv
  BY MotionAssumption DEF MotionInit, EnvelopeInv
<1> QED BY <1>1, NextKeepsEnvelope, MotionsAreRuns, RunInvariant, PTL DEF MotionSpec

(* Whatever a plan, a stream or a user's program answers in a cycle, also  *)
(* what is no number, the setpoint written stays in the envelope           *)
(* (governor.hpp:11).                                                      *)
THEOREM WhateverIsAskedTheEnvelopeHolds == MotionSpec => EnvelopeHolds
<1>1. ASSUME EnvelopeInv
      PROVE  \A requested, unsafe \in BOOLEAN : DriveCycle(requested, unsafe) =>
               \A a \in Axes :
                 LET from == IF cycle = 0 THEN at[a] ELSE cmd[a]
                 IN  /\ Magnitude(cmd'[a] - from) <= limit[a]
                     /\ cmd'[a] \notin Lo[a]..Hi[a] =>
                          Magnitude(cmd'[a] - Clamp(cmd'[a], Lo[a], Hi[a]))
                            <= Magnitude(from - Clamp(from, Lo[a], Hi[a]))
  <2> SUFFICES ASSUME NEW requested \in BOOLEAN, NEW unsafe \in BOOLEAN,
                      DriveCycle(requested, unsafe), NEW a \in Axes
               PROVE  /\ Magnitude(cmd'[a] - cmd[a]) <= limit[a]
                      /\ Magnitude(cmd'[a] - Clamp(cmd'[a], Lo[a], Hi[a]))
                           <= Magnitude(cmd[a] - Clamp(cmd[a], Lo[a], Hi[a]))
    BY <1>1 DEF EnvelopeInv, DriveCycle
  <2>1. CASE unsafe
    <3>1. cmd'[a] = cmd[a] /\ cmd[a] \in Int /\ limit[a] \in Nat
      BY <1>1, <2>1 DEF DriveCycle, HoldAll, EnvelopeInv
    <3>2. Lo[a] \in Int /\ Hi[a] \in Int
      BY PlanningAssumption
    <3> QED BY <3>1, <3>2 DEF Magnitude, Clamp
  <2>2. CASE ~unsafe
    <3>1. \E setpoint : cmd'[a] = Govern(a, setpoint)
      BY <2>2 DEF DriveCycle, FollowAll
    <3> QED BY <1>1, <3>1, GovernorHolds
  <2> QED BY <2>1, <2>2
<1> QED BY <1>1, EnvelopeInvariant, PTL DEF EnvelopeHolds

-------------------------------------------------------------------------------
(* The routes.                                                             *)

(* What makes induction possible without an operator to instantiate: a set *)
(* of numbers that is not empty has a least one.                           *)
LEMMA LeastNumber ==
  ASSUME NEW T, T \subseteq Nat, T # {}
  PROVE  \E x \in T : \A y \in T : x <= y
<1>. DEFINE R == StrictSubsetOrdering(Nat)
            UpTo(x) == 0..x
            U == {UpTo(x) : x \in T}
<1>1. IsWellFoundedOn(R, FiniteSubsetsOf(Nat))
  BY FS_StrictSubsetOrderingWellFounded
<1>2. \A x \in T : IsFiniteSet(UpTo(x)) /\ UpTo(x) \in SUBSET Nat
  BY FS_Interval
<1>3. U \subseteq FiniteSubsetsOf(Nat) /\ U # {}
  BY <1>2 DEF FiniteSubsetsOf
<1>4. PICK u \in U : \A v \in U : ~(<<v, u>> \in R)
  BY <1>1, <1>3, WFMin
<1>5. PICK x \in T : u = UpTo(x)
  BY <1>4
<1>6. ASSUME NEW y \in T, y < x
      PROVE  <<UpTo(y), UpTo(x)>> \in R
  BY <1>6 DEF StrictSubsetOrdering
<1>7. ASSUME NEW y \in T PROVE x <= y
  <2>1. ~(<<UpTo(y), UpTo(x)>> \in R)
    BY <1>4, <1>5
  <2>2. ~(y < x)
    BY <1>6, <2>1
  <2> QED BY <2>2
<1>. QED
  BY <1>7

LEMMA Induction ==
  ASSUME NEW S, 0 \in S, \A n \in Nat : n \in S => n + 1 \in S
  PROVE  Nat \subseteq S
<1>1. SUFFICES ASSUME Nat \ S # {} PROVE FALSE
  OBVIOUS
<1>2. PICK x \in Nat \ S : \A y \in Nat \ S : x <= y
  BY <1>1, LeastNumber
<1>3. x - 1 \in Nat
  BY <1>2
<1>4. x - 1 \in S
  BY <1>2, <1>3
<1>5. (x - 1) + 1 = x
  BY <1>2
<1> QED BY <1>2, <1>3, <1>4, <1>5

Cfg == [Joints -> Int]

(* A step of the inverse solution stays in the travel.                     *)
LEMMA StepIsInTheTravel ==
  ASSUME NEW q \in Cfg, NEW target \in Cfg
  PROVE  IkStep(q, target) \in Cfg /\ InWorkspace(IkStep(q, target))
<1>1. \A x, lo, hi \in Int : lo <= hi => Clamp(x, lo, hi) \in lo..hi
  BY DEF Clamp
<1>2. ASSUME NEW j \in Joints
      PROVE  Clamp(q[j] + Clamp(target[j] - q[j], -MaxStep, MaxStep), Lo[j], Hi[j]) \in Lo[j]..Hi[j]
  <2>1. Lo[j] \in Int /\ Hi[j] \in Int /\ Lo[j] <= Hi[j] /\ MaxStep \in Int
    BY PlanningAssumption DEF Axes
  <2>2. q[j] \in Int /\ target[j] \in Int
    BY DEF Cfg
  <2>3. Clamp(target[j] - q[j], -MaxStep, MaxStep) \in Int
    BY <2>1, <2>2 DEF Clamp
  <2>4. q[j] + Clamp(target[j] - q[j], -MaxStep, MaxStep) \in Int
    BY <2>2, <2>3
  <2> QED BY <1>1, <2>1, <2>4
<1>3. \A j \in Joints : Lo[j]..Hi[j] \subseteq Int
  OBVIOUS
<1> QED BY <1>2, <1>3 DEF IkStep, InWorkspace, Cfg

(* The iterates, as far as one likes.                                      *)
Iterates(q, seed, target, m) ==
  q = [n \in 0..m |-> IF n = 0 THEN seed ELSE IkStep(q[n - 1], target)]

LEMMA IteratesExist ==
  ASSUME NEW seed, NEW target, NEW m \in Nat
  PROVE  \E q : Iterates(q, seed, target, m)
<1>. DEFINE S == {n \in Nat : \E q : Iterates(q, seed, target, n)}
<1>1. 0 \in S
  <2>1. Iterates([n \in 0..0 |-> seed], seed, target, 0)
    BY DEF Iterates
  <2> QED BY <2>1
<1>2. ASSUME NEW n \in Nat, n \in S PROVE n + 1 \in S
  <2>1. PICK q : Iterates(q, seed, target, n)
    BY <1>2
  <2>. DEFINE r == [k \in 0..(n + 1) |-> IF k = n + 1 THEN IkStep(q[n], target) ELSE q[k]]
  <2>2. ASSUME NEW k \in 0..(n + 1)
        PROVE  r[k] = IF k = 0 THEN seed ELSE IkStep(r[k - 1], target)
    <3>1. CASE k = n + 1
      BY <3>1
    <3>2. CASE k # n + 1
      <4>1. k \in 0..n /\ r[k] = q[k]
        BY <3>2
      <4>2. q[k] = IF k = 0 THEN seed ELSE IkStep(q[k - 1], target)
        BY <2>1, <4>1 DEF Iterates
      <4>3. k # 0 => r[k - 1] = q[k - 1]
        BY <4>1
      <4> QED BY <4>1, <4>2, <4>3
    <3> QED BY <3>1, <3>2
  <2>3. Iterates(r, seed, target, n + 1)
    BY <2>2 DEF Iterates
  <2> QED BY <2>3
<1>3. Nat \subseteq S
  <2> HIDE DEF S
  <2> QED BY <1>1, <1>2, Induction
<1> QED BY <1>3

(* Every iterate but the seed is in the travel.                            *)
LEMMA IteratesStayInTheTravel ==
  ASSUME NEW q, NEW seed \in Cfg, NEW target \in Cfg, NEW m \in Nat,
         Iterates(q, seed, target, m), NEW n \in 0..m
  PROVE  q[n] \in Cfg /\ (n # 0 => InWorkspace(q[n]))
<1>. DEFINE S == {k \in Nat : k <= m => q[k] \in Cfg /\ (k # 0 => InWorkspace(q[k]))}
<1>1. 0 \in S
  BY DEF Iterates
<1>2. ASSUME NEW k \in Nat, k \in S PROVE k + 1 \in S
  <2>1. SUFFICES ASSUME k + 1 <= m PROVE q[k + 1] \in Cfg /\ InWorkspace(q[k + 1])
    OBVIOUS
  <2>2. q[k] \in Cfg
    BY <1>2, <2>1
  <2>3. q[k + 1] = IkStep(q[k], target)
    BY <2>1 DEF Iterates
  <2> QED BY <2>2, <2>3, StepIsInTheTravel
<1>3. Nat \subseteq S
  <2> HIDE DEF S
  <2> QED BY <1>1, <1>2, Induction
<1> QED BY <1>3

(* What is solved for is the seed, or in the travel.                       *)
LEMMA IkFromIsInTheTravel ==
  ASSUME NEW seed \in Cfg, NEW target \in Cfg, IkFrom(seed, target)
  PROVE  target = seed \/ InWorkspace(target)
<1>. DEFINE Q == CHOOSE q : Iterates(q, seed, target, MaxIters - 1)
<1>1. MaxIters - 1 \in Nat
  BY PlanningAssumption DEF IkFrom
<1>2. Iterates(Q, seed, target, MaxIters - 1)
  BY <1>1, IteratesExist
<1>3. \E n \in 0..(MaxIters - 1) : Q[n] = target
  BY DEF IkFrom, Iterates
<1> HIDE DEF Q
<1>4. Q[0] = seed
  BY <1>1, <1>2 DEF Iterates
<1> QED BY <1>1, <1>2, <1>3, <1>4, IteratesStayInTheTravel

LEMMA SolvesIsInTheTravel ==
  ASSUME NEW seed \in Cfg, NEW target \in Cfg, InWorkspace(seed), Solves(seed, target)
  PROVE  InWorkspace(target)
<1>1. MidTravel \in Cfg /\ InWorkspace(MidTravel)
  <2>1. \A lo, hi \in Int : lo <= hi => (lo + hi) \div 2 \in lo..hi
    OBVIOUS
  <2>2. \A j \in Joints : Lo[j] \in Int /\ Hi[j] \in Int /\ Lo[j] <= Hi[j]
    BY PlanningAssumption DEF Axes
  <2>3. \A j \in Joints : (Lo[j] + Hi[j]) \div 2 \in Lo[j]..Hi[j]
    BY <2>1, <2>2
  <2>4. \A j \in Joints : Lo[j]..Hi[j] \subseteq Int
    OBVIOUS
  <2> QED BY <2>3, <2>4 DEF MidTravel, Cfg, InWorkspace
<1> QED BY <1>1, IkFromIsInTheTravel DEF Solves, TwoSeeds


(* A route from here to there: it keeps to the travel on the way.          *)
IsRoute(r, q, target) ==
  /\ r \in Seq(Cfg) /\ r # NoRoute
  /\ r[1] = q /\ EndOf(r) = target
  /\ \A k \in DOMAIN r : InWorkspace(r[k])

(* What floored division gives on the way.                                 *)
LEMMA StepsAlongALine ==
  ASSUME NEW d \in Int, NEW L \in Nat, L >= 1
  PROVE  /\ (d * 0) \div L = 0 /\ (d * L) \div L = d
         /\ \A s \in Nat : /\ (d * s) \div L \in Int
                           /\ d >= 0 => (d * s) \div L <= (d * (s + 1)) \div L
                           /\ d <= 0 => (d * s) \div L >= (d * (s + 1)) \div L
<1>1. \A x, y \in Int : x <= y => x \div L <= y \div L
  OBVIOUS
<1>2. (d * L) \div L = d
  OBVIOUS
<1>3. ASSUME NEW s \in Nat
      PROVE  /\ d * s \in Int /\ d * (s + 1) = d * s + d
  OBVIOUS
<1>4. d * 0 = 0 /\ 0 \div L = 0
  OBVIOUS
<1>5. \A x \in Int : x \div L \in Int
  OBVIOUS
<1>6. ASSUME NEW s \in Nat
      PROVE  /\ (d * s) \div L \in Int
             /\ d >= 0 => (d * s) \div L <= (d * (s + 1)) \div L
             /\ d <= 0 => (d * s) \div L >= (d * (s + 1)) \div L
  <2>1. PICK x \in Int : x = d * s
    BY <1>3
  <2>2. PICK y \in Int : y = d * (s + 1)
    BY <1>3
  <2>3. y = x + d
    BY <1>3, <2>1, <2>2
  <2>4. (d >= 0 => x <= y) /\ (d <= 0 => y <= x)
    BY <2>3
  <2> QED BY <1>1, <1>5, <2>1, <2>2, <2>4
<1> QED BY <1>2, <1>4, <1>6


(* A joint that runs from here to there never runs the other way.          *)
RunsOneWay(r, q, target) ==
  \A k \in 1..(Len(r) - 1), j \in Joints :
    /\ q[j] <= target[j] => r[k][j] <= r[k + 1][j]
    /\ q[j] >= target[j] => r[k][j] >= r[k + 1][j]

LEMMA LineIsARoute ==
  ASSUME NEW q \in Cfg, NEW target \in Cfg, InWorkspace(q), Line(q, target) # NoRoute
  PROVE  /\ LineSteps \in Nat /\ LineSteps >= 1
         /\ IsRoute(Line(q, target), q, target)
         /\ Len(Line(q, target)) = LineSteps + 1
         /\ RunsOneWay(Line(q, target), q, target)
<1>. DEFINE via == [s \in 0..LineSteps |->
                      [j \in Joints |-> q[j] + ((target[j] - q[j]) * s) \div LineSteps]]
            r == Line(q, target)
<1>1. /\ LineSteps >= 1 /\ \A s \in 1..LineSteps : Solves(via[s - 1], via[s])
      /\ r = [k \in 1..(LineSteps + 1) |-> via[k - 1]]
  BY DEF Line
<1>2. LineSteps \in Nat
  <2>1. LineSteps \in Int
    BY PlanningAssumption
  <2>2. LineSteps >= 1
    BY <1>1
  <2> QED BY <2>1, <2>2
<1>3. /\ via \in [0..LineSteps -> Cfg]
      /\ via[0] = q /\ via[LineSteps] = target
      /\ \A s \in 0..(LineSteps - 1), j \in Joints :
           /\ q[j] <= target[j] => via[s][j] <= via[s + 1][j]
           /\ q[j] >= target[j] => via[s][j] >= via[s + 1][j]
  <2>1. ASSUME NEW j \in Joints
        PROVE  /\ q[j] \in Int /\ target[j] \in Int /\ target[j] - q[j] \in Int
               /\ ((target[j] - q[j]) * 0) \div LineSteps = 0
               /\ ((target[j] - q[j]) * LineSteps) \div LineSteps = target[j] - q[j]
               /\ \A s \in Nat :
                    LET here == ((target[j] - q[j]) * s) \div LineSteps
                        next == ((target[j] - q[j]) * (s + 1)) \div LineSteps
                    IN  /\ here \in Int
                        /\ target[j] - q[j] >= 0 => here <= next
                        /\ target[j] - q[j] <= 0 => here >= next
    <3>1. q[j] \in Int /\ target[j] \in Int /\ target[j] - q[j] \in Int
      BY DEF Cfg
    <3> QED BY <3>1, <1>1, <1>2, StepsAlongALine
  <2>2. ASSUME NEW s \in 0..LineSteps, NEW j \in Joints
        PROVE  q[j] + ((target[j] - q[j]) * s) \div LineSteps \in Int
    <3>1. PICK here \in Int : here = ((target[j] - q[j]) * s) \div LineSteps
      BY <2>1
    <3> QED BY <2>1, <3>1
  <2>3. via \in [0..LineSteps -> Cfg]
    BY <2>2 DEF Cfg
  <2>4. 0 \in 0..LineSteps /\ LineSteps \in 0..LineSteps
    BY <1>2
  <2>5. ASSUME NEW j \in Joints PROVE via[0][j] = q[j] /\ via[LineSteps][j] = target[j]
    <3>1. via[0][j] = q[j] + ((target[j] - q[j]) * 0) \div LineSteps
      BY <2>4
    <3>2. via[LineSteps][j] = q[j] + ((target[j] - q[j]) * LineSteps) \div LineSteps
      BY <2>4
    <3> HIDE DEF via
    <3> QED BY <2>1, <3>1, <3>2
  <2>6. via[0] = q /\ via[LineSteps] = target
    <3> HIDE DEF via
    <3>1. via[0] \in Cfg /\ via[LineSteps] \in Cfg
      BY <2>3, <2>4
    <3> QED BY <2>5, <3>1 DEF Cfg
  <2>7. ASSUME NEW s \in 0..(LineSteps - 1), NEW j \in Joints
        PROVE  /\ q[j] <= target[j] => via[s][j] <= via[s + 1][j]
               /\ q[j] >= target[j] => via[s][j] >= via[s + 1][j]
    <3>1. s \in Nat /\ s \in 0..LineSteps /\ s + 1 \in 0..LineSteps
      BY <1>2
    <3>2. PICK here \in Int : here = ((target[j] - q[j]) * s) \div LineSteps
      BY <2>1, <3>1
    <3>3. PICK next \in Int : next = ((target[j] - q[j]) * (s + 1)) \div LineSteps
      BY <2>1, <3>1
    <3>4. via[s][j] = q[j] + here /\ via[s + 1][j] = q[j] + next
      BY <3>1, <3>2, <3>3
    <3>5. /\ target[j] - q[j] >= 0 => here <= next
          /\ target[j] - q[j] <= 0 => here >= next
      BY <2>1, <3>1, <3>2, <3>3
    <3> HIDE DEF via
    <3> QED BY <2>1, <3>4, <3>5
  <2> HIDE DEF via
  <2> QED BY <2>3, <2>6, <2>7
<1> HIDE DEF via, r
<1>4. \A s \in 0..LineSteps : InWorkspace(via[s])
  <2>. DEFINE S == {s \in Nat : s <= LineSteps => InWorkspace(via[s])}
  <2>1. 0 \in S
    BY <1>3
  <2>2. ASSUME NEW s \in Nat, s \in S PROVE s + 1 \in S
    <3>1. SUFFICES ASSUME s + 1 <= LineSteps PROVE InWorkspace(via[s + 1])
      OBVIOUS
    <3>2. s \in 0..LineSteps /\ s + 1 \in 1..LineSteps /\ s + 1 \in 0..LineSteps /\ (s + 1) - 1 = s
      BY <1>2, <3>1
    <3>3. InWorkspace(via[s]) /\ via[s] \in Cfg /\ via[s + 1] \in Cfg
      BY <1>3, <2>2, <3>2
    <3>4. Solves(via[s], via[s + 1])
      BY <1>1, <3>2
    <3> QED BY <3>3, <3>4, SolvesIsInTheTravel
  <2>3. Nat \subseteq S
    <3> HIDE DEF S
    <3> QED BY <2>1, <2>2, Induction
  <2> QED BY <1>2, <2>3
<1>5. r \in Seq(Cfg) /\ Len(r) = LineSteps + 1 /\ DOMAIN r = 1..(LineSteps + 1)
  <2>1. r \in [1..(LineSteps + 1) -> Cfg] /\ LineSteps + 1 \in Nat
    BY <1>1, <1>2, <1>3
  <2> QED BY <2>1
<1>6. \A k \in 1..(LineSteps + 1) : r[k] = via[k - 1] /\ k - 1 \in 0..LineSteps
  BY <1>1, <1>2
<1>7. r[1] = q /\ r[LineSteps + 1] = target
  BY <1>2, <1>3, <1>6
<1>8. \A k \in 1..(LineSteps + 1) : InWorkspace(r[k])
  BY <1>4, <1>6
<1>9. RunsOneWay(r, q, target)
  <2>1. ASSUME NEW k \in 1..(Len(r) - 1)
        PROVE  /\ k - 1 \in 0..(LineSteps - 1) /\ (k - 1) + 1 = k
               /\ r[k] = via[k - 1] /\ r[k + 1] = via[k]
    BY <1>2, <1>5, <1>6
  <2> QED BY <1>3, <2>1 DEF RunsOneWay
<1>10. r # NoRoute
  BY DEF r
<1> QED BY <1>1, <1>2, <1>5, <1>7, <1>8, <1>9, <1>10 DEF IsRoute, EndOf, r


(* Routes are joined where one ends and the next begins.                   *)
LEMMA RoutesJoin ==
  ASSUME NEW q, NEW stop, NEW target, NEW r, NEW s,
         IsRoute(r, q, stop), IsRoute(s, stop, target)
  PROVE  /\ IsRoute(r \o s, q, target)
         /\ Len(r \o s) = Len(r) + Len(s)
         /\ \A i \in 1..Len(s) : (r \o s)[Len(r) + i] = s[i]
<1>1. /\ r \in Seq(Cfg) /\ Len(r) \in Nat /\ Len(r) >= 1 /\ DOMAIN r = 1..Len(r)
      /\ s \in Seq(Cfg) /\ Len(s) \in Nat /\ Len(s) >= 1 /\ DOMAIN s = 1..Len(s)
  BY EmptySeq, LenProperties DEF IsRoute, NoRoute
<1>. DEFINE t == r \o s
<1>2. /\ t \in Seq(Cfg) /\ Len(t) = Len(r) + Len(s)
      /\ \A i \in 1..(Len(r) + Len(s)) :
           t[i] = IF i <= Len(r) THEN r[i] ELSE s[i - Len(r)]
  BY <1>1, ConcatProperties
<1> HIDE DEF t
<1>3. DOMAIN t = 1..(Len(r) + Len(s))
  BY <1>2, LenProperties
<1>4. \A i \in 1..Len(s) : t[Len(r) + i] = s[i]
  <2>1. ASSUME NEW i \in 1..Len(s)
        PROVE  /\ Len(r) + i \in 1..(Len(r) + Len(s)) /\ ~(Len(r) + i <= Len(r))
               /\ (Len(r) + i) - Len(r) = i
    BY <1>1
  <2> QED BY <1>2, <2>1
<1>5. t[1] = q
  <2>1. 1 \in 1..(Len(r) + Len(s)) /\ 1 <= Len(r)
    BY <1>1
  <2> QED BY <1>2, <2>1 DEF IsRoute
<1>6. EndOf(t) = target
  BY <1>1, <1>2, <1>4 DEF IsRoute, EndOf
<1>7. ASSUME NEW k \in DOMAIN t PROVE InWorkspace(t[k])
  <2>1. CASE k <= Len(r)
    BY <1>1, <1>2, <1>3, <2>1 DEF IsRoute
  <2>2. CASE ~(k <= Len(r))
    <3>1. k - Len(r) \in DOMAIN s /\ t[k] = s[k - Len(r)]
      BY <1>1, <1>2, <1>3, <2>2
    <3> QED BY <3>1 DEF IsRoute
  <2> QED BY <2>1, <2>2
<1>8. t # NoRoute
  BY <1>1, <1>2, EmptySeq DEF NoRoute
<1> QED BY <1>2, <1>4, <1>5, <1>6, <1>7, <1>8 DEF IsRoute, t

(* Legs laid end to end, as far as one likes.                              *)
Joined(upto, leg, m) ==
  upto = [k \in 0..m |-> IF k = 0 THEN <<>> ELSE upto[k - 1] \o leg[k]]

LEMMA JoinedExist ==
  ASSUME NEW leg, NEW m \in Nat
  PROVE  \E upto : Joined(upto, leg, m)
<1>. DEFINE S == {n \in Nat : \E upto : Joined(upto, leg, n)}
<1>1. 0 \in S
  <2>1. Joined([n \in 0..0 |-> <<>>], leg, 0)
    BY DEF Joined
  <2> QED BY <2>1
<1>2. ASSUME NEW n \in Nat, n \in S PROVE n + 1 \in S
  <2>1. PICK u : Joined(u, leg, n)
    BY <1>2
  <2>. DEFINE w == [k \in 0..(n + 1) |-> IF k = n + 1 THEN u[n] \o leg[k] ELSE u[k]]
  <2>2. ASSUME NEW k \in 0..(n + 1)
        PROVE  w[k] = IF k = 0 THEN <<>> ELSE w[k - 1] \o leg[k]
    <3>1. CASE k = n + 1
      BY <3>1
    <3>2. CASE k # n + 1
      <4>1. k \in 0..n /\ w[k] = u[k]
        BY <3>2
      <4>2. u[k] = IF k = 0 THEN <<>> ELSE u[k - 1] \o leg[k]
        BY <2>1, <4>1 DEF Joined
      <4>3. k # 0 => w[k - 1] = u[k - 1]
        BY <4>1
      <4> QED BY <4>1, <4>2, <4>3
    <3> QED BY <3>1, <3>2
  <2>3. Joined(w, leg, n + 1)
    BY <2>2 DEF Joined
  <2> QED BY <2>3
<1>3. Nat \subseteq S
  <2> HIDE DEF S
  <2> QED BY <1>1, <1>2, Induction
<1> QED BY <1>3

(* Where a leg begins.                                                     *)
Start(q, stops, k) == IF k = 1 THEN q ELSE stops[k - 1]

LEMMA ThroughIsARoute ==
  ASSUME NEW q \in Cfg, InWorkspace(q), NEW stops \in Seq(Cfg), stops # <<>>,
         Through(q, stops) # NoRoute
  PROVE  LET n == Len(stops)
             r == Through(q, stops)
             last == Line(Start(q, stops, n), stops[n])
         IN  /\ n \in Nat /\ n >= 1 /\ LineSteps \in Nat /\ LineSteps >= 1
             /\ IsRoute(r, q, stops[n])
             /\ Len(r) = n * (LineSteps + 1)
             /\ InWorkspace(Start(q, stops, n)) /\ last # NoRoute
             /\ \A i \in 1..(LineSteps + 1) : r[(n - 1) * (LineSteps + 1) + i] = last[i]
<1>. DEFINE n == Len(stops)
            M == LineSteps + 1
            leg == [k \in DOMAIN stops |-> Line(IF k = 1 THEN q ELSE stops[k - 1], stops[k])]
            U == CHOOSE upto : Joined(upto, leg, n)
<1>1. n \in Nat /\ n >= 1 /\ DOMAIN stops = 1..n /\ \A k \in 1..n : stops[k] \in Cfg
  BY EmptySeq, LenProperties, ElementOfSeq
<1>2. Joined(U, leg, n)
  BY <1>1, JoinedExist
<1>3. (\A k \in DOMAIN stops : leg[k] # NoRoute) /\ Through(q, stops) = U[n]
  BY DEF Through, Joined
<1>4. \A k \in 1..n : leg[k] = Line(Start(q, stops, k), stops[k])
  BY <1>1 DEF Start
<1> HIDE DEF n, leg, U
<1>5. U[0] = <<>> /\ \A k \in 1..n : U[k] = U[k - 1] \o leg[k]
  BY <1>1, <1>2 DEF Joined
<1>. DEFINE Good(k) ==
       /\ IsRoute(U[k], q, stops[k]) /\ Len(U[k]) = k * M
       /\ InWorkspace(Start(q, stops, k)) /\ LineSteps \in Nat /\ LineSteps >= 1
       /\ \A i \in 1..M : U[k][(k - 1) * M + i] = leg[k][i]
            S == {k \in Nat : k + 1 <= n => Good(k + 1)}
<1>6. 0 \in S
  <2>1. 1 \in 1..n /\ Start(q, stops, 1) = q
    BY <1>1 DEF Start
  <2>2. leg[1] = Line(q, stops[1]) /\ leg[1] # NoRoute /\ stops[1] \in Cfg
    BY <1>1, <1>3, <1>4, <2>1
  <2>3. /\ IsRoute(leg[1], q, stops[1]) /\ Len(leg[1]) = M
        /\ LineSteps \in Nat /\ LineSteps >= 1
    BY <2>2, LineIsARoute
  <2>4. U[1] = leg[1]
    <3>1. U[1] = U[1 - 1] \o leg[1]
      BY <1>5, <2>1, Zenon
    <3>2. U[1 - 1] = <<>>
      BY <1>5
    <3>. DEFINE none == U[1 - 1]
    <3>3. none \o leg[1] = leg[1]
      BY <2>3, <3>2, ConcatEmptySeq DEF IsRoute
    <3> QED BY <3>1, <3>3, Zenon
  <2>5. 1 * M = M /\ \A i \in 1..M : (1 - 1) * M + i = i
    BY <2>3
  <2>6. Good(1)
    BY <2>1, <2>3, <2>4, <2>5
  <2> QED BY <2>6
<1>7. ASSUME NEW k \in Nat, k \in S PROVE k + 1 \in S
  <2>1. SUFFICES ASSUME (k + 1) + 1 <= n PROVE Good((k + 1) + 1)
    OBVIOUS
  <2>2. PICK m \in Nat : m = k + 1
    OBVIOUS
  <2>3. m \in 1..n /\ m + 1 \in 1..n /\ (m + 1) - 1 = m /\ m + 1 # 1
    BY <1>1, <2>1, <2>2
  <2>4. Good(m)
    <3>1. k + 1 <= n
      BY <2>1, <1>1
    <3> QED BY <1>7, <2>2, <3>1
  <2> HIDE DEF S
  <2>5. Start(q, stops, m + 1) = stops[m] /\ stops[m] \in Cfg /\ stops[m + 1] \in Cfg
    BY <1>1, <2>3 DEF Start
  <2>6. InWorkspace(stops[m])
    <3>1. U[m] \in Seq(Cfg) /\ U[m] # <<>> /\ EndOf(U[m]) = stops[m]
      BY <2>4 DEF IsRoute, NoRoute
    <3>2. Len(U[m]) \in DOMAIN U[m]
      BY <3>1, EmptySeq, LenProperties
    <3> QED BY <2>4, <3>1, <3>2 DEF IsRoute, EndOf
  <2>7. leg[m + 1] = Line(stops[m], stops[m + 1]) /\ leg[m + 1] # NoRoute
    BY <1>1, <1>3, <1>4, <2>3, <2>5
  <2>8. IsRoute(leg[m + 1], stops[m], stops[m + 1]) /\ Len(leg[m + 1]) = M
    BY <2>5, <2>6, <2>7, LineIsARoute
  <2>9. U[m + 1] = U[m] \o leg[m + 1]
    BY <1>5, <2>3
  <2>10. /\ IsRoute(U[m + 1], q, stops[m + 1])
         /\ Len(U[m + 1]) = m * M + M
         /\ \A i \in 1..M : U[m + 1][m * M + i] = leg[m + 1][i]
    <3>1. /\ IsRoute(U[m + 1], q, stops[m + 1])
          /\ Len(U[m + 1]) = Len(U[m]) + Len(leg[m + 1])
          /\ \A i \in 1..Len(leg[m + 1]) : U[m + 1][Len(U[m]) + i] = leg[m + 1][i]
      <4>1. IsRoute(U[m], q, stops[m])
        BY <2>4
      <4>2. PICK r : r = U[m]
        OBVIOUS
      <4>3. PICK s : s = leg[m + 1]
        OBVIOUS
      <4>4. IsRoute(r, q, stops[m]) /\ IsRoute(s, stops[m], stops[m + 1])
        BY <2>8, <4>1, <4>2, <4>3
      <4>5. /\ IsRoute(r \o s, q, stops[m + 1])
            /\ Len(r \o s) = Len(r) + Len(s)
            /\ \A i \in 1..Len(s) : (r \o s)[Len(r) + i] = s[i]
        BY <4>4, RoutesJoin
      <4>6. U[m + 1] = r \o s
        BY <2>9, <4>2, <4>3
      <4> QED BY <4>2, <4>3, <4>5, <4>6, Zenon
    <3>2. Len(U[m]) = m * M /\ Len(leg[m + 1]) = M
      BY <2>4, <2>8
    <3> HIDE DEF Good
    <3> QED BY <3>1, <3>2
  <2>11. (m + 1) * M = m * M + M
    BY <2>4
  <2>12. Good(m + 1)
    BY <2>3, <2>4, <2>5, <2>6, <2>10, <2>11
  <2> QED BY <2>2, <2>12
<1>8. Nat \subseteq S
  <2> HIDE DEF S
  <2> QED BY <1>6, <1>7, Induction
<1>9. n - 1 \in S /\ (n - 1) + 1 = n
  <2>1. n - 1 \in Nat /\ (n - 1) + 1 = n
    BY <1>1
  <2> HIDE DEF S
  <2> QED BY <1>8, <2>1
<1>10. Good(n)
  BY <1>1, <1>9
<1>11. leg[n] = Line(Start(q, stops, n), stops[n]) /\ leg[n] # NoRoute
  BY <1>1, <1>3, <1>4
<1> QED BY <1>1, <1>3, <1>10, <1>11 DEF n


LEMMA ReachIsARoute ==
  ASSUME NEW q \in Cfg, NEW target \in Cfg, InWorkspace(q), Reach(q, target) # NoRoute
  PROVE  IsRoute(Reach(q, target), q, target)
<1>1. Reach(q, target) = <<q, target>> /\ InWorkspace(target)
  BY SolvesIsInTheTravel DEF Reach
<1>2. PICK r : r = <<q, target>>
  OBVIOUS
<1>3. /\ r \in Seq(Cfg) /\ Len(r) = 2 /\ DOMAIN r = 1..2
      /\ r[1] = q /\ r[2] = target /\ r # <<>>
  BY <1>2
<1>4. \A k \in 1..2 : k = 1 \/ k = 2
  OBVIOUS
<1> QED BY <1>1, <1>2, <1>3, <1>4 DEF IsRoute, EndOf, NoRoute

(* The last leg of a meeting begins upstream, so it runs the way the part  *)
(* moves.                                                                  *)
LEMMA RendezvousRunsAlong ==
  ASSUME NEW q \in Cfg, NEW target \in Cfg, NEW velocity \in Cfg, InWorkspace(q),
         Rendezvous(q, target, velocity) # NoRoute
  PROVE  LET r == Rendezvous(q, target, velocity)
         IN  /\ IsRoute(r, q, target)
             /\ (\E j \in Joints : velocity[j] # 0) =>
                  \A k \in (Len(r) \div 2 + 1)..(Len(r) - 1), j \in Joints :
                    (r[k + 1][j] - r[k][j]) * velocity[j] >= 0
<1>1. CASE \A j \in Joints : velocity[j] = 0
  BY <1>1, LineIsARoute DEF Rendezvous
<1>2. CASE \E j \in Joints : velocity[j] # 0
  <2>. DEFINE up == [j \in Joints |-> target[j] - velocity[j] * LeadIn]
              last == Line(up, target)
  <2>1. PICK r : r = Rendezvous(q, target, velocity)
    OBVIOUS
  <2>2. r = Through(q, <<up, target>>)
    BY <1>2, <2>1 DEF Rendezvous
  <2>3. LeadIn \in Nat /\ \A j \in Joints : target[j] \in Int /\ velocity[j] \in Int
    BY PlanningAssumption DEF Cfg
  <2>4. \A j \in Joints : velocity[j] * LeadIn \in Int
    <3>1. \A v \in Int, l \in Nat : v * l \in Int
      OBVIOUS
    <3> QED BY <2>3, <3>1
  <2>5. up \in Cfg
    BY <2>3, <2>4 DEF Cfg
  <2>6. \A j \in Joints : /\ velocity[j] >= 0 => up[j] <= target[j]
                          /\ velocity[j] <= 0 => up[j] >= target[j]
    <3>1. \A v \in Int, l \in Nat : /\ v * l \in Int
                                    /\ v >= 0 => v * l >= 0
                                    /\ v <= 0 => v * l <= 0
      OBVIOUS
    <3>2. ASSUME NEW j \in Joints
          PROVE  /\ velocity[j] >= 0 => up[j] <= target[j]
                 /\ velocity[j] <= 0 => up[j] >= target[j]
      <4>1. PICK way \in Int : way = velocity[j] * LeadIn
        BY <2>4
      <4>2. (velocity[j] >= 0 => way >= 0) /\ (velocity[j] <= 0 => way <= 0)
        BY <2>3, <3>1, <4>1
      <4>3. up[j] = target[j] - way
        BY <4>1
      <4> QED BY <2>3, <4>2, <4>3
    <3> QED BY <3>2
  <2> HIDE DEF up
  <2>7. PICK stops : stops = <<up, target>>
    OBVIOUS
  <2>8. /\ stops \in Seq(Cfg) /\ stops # <<>> /\ Len(stops) = 2
        /\ stops[2] = target /\ Start(q, stops, 2) = up
    BY <2>5, <2>7 DEF Start
  <2>9. /\ LineSteps \in Nat /\ LineSteps >= 1
        /\ IsRoute(r, q, target)
        /\ Len(r) = 2 * (LineSteps + 1)
        /\ InWorkspace(up) /\ last # NoRoute
        /\ \A i \in 1..(LineSteps + 1) : r[(2 - 1) * (LineSteps + 1) + i] = last[i]
    <3>1. Through(q, stops) = r /\ Through(q, stops) # NoRoute
      BY <2>1, <2>2, <2>7
    <3> HIDE DEF last
    <3>2. /\ LineSteps \in Nat /\ LineSteps >= 1
          /\ IsRoute(r, q, stops[2])
          /\ Len(r) = 2 * (LineSteps + 1)
          /\ InWorkspace(Start(q, stops, 2)) /\ Line(Start(q, stops, 2), stops[2]) # NoRoute
          /\ \A i \in 1..(LineSteps + 1) :
               r[(2 - 1) * (LineSteps + 1) + i] = Line(Start(q, stops, 2), stops[2])[i]
      <4>1. PICK n : n = Len(stops)
        OBVIOUS
      <4>2. /\ LineSteps \in Nat /\ LineSteps >= 1
            /\ IsRoute(r, q, stops[n])
            /\ Len(r) = n * (LineSteps + 1)
            /\ InWorkspace(Start(q, stops, n)) /\ Line(Start(q, stops, n), stops[n]) # NoRoute
            /\ \A i \in 1..(LineSteps + 1) :
                 r[(n - 1) * (LineSteps + 1) + i] = Line(Start(q, stops, n), stops[n])[i]
        BY <2>8, <3>1, <4>1, ThroughIsARoute
      <4>3. n = 2
        BY <2>8, <4>1
      <4> QED BY <4>2, <4>3
    <3> QED BY <2>8, <3>2 DEF last
  <2>10. Len(last) = LineSteps + 1 /\ RunsOneWay(last, up, target)
    BY <2>5, <2>9, LineIsARoute
  <2>11. \A i \in 1..(LineSteps + 1) : last[i] \in Cfg
    <3>1. IsRoute(last, up, target)
      BY <2>5, <2>9, LineIsARoute
    <3> QED BY <2>10, <3>1, ElementOfSeq DEF IsRoute
  <2> HIDE DEF last
  <2>12. Len(r) \div 2 = LineSteps + 1
    BY <2>9
  <2>13. ASSUME NEW k \in (Len(r) \div 2 + 1)..(Len(r) - 1), NEW j \in Joints
         PROVE  (r[k + 1][j] - r[k][j]) * velocity[j] >= 0
    <3>1. PICK i \in Int : i = k - (LineSteps + 1)
      BY <2>9, <2>12
    <3>2. /\ i \in 1..LineSteps /\ i \in 1..(LineSteps + 1) /\ i + 1 \in 1..(LineSteps + 1)
          /\ k = (2 - 1) * (LineSteps + 1) + i /\ k + 1 = (2 - 1) * (LineSteps + 1) + (i + 1)
      BY <2>9, <2>12, <3>1
    <3>3. r[k] = last[i] /\ r[k + 1] = last[i + 1]
      BY <2>9, <3>2
    <3>4. i \in 1..(Len(last) - 1)
      BY <2>9, <2>10, <3>2
    <3>5. /\ up[j] <= target[j] => last[i][j] <= last[i + 1][j]
          /\ up[j] >= target[j] => last[i][j] >= last[i + 1][j]
      BY <2>10, <3>4 DEF RunsOneWay
    <3>6. last[i][j] \in Int /\ last[i + 1][j] \in Int /\ velocity[j] \in Int
      BY <2>3, <2>11, <3>2 DEF Cfg
    <3>7. \A x, y, v \in Int : (v >= 0 => x <= y) /\ (v <= 0 => x >= y) => (y - x) * v >= 0
      <4>1. \A d, v \in Int : (v >= 0 => d >= 0) /\ (v <= 0 => d <= 0) => d * v >= 0
        OBVIOUS
      <4> QED BY <4>1
    <3>8. /\ velocity[j] >= 0 => last[i][j] <= last[i + 1][j]
          /\ velocity[j] <= 0 => last[i][j] >= last[i + 1][j]
      BY <2>6, <3>5
    <3> QED BY <3>3, <3>6, <3>7, <3>8
  <2> QED BY <2>1, <2>9, <2>13
<1> QED BY <1>1, <1>2

LEMMA OverIsARoute ==
  ASSUME NEW q \in Cfg, NEW target \in Cfg, InWorkspace(q), NEW lift \in Int,
         Over(q, target, lift) # NoRoute
  PROVE  IsRoute(Over(q, target, lift), q, target)
<1>. DEFINE top == (IF q[Up] > target[Up] THEN q[Up] ELSE target[Up]) + lift
            a == [q EXCEPT ![Up] = top]
            b == [target EXCEPT ![Up] = top]
<1>1. top \in Int
  BY PlanningAssumption DEF Cfg
<1>2. a \in Cfg /\ b \in Cfg
  BY <1>1 DEF Cfg
<1>3. Over(q, target, lift) = Through(q, <<a, b, target>>)
  BY DEF Over
<1> HIDE DEF a, b
<1>4. PICK stops : stops = <<a, b, target>>
  OBVIOUS
<1>5. stops \in Seq(Cfg) /\ stops # <<>> /\ Len(stops) = 3 /\ stops[3] = target
  BY <1>2, <1>4
<1>6. Through(q, stops) # NoRoute
  BY <1>3, <1>4
<1>7. IsRoute(Through(q, stops), q, stops[Len(stops)])
  BY <1>5, <1>6, ThroughIsARoute
<1> QED BY <1>3, <1>4, <1>5, <1>7

(* An avoiding route is clear.                                             *)
LEMMA AvoidIsAClearRoute ==
  ASSUME NEW q \in Cfg, NEW target \in Cfg, InWorkspace(q), Avoid(q, target) # NoRoute
  PROVE  IsRoute(Avoid(q, target), q, target) /\ Clear(Avoid(q, target))
<1>. DEFINE direct == Line(q, target)
            over == [n \in 1..Attempts |-> Over(q, target, Clearance * n)]
            good == {n \in 1..Attempts : over[n] # NoRoute /\ Clear(over[n])}
            m == CHOOSE n \in good : \A o \in good : n <= o
<1>1. CASE direct # NoRoute /\ Clear(direct)
  BY <1>1, LineIsARoute DEF Avoid
<1>2. CASE ~(direct # NoRoute /\ Clear(direct))
  <2>1. good # {} /\ Avoid(q, target) = over[m]
    BY <1>2 DEF Avoid
  <2>2. \E n \in good : \A o \in good : n <= o
    <3>1. good \subseteq Nat
      BY DEF Attempts
    <3> HIDE DEF good
    <3> QED BY <2>1, <3>1, LeastNumber
  <2>3. m \in good
    <3> HIDE DEF good
    <3> QED BY <2>2
  <2>4. m \in 1..Attempts /\ over[m] # NoRoute /\ Clear(over[m])
    BY <2>3
  <2> HIDE DEF m
  <2>5. over[m] = Over(q, target, Clearance * m)
    BY <2>4
  <2>6. Clearance * m \in Int
    BY <2>4, PlanningAssumption DEF Attempts
  <2> QED BY <2>1, <2>4, <2>5, <2>6, OverIsARoute
<1> QED BY <1>1, <1>2

(* What a planner promises of a route between two configurations of the    *)
(* joints.                                                                 *)
Promised(r, planner, q, goal) ==
  /\ IsRoute(r, q, goal.target)
  /\ planner = "avoid" => Clear(r)
  /\ planner = "rendezvous" /\ (\E j \in Joints : goal.velocity[j] # 0) =>
       \A k \in (Len(r) \div 2 + 1)..(Len(r) - 1), j \in Joints :
         (r[k + 1][j] - r[k][j]) * goal.velocity[j] >= 0

LEMMA PlannersKeepTheirPromise ==
  ASSUME NEW planner \in Planners, planner # "program", NEW goal,
         goal.target \in Cfg, goal.velocity \in Cfg,
         NEW q \in Cfg, InWorkspace(q), Plan(planner, q, goal) # NoRoute
  PROVE  Promised(Plan(planner, q, goal), planner, q, goal)
<1>1. goal.kind = Accepts(planner)
  BY DEF Plan
<1>2. CASE planner \in {"moveL", "moveP"}
  <2>1. Plan(planner, q, goal) = Line(q, goal.target)
    BY <1>1, <1>2 DEF Plan, PoseLine
  <2> QED BY <1>2, <2>1, LineIsARoute DEF Promised
<1>3. CASE planner = "moveJ"
  <2>1. Plan(planner, q, goal) = Reach(q, goal.target)
    BY <1>1, <1>3 DEF Plan
  <2> QED BY <1>3, <2>1, ReachIsARoute DEF Promised
<1>4. CASE planner = "rendezvous"
  <2>1. Plan(planner, q, goal) = Rendezvous(q, goal.target, goal.velocity)
    BY <1>1, <1>4 DEF Plan
  <2> QED BY <1>4, <2>1, RendezvousRunsAlong DEF Promised
<1>5. CASE planner = "avoid"
  <2>1. Plan(planner, q, goal) = Avoid(q, goal.target)
    BY <1>1, <1>5 DEF Plan
  <2> QED BY <1>5, <2>1, AvoidIsAClearRoute DEF Promised
<1> QED BY <1>2, <1>3, <1>4, <1>5 DEF Planners

(* Composed for the cell, a route is as long and takes the joints the same *)
(* way, the other axes staying where they are.                             *)
LEMMA ComposeKeepsTheRoute ==
  ASSUME NEW r \in Seq(Cfg), NEW now
  PROVE  LET c == Compose(r, now)
         IN  /\ Len(c) = Len(r) /\ DOMAIN c = 1..Len(r) /\ Len(r) \in Nat
             /\ \A k \in 1..Len(r) : JointsOf(c[k]) = r[k]
             /\ \A k \in 1..Len(r), j \in Joints : c[k][j] = r[k][j]
             /\ \A k \in 1..Len(r) :
                  c[k] = [a \in Axes |-> IF a \in Joints THEN r[k][a] ELSE now[a]]
<1>. DEFINE c == Compose(r, now)
<1>1. DOMAIN r = 1..Len(r) /\ Len(r) \in Nat /\ \A k \in 1..Len(r) : r[k] \in Cfg
  BY LenProperties, ElementOfSeq
<1>2. c = [k \in 1..Len(r) |-> [a \in Axes |-> IF a \in Joints THEN r[k][a] ELSE now[a]]]
  BY <1>1 DEF Compose
<1> HIDE DEF c
<1>3. \A k \in 1..Len(r) : c[k] = [a \in Axes |-> IF a \in Joints THEN r[k][a] ELSE now[a]]
  BY <1>2
<1>4. \A k \in 1..Len(r), j \in Joints : c[k][j] = r[k][j]
  BY <1>3 DEF Axes
<1>5. ASSUME NEW k \in 1..Len(r) PROVE JointsOf(c[k]) = r[k]
  <2>1. r[k] = [j \in Joints |-> r[k][j]]
    BY <1>1 DEF Cfg
  <2> QED BY <1>4, <2>1 DEF JointsOf
<1>6. DOMAIN c = 1..Len(r) /\ Len(c) = Len(r)
  BY <1>1, <1>2
<1> QED BY <1>1, <1>3, <1>4, <1>5, <1>6 DEF c

InTravel(q) == \A a \in Axes : q[a] \in Lo[a]..Hi[a]

(***************************************************************************)
(* Routes are promised from inside the travel; the axes are there when no  *)
(* command of the run that moves them is outside of it.                    *)
(***************************************************************************)
RouteInv ==
  /\ InTravel(at)
  /\ stage = "driving" => InTravel(cmd)
  /\ RouteKeepsItsPromise

LEMMA MoveToKeepsItsPromise ==
  ASSUME EnvelopeInv, InTravel(at), MoveTo
  PROVE  RouteKeepsItsPromise'
<1>1. PICK planner \in DOMAIN Goals : \E goal \in Goals[planner] :
        Request([planner |-> planner, goal |-> goal], Compose(Plan(planner, JointsOf(at), goal), at))
  BY DEF MoveTo
<1>2. PICK goal \in Goals[planner] :
        Request([planner |-> planner, goal |-> goal], Compose(Plan(planner, JointsOf(at), goal), at))
  BY <1>1
<1>. DEFINE q == JointsOf(at)
            r == Plan(planner, q, goal)
<1>3. ask' = [planner |-> planner, goal |-> goal] /\ route' = Compose(r, at) /\ at' = at
  BY <1>2 DEF Request
<1>4. planner \in Planners /\ goal.target \in Cfg /\ goal.velocity \in Cfg
  BY MotionAssumption DEF Cfg
<1>5. q \in Cfg /\ InWorkspace(q)
  BY DEF EnvelopeInv, JointsOf, Cfg, InTravel, InWorkspace, Axes
<1>6. r # NoRoute
  <2>1. Compose(r, at) # NoRoute
    BY <1>2 DEF Request
  <2>2. Compose(NoRoute, at) = NoRoute
    BY DEF Compose, NoRoute
  <2> QED BY <2>1, <2>2
<1>7. CASE planner = "program"
  BY <1>3, <1>7 DEF RouteKeepsItsPromise
<1>8. CASE planner # "program"
  <2> HIDE DEF q, r
  <2>1. Promised(r, planner, q, goal)
    <3>1. Promised(Plan(planner, q, goal), planner, q, goal)
      BY <1>4, <1>5, <1>6, <1>8, PlannersKeepTheirPromise DEF r
    <3> QED BY <3>1 DEF r
  <2>2. r \in Seq(Cfg) /\ r # <<>> /\ r[1] = q /\ EndOf(r) = goal.target
    BY <2>1 DEF Promised, IsRoute, NoRoute
  <2>3. Len(r) \in Nat /\ Len(r) >= 1 /\ DOMAIN r = 1..Len(r)
    BY <2>2, EmptySeq, LenProperties
  <2>4. PICK c : c = Compose(r, at)
    OBVIOUS
  <2>5. /\ Len(c) = Len(r) /\ DOMAIN c = 1..Len(r)
        /\ \A k \in 1..Len(r) : JointsOf(c[k]) = r[k]
        /\ \A k \in 1..Len(r), j \in Joints : c[k][j] = r[k][j]
        /\ \A k \in 1..Len(r) :
             c[k] = [a \in Axes |-> IF a \in Joints THEN r[k][a] ELSE at[a]]
    BY <2>2, <2>4, ComposeKeepsTheRoute
  <2>6. c[1] = at
    <3>1. c[1] = [a \in Axes |-> IF a \in Joints THEN q[a] ELSE at[a]]
      BY <2>2, <2>3, <2>5
    <3>2. \A a \in Joints : q[a] = at[a]
      BY DEF q, JointsOf
    <3>3. at = [a \in Axes |-> at[a]]
      BY DEF EnvelopeInv
    <3> QED BY <3>1, <3>2, <3>3
  <2>7. JointsOf(EndOf(c)) = goal.target
    BY <2>2, <2>3, <2>5 DEF EndOf
  <2>8. \A k \in 2..Len(c) : InWorkspace(c[k])
    BY <2>1, <2>3, <2>5 DEF Promised, IsRoute, InWorkspace
  <2>9. planner = "avoid" => Clear(c)
    BY <2>1, <2>3, <2>5 DEF Promised, Clear, InCollision
  <2>10. planner = "rendezvous" /\ (\E j \in Joints : goal.velocity[j] # 0) =>
           \A k \in (Len(c) \div 2 + 1)..(Len(c) - 1), j \in Joints :
             (c[k + 1][j] - c[k][j]) * goal.velocity[j] >= 0
    <3>1. ASSUME NEW k \in (Len(c) \div 2 + 1)..(Len(c) - 1)
          PROVE  k \in 1..Len(r) /\ k + 1 \in 1..Len(r)
      BY <2>3, <2>5
    <3>2. \A k \in (Len(c) \div 2 + 1)..(Len(c) - 1), j \in Joints :
            c[k][j] = r[k][j] /\ c[k + 1][j] = r[k + 1][j]
      BY <2>5, <3>1
    <3> QED BY <2>1, <2>5, <3>2 DEF Promised
  <2>11. route' = c /\ at' = at /\ ask'.goal = goal /\ ask'.planner = planner
    BY <1>3, <2>4 DEF r
  <2> QED BY <2>6, <2>7, <2>8, <2>9, <2>10, <2>11 DEF RouteKeepsItsPromise
<1> QED BY <1>7, <1>8

(* A command that begins in the travel stays there, and so does the axis   *)
(* that follows it.                                                        *)
LEMMA CycleStaysInTheTravel ==
  ASSUME EnvelopeInv, InTravel(at), InTravel(cmd),
         NEW requested \in BOOLEAN, NEW unsafe \in BOOLEAN, DriveCycle(requested, unsafe)
  PROVE  InTravel(at)' /\ InTravel(cmd)'
<1>1. InTravel(cmd)'
  <2>1. CASE unsafe
    BY <2>1 DEF DriveCycle, HoldAll, InTravel
  <2>2. CASE ~unsafe
    <3>1. ASSUME NEW a \in Axes PROVE cmd'[a] \in Lo[a]..Hi[a]
      <4>1. PICK setpoint : cmd'[a] = Govern(a, setpoint)
        BY <2>2 DEF DriveCycle, FollowAll
      <4>2. PICK to : to = Govern(a, setpoint)
        OBVIOUS
      <4>3. /\ to \in Int
            /\ Magnitude(to - Clamp(to, Lo[a], Hi[a]))
                 <= Magnitude(cmd[a] - Clamp(cmd[a], Lo[a], Hi[a]))
        BY <4>2, GovernorHolds
      <4>4. \A x, c, lo, hi \in Int :
              /\ lo <= hi /\ c \in lo..hi
              /\ Magnitude(x - Clamp(x, lo, hi)) <= Magnitude(c - Clamp(c, lo, hi))
              => x \in lo..hi
        BY DEF Magnitude, Clamp
      <4>5. /\ Lo[a] \in Int /\ Hi[a] \in Int /\ Lo[a] <= Hi[a]
            /\ cmd[a] \in Int /\ cmd[a] \in Lo[a]..Hi[a]
        BY PlanningAssumption DEF EnvelopeInv, InTravel
      <4> QED BY <4>1, <4>2, <4>3, <4>4, <4>5
    <3> QED BY <3>1 DEF InTravel
  <2> QED BY <2>1, <2>2
<1>2. at' = at \/ at' = cmd'
  BY DEF DriveCycle, StepAll
<1> QED BY <1>1, <1>2 DEF InTravel

LEMMA NextKeepsRoute ==
  ASSUME EnvelopeInv, RouteInv, [MotionNext]_motion_vars
  PROVE  RouteInv'
<1>1. CASE MoveTo
  <2>1. at' = at /\ stage' = "planned"
    BY <1>1 DEF MoveTo, Request
  <2> QED BY <1>1, <2>1, MoveToKeepsItsPromise DEF RouteInv, InTravel
<1>2. CASE RunMotion
  <2>1. at' = at /\ stage' = "planned" /\ ask'.planner = "named"
    BY <1>2 DEF RunMotion, Request
  <2> QED BY <2>1 DEF RouteInv, InTravel, RouteKeepsItsPromise
<1>3. CASE RefuseRoute
  BY <1>3 DEF RefuseRoute, RouteInv, InTravel, RouteKeepsItsPromise
<1>4. CASE Execute
  <2>1. at' = at /\ cmd' = at /\ stage' = "driving"
    BY <1>4 DEF Execute, Seed
  <2> QED BY <2>1 DEF RouteInv, InTravel, RouteKeepsItsPromise
<1>5. CASE Jog
  <2>1. at' = at /\ cmd' = at /\ stage' = "driving"
    BY <1>5 DEF Jog, Seed
  <2> QED BY <2>1 DEF RouteInv, InTravel, RouteKeepsItsPromise
<1>6. CASE Return
  BY <1>6 DEF Return, RouteInv, InTravel, RouteKeepsItsPromise
<1>7. CASE \E requested, unsafe \in BOOLEAN : DriveCycle(requested, unsafe)
  <2>1. PICK requested \in BOOLEAN, unsafe \in BOOLEAN : DriveCycle(requested, unsafe)
    BY <1>7
  <2>2. stage = "driving" /\ stage' = "driving"
    BY <2>1 DEF DriveCycle
  <2> QED BY <2>1, <2>2, CycleStaysInTheTravel DEF RouteInv, RouteKeepsItsPromise
<1>8. CASE UNCHANGED motion_vars
  BY <1>8 DEF motion_vars, axis_vars, RouteInv, InTravel, RouteKeepsItsPromise
<1> QED BY <1>1, <1>2, <1>3, <1>4, <1>5, <1>6, <1>7, <1>8 DEF MotionNext

(* An axis that begins in its travel is never driven out of it.           *)
THEOREM RouteInvariant ==
  ASSUME \A a \in Axes : Home[a] \in Lo[a]..Hi[a]
  PROVE  MotionSpec => []RouteInv
<1>1. MotionInit => RouteInv
  BY DEF MotionInit, RouteInv, InTravel, RouteKeepsItsPromise
<1> QED BY <1>1, NextKeepsRoute, EnvelopeInvariant, PTL DEF MotionSpec

(* Where the axes begin in their travel, every planner keeps its promise,  *)
(* for every chain of joints, every set of obstacles and every goal        *)
(* (planner.hpp).                                                          *)
THEOREM RoutesKeepTheirPromise ==
  ASSUME \A a \in Axes : Home[a] \in Lo[a]..Hi[a]
  PROVE  MotionSpec => []RouteKeepsItsPromise
<1>1. RouteInv => RouteKeepsItsPromise
  BY DEF RouteInv
<1> QED BY <1>1, RouteInvariant, PTL

===============================================================================
