-------------------------------- MODULE Planning --------------------------------
(***************************************************************************)
(* From a goal to the waypoints of a motion: inverse kinematics and the    *)
(* straight line (motion/cartesian.hpp), the planners behind the planning  *)
(* seam (planner.hpp, sandboxed_planner.hpp), the lists a cell is driven   *)
(* with (robot_node.hpp, motion_service.hpp) and the validator that        *)
(* refuses them before anything moves (trajectory_validator.hpp).          *)
(*                                                                         *)
(* The arm is a gantry: its joints are the coordinates of its tool, so the *)
(* kinematics is the identity and one damped step removes the error, as    *)
(* far as a step may go.  Positions are integers.  A route is a sequence   *)
(* of configurations, the columns of the code's waypoint lists; the empty  *)
(* route stands for a refusal, whose wording is left out.                  *)
(***************************************************************************)
EXTENDS Integers, Sequences

CONSTANTS
  Joints,        \* the chain the planners solve for
  Others,        \* the axes of the cell that no planner moves
  Up,            \* the joint that lifts the tool
  Lo, Hi,        \* travel of each axis
  Tolerance,     \* limit_tolerance of that travel
  VelMax,        \* velocity_max
  MaxDuration,   \* max_duration_s
  MaxIters, MaxStep,       \* of one inverse solution
  LineSteps,               \* line_steps
  LeadIn,                  \* lead_in_s
  Clearance,               \* clearance_m
  Obstacles                \* boxes [lo, hi] no joint configuration may be in

Axes     == Joints \cup Others

(* Limits and settings are numbers, and a travel is not upside down, which *)
(* std::clamp asks for.                                                    *)
ASSUME PlanningAssumption ==
  /\ Up \in Joints
  /\ Lo \in [Axes -> Int] /\ Hi \in [Axes -> Int] /\ \A a \in Axes : Lo[a] <= Hi[a]
  /\ MaxIters \in Nat /\ MaxStep \in Nat
  /\ LineSteps \in Int /\ LeadIn \in Nat /\ Clearance \in Int

Attempts == 3
NoRoute  == <<>>
EndOf(route) == route[Len(route)]
Magnitude(x) == IF x < 0 THEN -x ELSE x
Clamp(x, lo, hi) == IF x < lo THEN lo ELSE IF x > hi THEN hi ELSE x

-------------------------------------------------------------------------------
(* Inverse kinematics                                                      *)

(* One iteration: a clamped step, projected back into the joint's travel.  *)
IkStep(q, target) ==
  [j \in Joints |-> Clamp(q[j] + Clamp(target[j] - q[j], -MaxStep, MaxStep), Lo[j], Hi[j])]

IkFrom(seed, target) ==
  LET q[n \in 0..(MaxIters - 1)] == IF n = 0 THEN seed ELSE IkStep(q[n - 1], target)
  IN  \E n \in 0..(MaxIters - 1) : q[n] = target

MidTravel == [j \in Joints |-> (Lo[j] + Hi[j]) \div 2]

(* From where the arm is, and else from the middle of its travel.          *)
TwoSeeds(seed, target) == IkFrom(seed, target) \/ IkFrom(MidTravel, target)

(* The tool has a position to reach: here the joints themselves.           *)
Solves(seed, target) == TwoSeeds(seed, target)

(* moveL: as many steps along the straight line as LineSteps says, at      *)
(* least one, each seeded with the last; one that cannot be solved refuses *)
(* the line.                                                               *)
Line(q, target) ==
  LET via == [s \in 0..LineSteps |->
                [j \in Joints |-> q[j] + ((target[j] - q[j]) * s) \div LineSteps]]
  IN  IF LineSteps >= 1 /\ \A s \in 1..LineSteps : Solves(via[s - 1], via[s])
      THEN [k \in 1..(LineSteps + 1) |-> via[k - 1]]
      ELSE NoRoute

(* Lines from stop to stop.  Each begins where the one before it ended, so *)
(* a stop appears twice.                                                   *)
Through(q, stops) ==
  LET leg == [k \in DOMAIN stops |-> Line(IF k = 1 THEN q ELSE stops[k - 1], stops[k])]
      upto[k \in 0..Len(stops)] == IF k = 0 THEN <<>> ELSE upto[k - 1] \o leg[k]
  IN  IF \A k \in DOMAIN stops : leg[k] # NoRoute THEN upto[Len(stops)] ELSE NoRoute

(* moveP: the same walk towards a pose, its orientation blended with the   *)
(* step; an arm that reports none is asked for the position alone.         *)
PoseLine(q, target) == Line(q, target)

-------------------------------------------------------------------------------
(* The planners                                                            *)

Reach(q, target) == IF Solves(q, target) THEN <<q, target>> ELSE NoRoute

(* Meet a moving part upstream, and run alongside it into the grasp.       *)
Rendezvous(q, target, velocity) ==
  IF \A j \in Joints : velocity[j] = 0 THEN Line(q, target)
  ELSE Through(q, <<[j \in Joints |-> target[j] - velocity[j] * LeadIn], target>>)

InCollision(q) == \E box \in Obstacles : \A j \in Joints : q[j] \in box.lo[j]..box.hi[j]
Clear(route)   == \A k \in DOMAIN route : ~InCollision(route[k])

(* Up from where the tool is, across at height, down onto the goal.        *)
Over(q, target, lift) ==
  LET top == (IF q[Up] > target[Up] THEN q[Up] ELSE target[Up]) + lift
  IN  Through(q, <<[q EXCEPT ![Up] = top], [target EXCEPT ![Up] = top], target>>)

(* Mutated form of Avoid: the way over is taken without asking whether the *)
(* arm is clear on it.                                                     *)
Avoid_TrustsHeight(q, target) ==
  LET direct == Line(q, target)
      over   == [n \in 1..Attempts |-> Over(q, target, Clearance * n)]
      good   == {n \in 1..Attempts : over[n] # NoRoute}
  IN  IF direct # NoRoute /\ Clear(direct) THEN direct
      ELSE IF good = {} THEN NoRoute
      ELSE over[CHOOSE n \in good : \A o \in good : n <= o]

(* The straight line if it is clear; else over the top, higher each time.  *)
Avoid(q, target) ==
  LET direct == Line(q, target)
      over   == [n \in 1..Attempts |-> Over(q, target, Clearance * n)]
      good   == {n \in 1..Attempts : over[n] # NoRoute /\ Clear(over[n])}
  IN  IF direct # NoRoute /\ Clear(direct) THEN direct
      ELSE IF good = {} THEN NoRoute
      ELSE over[CHOOSE n \in good : \A o \in good : n <= o]

(* A user's program answers with a point to go by and an end, which must   *)
(* lie in the workspace: here, in the travel.                              *)
InWorkspace(p) == \A j \in Joints : p[j] \in Lo[j]..Hi[j]
Sandboxed(q, out) ==
  IF InWorkspace(out.via) /\ InWorkspace(out.end) THEN Through(q, <<out.via, out.end>>)
  ELSE NoRoute

(* Every planner is made for one kind of goal and refuses the others.      *)
Accepts(planner) == IF planner = "moveP" THEN "pose" ELSE "position"

Planners == {"moveL", "moveP", "moveJ", "rendezvous", "avoid", "program"}

Plan(planner, q, goal) ==
  IF goal.kind # Accepts(planner) THEN NoRoute
  ELSE CASE planner = "moveL"      -> Line(q, goal.target)
         [] planner = "moveP"      -> PoseLine(q, goal.target)
         [] planner = "moveJ"      -> Reach(q, goal.target)
         [] planner = "rendezvous" -> Rendezvous(q, goal.target, goal.velocity)
         [] planner = "avoid"      -> Avoid(q, goal.target)
         [] planner = "program"    -> Sandboxed(q, goal.out)

-------------------------------------------------------------------------------
(* What the cell is driven with                                            *)

JointsOf(now) == [j \in Joints |-> now[j]]

(* Joint waypoints, with every other axis held where it is.                *)
Compose(route, now) ==
  [k \in DOMAIN route |-> [a \in Axes |-> IF a \in Joints THEN route[k][a] ELSE now[a]]]

(* A motion of the descriptor names waypoints for some axes; an axis it    *)
(* does not name, or names too few for, holds.                             *)
ComposeNamed(spec, now) ==
  LET steps == CHOOSE n \in {Len(spec[a]) : a \in DOMAIN spec} :
                 \A a \in DOMAIN spec : Len(spec[a]) <= n
  IN  [k \in 1..steps |->
         [a \in Axes |-> IF a \in DOMAIN spec /\ Len(spec[a]) = steps THEN spec[a][k] ELSE now[a]]]

Distance(route, a) ==
  LET d[k \in 1..Len(route)] ==
        IF k = 1 THEN 0 ELSE d[k - 1] + Magnitude(route[k][a] - route[k - 1][a])
  IN  d[Len(route)]

(* TrajectoryValidator::check.                                             *)
Valid(route) ==
  /\ route # NoRoute
  /\ \A a \in Axes :
       /\ \A k \in DOMAIN route : route[k][a] \in (Lo[a] - Tolerance[a])..(Hi[a] + Tolerance[a])
       /\ Distance(route, a) <= MaxDuration * VelMax[a]

===============================================================================
