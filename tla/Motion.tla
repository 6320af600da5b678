--------------------------------- MODULE Motion ---------------------------------
(***************************************************************************)
(* A motion from the request to the axes: the motion service               *)
(* (gateway/motion_service.hpp) plans, validates and runs; the executive   *)
(* of ExecutiveRun turns its cycles; in each of them every axis is asked   *)
(* for a setpoint, governed (motion/governor.hpp) and written              *)
(* (motion/sync_executive.hpp).  A jog streams one axis from the online    *)
(* generator (otg.hpp) and parks the others.                               *)
(*                                                                         *)
(* The rate of the loop is chosen so that every plan lasts PlanCycles      *)
(* cycles.  A device follows its setpoint or lags a cycle behind.          *)
(***************************************************************************)
EXTENDS ExecutiveRun, BlendPlan

CONSTANTS
  Home,         \* where the axes are at first
  Goals,        \* per planner, the goals it is asked for
  NamedMotions, \* the motions of the descriptor
  Jogs,         \* [axis, target]
  JogSpeed,     \* what the generator may do in a cycle
  MaxMoves      \* bound: requests

NoAxis == "none"

(* Positions and speeds are numbers, a plan lasts a cycle at least, and a  *)
(* planner is one that is registered.                                      *)
ASSUME MotionAssumption ==
  /\ NoAxis \notin Axes
  /\ VelMax \in [Axes -> Nat] /\ JogSpeed \in Nat
  /\ Home \in [Axes -> Int]
  /\ PlanCycles > 0
  /\ \A planner \in DOMAIN Goals : planner \in Planners /\ \A goal \in Goals[planner] :
       goal.target \in [Joints -> Int] /\ goal.velocity \in [Joints -> Int]

VARIABLES
  stage,      \* "rest", "planned" or "driving"
  ask,        \* the planner and the goal of the request, or what it was instead
  route,      \* the waypoints of the cell
  reference,  \* what the axes' sources answer at a path time
  stream,     \* the online generator: [axis, position, velocity, goal]
  limit,      \* how far the governor lets an axis go in a cycle
  cmd,        \* prev_ of the governors, the last setpoint written
  at,         \* where the axes are
  moves

axis_vars   == <<stage, ask, route, reference, stream, limit, cmd, at, moves>>
motion_vars == <<run_vars, axis_vars>>

Parked  == [axis |-> NoAxis, position |-> 0, velocity |-> 0, goal |-> 0]
NoAsk   == [planner |-> "none", goal |-> <<>>]
Holding(q) == [p \in 0..Goal |-> q]

MotionInit ==
  /\ RunInit
  /\ stage = "rest"
  /\ ask = NoAsk
  /\ route = NoRoute
  /\ reference = Holding(Home)
  /\ stream = Parked
  /\ limit = [a \in Axes |-> 0]
  /\ cmd = [a \in Axes |-> 0]
  /\ at = Home
  /\ moves = 0

-------------------------------------------------------------------------------
(* Requests.  One that is refused changes nothing.                         *)

Request(what, waypoints) ==
  /\ stage = "rest"
  /\ moves < MaxMoves
  /\ waypoints # NoRoute
  /\ stage' = "planned"
  /\ ask' = what
  /\ route' = waypoints
  /\ moves' = moves + 1
  /\ UNCHANGED <<run_vars, reference, stream, limit, cmd, at>>

MoveTo ==
  \E planner \in DOMAIN Goals : \E goal \in Goals[planner] :
    Request([planner |-> planner, goal |-> goal], Compose(Plan(planner, JointsOf(at), goal), at))

RunMotion ==
  \E spec \in NamedMotions :
    Request([planner |-> "named", goal |-> <<>>], ComposeNamed(spec, at))

(* The validator says no, or there are too few waypoints for a plan.       *)
RefuseRoute ==
  /\ stage = "planned"
  /\ ~Valid(route) \/ Len(route) < 2
  /\ stage' = "rest"
  /\ ask' = NoAsk
  /\ route' = NoRoute
  /\ UNCHANGED <<run_vars, reference, stream, limit, cmd, at, moves>>

(* Mutated form of Seed: governors keep the setpoint of the run before.    *)
Seed_Stale == UNCHANGED cmd
(* prepare(): the governors begin where the axes are.                      *)
Seed == cmd' = at

(* What a cycle may move an axis in a plan of that duration: in a cycle    *)
(* that takes no time, or none that is a number, nothing.                  *)
Allowance(a, duration) ==
  IF duration \in Nat THEN Ceil(VelMax[a] * duration, PlanCycles) ELSE 0

Execute ==
  /\ stage = "planned"
  /\ Valid(route)
  /\ Len(route) >= 2
  /\ Begin
  /\ stage' = "driving"
  /\ LET plan == Blended(route)
     IN  /\ reference' = [p \in 0..Goal |->
                            [a \in Axes |-> Sample(plan, a, (p * plan.duration) \div Goal)]]
         /\ limit' = [a \in Axes |-> Allowance(a, plan.duration)]
  /\ Seed
  /\ UNCHANGED <<ask, route, stream, at, moves>>

(* The target is clamped into the travel; every other axis holds.          *)
Jog ==
  /\ stage = "rest"
  /\ moves < MaxMoves
  /\ Begin
  /\ stage' = "driving"
  /\ \E j \in Jogs :
       LET goal == Clamp(j.target, Lo[j.axis], Hi[j.axis])
       IN  /\ stream' = [axis |-> j.axis, position |-> at[j.axis], velocity |-> 0, goal |-> goal]
           /\ route' = <<at, [at EXCEPT ![j.axis] = goal]>>
  /\ ask' = [planner |-> "jog", goal |-> <<>>]
  /\ reference' = Holding(at)
  /\ limit' = [a \in Axes |-> JogSpeed]
  /\ Seed
  /\ moves' = moves + 1
  /\ UNCHANGED at

-------------------------------------------------------------------------------
(* One cycle                                                               *)

(* The generator, a cycle on: a unit faster, or as slow as it must be to   *)
(* come to rest at its goal.  It is told the path time and does not look.  *)
Streamed ==
  LET left == Magnitude(stream.goal - stream.position)
      v    == Greatest({0} \cup {u \in 1..JogSpeed : u <= stream.velocity + 1 /\ u * (u + 1) <= 2 * left})
  IN  [stream EXCEPT !.position = IF stream.goal < @ THEN @ - v ELSE @ + v, !.velocity = v]

(* Governor::apply: a setpoint that is no number is answered with the last *)
(* one, any other as far towards it as the travel and the cycle allow.     *)
Govern(a, setpoint) ==
  IF setpoint \notin Int THEN cmd[a]
  ELSE cmd[a] + Clamp(Clamp(setpoint, Lo[a], Hi[a]) - cmd[a], -limit[a], limit[a])

FollowAll ==
  /\ stream' = IF stream.axis = NoAxis THEN stream ELSE Streamed
  /\ cmd' = [a \in Axes |->
               Govern(a, IF a = stream.axis THEN Streamed.position ELSE reference[path][a])]

HoldAll == UNCHANGED <<stream, cmd>>

(* A device is where it was, or where it was told to be.                   *)
StepAll == at' \in {at, cmd'}

DriveCycle(requested, unsafe) ==
  /\ stage = "driving"
  /\ Step(requested, unsafe)
  /\ IF unsafe THEN HoldAll ELSE FollowAll
  /\ StepAll
  /\ UNCHANGED <<stage, ask, route, reference, limit, moves>>

Return ==
  /\ stage = "driving"
  /\ Leave
  /\ stage' = "rest"
  /\ ask' = NoAsk
  /\ route' = NoRoute
  /\ reference' = Holding(Home)
  /\ stream' = Parked
  /\ limit' = [a \in Axes |-> 0]
  /\ UNCHANGED <<cmd, at, moves>>

MotionNext ==
  \/ MoveTo \/ RunMotion \/ RefuseRoute \/ Execute \/ Jog \/ Return
  \/ \E requested, unsafe \in BOOLEAN : DriveCycle(requested, unsafe)

MotionSpec == MotionInit /\ [][MotionNext]_motion_vars

-------------------------------------------------------------------------------
(* Properties                                                              *)

(* A route is what its planner promises: it begins where the arm is, ends  *)
(* at the goal, keeps to the joints' travel, is clear of every obstacle if *)
(* the planner avoids them, and its last leg runs the way the target moves *)
(* if the planner meets it.                                                *)
RouteKeepsItsPromise ==
  stage = "planned" /\ ask.planner \notin {"named", "program"} =>
    LET half == Len(route) \div 2
    IN  /\ route[1] = at
        /\ JointsOf(EndOf(route)) = ask.goal.target
        /\ \A k \in 2..Len(route) : InWorkspace(route[k])
        /\ ask.planner = "avoid" => Clear(route)
        /\ ask.planner = "rendezvous" /\ (\E j \in Joints : ask.goal.velocity[j] # 0) =>
             \A k \in (half + 1)..(Len(route) - 1), j \in Joints :
               (route[k + 1][j] - route[k][j]) * ask.goal.velocity[j] >= 0

(* No cycle commands an axis further than its velocity allows, counted     *)
(* from where the axis is when the run begins and from the last command    *)
(* afterwards, and none takes a command out of the travel, or further out  *)
(* of it than the axis was found.                                          *)
EnvelopeHolds ==
  [][\A requested, unsafe \in BOOLEAN : DriveCycle(requested, unsafe) =>
       \A a \in Axes :
         LET from == IF cycle = 0 THEN at[a] ELSE cmd[a]
         IN  /\ Magnitude(cmd'[a] - from) <= limit[a]
             /\ cmd'[a] \notin Lo[a]..Hi[a] =>
                  Magnitude(cmd'[a] - Clamp(cmd'[a], Lo[a], Hi[a]))
                    <= Magnitude(from - Clamp(from, Lo[a], Hi[a]))]_motion_vars

(* When the path clock has reached the end of the plan, every axis has     *)
(* been commanded to the last waypoint, of a plan as of a jog, also by a   *)
(* stop that came too late to end the run early: all axes arrive together. *)
(* Only a safety hold or a withdrawn stop may have used up the cycle that  *)
(* commands it.                                                            *)
AxesArriveTogether ==
  stage = "driving" /\ run = "returned" /\ path = Goal /\ ~holds /\ ~withdrawn =>
    \A a \in Axes : Magnitude(cmd[a] - EndOf(route)[a]) <= Tolerance[a]

(* What sync_blend.hpp says of a plan: durations are stretched until the   *)
(* blends fit and velocities with them, so it ends at its last waypoint    *)
(* (up to Tolerance: the model rounds where the code does not).            *)
PlanEndsAtGoal ==
  stage = "driving" /\ stream = Parked =>
    \A a \in Axes : Magnitude(reference[Goal][a] - EndOf(route)[a]) <= Tolerance[a]

===============================================================================
