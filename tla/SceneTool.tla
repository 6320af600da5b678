------------------------------- MODULE SceneTool -------------------------------
(***************************************************************************)
(* The physics of a cell and what is known of it: the live worlds          *)
(* (sim_mujoco/mujoco_world.hpp), the snapshot readers get of the open one *)
(* (gateway/scene_view.hpp), the part and the gripper that carries it      *)
(* (gateway/sim_gripper.hpp) and the line that presents it                 *)
(* (celld/conveyor.hpp, gateway/station_ops.hpp).                          *)
(*                                                                         *)
(* A position is a spot: three along the line, of which the last is past   *)
(* its end, and one beside it.  What is in a gripper, or on a spot, is the *)
(* one workpiece of the world.                                             *)
(***************************************************************************)
EXTENDS Naturals

CONSTANTS
  Worlds,      \* paths of loadable models
  Grippers,    \* those that declare the grip constraint
  NoScene

ASSUME SceneAssumption == NoScene \notin Worlds

Spots == {"head", "mid", "end", "pallet"}
Nowhere == "nowhere"

VARIABLES
  phys,    \* MujocoWorldPool: every world once loaded, as it was left
  scene,   \* SceneView.scene_: the world it has open
  snap,    \* SceneView.sites_
  held,    \* Workpiece.held_
  tool,    \* Workpiece.tool_
  seen     \* Workpiece.seen_

scene_vars == <<phys, scene, snap, held, tool, seen>>

Home == [tool |-> "pallet", raised |-> TRUE, part |-> "head", weld |-> FALSE, belt |-> FALSE]

Pose(p) == [tool |-> p.tool, raised |-> p.raised, part |-> p.part]

SceneInit(on) ==
  /\ phys = [w \in Worlds |-> Home]
  /\ scene = on
  /\ snap = Pose(Home)
  /\ held = FALSE
  /\ tool = Nowhere
  /\ seen = Nowhere

-------------------------------------------------------------------------------
(* One world                                                               *)

(* A part rides with the tool it is welded to.                             *)
Reach(p, spot, up) ==
  [p EXCEPT !.tool = spot, !.raised = up, !.part = IF p.weld THEN spot ELSE @]

Belt(spot) == CASE spot = "head" -> "mid" [] spot = "mid" -> "end" [] OTHER -> spot

(* Time passes: what lies on a running belt may have moved a spot on.      *)
Advances(p) ==
  {p} \cup (IF p.belt /\ ~p.weld THEN {[p EXCEPT !.part = Belt(@)]} ELSE {})

(* A weld is closed on the pose the bodies are in.                         *)
Constrain(p, closed) == [p EXCEPT !.weld = closed]

(* A free body is put down at a spot, at rest; a part is put at the head.  *)
PlaceBody(p, spot) == [p EXCEPT !.part = spot]

Recycle(p) == PlaceBody(p, "head")

(* Mutated form of Recirculate: the part is left where the line ends.      *)
Recirculate_Never(p) == p

Recirculate(p) == IF p.part = "end" THEN Recycle(p) ELSE p

-------------------------------------------------------------------------------
(* SceneView.  Every use opens the runtime's world if none is open.        *)

Opened(world) == IF scene = NoScene THEN world ELSE scene

(* Mutated form of With: the snapshot is left as it was.                   *)
With_NoSample(world, p) ==
  /\ scene' = Opened(world)
  /\ phys' = [phys EXCEPT ![Opened(world)] = p]
  /\ UNCHANGED snap

With(world, p) ==
  /\ scene' = Opened(world)
  /\ phys' = [phys EXCEPT ![Opened(world)] = p]
  /\ snap' = Pose(p)

Live(world) == phys[Opened(world)]

Resample(world) == With(world, Live(world))

(* Never while the gripper says it holds the part.                         *)
KeepLinesFed(p) == IF held THEN p ELSE Recirculate(p)

(* tick_scene: time passes, and the stations get their say.                *)
TickScene(world) ==
  \E p \in Advances(Live(world)) :
    /\ With(world, KeepLinesFed(p))
    /\ UNCHANGED <<held, tool, seen>>

(* The part of a frame the gripper lives on: where the tool and the part   *)
(* were when the world was last sampled.                                   *)
TrackTool(s) ==
  /\ tool' = IF s.raised THEN Nowhere ELSE s.tool
  /\ seen' = s.part

-------------------------------------------------------------------------------
(* The gripper, each call in two halves: the declaration, and the weld.    *)

(* A declared part must be at the tool, as far as the last frame knew.     *)
CanAttach == ~held /\ seen # Nowhere /\ tool = seen

Declare(holding) ==
  /\ held' = holding
  /\ UNCHANGED <<phys, scene, snap, tool, seen>>

(* Mutated form of CloseWeld: a refused grasp stays declared.              *)
CloseWeld_StaysDeclared(world) ==
  /\ With(world, Constrain(Live(world), Opened(world) \in Grippers))
  /\ UNCHANGED held

(* A world without the constraint refuses; a refused grasp lets go again.  *)
CloseWeld(world) ==
  IF Opened(world) \in Grippers
  THEN With(world, Constrain(Live(world), TRUE)) /\ UNCHANGED held
  ELSE With(world, Live(world)) /\ held' = FALSE

OpenWeld(world) ==
  IF Opened(world) \in Grippers
  THEN With(world, Constrain(Live(world), FALSE))
  ELSE With(world, Live(world))

-------------------------------------------------------------------------------
(* StationOps                                                              *)

RunBelt(world, run) ==
  With(world, IF run THEN [Recycle(Live(world)) EXCEPT !.belt = TRUE]
              ELSE [Live(world) EXCEPT !.belt = FALSE])

Deliver(world) == With(world, Recycle(Live(world)))

===============================================================================
