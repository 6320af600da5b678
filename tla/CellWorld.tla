------------------------------- MODULE CellWorld -------------------------------
(***************************************************************************)
(* One cell at work (gateway/cell_gateway.hpp): the worker that executes   *)
(* commands and programs (gateway/program_runner.hpp) step by step, and    *)
(* the idle ticker that moves the world while the cell rests, over the     *)
(* cell's nodes, its capabilities and its scene.                           *)
(*                                                                         *)
(* The cell lock is held across steps of the worker only while it drives;  *)
(* every other locked section is one step.  Stops, the latch and the queue *)
(* are ControlPlane's; what a frame tells its readers is CellService's.    *)
(***************************************************************************)
EXTENDS Sequences, CellNodes, SceneTool, Capabilities

CONSTANTS
  Physical,  \* drivers whose adapters move the world they were made on
  Jobs,      \* commands, as sequences of steps [verb, a, b]
  Attempts,  \* of an intercept
  MaxPolls,  \* bound: looks of await_sighting that see nothing
  MaxJobs    \* bound: commands of a behaviour

ProgramVerbs ==
  {"family", "version", "motion", "grasp", "release", "pick", "place", "intercept", "wait",
   "conveyor", "deliver"}

Verbs ==
  ProgramVerbs \cup
  {"driver", "set_driver", "load_scene", "set_version", "define", "define_later", "move_l",
   "tool_grasp", "tool_release"}

StepsOfJobs == UNION {{j[k] : k \in DOMAIN j} : j \in Jobs}

ASSUME WorldAssumption ==
  Attempts \in Nat \ {0} /\ MaxPolls \in Nat /\ MaxJobs \in Nat /\ Physical \subseteq Drivers

(* The router builds no command of an unknown verb, and no program with    *)
(* one is stored.                                                          *)
ASSUME JobsAssumption ==
  /\ Jobs \subseteq Seq(StepsOfJobs)
  /\ \A s \in StepsOfJobs : s.verb \in Verbs

VARIABLES
  pc,      \* the worker: "free", "work", "driving", "driven", "streamed", "failed"
  todo,    \* steps of the program still to come
  micro,   \* what is left of the step it is in
  aim,     \* where that step is heading
  tries,   \* attempts left to it
  polls,
  jobs,    \* commands taken
  state,   \* CellSupervisor.state_
  family,  \* CellGateway.family_, what is "already live"
  tick,    \* the ticker: "asleep", "due", "show"
  left     \* history: worlds that were left with the part in the grip

step_vars == <<todo, aim, tries, polls, jobs>>
work_vars == <<pc, micro, step_vars>>
rest_vars == <<state, family, tick, left>>
world_vars == <<node_vars, scene_vars, cap_vars, work_vars, rest_vars>>

WorldInit ==
  /\ \E w \in Worlds, f \in DOMAIN Families :
       /\ <<Families[f], w>> \in Configures
       /\ NodesInit(w, f) /\ SceneInit(w) /\ CapsInit(w) /\ family = f
  /\ pc = "free" /\ todo = <<>> /\ micro = <<>> /\ aim = "head" /\ tries = 1 /\ polls = 0
  /\ state = "idle" /\ jobs = 0 /\ tick = "asleep" /\ left = {}

-------------------------------------------------------------------------------
(* What each verb does, in order.                                          *)

Do(what) == <<[do |-> what, a |-> "", b |-> ""]>>
DoWith(what, a, b) == <<[do |-> what, a |-> a, b |-> b]>>

Report == Do("show")
Above == Do("drive_above")
Down  == Do("drive_to")
Grasp == Do("attach") \o Do("close")
Release == Do("detach") \o Do("open")

(* Approach, descend, act, retract.                                        *)
Visit(relook, act) == Above \o relook \o Down \o act \o Above

Pick      == Do("look") \o Visit(Do("relook"), Grasp)
Place     == DoWith("aim", "pallet", "") \o Visit(<<>>, Release)
Intercept == Do("sight") \o Above \o Down \o Grasp \o Above

Build(f) == DoWith("begin_build", f, "") \o DoWith("build", f, "") \o DoWith("after_build", f, "") \o Report

AttachKinematics == Do("chain") \o Do("planner")

LoadScene(to) == DoWith("compose", to, "") \o Do("invalidate") \o AttachKinematics \o Do("look_at")

(* The verbs of a program are commands too, and the same steps.            *)
ProgramVerb(s) ==
  CASE s.verb = "family"    -> Build(s.a)
    [] s.verb = "version"   -> DoWith("choose", s.a, s.b)
    [] s.verb = "motion"    -> DoWith("aim", s.a, "") \o Down
    [] s.verb = "grasp"     -> Grasp
    [] s.verb = "release"   -> Release
    [] s.verb = "pick"      -> Pick
    [] s.verb = "place"     -> Place
    [] s.verb = "intercept" -> Intercept
    [] s.verb = "wait"      -> Do("tick") \o Report
    [] s.verb = "conveyor"  -> DoWith("belt", s.a, "")
    [] s.verb = "deliver"   -> Do("deliver")

Verb(s) ==
  CASE s.verb = "driver"        -> Build(s.a)
    [] s.verb = "set_driver"    -> DoWith("replace", s.a, s.b)
    [] s.verb = "load_scene"    -> LoadScene(s.a)
    [] s.verb = "set_version"   -> DoWith("select", s.a, s.b)
    [] s.verb = "define"        -> DoWith("install", s.a, s.b)
    [] s.verb = "define_later"  -> DoWith("install_later", s.a, s.b)
    [] s.verb = "move_l"        -> DoWith("aim", s.a, "") \o Down
    [] s.verb = "tool_grasp"    -> Grasp
    [] s.verb = "tool_release"  -> Release
    [] OTHER                    -> Report \o ProgramVerb(s)

-------------------------------------------------------------------------------
(* The worker                                                              *)

Take ==
  /\ pc = "free" /\ jobs < MaxJobs
  /\ \E j \in Jobs : todo' = j
  /\ pc' = "work" /\ jobs' = jobs + 1
  /\ state' = "moving"
  /\ UNCHANGED <<micro, aim, tries, polls, family, tick, left, node_vars, scene_vars, cap_vars>>

StartStep ==
  /\ pc = "work" /\ micro = <<>> /\ todo # <<>>
  /\ micro' = Verb(Head(todo))
  /\ todo' = Tail(todo)
  /\ tries' = IF Head(todo).verb = "intercept" THEN Attempts ELSE 1
  /\ polls' = 0
  /\ UNCHANGED <<pc, aim, jobs, rest_vars, node_vars, scene_vars, cap_vars>>

(* The end of execute(): a fresh snapshot, and then the outcome.           *)
Finish(outcome) ==
  /\ Resample(world)
  /\ pc' = "free"
  /\ state' = outcome
  /\ UNCHANGED <<micro, step_vars, family, tick, left, node_vars, held, tool, seen, cap_vars>>

Succeed == pc = "work" /\ micro = <<>> /\ todo = <<>> /\ Finish("idle")
Fault   == pc = "failed" /\ Finish("faulted")

At(what) == pc = "work" /\ micro # <<>> /\ Head(micro).do = what
Arg == Head(micro).a
Arg2 == Head(micro).b

Goes(rest) == micro' = rest /\ UNCHANGED <<pc, step_vars>>
Fail == pc' = "failed" /\ micro' = <<>> /\ todo' = <<>> /\ UNCHANGED <<aim, tries, polls, jobs>>
Proceeds(ok) == IF ok THEN Goes(Tail(micro)) ELSE Fail

Show ==
  /\ At("show") /\ Goes(Tail(micro))
  /\ TrackTool(snap)
  /\ UNCHANGED <<phys, scene, snap, held, node_vars, cap_vars, rest_vars>>

-------------------------------------------------------------------------------
(* build(), and the swap of a scene around it                              *)

(* What is already live is not built again.                                *)
BeginBuild ==
  /\ At("begin_build")
  /\ IF Arg = family THEN Goes(SubSeq(micro, Len(Build(Arg)) + 1, Len(micro))) /\ UNCHANGED state
     ELSE Goes(Tail(micro)) /\ state' = "building"
  /\ UNCHANGED <<family, tick, left, node_vars, scene_vars, cap_vars>>

RuntimeBuild ==
  /\ At("build")
  /\ \E ok \in IF Buildable(Arg) THEN Activates(Families[Arg]) ELSE {FALSE} :
       /\ BuildCell(Arg, ok)
       /\ Proceeds(ok)
       /\ state' = IF ok THEN state ELSE "faulted"
  /\ UNCHANGED <<family, tick, left, scene_vars, cap_vars>>

EndBuild ==
  /\ At("after_build") /\ Goes(Tail(micro))
  /\ AfterBuild
  /\ family' = Arg
  /\ state' = "idle"
  /\ UNCHANGED <<tick, left, node_vars, scene_vars>>

(* A scene that does not parse or compose changes nothing.                 *)
SetScene ==
  /\ At("compose")
  /\ \/ Arg \in Worlds /\ world' = Arg /\ Goes(Tail(micro))
     \/ UNCHANGED world /\ Fail
  /\ UNCHANGED <<cell, rt_family, scene_vars, cap_vars, rest_vars>>

(* Mutated form of Invalidate: the family is not forgotten.                *)
Invalidate_KeepsFamily ==
  /\ At("invalidate")
  /\ scene' = NoScene
  /\ left' = IF scene # NoScene /\ phys[scene].weld THEN left \cup {scene} ELSE left
  /\ Goes(Build(family) \o Tail(micro))
  /\ UNCHANGED <<family, phys, snap, held, tool, seen, state, tick, node_vars, cap_vars>>

(* The live world is dropped, and nothing counts as already live.          *)
Invalidate ==
  /\ At("invalidate")
  /\ scene' = NoScene
  /\ left' = IF scene # NoScene /\ phys[scene].weld THEN left \cup {scene} ELSE left
  /\ family' = ""
  /\ Goes(Build(family) \o Tail(micro))
  /\ UNCHANGED <<phys, snap, held, tool, seen, state, tick, node_vars, cap_vars>>

(* A world without a chain leaves the old one where it is.                 *)
OpenKinematics ==
  /\ At("chain")
  /\ \/ SwapChain(world) /\ Goes(Tail(micro))
     \/ UNCHANGED cap_vars /\ Goes(Tail(Tail(micro)))
  /\ UNCHANGED <<node_vars, scene_vars, rest_vars>>

SetKinematics ==
  /\ At("planner") /\ Goes(Tail(micro))
  /\ AttachPlanner
  /\ UNCHANGED <<node_vars, scene_vars, rest_vars>>

LookAtScene ==
  /\ At("look_at") /\ Goes(Tail(micro))
  /\ LookAt(world)
  /\ UNCHANGED <<node_vars, scene_vars, rest_vars>>

(* swap_node                                                               *)
SwapNode ==
  /\ At("replace")
  /\ \E ok \in SwitchedOn(Arg, Arg2) :
       ReplaceNode(Arg, Arg2, ok) /\ Proceeds(Replaced(Arg, Arg2, ok))
  /\ UNCHANGED <<scene_vars, cap_vars, rest_vars>>

-------------------------------------------------------------------------------
(* Versions                                                                *)

(* The verb set_version goes to the capability itself, a program's version *)
(* through the gateway.                                                    *)
SetVersion ==
  /\ At("select") /\ Proceeds(Arg2 \in names[Arg])
  /\ Select(Arg, Arg2)
  /\ UNCHANGED <<node_vars, scene_vars, rest_vars>>

ChooseVersion ==
  /\ At("choose") /\ Proceeds(Arg2 \in names[Arg])
  /\ SelectWithReader(Arg, Arg2)
  /\ UNCHANGED <<node_vars, scene_vars, rest_vars>>

Define ==
  /\ \E now \in BOOLEAN :
       /\ At(IF now THEN "install" ELSE "install_later")
       /\ InstallModule(Arg, Arg2, now)
  /\ Goes(Tail(micro))
  /\ UNCHANGED <<node_vars, scene_vars, rest_vars>>

-------------------------------------------------------------------------------
(* Looking and driving                                                     *)

Heads(where) == aim' = where /\ micro' = Tail(micro) /\ UNCHANGED <<pc, todo, tries, polls, jobs>>

(* A step that names its target, one that needs a sighting, and the second *)
(* look of a descent, which may see nothing new.                           *)
Aim ==
  /\ \/ At("aim") /\ Heads(Arg)
     \/ At("look") /\ (Heads(snap.part) \/ Fail)
     \/ At("relook") /\ (Heads(snap.part) \/ Heads(aim))
  /\ UNCHANGED <<node_vars, scene_vars, cap_vars, rest_vars>>

(* A sighting, and where the tracker says the part will be by then.        *)
Sight ==
  /\ At("sight")
  /\ Heads(snap.part) \/ Heads(Belt(snap.part)) \/ (polls = MaxPolls /\ Fail)
  /\ UNCHANGED <<node_vars, scene_vars, cap_vars, rest_vars>>

(* Nothing in view: the program itself lets time pass.                     *)
AwaitSighting ==
  /\ At("sight") /\ polls < MaxPolls
  /\ polls' = polls + 1
  /\ micro' = Report \o micro
  /\ TickScene(world)
  /\ UNCHANGED <<pc, todo, aim, tries, jobs, node_vars, cap_vars, rest_vars>>

LockFree == pc \notin {"driving", "driven", "streamed"}

Drives == At("drive_above") \/ At("drive_to")

(* A motion is planned and gathered under the lock, or refused there.      *)
DriveStart ==
  /\ Drives
  /\ \/ Gathers /\ pc' = "driving" /\ UNCHANGED <<micro, step_vars>>
     \/ Fail
  /\ UNCHANGED <<node_vars, scene_vars, cap_vars, rest_vars>>

CellWorldOf == cell[CHOOSE n \in Nodes : TRUE].world

(* The run: it moves what its adapters are bound to, if that is a world.   *)
DriveMove ==
  /\ pc = "driving" /\ pc' = "driven"
  /\ IF \A n \in Nodes : cell[n].driver \in Physical
     THEN \E p \in Advances(phys[CellWorldOf]) :
            phys' = [phys EXCEPT ![CellWorldOf] = Reach(p, aim, Head(micro).do = "drive_above")]
     ELSE UNCHANGED phys
  /\ UNCHANGED <<scene, snap, held, tool, seen, micro, step_vars, node_vars, cap_vars, rest_vars>>

(* Mutated form of StreamHook: the sample waits for the cell lock.         *)
StreamHook_TakesLock ==
  /\ pc = "driven" /\ LockFree
  /\ Resample(world)
  /\ TrackTool(snap')
  /\ UNCHANGED <<pc, held, micro, step_vars, node_vars, cap_vars, rest_vars>>

(* The frames of the run, the last of them from near its end: sampled on   *)
(* the thread that holds the lock, without taking it.                      *)
StreamHook ==
  /\ pc = "driven" /\ pc' = "streamed"
  /\ Resample(world)
  /\ TrackTool(snap')
  /\ UNCHANGED <<held, micro, step_vars, node_vars, cap_vars, rest_vars>>

DriveEnd ==
  /\ pc = "streamed" /\ pc' = "work"
  /\ micro' = Tail(micro)
  /\ UNCHANGED <<step_vars, node_vars, scene_vars, cap_vars, rest_vars>>

-------------------------------------------------------------------------------
(* The tool and the stations                                               *)

(* A grasp that missed is tried again while the intercept has attempts.    *)
Missed ==
  IF tries = 1 THEN Fail
  ELSE /\ tries' = tries - 1 /\ polls' = 0
       /\ micro' = Intercept
       /\ UNCHANGED <<pc, todo, aim, jobs>>

AttachPart ==
  /\ At("attach")
  /\ IF CanAttach THEN Declare(TRUE) /\ Goes(Tail(micro)) ELSE UNCHANGED scene_vars /\ Missed
  /\ UNCHANGED <<node_vars, cap_vars, rest_vars>>

CloseGrip ==
  /\ At("close")
  /\ CloseWeld(world)
  /\ IF Opened(world) \in Grippers THEN Goes(Tail(micro)) ELSE Missed
  /\ UNCHANGED <<tool, seen, node_vars, cap_vars, rest_vars>>

DetachPart ==
  /\ At("detach")
  /\ IF held THEN Declare(FALSE) /\ Goes(Tail(micro)) ELSE UNCHANGED scene_vars /\ Fail
  /\ UNCHANGED <<node_vars, cap_vars, rest_vars>>

OpenGrip ==
  /\ At("open")
  /\ OpenWeld(world)
  /\ Proceeds(Opened(world) \in Grippers)
  /\ UNCHANGED <<held, tool, seen, node_vars, cap_vars, rest_vars>>

Station ==
  /\ \/ At("belt") /\ RunBelt(world, Arg = "on")
     \/ At("deliver") /\ Deliver(world)
  /\ Goes(Tail(micro))
  /\ UNCHANGED <<held, tool, seen, node_vars, cap_vars, rest_vars>>

Wait ==
  /\ At("tick") /\ Goes(Tail(micro))
  /\ TickScene(world)
  /\ UNCHANGED <<node_vars, cap_vars, rest_vars>>

WorkerStep ==
  \/ StartStep \/ Succeed \/ Fault \/ Show
  \/ BeginBuild \/ RuntimeBuild \/ EndBuild
  \/ SetScene \/ Invalidate \/ OpenKinematics \/ SetKinematics \/ LookAtScene \/ SwapNode
  \/ SetVersion \/ ChooseVersion \/ Define
  \/ Aim \/ Sight \/ AwaitSighting \/ DriveStart \/ DriveMove \/ StreamHook \/ DriveEnd
  \/ AttachPart \/ CloseGrip \/ DetachPart \/ OpenGrip \/ Station \/ Wait

-------------------------------------------------------------------------------
(* The idle ticker                                                         *)

Ticker(where) ==
  tick' = where /\ UNCHANGED <<state, family, left, node_vars, cap_vars, work_vars>>

(* It looks at the state first, and ticks when it has the lock.            *)
Due == tick = "asleep" /\ state = "idle" /\ Ticker("due") /\ UNCHANGED scene_vars

IdleTick == tick = "due" /\ LockFree /\ TickScene(world) /\ Ticker("show")

IdleShow ==
  /\ tick = "show" /\ Ticker("asleep")
  /\ TrackTool(snap)
  /\ UNCHANGED <<phys, scene, snap, held>>

TickerStep == Due \/ IdleTick \/ IdleShow

WorldNext == Take \/ WorkerStep \/ TickerStep

WorldSpec == WorldInit /\ [][WorldNext]_world_vars

(* The worker and the ticker are threads that run while they can.          *)
WorldFairSpec == WorldSpec /\ WF_world_vars(WorkerStep) /\ WF_world_vars(TickerStep)

-------------------------------------------------------------------------------
(* Properties                                                              *)

BetweenHalves == At("close") \/ At("open")

(* What the gripper declares is what the world does: a part is held        *)
(* exactly while the weld of the open world is closed, outside the two     *)
(* steps of a grasp and a release, and until a world is left with its part *)
(* in the grip.  A frame that says "holding" is not lying.                 *)
GripIsTrue ==
  left = {} /\ ~BetweenHalves => (held <=> phys[Opened(world)].weld)

(* After a command, and for as long as the cell rests, what readers see of *)
(* the scene is where things are: whatever moved, and whether the command  *)
(* failed half way or changed the world itself.                            *)
RestShowsTheScene == pc = "free" => snap = Pose(Live(world))

(* While a driver family is live, every node drives the world the runtime  *)
(* names and the scene shows; a swap that broke off leaves no family live. *)
OneWorld ==
  pc = "free" /\ family # "" =>
    /\ \A n \in Nodes : cell[n].world = world
    /\ Opened(world) = world

(* Between commands, and whenever a motion is being planned, the planner   *)
(* is the selected version, around the chain that telemetry reads; the     *)
(* detector, the tracker and the controllers are of the versions selected. *)
ReadersAreCurrent ==
  pc = "free" \/ Drives =>
    /\ made.trajectory = [of |-> version["trajectory"], around |-> chain]
    /\ \A c \in {"vision", "tracking", "control"} : made[c].of = version[c]
    /\ made.vision.around[2] = clutter

(* A command ends, however it goes: nothing in it waits for a lock it      *)
(* holds, or for a part that never comes.                                  *)
EveryCommandEnds == (pc # "free") ~> (pc = "free")

(* A running line keeps presenting parts: one that reached the end while   *)
(* the cell rests and nothing is held goes back to the head, or is taken.  *)
LineKeepsFeeding ==
  (state = "idle" /\ phys[Opened(world)].part = "end" /\ ~held)
    ~> (phys[Opened(world)].part # "end" \/ held \/ state = "faulted")

===============================================================================
