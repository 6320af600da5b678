------------------------------ MODULE Capabilities ------------------------------
(***************************************************************************)
(* The capabilities of a cell whose algorithm can be swapped while it runs *)
(* (gateway/capability.hpp and the five built on it).  Each keeps a        *)
(* registry of versions, the one selected, and the object last made of it; *)
(* of that object, the version it was made of and what it was made around. *)
(***************************************************************************)
CONSTANTS
  Caps,       \* "camera", "vision", "tracking", "trajectory", "control"
  BuiltIn,    \* the versions each registers when it is constructed
  Default     \* the one each starts with

ASSUME CapsAssumption ==
  /\ Caps = {"camera", "vision", "tracking", "trajectory", "control"}
  /\ DOMAIN Default = Caps

Authorable == {"vision", "tracking", "trajectory"}

VARIABLES
  names,      \* registry_: the versions of each capability
  version,    \* version_
  made,       \* what each reader holds: [of, around]
  chain,      \* CellGateway.kin_: the world the kinematics were opened on
  kin,        \* TrajectoryCapability.kin_
  clutter,    \* VisionCapability.clutter_, as the world it was read from
  view        \* CameraCapability.watch_ and clutter_, likewise

cap_vars == <<names, version, made, chain, kin, clutter, view>>

Object(of, around) == [of |-> of, around |-> around]

(* Built fresh for whoever reads it.                                       *)
MakeCamera == Object(version'["camera"], view')

MakeDetector   == Object(version'["vision"], <<MakeCamera, clutter'>>)
MakeTracker    == Object(version'["tracking"], <<>>)
MakePlanner    == Object(version'["trajectory"], kin')
MakeController == Object(version'["control"], <<>>)

CapsInit(on) ==
  /\ names = BuiltIn
  /\ version = Default
  /\ chain = on /\ kin = on /\ clutter = on /\ view = on
  /\ made = [vision     |-> Object(version["vision"], <<Object(version["camera"], on), on>>),
             tracking   |-> Object(version["tracking"], <<>>),
             trajectory |-> Object(version["trajectory"], on),
             control    |-> Object(version["control"], <<>>)]

Built(c) == CASE c = "vision" -> MakeDetector
              [] c = "tracking" -> MakeTracker
              [] c = "trajectory" -> MakePlanner
              [] c = "control" -> MakeController

Rebuild(cs) == made' = [c \in DOMAIN made |-> IF c \in cs THEN Built(c) ELSE made[c]]

-------------------------------------------------------------------------------
(* An unknown version is refused; a known one is built at once.            *)
Select(c, v) ==
  /\ UNCHANGED <<names, chain, kin, clutter, view>>
  /\ IF v \notin names[c] THEN UNCHANGED <<version, made>>
     ELSE version' = [version EXCEPT ![c] = v] /\ Rebuild({c} \cap DOMAIN made)

(* CellGateway::select: a detector holds its sensor.                       *)
SelectWithReader(c, v) ==
  IF c # "camera" \/ v \notin names[c] THEN Select(c, v)
  ELSE /\ version' = [version EXCEPT ![c] = v]
       /\ UNCHANGED <<names, chain, kin, clutter, view>>
       /\ Rebuild({"vision"})

(* Whether or not it is selected, what is live is built again: the id may  *)
(* name the version in use.  Hardware is not authored.                     *)
InstallModule(c, v, now) ==
  IF c \notin Authorable THEN UNCHANGED cap_vars
  ELSE /\ names' = [names EXCEPT ![c] = @ \cup {v}]
       /\ version' = IF now THEN [version EXCEPT ![c] = v] ELSE version
       /\ UNCHANGED <<chain, kin, clutter, view>>
       /\ Rebuild({c})

-------------------------------------------------------------------------------
(* The cell changes what they are made around.                             *)

(* Mutated form of AttachPlanner: the planner keeps the chain it has.      *)
AttachPlanner_Keeps ==
  /\ kin' = chain
  /\ UNCHANGED <<names, version, made, chain, clutter, view>>

(* attach_kinematics, in two halves: readers get the new chain, then the   *)
(* planner is built on it.                                                 *)
SwapChain(on) == chain' = on /\ UNCHANGED <<names, version, made, kin, clutter, view>>

AttachPlanner ==
  /\ kin' = chain
  /\ UNCHANGED <<names, version, chain, clutter, view>>
  /\ Rebuild({"trajectory"})

(* After a build: the limits, the bounds and the weights are those of the  *)
(* cell that is now live.                                                  *)
AfterBuild ==
  /\ UNCHANGED <<names, version, chain, kin, clutter, view>>
  /\ Rebuild({"control", "trajectory"})

(* The end of swap_scene: the sensors look at the new world.               *)
LookAt(on) ==
  /\ clutter' = on /\ view' = on
  /\ UNCHANGED <<names, version, chain, kin>>
  /\ Rebuild({"vision"})

===============================================================================
