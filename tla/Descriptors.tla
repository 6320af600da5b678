------------------------------ MODULE Descriptors ------------------------------
(***************************************************************************)
(* The documents a user writes by hand: a robot (celld/cell_descriptor),   *)
(* a scene (celld/scene_descriptor.hpp) and an application                 *)
(* (celld/app_descriptor.hpp).  A document grows entry by entry, well      *)
(* formed or not; saving it parses and validates it (platform.hpp);        *)
(* deploying what was saved loads it again and builds a cell               *)
(* (gateway/cell_runtime.hpp, celld/robot_node.hpp), composes a world      *)
(* (sim_mujoco/mjcf_composer.hpp) or runs the program.                     *)
(*                                                                         *)
(* An entry is `whole` when every key the parser asks for is there and has *)
(* its type.  Of a node there is its id, of a list of waypoints its        *)
(* length; what a build does with limits, units and joints of the model is *)
(* left out, and so is what an engine makes of a world it loads.           *)
(***************************************************************************)
EXTENDS Integers, Sequences, FiniteSets, SequencesExt

CONSTANTS
  AxisOrder,    \* axis ids, in the order of their names
  Lengths,      \* how long a list of waypoints may be
  Drivers,      \* drivers the registry has
  Named,        \* drivers a family may name
  Bodies,       \* bodies of the base world
  Within,       \* the bodies each one is nested in
  Places,       \* positions an override may give
  Shapes,       \* names a document may give to what it adds or overrides
  Verbs,        \* verbs a program may use
  Spoken,       \* verbs a document may name; "" for a step without one
  MaxEntries    \* bound: entries in one section

Axes == ToSet(AxisOrder)

ASSUME DescriptorsAssumption ==
  /\ AxisOrder \in Seq(Axes)
  /\ Lengths \subseteq Nat
  /\ Drivers \subseteq Named
  /\ Bodies \subseteq Shapes
  /\ \A b \in Bodies : Within[b] \subseteq Bodies \ {b}
  /\ "" \notin Verbs /\ Verbs \subseteq Spoken

VARIABLES
  kind,     \* what is being written
  sheet,    \* the document as it stands
  saved,    \* the last one the platform stored
  outcome   \* what became of the last operation

doc_vars == <<kind, sheet, saved, outcome>>

Unset == "unset"
Nothing == [kind |-> "none"]

BlankRobot == [kind |-> "robots", world |-> FALSE, nodes |-> <<>>, robots |-> <<>>,
               motions |-> <<>>, families |-> <<>>]
BlankScene == [kind |-> "scenes", base |-> FALSE, objects |-> <<>>, overrides |-> <<>>]
BlankApp   == [kind |-> "apps", program |-> <<>>]
Blank == [robots |-> BlankRobot, scenes |-> BlankScene, apps |-> BlankApp, none |-> Nothing]

Short(n) == UNION {[1..k -> Axes] : k \in 0..n}

NodeSpecs    == [whole : BOOLEAN, id : Axes]
RobotSpecs   == [whole : {TRUE}, carrier : Short(1), joints : Short(2)]
                  \cup [whole : {FALSE}, carrier : {<<>>}, joints : {<<>>}]
MotionSpecs  == [whole : {TRUE}, waypoints : UNION {[S -> Lengths] : S \in SUBSET Axes}]
FamilySpecs  == [whole : {TRUE}, driver : Named]
SceneObjects == [whole : BOOLEAN, name : Shapes, visible : BOOLEAN]
SceneOverrides ==
  [whole : {TRUE}, name : Shapes, pos : Places \cup {Unset}, visible : {"yes", "no", Unset}]
AppSteps     == [whole : {TRUE}, verb : Spoken]

-------------------------------------------------------------------------------
(* Parsing.  The first entry that is not whole refuses the document.       *)

AllWhole(section) == \A k \in DOMAIN section : section[k].whole

HasAxis(d, id) == \E k \in DOMAIN d.nodes : d.nodes[k].id = id
CheckAxisRefs(d, ids) == \A k \in DOMAIN ids : HasAxis(d, ids[k])

SharedIds(d) == \E j, k \in DOMAIN d.nodes : j < k /\ d.nodes[j].id = d.nodes[k].id

(* Mutated form of RobotOk: the axes of the carrier are taken on trust.    *)
RobotOk_CarrierUnchecked(d, r) ==
  /\ CheckAxisRefs(d, r.joints)
  /\ r.joints # <<>>
  /\ ToSet(r.carrier) \cap ToSet(r.joints) = {}

RobotOk(d, r) ==
  /\ CheckAxisRefs(d, r.carrier)
  /\ CheckAxisRefs(d, r.joints)
  /\ r.joints # <<>>
  /\ ToSet(r.carrier) \cap ToSet(r.joints) = {}

(* The lists of a motion in the order of the map: once one of them has     *)
(* waypoints, every later one has as many.                                 *)
MotionOk(d, m) ==
  /\ \A a \in DOMAIN m.waypoints : HasAxis(d, a)
  /\ \A j, k \in {p \in DOMAIN AxisOrder : AxisOrder[p] \in DOMAIN m.waypoints} :
       j < k /\ m.waypoints[AxisOrder[j]] # 0 =>
         m.waypoints[AxisOrder[k]] = m.waypoints[AxisOrder[j]]

Validate(d) ==
  /\ d.world
  /\ d.nodes # <<>>
  /\ d.families # <<>>
  /\ ~SharedIds(d)
  /\ \A k \in DOMAIN d.robots : RobotOk(d, d.robots[k])
  /\ \A k \in DOMAIN d.motions : MotionOk(d, d.motions[k])

ParseCell(d) ==
  /\ AllWhole(d.nodes) /\ AllWhole(d.robots) /\ AllWhole(d.motions) /\ AllWhole(d.families)
  /\ Validate(d)

ParseScene(d) == d.base /\ AllWhole(d.objects) /\ AllWhole(d.overrides)

(* A step that names no verb is not a step.                                *)
ParseProgram(program) == SelectSeq(program, LAMBDA s : s.verb # "")
ParseApp(d) == ParseProgram(d.program) # <<>>

CheckProgram(program) == \A k \in DOMAIN program : program[k].verb \in Verbs

(* Platform::validate                                                      *)
Storable(d) ==
  CASE d.kind = "robots" -> ParseCell(d)
    [] d.kind = "scenes" -> ParseScene(d)
    [] d.kind = "apps"   -> ParseApp(d) /\ CheckProgram(ParseProgram(d.program))

-------------------------------------------------------------------------------
(* A robot: the nodes of the cell are those of the document, in its order. *)

NoSlot == 0
IndexOf(d, id) ==
  LET at == {k \in DOMAIN d.nodes : d.nodes[k].id = id}
  IN  IF at = {} THEN NoSlot ELSE CHOOSE k \in at : \A j \in at : k <= j

ChainIds(r) == r.carrier \o r.joints
Resolve(d, ids) == [k \in DOMAIN ids |-> IndexOf(d, ids[k])]
Binds(d, r) == r.joints # <<>> /\ NoSlot \notin ToSet(Resolve(d, ChainIds(r)))

(* CellRuntime::build() with the family a cell boots into.                 *)
AddNodes(d)  == d.nodes # <<>> /\ d.families # <<>> /\ d.families[1].driver \in Drivers
BuildCell(d) == AddNodes(d) /\ \A k \in DOMAIN d.robots : Binds(d, d.robots[k])

LongestList(m) ==
  IF DOMAIN m.waypoints = {} THEN 0
  ELSE CHOOSE n \in Lengths :
         /\ \E a \in DOMAIN m.waypoints : m.waypoints[a] = n
         /\ \A a \in DOMAIN m.waypoints : m.waypoints[a] <= n

(* MotionService::compose_named(): one list per node; which axis it is     *)
(* taken from, or none, in which case the axis holds where it is.          *)
Held == "held"
ComposeNamed(d, m) ==
  [k \in DOMAIN d.nodes |->
     LET id == d.nodes[k].id
     IN  IF id \notin DOMAIN m.waypoints THEN Held
         ELSE IF m.waypoints[id] # LongestList(m) THEN Held ELSE id]

Runs(m) == LongestList(m) > 0

-------------------------------------------------------------------------------
(* A scene: what is left of the base world, where it is, what is added.    *)

World(bodies, at) == [ok |-> TRUE, bodies |-> bodies, at |-> at, added |-> <<>>]
BaseWorld == World(Bodies, [b \in Bodies |-> Unset])
Refused   == [BaseWorld EXCEPT !.ok = FALSE]

(* Mutated form of RemoveBody: what was nested in the body stays.          *)
RemoveBody_Alone(w, name) == [w EXCEPT !.bodies = @ \ {name}]

(* DeleteChild(): the element goes with everything in it.                  *)
RemoveBody(w, name) ==
  [w EXCEPT !.bodies = {b \in @ : b # name /\ name \notin Within[b]}]

ApplyOverride(w, o) ==
  IF ~w.ok THEN w
  ELSE IF o.name \notin w.bodies THEN Refused
  ELSE IF o.visible = "no" THEN RemoveBody(w, o.name)
  ELSE IF o.pos = Unset THEN w
  ELSE [w EXCEPT !.at[o.name] = o.pos]

(* One override after the other, in the order of the document.             *)
ApplyOverrides(scene) ==
  LET world[k \in 0..Len(scene.overrides)] ==
        IF k = 0 THEN BaseWorld ELSE ApplyOverride(world[k - 1], scene.overrides[k])
  IN  world[Len(scene.overrides)]

AddObjects(w, scene) ==
  IF ~w.ok THEN w
  ELSE [w EXCEPT !.added = SelectSeq(scene.objects, LAMBDA o : o.visible)]

Compose(scene) == AddObjects(ApplyOverrides(scene), scene)

-------------------------------------------------------------------------------
(* Writing, saving and deploying.                                          *)

DescriptorsInit ==
  /\ kind \in {"robots", "scenes", "apps", "none"}
  /\ sheet = Blank[kind]
  /\ saved = Nothing
  /\ outcome = "none"

Writes(document) ==
  /\ sheet' = document
  /\ outcome' = "none"
  /\ UNCHANGED <<kind, saved>>

(* Bound: a section has at most MaxEntries, those that only choose have one. *)
Room(section, most) == Len(section) < most

WriteRobot ==
  /\ kind = "robots"
  /\ \/ Writes([sheet EXCEPT !.world = TRUE])
     \/ \E n \in NodeSpecs :
          Room(sheet.nodes, MaxEntries) /\ Writes([sheet EXCEPT !.nodes = Append(@, n)])
     \/ \E r \in RobotSpecs :
          Room(sheet.robots, 1) /\ Writes([sheet EXCEPT !.robots = Append(@, r)])
     \/ \E m \in MotionSpecs :
          Room(sheet.motions, 1) /\ Writes([sheet EXCEPT !.motions = Append(@, m)])
     \/ \E f \in FamilySpecs :
          Room(sheet.families, 1) /\ Writes([sheet EXCEPT !.families = Append(@, f)])

WriteScene ==
  /\ kind = "scenes"
  /\ \/ Writes([sheet EXCEPT !.base = TRUE])
     \/ \E o \in SceneObjects :
          Room(sheet.objects, 1) /\ Writes([sheet EXCEPT !.objects = Append(@, o)])
     \/ \E o \in SceneOverrides :
          Room(sheet.overrides, MaxEntries) /\ Writes([sheet EXCEPT !.overrides = Append(@, o)])

WriteApp ==
  /\ kind = "apps"
  /\ \E s \in AppSteps :
       Room(sheet.program, MaxEntries) /\ Writes([sheet EXCEPT !.program = Append(@, s)])

Save ==
  /\ kind # "none" /\ sheet # saved
  /\ IF Storable(sheet)
     THEN saved' = sheet /\ outcome' = "stored"
     ELSE outcome' = "refused" /\ UNCHANGED saved
  /\ UNCHANGED <<kind, sheet>>

Deploys(what) == outcome' = what /\ UNCHANGED <<kind, sheet, saved>>

DeployRobot ==
  /\ saved.kind = "robots"
  /\ Deploys(IF ~ParseCell(saved) THEN "unreadable"
             ELSE IF ~AddNodes(saved) THEN "no driver"
             ELSE IF ~BuildCell(saved) THEN "unbound" ELSE "live")

DeployScene ==
  /\ saved.kind = "scenes"
  /\ Deploys(IF ~ParseScene(saved) THEN "unreadable"
             ELSE IF Compose(saved).ok THEN "live" ELSE "no such body")

DeployApp ==
  /\ saved.kind = "apps"
  /\ Deploys(IF ~ParseApp(saved) THEN "unreadable"
             ELSE IF CheckProgram(ParseProgram(saved.program)) THEN "live" ELSE "unknown verb")

DescriptorsNext ==
  \/ WriteRobot \/ WriteScene \/ WriteApp
  \/ Save
  \/ DeployRobot \/ DeployScene \/ DeployApp

DescriptorsSpec == DescriptorsInit /\ [][DescriptorsNext]_doc_vars

-------------------------------------------------------------------------------
(* Properties                                                              *)

(* A stored motion with any waypoint drives every axis it gives waypoints  *)
(* for along that axis's own list, and holds the others: nothing a user    *)
(* wrote is dropped on the way from the document to the move.              *)
MotionAsWritten(d, m) ==
  (\E a \in DOMAIN m.waypoints : m.waypoints[a] > 0) =>
    /\ Runs(m)
    /\ \A a \in Axes :
         LET slot == IndexOf(d, a)
             given == a \in DOMAIN m.waypoints /\ m.waypoints[a] > 0
         IN  /\ given => slot # NoSlot
             /\ slot # NoSlot => ComposeNamed(d, m)[slot] = IF given THEN a ELSE Held

(* A document is wrong when it is saved, not when it is deployed an hour   *)
(* later (platform.hpp:326): what was stored reads back, names no axis     *)
(* that is not there, and means in use what it says.  What a document      *)
(* cannot tell is left: which drivers are linked and which bodies the base *)
(* world has.                                                              *)
StoredDocumentsDeploy ==
  /\ outcome \notin {"unreadable", "unbound", "unknown verb"}
  /\ saved.kind = "robots" =>
       \A k \in DOMAIN saved.motions : MotionAsWritten(saved, saved.motions[k])

(* What a scene says of a base world, read as a whole: a body is gone when *)
(* an override hides it or something it is in; an override of a body that  *)
(* is not there, or no longer, is an error; the last position given holds. *)
HidesAt(scene, b, k) ==
  scene.overrides[k].visible = "no" /\ scene.overrides[k].name \in {b} \cup Within[b]

GoneBefore(scene, b, k) == \E j \in 1..(k - 1) : HidesAt(scene, b, j)

Sound(scene) ==
  \A k \in DOMAIN scene.overrides :
    LET b == scene.overrides[k].name IN b \in Bodies /\ ~GoneBefore(scene, b, k)

GivenPlace(scene, b) ==
  LET moves == {k \in DOMAIN scene.overrides :
                  scene.overrides[k].name = b /\ scene.overrides[k].pos # Unset}
  IN  IF moves = {} THEN Unset
      ELSE scene.overrides[CHOOSE k \in moves : \A j \in moves : j <= k].pos

ComposedAsDescribed ==
  saved.kind = "scenes" =>
    LET w == Compose(saved)
        all == Len(saved.overrides) + 1
    IN  /\ w.ok <=> Sound(saved)
        /\ w.ok =>
             /\ w.bodies = {b \in Bodies : ~GoneBefore(saved, b, all)}
             /\ \A b \in w.bodies : w.at[b] = GivenPlace(saved, b)
             /\ w.added = SelectSeq(saved.objects, LAMBDA o : o.visible)

===============================================================================
