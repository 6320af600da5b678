------------------------------ MODULE MCCellWorld ------------------------------
(***************************************************************************)
(* One node, two driver families, three worlds: two that fit the cell, one *)
(* of them without a gripper's constraint, and one that lacks its joint.   *)
(***************************************************************************)
EXTENDS CellWorld, TLC

MCNodes    == {"j1"}
MCWorlds   == {"line", "bare", "broken"}
MCFamilies == [physics |-> "mujoco", sim |-> "sim"]
MCDrivers  == {"mujoco", "sim", "vendor"}
MCMakes    == MCDrivers \X MCWorlds
MCConfigures == (MCDrivers \X {"line", "bare"}) \cup {<<"sim", "broken">>}
MCFlaky    == {"vendor"}
MCGrippers == {"line", "broken"}

MCCaps    == {"camera", "vision", "tracking", "trajectory", "control"}
MCDefault == [c \in MCCaps |-> "one"]
MCBuiltIn == [c \in MCCaps |-> {"one", "two"}]

S(verb, a, b) == [verb |-> verb, a |-> a, b |-> b]
MCJobs == {
  <<S("driver", "sim", "")>>, <<S("set_driver", "j1", "vendor")>>,
  <<S("load_scene", "bare", "")>>, <<S("load_scene", "broken", "")>>,
  <<S("set_version", "camera", "two")>>, <<S("set_version", "trajectory", "three")>>,
  <<S("define", "trajectory", "mine")>>, <<S("define_later", "vision", "mine")>>,
  <<S("move_l", "end", "")>>, <<S("tool_grasp", "", "")>>, <<S("tool_release", "", "")>>,
  <<S("conveyor", "on", ""), S("intercept", "", ""), S("release", "", "")>>, <<S("conveyor", "off", "")>>,
  <<S("deliver", "", ""), S("version", "camera", "two"), S("pick", "", ""), S("place", "", "")>>,
  <<S("family", "physics", ""), S("motion", "end", ""), S("wait", "", ""), S("grasp", "", ""), S("release", "", "")>>}

===============================================================================
