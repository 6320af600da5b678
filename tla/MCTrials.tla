------------------------------- MODULE MCTrials -------------------------------
(***************************************************************************)
(* Two versions compared, one of them a name the capability does not have, *)
(* on a trial that moves and picks; and two planners compared on the trial *)
(* shipped for planners (apps/cell_server/apps/bin-picking.app.json),      *)
(* which begins by selecting a planner itself.                             *)
(***************************************************************************)
EXTENDS Trials

MCKnown       == {"moveL", "moveJ"}
MCComparisons == {<<"moveJ", "nope">>}
MCPlanners    == {<<"moveL", "moveJ">>}
MCPickTrial   == <<Do("move"), Do("pick")>>
MCBinPicking  == <<Choose("moveJ"), Do("pick")>>
Commands(versions, trial) ==
  {<<Choose(v)>> : v \in versions} \cup {Release, Home, Move, Receipt, trial}
MCItems       == Commands(MCKnown \cup {"nope"}, MCPickTrial)
MCBinItems    == Commands(MCKnown, MCBinPicking)

===============================================================================
