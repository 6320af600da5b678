---------------------------- MODULE MCControlPlane ----------------------------
(***************************************************************************)
(* A cell with two driver families, two callers and a backlog of two: a    *)
(* move, a jog, a rebuild and the shape of the shipped applications, which *)
(* name their driver family before they move.                              *)
(***************************************************************************)
EXTENDS ControlPlane

CONSTANTS c1, c2

MCCallers  == {c1, c2}
MCFamilies == {"ideal", "physics"}
MCItems    == {Receipt, <<"move">>, <<"physics", "move">>, <<"jog", "work">>, <<"physics">>}
MCKeys     == {"driver"}
MCErrors   == {"refused", "failed", "stopped"}

===============================================================================
