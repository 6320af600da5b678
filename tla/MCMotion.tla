-------------------------------- MODULE MCMotion --------------------------------
(***************************************************************************)
(* A gantry of two joints over a table with one obstacle, and an axis that *)
(* no planner moves.                                                       *)
(***************************************************************************)
EXTENDS Motion

MCJoints == {"x", "z"}
MCOthers == {"rail"}
MCLo == [a \in {"x", "z", "rail"} |-> 0]
MCHi == [x |-> 60, z |-> 30, rail |-> 40]
MCTolerance == [a \in {"x", "z", "rail"} |-> 1]
MCVelMax == [x |-> 2, z |-> 2, rail |-> 1]
MCAccMax == [a \in {"x", "z", "rail"} |-> 120]
MCHome == [x |-> 0, z |-> 0, rail |-> 20]

MCObstacles == {[lo |-> [x |-> 26, z |-> 0], hi |-> [x |-> 34, z |-> 12]]}

At(x, z) == [kind |-> "position", target |-> [x |-> x, z |-> z],
             velocity |-> [x |-> 0, z |-> 0], out |-> [via |-> [x |-> 0, z |-> 0], end |-> [x |-> 0, z |-> 0]]]
Posed(x, z) == [At(x, z) EXCEPT !.kind = "pose"]
Moving(x, z, v) == [At(x, z) EXCEPT !.velocity = [x |-> v, z |-> 0]]
Program(via, end) == [At(0, 0) EXCEPT !.out = [via |-> via, end |-> end]]

MCGoals ==
  [moveL |-> {At(36, 12), Posed(36, 12)},
   moveP |-> {Posed(24, 18)},
   moveJ |-> {At(60, 30)},
   avoid |-> {At(60, 0), At(48, 0), At(30, 6), At(30, 24)},
   rendezvous |-> {Moving(48, 0, 6), Moving(48, 0, 0)},
   program |-> {Program([x |-> 12, z |-> 12], [x |-> 24, z |-> 0]),
                Program([x |-> 12, z |-> 99], [x |-> 24, z |-> 0])}]

MCNamedMotions ==
  {[rail |-> <<20, 41>>, x |-> <<0, 30, 0>>], [rail |-> <<20, 41>>], [rail |-> <<20, 45>>],
   [rail |-> <<20>>], [rail |-> <<0, 40, 0, 40, 0, 40>>]}

(* For the two runs that look at one motion each: no motion of the other   *)
(* kinds, a jog that is still under way when a stop has ramped down, and a *)
(* line cut into so many steps that its blends fit only once stretched.    *)
MCNothing == {}
MCNoGoals == [planner \in {} |-> {}]
MCLongJog == {[axis |-> "rail", target |-> 36]}
MCLongLine == [moveL |-> {At(31, 0)}]
MCSlow == [a \in {"x", "z", "rail"} |-> 10]

MCJogs == {[axis |-> "rail", target |-> 23], [axis |-> "x", target |-> -5]}

===============================================================================
