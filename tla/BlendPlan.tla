------------------------------- MODULE BlendPlan -------------------------------
(***************************************************************************)
(* SyncBlendPlan (motion/sync_blend.hpp): a route as one timeline all axes *)
(* share, straight segments joined by parabolic blends.                    *)
(*                                                                         *)
(* The code computes in doubles; here time is counted in ticks and         *)
(* positions in 1/Fine of a unit, so that a velocity is a whole number of  *)
(* them a tick.  Durations are rounded up, blend times to an even number.  *)
(***************************************************************************)
EXTENDS Planning

CONSTANTS
  AccMax,       \* acceleration_max, in 1/Fine a tick each tick
  Fine,         \* resolution of positions
  BlendRounds   \* how often durations are stretched: 16

MinSegment == 4   \* the floor of a segment's duration
MinBlend   == 2   \* and of a blend's

Ceil(x, y) == (x + y - 1) \div y
Greatest(S) == CHOOSE x \in S : \A y \in S : y <= x

Segments(route) == 1..(Len(route) - 1)
Delta(route, a, k) == route[k + 1][a] - route[k][a]

(* The slowest axis paces the group; a quarter of the velocity is left for *)
(* the blends.                                                             *)
FirstDurations(route) ==
  [k \in Segments(route) |->
     Greatest({MinSegment} \cup {Ceil(4 * Magnitude(Delta(route, a, k)), 3 * VelMax[a]) : a \in Axes})]

Speed(route, T, a, k) ==
  IF k \notin Segments(route) THEN 0 ELSE (Delta(route, a, k) * Fine) \div T[k]

(* The sequence itself, evaluated once and for all.                        *)
Tabulated(seq) == SubSeq(seq, 1, Len(seq))

(* How long each waypoint's blend takes the axis that needs longest.       *)
BlendTimes(route, T) ==
  Tabulated([k \in DOMAIN route |->
    Greatest({MinBlend} \cup
      {2 * Ceil(10 * Magnitude(Speed(route, T, a, k) - Speed(route, T, a, k - 1)), 18 * AccMax[a]) :
         a \in Axes})])

Stretched(route, T) ==
  LET tb == BlendTimes(route, T)
  IN  Tabulated([k \in Segments(route) |->
        IF 2 * T[k] < tb[k] + tb[k + 1] THEN Ceil(21 * (tb[k] + tb[k + 1]), 40) ELSE T[k]])

(* Durations after a number of rounds.                                     *)
Durations(route) ==
  LET T[n \in 0..BlendRounds] ==
        IF n = 0 THEN Tabulated(FirstDurations(route)) ELSE Stretched(route, T[n - 1])
  IN  T

(* The pieces: blend k begins at starts[k] in from[a][k], goes over into   *)
(* the velocity of segment k, and the cruise follows it.                   *)
Pieces(route, before, after) ==
  LET v      == [a \in Axes |-> [k \in 0..Len(route) |-> Speed(route, before, a, k)]]
      tb     == BlendTimes(route, before)
      cruise == Tabulated([k \in Segments(route) |-> after[k] - (tb[k] + tb[k + 1]) \div 2])
      starts[k \in DOMAIN route] == IF k = 1 THEN 0 ELSE starts[k - 1] + tb[k - 1] + cruise[k - 1]
      from(a) ==
        LET p[k \in DOMAIN route] ==
              IF k = 1 THEN route[1][a] * Fine
              ELSE p[k - 1] + ((v[a][k - 2] + v[a][k - 1]) * tb[k - 1]) \div 2
                     + v[a][k - 1] * cruise[k - 1]
        IN  Tabulated(p)
  IN  [v |-> v, tb |-> tb, cruise |-> cruise, starts |-> Tabulated(starts),
       from |-> [a \in Axes |-> from(a)],
       duration |-> starts[Len(route)] + tb[Len(route)]]

(* Mutated form of Blended: velocities are those of the first durations.   *)
Blended_Unstretched(route) == Pieces(route, Durations(route)[0], Durations(route)[BlendRounds])

(* Velocities and blend times are those of the durations that the last     *)
(* round began with.                                                       *)
Blended(route) == Pieces(route, Durations(route)[BlendRounds - 1], Durations(route)[BlendRounds])

(* Where axis a is to be at time t: past the end, where the last piece     *)
(* ends.                                                                   *)
Sample(plan, a, t) ==
  LET k   == Greatest({n \in DOMAIN plan.starts : plan.starts[n] <= t})
      tau == Clamp(t - plan.starts[k], 0, plan.tb[k])
      vin == plan.v[a][k - 1]
      w   == vin + ((plan.v[a][k] - vin) * tau) \div plan.tb[k]
      fine == plan.from[a][k] + ((vin + w) * tau) \div 2 + plan.v[a][k] * (t - plan.starts[k] - tau)
  IN  (fine + Fine \div 2) \div Fine

===============================================================================
