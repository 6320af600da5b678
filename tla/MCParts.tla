-------------------------------- MODULE MCParts --------------------------------
(***************************************************************************)
(* Every text of up to eight tokens that the compiler has not refused      *)
(* before its end: long enough for a clamp and for two nested operators,   *)
(* under limits small enough to be met.  Every document of two axes, one   *)
(* robot and one motion; of three bodies, one inside another, with two     *)
(* overrides and one object; of two steps.  A belt long enough that no     *)
(* part goes unseen for a lap, watched for a lap and a half by a camera    *)
(* that has a frame each tick and by one that has half of them.  Two       *)
(* request threads, one session, two files, a process that dies once, and  *)
(* a queue that takes one definition: fewer than the modules there may be. *)
(***************************************************************************)
EXTENDS Parts

CONSTANTS c1, c2, s1, f1, f2, b1

MCNames     == <<"x", "y", "z">>
MCLiterals  == [t \in {"2"} |-> 2]
MCTokens    == {"z", "2", "-", "/", "(", ")", "min", "clamp", ",", ";"}
MCInputs    == {<<0, 1, 0>>, <<-2, 1, 3>>}
MCWorkspace == -2..3

MCAxisOrder == <<"a", "b">>
MCLengths   == 0..2
MCBodies    == {"table", "part", "decoy"}
MCWithin    == [b \in MCBodies |-> IF b = "part" THEN {"table"} ELSE {}]
MCShapes    == MCBodies \cup {"ghost"}
MCVerbs     == {"move", "home"}
MCSpoken    == MCVerbs \cup {"", "dance"}

MCClients  == {c1, c2}
MCSessions == {s1}
MCFiles    == {f1, f2}
MCTexts    == {b1}
MCShipped  == (f1 :> b1) @@ (f2 :> Absent)

Interchangeable == Permutations(MCClients)

MCCameras   == {[rate |-> 1, latency |-> 1], [rate |-> 2, latency |-> 2]}

===============================================================================
