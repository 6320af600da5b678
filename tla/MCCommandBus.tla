----------------------------- MODULE MCCommandBus -----------------------------
(***************************************************************************)
(* The command bus on a small instance: two payloads, one coalescing key,  *)
(* a backlog of three and five ids, so that a command can run while the    *)
(* backlog is full, a coalesced entry can have others before and behind    *)
(* it, and a discard can fall between any two of the worker's steps.       *)
(***************************************************************************)
EXTENDS CommandBus, TLC

CONSTANTS i1, i2, k1

MCItems == {i1, i2}
MCKeys  == {k1}

===============================================================================
