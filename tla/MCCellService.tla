---------------------------- MODULE MCCellService ----------------------------
(***************************************************************************)
(* One caller who runs programs and waits for them, e-stops and resumes,   *)
(* with the worker and the ticker.                                         *)
(***************************************************************************)
EXTENDS CellService

CONSTANT c1

MCCallers == {c1}
MCWriters == {c1, "worker", "ticker"}
MCItems   == {"work", "receipt"}
MCErrors  == {"failed"}

===============================================================================
