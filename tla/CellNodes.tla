------------------------------- MODULE CellNodes -------------------------------
(***************************************************************************)
(* The axes of a cell: the adapters behind its nodes and their lifecycle   *)
(* (celld/cell.hpp, core/lifecycle.hpp), built for a driver family from a  *)
(* world and swapped one at a time (gateway/cell_runtime.hpp).             *)
(***************************************************************************)
CONSTANTS
  Nodes,
  Families,   \* driver family -> the driver of its nodes
  Drivers,    \* registered driver names
  Makes,      \* pairs of driver and world whose factory makes an adapter
  Configures, \* those that then find the joint they drive
  Flaky       \* drivers whose device may refuse to be activated

ASSUME NodesAssumption ==
  /\ \A f \in DOMAIN Families : Families[f] \in Drivers
  /\ Configures \subseteq Makes

VARIABLES
  world,     \* CellRuntime.world_, what the next build opens
  cell,      \* CellRuntime.cell_
  rt_family  \* CellRuntime.family_

node_vars == <<world, cell, rt_family>>

Adapter(driver, on, life) == [driver |-> driver, world |-> on, life |-> life]

(* As the constructor of the gateway leaves it, once it could build.       *)
NodesInit(on, family) ==
  /\ world = on
  /\ rt_family = family
  /\ cell = [n \in Nodes |-> Adapter(Families[family], on, "active")]

(* What a device answers when activated.                                   *)
Activates(driver) == IF driver \in Flaky THEN BOOLEAN ELSE {TRUE}

(* add_nodes, configure_all, activate_all: all of the nodes or none.       *)
Buildable(family) ==
  /\ family \in DOMAIN Families
  /\ <<Families[family], world>> \in Configures

(* A cell that does not come up is refused, and the previous one stays.    *)
BuildCell(family, ok) ==
  IF Buildable(family) /\ ok
  THEN /\ cell' = [n \in Nodes |-> Adapter(Families[family], world, "active")]
       /\ rt_family' = family
       /\ UNCHANGED world
  ELSE UNCHANGED node_vars

(* The driver is made for the world the node was added with.  One that is  *)
(* not made gives the node back to the old adapter, switched on again.     *)
Made(n, driver) == <<driver, cell[n].world>> \in Makes

SwitchedOn(n, driver) == Activates(IF Made(n, driver) THEN driver ELSE cell[n].driver)

Replaced(n, driver, ok) == <<driver, cell[n].world>> \in Configures /\ ok

ReplaceNode(n, driver, ok) ==
  /\ cell' = [cell EXCEPT ![n] =
                 IF Replaced(n, driver, ok) THEN Adapter(driver, @.world, "active")
                 ELSE [@ EXCEPT !.life = IF ok /\ ~Made(n, driver) THEN "active" ELSE "inactive"]]
  /\ UNCHANGED <<world, rt_family>>

(* gather: every adapter must be active before anything moves.             *)
Gathers == \A n \in Nodes : cell[n].life = "active"

===============================================================================
