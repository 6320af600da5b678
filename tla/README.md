# A TLA+ model of robonode

robonode commands robot cells: it accepts commands over HTTP or from a command
line, queues them per cell, and drives the robots of the cell with one
synchronised executive. This directory holds TLA+ modules that model the parts
of it that decide things, the TLC configurations that check them on small
instances, and theorems about them checked by the TLA+ proof system.

- [What the system is made of](#what-the-system-is-made-of)
- [What is modelled, and where](#what-is-modelled-and-where)
- [Runs](#runs)
- [Fairness](#fairness)
- [Theorems](#theorems)
- [Where the code and its words part](#where-the-code-and-its-words-part)
- [What is not modelled](#what-is-not-modelled)
- [Plan](#plan)

To check: `tlc -config MCControlPlane.cfg MCControlPlane` model-checks a run,
`tlapm ControlProofs.tla` checks a module's proofs. Paths below are relative to
`src/`, and the headers of a library `x` are in `x/include/robonode/x/`.

## What the system is made of

### Threads and locks

| Thread | Runs | Shares |
| --- | --- | --- |
| request threads of the server, the CLI | the verbs of `CommandRouter`, `Platform` | the bus's mutex, the supervisor's mutex and token, the telemetry's mutex, the document store's files |
| the bus's worker, one per cell | `CommandBus::loop`, `CellGateway::execute` and below it everything that moves | the same, and the cell's mutex `CellRuntime::mtx_` |
| the idle ticker, one per cell | `keep_scene_alive`, `tick_scene` | the scene view's mutex, the cell's mutex, the supervisor's state |
| readers of a cell's event stream | `TelemetryPublisher::await_change` | the telemetry's mutex and condition variable |

A cell has many callers and one worker. A command is a promise made by the
first and kept by the second, and the caller learns what became of it only from
numbers and states it reads later. `stop`, `estop` and `resume` do not queue:
they act on the calling thread, at once, whatever the worker is inside. Most of
what can go wrong here is that a caller's act falls between two steps of the
worker, and no test can place it there.

### Components

| Component | State | Operations | What makes it correct |
| --- | --- | --- | --- |
| **Command bus** `gateway/command_bus.hpp` | `queue_`, `last_id_`, `applied_`, `stop_`, the worker's local entry | `submit` (coalesce, enqueue, refuse), `discard_pending`, `loop`, destructor | FIFO, one at a time, each id ends once; bounded; a number waited for is reached; the worker joins |
| **Cell supervisor** `gateway/cell_supervisor.hpp` | `state_`, `last_error_`, `latched_`, the cancel token | `begin`, `end`, `fault`, `stop`, `estop`, `resume` and their verbs | held exactly while latched; the error shown goes with the state shown; a latched cell does not drive |
| **Synchronised executive** `motion/sync_executive.hpp` | the path clock and its rate, the cycle count, the settling count, per-axis controllers | `prepare`, `run` | ends within its budget at its goal or says why; bounded stop distance; axes share one clock; at rest when it returns |
| **Command execution** `gateway/cell_gateway.hpp` | `family_`, the live scene, the registered verbs, the idle ticker | `execute`, `build`, `select`, `swap_scene`, `define_module`, `publish` | every way a command ends leaves a state that is not in flight; a rebuild leaves one cell or the other |
| **Command router** `gateway/command_router.hpp` | the table of verbs, closed after start-up | `handle`, `add_verb` | a verb takes effect before its receipt is queued; an unknown verb changes nothing |
| **Program runner** `gateway/program_runner.hpp` | none between programs | the verbs of a program, `pick`, `place`, `intercept` | stops at the first step that fails; a part grasped is released or still declared held |
| **Motion service** `gateway/motion_service.hpp` | the rendered plan and rows of the last motion | `move_to`, `move_pose`, `jog` | a motion that did not reach its goal is not a success, unless it was stopped |
| **Cell and robot nodes** `celld/cell.hpp`, `robot_node.hpp`, `core/lifecycle.hpp` | nodes with a lifecycle state each | `add_node`, `replace_node`, `run_waypoints`, `run_sources` | only active nodes are driven; a replacement that fails leaves a known node |
| **Cell runtime** `gateway/cell_runtime.hpp` | the cell and its mutex, the live world and family | `load`, `set_scene`, `build`, `replace_node`, `with_cell` | nobody drives a cell that is being rebuilt |
| **Governor** `motion/governor.hpp` | position, velocity, the held position | `apply`, `reset` | never outside position and velocity limits, from the first cycle on |
| **Planning** `motion/planner.hpp`, `cartesian.hpp`, `sync_blend.hpp`, `trajectory_validator.hpp` | none | the planners, the inverse solution, the blended timeline, the validator | a route keeps its planner's promise; a plan ends at its goal; limits hold on the whole plan |
| **Drivers, adapters** `motion/*_driver.hpp`, `adapters/ur` | device state | read, write, safety status | a device that is not safe holds the whole cell |
| **Telemetry, platform** `gateway/telemetry_publisher.hpp`, `platform.hpp` | the last frame, its sequence number, `last_ack_` | `publish`, `update_progress`, `await_change`, `submit_command`, `await_settled`, `compare`, `judge` | a waiter returns when its command is over, and only then says so; a row of a comparison is about its own trial |
| **Scene, gripper, stations, conveyor** `gateway/scene_view.hpp`, `sim_gripper.hpp`, `station_ops.hpp`, `celld/conveyor.hpp` | the sampled scene, the weld and the declared grasp, part indices | `advance`, `resample`, `grasp`, `release`, `recirculate` | a grasped part is welded; a part on the line is not also in a gripper |
| **Capabilities** `gateway/capability.hpp` and the five built on it | the registry, the version selected, the object made of it | `select`, `install`, `look`, `observe` | what is used is what is selected, around what is live |
| **Sandbox** `sandbox/`, `wasm/` | a program's stack and operation count | compile, run, lower | what compiles means its text; ends within its limits; both engines agree |
| **Vision** `vision/`, `opencv/` | pending frames, a detector, a track | `observe`, `detect`, `update`, `predict` | a part reached for is where it will be |
| **Cells, workspaces, sessions** `gateway/cell_manager.hpp`, `workspace.hpp` | maps by name under a mutex | `add`, `remove`, `open` | what is handed out outlives its removal |
| **Document store** `celld/json_doc_store.hpp` | files, staging files, a write counter | `load`, `save`, `remove`, `sweep_staging` | a reader sees the old document or the new one, also after a crash |
| **Descriptors** `celld/*_descriptor.hpp`, `sim_mujoco/mjcf_composer.hpp` | none | parse, validate, compose, bind | what was stored can be deployed and means what it says |
| Settings, logs, run recorder; engines; server, CLI, web | see [What is not modelled](#what-is-not-modelled) | | |

How they call each other:

    request thread --> CommandRouter --> CommandBus::submit --------> queue_
     |  ^         \--> CellSupervisor::stop / estop / resume             |
     |  |                               | cancel token                   v
     |  +-- Telemetry <-- publish <-- CellGateway::execute <------ worker loop
     |          ^                     |  begin / end / fault (supervisor)
     |          | publish             |-- build --> CellRuntime --> Cell
     |      idle ticker --> Scene <---|-- ProgramRunner --> Scene, Vision
     |                                |        \--> MotionService --> planners
     v                                |                 \--> Cell --> SyncExecutive
    Platform --> document store       |-- capabilities (camera ... control)

The hard behaviours are these. A caller's stop, e-stop or resume falls between
any two steps of a command. A discard falls between the pop of a command and
the store of its id. `estop` latches and requests the cancel in two steps. A
wake-up is lost. Three threads put frames together and store them in any order.
A step of a program fails after others have succeeded; a swap of the scene fails
after it has half happened. A ramp begins in the last cycles of a run, or is
withdrawn in the middle. A safety hold lasts longer than the run's budget. A
session is closed under a request that writes to it, and a process dies between
staging and rename. A comparison reads what another client's command left
behind. `PROJECT.json` lists each of them at its line under `hazards`.

## What is modelled, and where

    CommandLedger        what a caller of the bus relies on
      ^ implemented by        ^ instantiated by
    CommandBus           Trials        a comparison of versions
    CellSupervisor  ---->  |  extended by Trials too
    SyncExecutive        one run, cycle by cycle
      ^ extended by            ^ extended by
    ControlPlane         ExecutiveRun        Planning
      bus, supervisor,     ^ extended by       ^ extended by
      executive            |                 BlendPlan
                           +--- Motion ---------+
    Telemetry            CellNodes  SceneTool  Capabilities
      ^ extended by            ^ extended by
    CellService          CellWorld           Descriptors Sandbox Sightings DocStore
      bus, supervisor,     nodes, scene,       ^ extended by
      telemetry            capabilities      Parts

`PROJECT.json` maps each definition to the lines it models.

**CommandBus.** `queue`, `last_id`, `applied` and `stop` are the members with
those names; `entry` is the worker's local; `worker` and `dtor` are program
counters. `submit` and `discard_pending` hold the mutex from first to last, so
each is one step. The worker's loop is split wherever it releases the mutex or
publishes something: `FindEmpty` (predicate false, mutex held), `Park` (blocked,
mutex free), `Take`, `Finish` (the handler has returned, `applied_` stored
outside the mutex), `Settle`. The destructor takes no mutex, so `RequestStop`
and `NotifyAll` interleave with all of these, with `Park` in particular.
`dropped` is a history variable: the code forgets which ids it discarded, the
ledger does not.

**CommandLedger.** No queue, no thread: an id is free, pending, running, done or
dropped, and stands for a payload while pending or running. Ids are issued in
order, started in order and one at a time. `CommandBus!Ledger` gives the
refinement mapping: `FateOf(i)` and `WorkOf(i)` say what the state of the bus
means for an id.

**CellSupervisor.** One operator per member function. `estop` is two:
`EstopLatch` under the mutex, `EstopCancel` after it; `estopping` holds the
callers in between.

**SyncExecutive.** `run()` as a state machine, one step a cycle. Time is counted
in cycles, durations being multiples of the cycle. Path time is counted in
units of `1/StopCycles` of a cycle, so the full rate is `StopCycles` units a
cycle, a cancelled cycle takes exactly one unit off it, and the ramp is exact in
integers. In floating point the ramp's subtractions may leave a remainder which
costs at most one cycle more; the budget has that cycle to spare, which is what
the lemma `CleanRunHasTime` of `MotionProofs` shows by leaving one unused.
The jitter record and the rows never feed back and are left out. What a cycle
reads from outside, the token and whether any axis is unsafe, is a parameter of
`Cycle`.

**ExecutiveRun.** `SyncExecutive` with both parameters arbitrary in each cycle,
and history variables for what the run went through: `holds`, `withdrawn`,
`ramp_path`, `rest`.

**ControlPlane.** The first three components in one state machine: every action
is an action of one of them placed in its caller's code. Callers submit
(`SubmitCommand`) or are inside a verb of the supervisor (`pc`): a stop is
`StopCall` then `QueueReceipt`; an e-stop is `EstopCall`, `EstopRequest`,
`EstopDiscard`, `QueueReceipt`; a resume is `ResumeCall`, `QueueReceipt`. The
worker is inside `execute` at `phase`. A command is the sequence of its steps:
`"move"` and `"jog"` drive, a family rebuilds the cell unless it is the one it
has, `"work"` is anything that does neither; the empty sequence is a receipt,
which `execute` neither begins nor ends. `pick`, `place` and `intercept` are
sequences of moves and work. A driving step runs `SyncExecutive` with the live
token. `Fault`, `End` and `Begin` are called where `execute` and `build` call
them, including in the middle of a program. `resumed` and `overtaken` are history
variables of the current command. It leaves out the destructor (the cell
outlives its callers' verbs), argument errors (they are refused before anything
changes), the refusal of a scene that has no family (a cell here always has
one), and the different lengths of motions (all share `PlanCycles`).

**Telemetry, CellService.** `shown` is `telem_snap_`; `draft` is what a thread
has read so far of its next frame. Of a frame only its progress is kept. The
worker, the ticker and the callers each put a frame together in the order of
reads of `progress()` and store it later, unordered. A caller submits, is
acknowledged (`mine`), and reads `shown` as `await_settled` does; a wait may also
give up. What a command does is reduced to whether it works, rebuilds, publishes,
and succeeds.

**CellNodes, SceneTool, Capabilities, CellWorld.** One cell at work, step by
step. `CellNodes` has the adapter behind each node and its lifecycle, built for a
family from a world, and every failure of `add_node`, `replace_node` and `build`
in between. `SceneTool` has every loaded world as it was left (`phys`), the one
open (`scene`), the sample readers get (`snap`), the declared grasp (`held`,
`tool`) and the belt; a position is one of four spots. `Capabilities` keeps for
each reader the version it was made of and what it was made around. `CellWorld`
runs commands and programs over them: `todo` are the steps to come, `micro` what
is left of the current one, and each verb of the code is an operator that gives
its micro-steps. The cell lock is held across steps only while the worker drives.
The ticker finds the cell idle in one step and ticks in another.

**Planning, BlendPlan, Motion.** `Planning` has the damped iteration of the
inverse solution with its clamp and its seeds, the straight line, the six
planners, the clearance of a box, the lists of waypoints a cell is driven with
and the validator. The arm is a gantry, so the kinematics is the identity; what
is checked is everything around it. `BlendPlan` is `SyncBlendPlan` in whole
numbers (`1/Fine` of a unit, ticks), durations rounded up. `Motion` puts both in
front of `ExecutiveRun`: a request is planned, validated, run and reported, and
in every cycle each axis is asked for its setpoint, governed and written; a
device follows or lags a cycle behind. A jog streams one axis from the online
generator and parks the others. A line of fewer steps than one is refused by
every planner; the code takes it to be one in `avoid` and `moveP` and refuses it in
`moveL`, so the model refuses more. The loop's rate is chosen so that every plan
lasts `PlanCycles` cycles; only the direct controller is modelled, and units are
not converted. The governors' first setpoint is not the position of the axes, so
that their seeding by `reset` matters in the first run.

**DocStore.** A save is: a number from the counter, the staging file (half
written, then whole), the rename; a delete and a sweep are steps of their own. A
place is the library or a session's directory; sessions (`opened`) get a
workspace on first use and are removed with their directory while another
request may still hold them. `define_and_persist` submits to the cell, then saves.
A restart finds what is on disk (`Boot`) and offers it to the cell one by one
(`Offer`, `reloading`) while the worker installs; what a full queue refuses is
passed over, as in `reload_modules` (`overlooked`). Requests are served
afterwards (`Serving`): the reload is in the constructor. A crash is the death of
the process: it takes every thread with it between any two steps, and the disk
keeps what was written. What the loss of power does to a file without `fsync` is
left out. A request left with a removed workspace is modelled as going on or
dying: both are outcomes the build can produce.

**Descriptors, Sandbox, Sightings, Parts.** These and `DocStore` share no state
with a cell; in each behaviour of `Parts` one of the four is at work.

`Descriptors` lets a document grow entry by entry, well formed or not, saves it if
the code would, and then deploys it: binds, composes, runs.

`Sandbox` lets a text grow token by token; the compiler is the recursive descent of
the code as one recursive function (`Parse`: what each rule gives at each token,
from what the rules it calls give at theirs), the interpreter, the lowering and the
cutting of a text into expressions are recursive functions of the number of steps
taken, and the reference (`Readings`: `SumOf`, `ProductOf`, `FactorOf`, `ListOf`)
says what a part of a text means, by where it can be divided, without emitting
anything. A number is a pair, as a quotient is written: the integers are over 1, the
negative zero is `0/-1`, the infinities are over 0, and NaN is `0/0`. Each engine
computes with them as its own instructions do. The interpreter compares (`Apply`), so
`min(0/0, 2)` is 2; `f64.min` and `f64.max` pass a NaN on and tell the zeros apart
(`WasmApply`). Precision and overflow are left out: a quotient of integers is rounded
toward zero, and both engines round alike.

`Sightings` puts a part on a belt that is a line, a camera with a rate and a
latency, a detector, one of four trackers, and the attempts of an intercept;
`Passes` advances the world, looks and tells the tracker, as `tick_scene` and
`publish` do.

**Trials.** `Platform::compare`: the comparer's thread with its submissions,
waits and reads; the ledger of the bus, instantiated, for the queue; the
supervisor; and of the cell what a trial could leave behind: version, gripper,
whether the arm is away from its start, and the record of the last motion.

## Runs

| Run | Module, configuration | Question |
| --- | --- | --- |
| `bus` | MCCommandBus | Does the bus keep order, bound and promise under every interleaving of submitters, discards, worker and destructor? |
| `control` | MCControlPlane | What survives two callers who submit, stop, e-stop and resume against the worker? |
| `service` | MCCellService | Is what a caller reads while it waits right, and does the waiting lead anywhere, whoever publishes in whatever order? |
| `world` | MCCellWorld | Do gripper, sample, nodes, planners and detectors stay together while commands fail, scenes and drivers are swapped and the ticker runs? |
| `motion` | MCMotion | Does a request end at its goal, at rest, inside the envelope, or say why, for every sequence of cancel requests and safety holds? |
| `trials` | MCTrials | Is a comparison fair and are its rows true, while another client uses the cell? |
| `parts` | MCParts | Do user programs, documents and sightings mean what they say, and do documents stay whole and saved, and algorithms installed, with two request threads and a crash at any step? |
| `worker_joins` | MCCommandBus, WorkerJoins | Does the destructor of the bus return? No. |
| `latch_stops_motion` | MCControlPlane, LatchStopsMotion | Does a latched cell always decelerate? No. |
| `plan_ends_at_goal` | MCMotion, PlanEndsAtGoal | Does every blended plan end at its last waypoint? No. |
| `each_version_is_run` | MCTrials, EachVersionIsRun | Is each version of a comparison the one that ran? No. |
| `same_numeric_meaning` | MCParts, SameNumericMeaning | Does a lowered program mean what the interpreter makes of it? No. |

The properties of the runs that pass:

- *bus.* `PendingAreTheNewest`, `PendingKeysDistinct`,
  `AppliedNeverCoversPending`: the backlog is the newest ids without a gap, a key
  is in it once, and `applied()` never covers a command that has not begun.
  `ImplementsLedger`: every step of the bus is a step of `CommandLedger`.
  `EveryIdEnds`: every id handed out ends done or dropped, while the bus lives.
- *control.* `HeldIffLatched`, `ErrorMatchesState`, `RestingCellIsNotWorking`:
  what the cell declares of itself is right under every interleaving.
  `LatchedRunIsStopping`: a run on a latched cell decelerates, unless the program
  rebuilt the cell in between, the one hole `latch_stops_motion` shows.
  `StopIsNotAFailure`: a stopped move is reported as a failure only when a resume
  withdrew the stop. `QuiescentMeansApplied`, `EveryIdIsCovered`: `applied()` may
  step back, but a cell at rest has covered every id, and waiting for a number
  ends for good. `ControlTypeOK` is the run's type invariant.
- *service.* `SettledMeansOver`: a frame that reads as settled, however old, is
  right about every id it has heard of, except a command that an e-stop caught
  running with others behind it. `RestReadsSettled`: a cell at rest reads as
  settled whatever it rests in. `IdleIsShown`: an overtaken frame does not stay on
  an idle cell; on a held or faulted one it may, which is why the property says no
  more.
- *world.* `GripIsTrue`: a part is declared held exactly while the weld is closed,
  outside the two steps of a grasp and a release, and until its world is left.
  `RestShowsTheScene`: at rest readers see things where they are. `OneWorld`: while
  a family is live, every node drives the world the runtime names and the scene
  shows. It is about the world of a node and not about its lifecycle: that a node
  left inactive is not driven is a guard of every move (`Gathers`). `ReadersAreCurrent`: planner, detector, tracker and controllers are the
  versions selected, around what is live. `EveryCommandEnds`, `LineKeepsFeeding`:
  no step waits for its own lock or for a part that never comes, and a running
  line goes on presenting parts.
- *motion.* `GoalOrReason`, `StopsWithinRamp`, `ReturnsAtRest`: a run short of its
  goal was stopped, held or had its stop withdrawn; a stop covers at most the
  distance of a linear ramp; nothing is handed back while it moves.
  `RouteKeepsItsPromise`: from the arm to the goal, within travel, clear of the
  boxes where the planner avoids, along the target's velocity where it meets.
  `AxesArriveTogether`: a path clock at its end has commanded every axis to the
  last waypoint. `EnvelopeHolds`: no cycle commands more than the velocity allows,
  nor out of the travel.
- *trials.* `RowsAreTrue`: an undisturbed row carries its own trial's record.
  `TrialsStartAlike`: an undisturbed trial begins with an empty gripper and, unless
  its way there failed, at the start; the gripper only if the queue holds more than
  one command. `LiveVersionRestored`: the version that was live is live again, unless
  the queue had no room for the last command, or a wait gave up and the trial
  chooses a version of its own.
- *parts.* `CompiledMeansSource`: a text compiles exactly when it has a reading, and
  computes it. `RefusedForLimitsOnly`: of a compiled program the limits are all
  that can go wrong, and not one operation early or late. `EnginesAgree`: the
  interpreter and the lowering answer alike, divisions by zero included, unless a
  comparison meets a NaN or a negative zero, or a clamp has crossed bounds
  (`SameInBoth`); `same_numeric_meaning` shows what the condition is for.
  `StoredDocumentsDeploy`, `ComposedAsDescribed`: what was stored reads
  back, names no axis that is not there, and the world composed from it has the
  bodies, places and children it describes. `RendezvousIsTrue`: no tracker reports
  a speed that the belt does not have, and an aim lies between the part last seen
  and the part itself, on it when the track is sure. `NoTornDocument`: what is under
  a name is the whole of a body somebody saved. `SavedIsThere`: an acknowledged save
  stays until deleted, through failing replacements and restarts.
  `PersistedIsOffered`: every algorithm on disk has been or will be offered to the
  cell that runs, and a restart passes one over only if there are more of them than
  the queue takes.

### Bounds

| Bound | Value | Why it is enough |
| --- | --- | --- |
| `MaxId` (bus) | 5; 4 in `worker_joins` | one command running, a full backlog, and one more to follow a discard |
| `MaxId` (control, service) | 3 | a command that runs, one behind it, a receipt; `control` was also checked with 4 |
| `Capacity` | 3 in `bus`, 1 in `parts`, 4 in `each_version_is_run`, 2 elsewhere | full, not full, and room left behind a coalesced entry that is not the front; in `parts` less than there are modules on disk, so that a reload is refused |
| `Items`, `Keys` | two payloads and one key in `bus`; five programs and one key in `control` | two payloads tell a replaced one from the original; the programs are a receipt, a move, a rebuild then a move, a jog then work, a rebuild |
| `Callers` | 2 in `control`; 1 in `service` | an e-stop or a resume of one inside the e-stop of the other; a waiter shares nothing with another but the frame |
| `PlanCycles`, `SettleCycles`, `StopCycles` | 2, 0, 2 in `control`; 4, 1, 3 in `motion` | a ramp can begin and end inside the plan, straddle its end, or begin in the settling |
| nodes, families, worlds (world) | 1, 2, 3 | one world without a gripper's constraint, one that lacks a joint; a driver that may refuse, one that is unknown to a family |
| `MaxJobs`, `Jobs` (world) | 2 of 15 | any command after any other: a failed swap then a command on what it left |
| `Attempts`, `MaxPolls` (world) | 2, 1 | an intercept that fails once and tries again; a look that sees nothing, then one that does |
| the gantry (motion) | two joints, one axis no planner moves, one box; 60 by 30 | goals beside, behind, above and inside the box, one of them reached over the top at the third attempt; a lift that leaves the travel |
| `MaxMoves` (motion) | 1 | the governors' first seed is the hard one; a second request differs only in where it starts |
| `Clients`, `Files`, `MaxWrites`, `MaxCrashes` (parts) | 2, 2, 2, 1 | two writers of one name and of two; a crash with one write staged and one complete. The theorems are for any number |
| `Disturbances`, `MaxId` (trials) | 2, 11 | a verb of another client and a wait that gives up, in one comparison of a version that exists and one that does not |
| `MaxTokens` (parts) | 8 | a clamp with three arguments; two nested operators in brackets; a division by zero; limits (`MaxOps` 5, `MaxStack` 3) small enough to be met by these. `min(z/z,2)` is reached and excluded by `SameInBoth`; what its clause about the negative zero excludes needs a longer text, and rests on the theorem |
| `MaxEntries` (parts) | 2 | a duplicate, an entry after a malformed one, an override of what another removed |
| `MaxTime`, `MaxSwaps` (parts) | 18, 1 | one lap of the belt (12 ticks) and a half, a swap of camera or tracker anywhere in it |

Bounds on what may happen (`MaxId`, `MaxJobs`, `MaxMoves`, `MaxWrites`,
`MaxCrashes`, `Disturbances`, `MaxTime`) disable the action that would exceed them.
In `ControlPlane` and `CellService` a caller begins a verb only while the bound
leaves it an id for its receipt, so that it never refuses what the code accepts
half-way through a verb. Ids are 64-bit in the code and do not wrap.

Deadlock is checked in `control` and `service`. It is not in the bus's runs, where
the destructor ends the worker and the system stops as it should, nor in `world`,
`motion`, `trials` and `parts`, where the number of commands, requests,
writes or ticks ends: there a command that hangs is the business of
`EveryCommandEnds`. The request threads of `parts` are interchangeable, which is
sound because its properties are invariants that name none of them.

## Fairness

- *Weak fairness of the worker*, in `BusFairSpec`, `ControlFairSpec`,
  `ServiceFairSpec` and `WorldFairSpec`: the thread keeps running. It includes
  `Finish` and every step inside `execute`: a handler is a call that returns. For
  a motion that is not an assumption but a consequence of the budget of cycles;
  for an engine or a tool it is one.
- *Weak fairness of the idle ticker*, in `ServiceFairSpec` and `WorldFairSpec`: a
  thread that sleeps a fixed time, tests whether the cell rests, and ticks.
- *Weak fairness of a running destructor*: it is straight-line code.
- *Strong fairness of a caller inside a verb*, for each caller: its next step
  needs the bus's mutex, which the worker takes and gives up again. The model
  charges the mutex to nobody but the worker, so weak fairness would let the
  worker win every time; the operating system's mutexes do not.
- Nobody is obliged to submit, stop, e-stop, resume, destroy or stop waiting, and
  a spurious wake-up is never owed. The other specifications state no fairness and
  their runs check no liveness.

The counterexample to `WorkerJoins` is found under `BusFairSpec`: worker and
destructor both keep taking their steps and the join still hangs. (A spurious
wake-up would rescue it; no standard promises one.)

## Theorems

A theorem holds for every value of the constants its module's assumptions admit:
any capacity, any number of ids, callers, families and programs, any durations,
any clients, files and crashes, any texts and limits.

| Module | Inductive invariant | Theorems |
| --- | --- | --- |
| CellProofs | `BusInv` | `BusTypeCorrect`, `BacklogIsBounded`, `BacklogIsInOrder`, `BacklogKeysDiffer`, `AppliedIsSound`, `BusImplementsLedger` |
| CellProofs | `SupInv` | `SupInvariant` |
| SyncExecutiveProofs | `ExecInv` | lemmas: each action of the executive keeps it |
| MotionProofs | `RunInv` | `RunTypeCorrect`, `RunsReachGoalOrSayWhy`, `StopDistanceIsBounded`, `RunsReturnAtRest` |
| MotionProofs | `RunInv`, by refinement | `MotionsAreRuns`, `MotionsReachGoalOrSayWhy`, `MotionsStopWithinRamp`, `MotionsReturnAtRest` |
| MotionProofs | `EnvelopeInv`, `RouteInv` | `EnvelopeInvariant`, `WhateverIsAskedTheEnvelopeHolds`, `RouteInvariant`, `RoutesKeepTheirPromise` |
| ControlProofs | `ControlInv` | `ControlTypeCorrect`, `CellImplementsLedger`, `LatchOutranksTheCommand`, `ErrorGoesWithState`, `LatchStopsEveryRun`, `CommandsEndAtRest`, `StopsAreNotFailures`, `RestCoversEveryId` |
| ServiceProofs | `ServiceInv` | `ServiceInvariant`, `WhatReadsSettledIsOver`, `WhatRestsReadsSettled`, `ServiceImplementsLedger` |
| WorldProofs | `WorldInv` | `WorldInvariant`, `WhatIsHeldIsWelded`, `TheCellIsOfOneWorld`, `ReadersFollowTheCell`, `ARestingCellIsSampled` |
| DocStoreProofs | `StoreInv`, `OfferInv` | `StoreInvariant`, `DocumentsAreWhole`, `SavesLast`, `ModulesAreOffered` |
| DocStoreProofs | `SourceIsText` | `CompilerIsCorrect`, `OnlyTheLimitsRefuse`, `BothEnginesAgree` |
| PlatformProofs | `TrialsInv` | `TrialsInvariant`, `RowsAreOfTheirTrial`, `TrialsBeginAlike`, `ComparingChangesNothing` |
| PlatformProofs | `DocumentsInv` | `DocumentsInvariant`, `StoredDocumentsAreGood`, `ScenesAreComposedAsDescribed` |
| PlatformProofs | `SightingsInv` | `SightingsInvariant`, `RendezvousHolds` |

*The bus.* No property of the backlog is inductive alone. `PendingAreTheNewest`
needs to know what the worker's entry is in each of its places; that `applied`
covers nothing pending needs the gapless backlog. `BusInv` adds these facts and
that the dropped ids are neither pending nor running. The refinement follows
action by action: one lemma for each of `Coalesce`, `Enqueue`, `Take`, `Finish`
and the discard says which step of the ledger it is; the others stutter.

*The executive.* What needs strengthening is the budget. `BudgetInv` says of a
run with no hold and no withdrawn stop that at full rate the path clock is the
cycles times the rate, so that a ramp can begin only within the plan; that from
there the cycles used and the rate left never exceed the plan and the ramp; and
that once the clock rests what is left covers the settling. So a run cannot use
its budget up (`CleanRunHasTime`), and one that returns short of its goal has a
reason. `RestInv` does the same for the rest at the end. The stop distance
(`RampInv`) is the sum of the rates left, an arithmetic series; `2 *` keeps it in
the integers.

*The motion.* `MotionsAreRuns` shows that `Motion` implements `ExecutiveRun`:
planning, governing and reporting never touch the path clock, so each of its
steps is a step of the executive or a stutter. The executive's three theorems
then hold of every motion, whatever the planners do.

*The envelope.* `Govern` answers anything: what is no number gets the last setpoint
back, as `std::isfinite` has it, so `GovernorHolds` is about every setpoint and the
theorem about every plan, stream and program. The invariant adds only what a cycle
cannot see: that the governors of a run that has had no cycle begin where the axes
are. `PlanningAssumption` has the travel of an axis not upside down.

*The routes.* A planner's route begins at the arm, so it keeps to the travel only if
the arm is in it: `RouteInv` carries that the axes are, and that the commands of a
run are, which is the governor's third clause. The two theorems therefore suppose
that the axes begin in their travel, as the simulated drivers do (`sim_driver.hpp:18-19`,
`byo_axis.hpp:60`, a zero clamped into the limits); a real arm is where it is found.
The planners need induction over the iterations of the inverse solution, the steps of
a line and the legs of a route. The provers cannot instantiate the library's
induction rules, which take an operator; `LeastNumber` goes around them, from the
finite sets' well-foundedness to the least element of any set of numbers, and
`Induction` follows for a set in place of an operator. The iterates and the
concatenations are then shown to exist (`IteratesExist`, `JoinedExist`), and each
planner is a few lines laid end to end (`LineIsARoute`, `RoutesJoin`,
`ThroughIsARoute`). That a joint never runs back on a line, `RunsOneWay`, is
a matter of floored division (`StepsAlongALine`); it gives the last leg of a meeting
its direction. A user's program promises nothing but what the validator checks, and
`AxesArriveTogether` is no theorem: a plan need not end at its goal (below).

*The control plane.* The steps of the components keep their own invariants by
the lemmas of their modules, also when another module's action calls them.
`ControlInv` ties them together: the worker's phase says where the bus's worker
and the executive are (`PlaceOK`, `RunFollowsPhase`); `todo` is a tail of the
entry's payload (`TodoIsTail`); a caller inside an e-stop is one the supervisor
counts (`CallersOK`); a latch whose e-stops have returned has the token set until
an `End` (`LatchIsSeen`); while the worker is past `Begin`, the state declared
is the work's or the operator's (`WorkIsDeclared`); a rate below full was asked
for by a stop that stands or was withdrawn (`RampHasReason`); and the newest id
is pending, running, applied, or followed by the receipt a caller still owes
(`NewestIsAccounted`), which is why a discard with no receipt would break
waiting. `CellImplementsLedger` carries the refinement over: with the supervisor
and the executive attached, the bus still implements the ledger.

*The service.* A frame outlives what it says: it is read in two parts, put
together, perhaps overtaken and stored late, and read by a waiter later still. So
what a reading says has to be stable. `Over(i, reading)` is: an id that is done or
dropped stays so, and one that was running when younger ones were discarded stays
their elder (`OverStaysOver`). `ServiceInv` says that `applied()` covers only such
ids now (`AppliedIsOver`) and that everything that has ever read the two numbers,
the stored frame and every draft, still tells the truth (`FramesAreSound`). The
order of the two reads of `progress()` is what makes a draft sound: the newest id
is read after `applied()`. Rest is the other half (`NewestIsAccounted`, as in the
control plane).

*The world.* What a verb does in half-steps is a sequence, and the invariant has to
say what the rest of the sequence still owes. `StepsAreLinked` does: a first half
(a swap of the world, the start of a build, the build, a chain, an attach, a
detach) is followed by its second, a second half has its first before it, and a
build ends with a report; so between two steps the state is off by exactly the half
that comes next. Each verb's sequence is closed under joining (`VerbIsClosed`), and
what a step does to the sequence keeps the links (`EffectStaysLinked`): also a
build that was already live and is skipped, a retry that starts over, a failure
that drops the rest. Around that, `SceneFollows`, `CellFollows`, `GripFollows` and
`ReadersFollow` each say what agrees with the runtime's world except in the one
half-step that makes it so again; `WeldsAreOpen` says why a world that is opened
anew finds no weld closed, unless it was left with one. The assumptions are that
jobs are sequences of steps of known verbs (the router builds no other command)
and that a gateway without an open scene is not a world (`SceneAssumption`).

*The documents.* A rename publishes what its writer staged, so a document is
whole because of two facts about what is in flight: no two writers have the same
number (`NumbersDiffer`: the counter is read and advanced in one atomic step), and
a writer at its rename has written its part to the end (`PartIsWhole`).
`PlaceOfCall` says what a request may be doing where it is. For
`PersistedIsOffered` the order of `define_and_persist` is what counts: whoever is
staging a file of the library has had its definition accepted (`AcceptedFirst`),
and a restart offers every file it finds. Nothing bounds the library by the queue,
so an offer may be refused: the queue is then full of other modules of the library,
which are that many and one more (`FullOfOthers`), and it stays so, since no file of
the library is ever deleted (`GrowthKeepsCrowded`).

*The programs.* Of the behaviour only `SourceIsText` is needed, that users type
tokens: the three properties are about every text. They are proved in three layers.

First, what code does. A `Trace` is the sequence of stacks a code goes through, and
`Turns(code, in, a, b)` says that the code makes `b` of an `a` on top of any stack.
Codes that turn one into another can be put in a row (`ThenTurns`) and on top of what
lies below (`UnderTurns`), and a code makes one thing only (`TurnsOnce`). Both engines
go through the trace. The interpreter does until a limit stops it (`MachineFollows`),
and the heights of the trace are those of the code (`TraceHeights`), whence
`OnlyTheLimitsRefuse`. The lowering does, too, one instruction at a time: a clamp
becomes the six instructions through the scratch locals. The two engines have an
instruction each for the same operation, and the condition of `EnginesAgree` is what
makes them equal: on operands that are neither NaN nor a negative zero the two orders
are one (`PlainOrder`, `SameHere`), and a max and a min are a clamp if its bounds are
also in order (`ClampIsMaxMin`). Everything else needs no condition: NaN and the
infinities pass through sums, products and quotients alike.

Second, that the tables exist. The rules of the parser refer to each other and to
themselves, and a recursive function is what its definition says only if there is one
that does. What a rule refers to is further on or a simpler rule at the same token
(`Sooner`, measured by `Ahead`), because an accepted rule moves on (`Moved`); with
that, each rule is shown to depend on those it refers to only (`RuleIsLocal`), and
the table is built from the end of the text (`ParsesExist`, `ParseIs`). The readings
are built from the short parts (`Span`, `ReadingsExist`). The provers cannot use the
library's theorems on recursive functions, which take an operator; `LeastNumber`,
`Induction` and `StrongInduction` replace them as they do for the planners.

Third, that the parser means the grammar. It is sound: what an accepted rule has
emitted turns nothing into one of the readings of what it has read, and the loops of
`expr` and `term`, which have their left operand on the stack, turn a reading of it
into one of the longer sum (`Says`, `ParserSays`). It is complete: what has a reading
is accepted with a code for that reading, whichever it is, if what follows does not
belong to it (`Reads`, `ParserReads`). A sum is read by its last operator and a list
by its first comma, which is how the parser associates. Since a code makes one thing
only, the two together show that the grammar has one reading of every text. The
three theorems are about the numbers of the model, which have no fractions: rounding
and overflow, which are the same in both engines, are not in them.

*The comparison.* A row is true because of what cannot be in the queue while its
trial runs, and that goes back to the wait before it. `QueueInOrder` is what the
ledger promises, in the words of the comparer: ids in order, one command running,
one choice pending. `CalmCell` says what a wait that saw `applied()` reach the
newest id may conclude, which is the conclusion `await_settled` draws: without a
discard everything is over, so the cell is idle (`SettledIsIdle`). `CalmRow`
follows the preparation from there, place by place: behind the choice of the
version only the release, then only the homing, then nothing, and the count of
the runs is that of a cell at rest. So between the count and the row nothing but
the trial moves (`TrialIsOwn`), and a record that is newer than the count is the
trial's. `HandIsOpen` carries the empty gripper from the release to the first step
of the trial; `TaleFollows` is what ties the history a row is judged by to the
run. All of this holds of a row nobody disturbed: `CalmIsNotNew` shows that a row
that was disturbed never counts as undisturbed again. `Restores` is independent of
it. `WillBeRestored` says where the version is after the last command: its choice
is the only one still pending, or is the command that has begun, or has been made.
That the choice is the only one needs `PlainQueue`, since a program that chooses a
version on its way has no key and is not replaced.

*The descriptors.* That a stored robot deploys is a matter of what its validation
leaves: ids that differ make the slot of an axis the only one (`AxisHasSlot`), so
a checked robot binds (`CheckedRobotBinds`), and lists that are alike wherever they
are not empty make the longest one anybody's (`ListsAreAlike`), so no axis of a
motion is dropped (`StoredMotionRuns`). A scene is harder: the composer applies one
override to what the last one left, while `ComposedAsDescribed` reads all of them at
once. The two are tied by induction over the writing of the document, which is an
invariant of the steps and not an induction over data: `ReadsAlike` says of the sheet
that whatever applies its overrides in order ends in a world that is as described,
and `OneMoreReadsAlike` that this survives an override appended at the end. What the
longer scene hides, finds sound and places is said by `OneMoreHides`,
`OneMoreIsSound` and `OneMoreMoves`.

*The sightings.* The least squares through a window are the speed of the belt
exactly, however the sightings are spaced (`SlopeOfALine`: the variance of different
times is positive, and the covariance is the speed times the variance), once all of
the window are on the line of one part. That is what `SightingsInv` has to carry. It
says of everything in sight (what the camera keeps, what the tracker keeps, and the
part itself) that it was there and that any two are of one part or of parts a belt
apart (`SightGoesOn`). A sighting of the next part is then behind the prediction by
more than the gate, whichever speed the track has by then, and starts a new window
(`OfThePartOrAnother`). This needs the hypothesis `SeenInTime`: a tracker's next
sighting comes before the belt has gone round, less the gate. Nothing in the code
sees to that: a part that is seen a lap later, near where the last one would be, is
taken for it, and the slope through the two is a speed that no part had. Clutter and
a world that pauses between commands decide it, so it is a hypothesis about the
behaviour and not one about a constant; every behaviour of `parts` satisfies it, by
the length of its belt. The aim then lies on the line of the track's speed
(`AimIsOnALine`), and `AimsAreTrue` is arithmetic.

`BusInv`, `ControlInv`, `RunInv`, `EnvelopeInv`, `RouteInv`, `ServiceInv`,
`WorldInv`, `StoreInv`, `OfferInv`, `TrialsInv` and `SightingsInv` were checked by
TLC as invariants of their runs before they were proved (`SightingsInv` with the
time a part was put on the belt, where it quantifies over numbers, bounded);
`DocumentsInv` quantifies over all worlds, which TLC cannot, and is only proved.

What is only model-checked: the liveness properties `EveryIdEnds`,
`EveryIdIsCovered`, `IdleIsShown`, `EveryCommandEnds` and `LineKeepsFeeding`, which
need fairness and `ENABLED`; `AxesArriveTogether`, which is about the plans of a run
and the durations that decide them; and the counterexamples.

## Where the code and its words part

Five statements in comments of the repository are not what the code does, each
shown by a run that ends in a counterexample and listed under `findings` with the
lines.

1. **A rebuild erases an e-stop.** `build()` ends with `supervisor_.end()`, which
   clears the token whoever set it; the latch is looked at only when a command
   begins. A program that names its driver family first, as the shipped
   applications do, drives at full rate on a latched cell if the e-stop came
   while the family was being built. (`latch_stops_motion`)
2. **The destructor of the bus can hang.** It sets the flag and notifies without
   the mutex, so a worker between its predicate and its wait misses both.
   (`worker_joins`)
3. **A blended plan need not end at its goal.** The loop that stretches segments
   until the blends fit stops after sixteen rounds, and what it leaves are the
   durations of the last round with the speeds of the one before. The shipped
   `line_steps` of 30 is at the edge: a straight line of 31 steps overshoots, in
   the model by 4 units in 31. (`plan_ends_at_goal`)
4. **A comparison of planners compares one planner with itself.** The application
   named as a trial of planners chooses its own planner first, so every row is a
   run of that one under another name. (`each_version_is_run`)
5. **A lowered program can mean something else.** The interpreter's `min` and `max`
   are comparisons, which drop a NaN or keep it by where it stands; `f64.min` and
   `f64.max` pass it on. `min(z/z,2)` over a zero is a position for the one detector
   and nothing for the other. A clamp with a NaN, and one with crossed bounds (the low
   one in the interpreter, the high one in WebAssembly), differ likewise.
   (`same_numeric_meaning`)

The model has more of these built in, as the code has them; they follow from
reading it and have no run of their own.

*Stopping.*

- A stop of an idle cell sets the token, and nothing clears it before a run: the
  next motion decelerates from its first cycle and reports success short of its
  goal (`cell_supervisor.hpp:54`, against `cancel.hpp:8`).
- Between the pop of a command and its `begin` the command is not pending, so an
  e-stop does not discard it; it is refused, and the refusal is declared as the
  cell's error (`cell_gateway.hpp:639`, against `gateway_integration_tests.cpp:317`).
- A discard stores the newest discarded id in `applied_` while an older command is
  still being handled; the number steps back when that one ends
  (`command_bus.hpp:76`).
- A run that used up its budget, after a safety hold or a stop withdrawn at a low
  rate, ends short of its goal with `stopped_early` false (`sync_executive.hpp:141`,
  against `docs/DECISIONS.md:139`).
- `Otg::next` ignores the path time, so a cancel never slows a jog down: it ends
  where it was going or is cut off (`otg.hpp:50`, against `sync_executive.hpp:52-54`).
- A stop or an e-stop takes effect before its receipt is queued: a full queue
  answers `ok:false` for one that worked (`cell_supervisor.hpp:146`).

*The live cell.*

- After a `load_scene` whose build failed, the runtime's world is switched and its
  family cleared; the next `load_scene` finds `build("")` "already live" and reports
  success (`cell_gateway.hpp:660`, against `:568-570`). Repaired by a `driver`
  command, kinematics, camera and clutter stay those of the old world.
- A node whose replacement fails in configure or activate is left deactivated, and
  `driver` with the live family answers "already live" (`cell.hpp:57-58`).
- A frame may be overtaken by an older one (`telemetry_publisher.hpp:69`, against
  `:77-78`); on a held or faulted cell it stays.
- `set_version` of the camera leaves the detector on its old sensor
  (`cell_gateway.hpp:533-541`, against `:683-684`).
- A scene left with a part in the grip leaves `held` true; coming back to it finds
  the weld closed and may find `held` false.
- The tracker's clock is the wall clock while the scene advances by ticks only
  (`cell_gateway.hpp:361`, against `detector.hpp:22`, `:32`).

*Documents, programs, comparisons.*

- A stored scene whose override names an unknown or hidden body is refused only
  when it is deployed (against `platform.hpp:326-328`); a `parse_scene_descriptor`
  or `parse_program` throws for a wrong type it reads outside its `try`.
- The limits of a single axis are compared (`celld/descriptor.hpp:65`), those of a
  cell's axes are not (`cell_descriptor.hpp:84-88`): crossed ones would reach the
  governor's `std::clamp`, which asks for ordered ones.
- A list of waypoints that is empty passes the check that all are equally long if
  it comes first, and its axis is silently held; an axis in two places of one robot
  is not refused.
- A restart with more modules on disk than the queue takes passes some of them over:
  the refusal is ignored, and nothing offers them again (`platform.hpp:559-569`).
- An unknown version of a comparison is accepted by the queue and fails on the
  worker, where nobody looks: the trial runs with what was live, and its row says
  `ok:true` under the unknown name. A refused restore of the live version is
  ignored too (`platform.hpp:150`, `:411-426`).
- In a queue of one the release before a trial is refused behind the choice of the
  version, and nobody looks: a trial may begin with the part its predecessor held
  (`platform.hpp:414-420`, against the comment there; the shipped queues are longer).
- A wait that gives up lets the last command overtake a trial. The restore takes the
  place of a choice that is still pending, ahead of the trial queued behind it; if
  that trial chooses a version itself, its choice is what stays live
  (`platform.hpp:149-152`, `command_bus.hpp:50-54`).
- Removing a session erases a workspace another request still references
  (`workspace.hpp:60-61`, `:94-101`). The sweep deletes every file with `.part` in
  its name, on the ground that nobody is mid-write, which two processes on one
  directory would refute (`json_doc_store.hpp:117`). The stream is tested before its
  last flush, so a full disk may pass as a save (`:90-95`).
- `define_and_persist` writes into the shipped library, which the facade calls read
  only (`platform.hpp:325-326`), and an e-stop drops a definition that is already
  on disk.

## What is not modelled

The share of a component that is left out, where it is `partly` modelled:

- *Numbers.* Kinematics is the identity and every profile but the blend is left
  out (the scurve and trapezoidal ones are floating-point polynomials); so are
  image noise, perspective and pixels, and contact physics. What needs these to go
  wrong is not found here. The kinematics, physics and image libraries are
  external.
- *Devices.* The transport and the state machine of the UR adapter and the device
  models: what they report to the control loop, that an axis is not safe, is an
  input of every cycle. Its fault is not latched although its comment says so
  (`ur_wrist_adapter.hpp:75-76`, `:90`); no run shows it.
- *Command parsing.* The router's and the verbs' argument checks refuse before any
  state changes.
- *Boot with a failed build*, and what a data race between ticker and worker on
  `family_` may read: the model has the gateway after a build that worked, and
  reads of the family are atomic.
- *The map of cells.* A map under a mutex. Its removal destroys a gateway under the
  manager's lock; that the destructor may hang is `worker_joins`.
- *Settings, logs, run records*: read once at start-up or written and never read
  back by a decision. How many runs were recorded, and whose the last is, is in
  `Trials`.
- *Server, command line, web interface, generated contracts*: input and output.
  Their threads are the callers and clients of the modules above.

## Plan

Every component that decides something now has its module. What is left, in this
order:

| Work | Adds | Needs |
| --- | --- | --- |
| Begun commands keep their payload | an action property of the control plane | `BusInv`, `TodoIsTail` |
| Two cells on one process | `CellManager` with `add` and `remove` around the bus's destructor | CommandBus |
