# A TLA+ verification of the Rosmaster M1 navigation stack

This directory holds TLA+ specifications of the concurrent and stateful parts
of the stack, TLC configurations that model-check them on small instances, and
theorems about them whose proofs TLAPS checks. Paths below are relative to the
root of the repository.

- [Inventory](#inventory): the parts of the system and what is hard in each
- [Modules](#modules): which module models what, and how
- [Runs](#runs): questions, bounds, fairness
- [Proofs](#proofs): what holds for every value of the constants
- [Where code and comments disagree](#where-code-and-comments-disagree)
- [What the hazards without a property are](#what-the-hazards-without-a-property-are)
- [Not modelled](#not-modelled) and the [plan](#plan)

## Inventory

A goal becomes wheel speeds along one of two chains, launched one at a time:

```
Nav2:        planner server -> HybridController (MPPI + local_fast2d) -> smoother
                                   |  local costmap <- ScopeLayer <- SCOPE predictor <- /scan, /odom
                                   v
             collision monitor -> /m1/cmd_vel_raw -> watchdog -> /cmd_vel
Imperative:  localized controller -> /imperative/cmd_vel_raw -> watchdog -> /cmd_vel
             (the simulation controller publishes /cmd_vel itself)
Simulation:  Gazebo -> odom_slip_simulator -> /odom;  obstacle mover -> software lidar -> scan relay -> /scan
Experiments: causality harness and recorder; unattended runner -> launch + plan probe; guide validator
```

All of it is started by launch files, whose nodes find each other by the names
of topics and transforms alone, and in part by lifecycle managers.

| Component (source) | State it keeps | Operations and callers | What is hard | What makes it correct |
| --- | --- | --- | --- | --- |
| Hybrid controller plugin (`src/m1_local_fast2d/src/hybrid_controller.cpp`) | the latest input, guide, timed reference and selected route under `mutex_`; MPPI's plan and `forwarded_generation_` on the server's thread | the controller server calls activate, deactivate, cleanup, setPlan and computeVelocityCommands; a worker thread plans | decisions outlive the critical section they are taken in; a search straddles setPlan; wake-ups meet no waiter; deactivate joins a busy worker | MPPI's plan, the reference and the reported source agree; fallback is always the newest global plan; shadow mode changes nothing; no worker is left |
| Restricted MPPI adapter (`restricted_mppi_*.cpp`, `timed_reference_retimer.cpp`) | last reference id and generation, tracking phase | called in a control cycle with a timed reference | failing steps after state is updated; empty control corridors | the phase follows one reference, never goes back and does not run away; every failure is a zero command |
| Local candidate planning (`local_fast2d_core.cpp`, `candidate_selector.cpp`, `candidate_risk_scorer.cpp`) | none; the previous route is an argument | called by the worker | hysteresis and ties, missing risk scores | the route changes only for a gain above the margin |
| Fast planner (`src/m1_fast_planner`) | none | called by the core | order of expansion, budgets, boundaries | a path found is feasible, and cheapest within its motion primitives |
| Causality harness (`causality_harness.cpp`) and obstacle mover (`dynamic_obstacle_mover.py`) | test state, epoch, one outstanding request; crossing flags | timer ticks, messages, service replies | lost replies, an epoch that is broadcast | the crossing starts once, after the epoch, and the test ends |
| Command watchdog (`cmd_vel_watchdog_node.py`) | last command and its receipt, `output_is_stale` | raw commands, a 20 Hz timer | a late timer, a full queue, an exception in the timer | motion does not outlive the timeout; commands and silences get through |
| SCOPE costmap layer (`src/m1_scope_costmap_layer`) | two bounded queues of halves, the latest pair, the pair of the cycle, the bounds drawn | subscriptions, costmap thread, parameter and clearing services | half pairs, topic changes and resets while drawing without the lock, a clock that goes back | pairs are of one source and never older; nothing drawn is left behind |
| SCOPE predictor (`src/m1_scope_predictor`) | scan and pose buffers, the next anchor, the generation of the input; two mailboxes | executor callbacks and a worker thread | results from before a reset, a backlog, errors in flight, shutdown of a waiting worker | predictions in the order of scans; nothing after an error; the worker ends |
| SCOPE risk field (`src/m1_scope_risk`) | one snapshot | queries | freshness and slice boundaries | a query never reads outside the snapshot |
| SCOPE bridge (`src/m1_scope_bridge`) | none | used by the predictor; offline export | nearest stamps and ties | a history has one scan per slot |
| Localized Imperative controller (`m1_controller_node.py`, `track_stability.py`, `planner_timing.py`) | latest inputs, tracks, a static bypass with its phase | a control timer, input callbacks | inputs age while a cycle plans; a bypass kept across stops | a stale input means a stop; the bypass ends or is given up |
| Simulation Imperative controller (`controller_node.py`, `algorithm/`) | latest inputs, tracks | a control timer | as above, without the test of the inputs' age | a saturated scan without a recent obstacle feed means a stop |
| Odometry slip simulator, software lidar, scan relay, initial pose | last stamp and true pose; last obstacle poses and their age | one callback each | gaps and jumps of time, a reporter that is gone | odometry does not jump after a gap; an obstacle that is gone leaves the scan |
| Unattended runner and plan probe (`tools/diagnostics/fast2d_unattended_runner.py`, `fast2d_single_plan_probe.py`) | an attempt, a ROS domain, a launch's process group, a result file per attempt | the operator calls the runner; the runner starts a launch and the probe | a signal between any two statements, a launch process that died before its nodes, files and domains of an earlier call | every call ends, leaves no simulator behind, and reports a measurement of its own launch |
| Launch files and lifecycle (`src/*/launch`) | the nodes started, delayed and activated | operators, the runner | remappings and conditions across five levels of inclusion, bring-up that gives up half-way | every topic and transform has one source; motion passes its guards |
| Guide validator (`guide_validator.py`) | four maps by stamp | four subscriptions | messages of one guide arrive in any order | each guide is validated once, on its own messages |
| Master snapshot layer (`master_snapshot_layer.cpp`) | the time of its last publication | the costmap thread | a clock that goes back | it publishes a copy, not more often than it may |
| Behaviour tree, parameters, descriptions, message packages, the other diagnostics in `tools/` and `scripts/` | none shared with the robot | configure and observe the others | | |

The hazards of this code, each at its line and with the properties that cover
it, are listed in `PROJECT.json`.

## Modules

| Module | Models | Role |
| --- | --- | --- |
| `HybridController` | `hybrid_controller.cpp`, `.hpp` | both threads of the plugin |
| `PlanHandoff` | | abstract specification: what MPPI may be given over time |
| `HybridControllerProofs` | | theorems about the plugin |
| `CmdWatchdog` | `cmd_vel_watchdog_node.py` | the node, its queue and timer, the driver |
| `CmdWatchdogProofs` | | theorems about the watchdog |
| `ScopeLayer` | `scope_layer.cpp`, `.hpp` | callbacks, parameters and costmap cycle |
| `ScopeLayerProofs` | | theorems about the layer |
| `ScopePredictor` | `predictor_node.py`, `streaming.py`, `latest_mailbox.py`, `inference_worker.py`, `find_nearest_indices` | executor, worker and mailboxes |
| `ScopePredictorProofs` | | theorems about the predictor |
| `ImperativeController` | `m1_controller_node.py` as a process | its callbacks and teardown, composed with `CmdWatchdog` |
| `ImperativeControllerProofs` | | theorems about the composition |
| `PlanningCycle` | the cycles of `m1_controller_node.py`, `controller_node.py`, `run_navigation`; `track_stability.py` | tracks, confirmation, map, bypass, markers |
| `PlanningCycleProofs` | | theorems about the cycles |
| `SimulatedSensors` | `dynamic_obstacle_mover.py`, `software_lidar.py`, `scan_relay.py`, `odom_slip_simulator.py` | state and steps of the simulated world |
| `CausalityTest` | `causality_harness.cpp`, `phase3_recorder.py` | the harness and the recorder, composed with `SimulatedSensors` |
| `CausalityTestProofs` | | theorems about the composition |
| `BenchProofs` | | theorems about the bench |
| `LaunchFiles` | the launch files and what they include | the nodes and their wiring, as data |
| `Bench` | the unattended runner and the plan probe; Nav2's lifecycle managers (external) | who starts, watches and stops a launch |
| `MC*` | | the sets that a `.cfg` gives to the constants |

Operators named `Wrong...` stand beside the operator they misstate: plausible
slips that each violate a property, which shows that the property can fail.

`ImperativeController` takes `CmdWatchdog` in by INSTANCE: the node's
publications are the watchdog's `Send`, and its steps are steps of the watchdog's
specification (theorem `ImplementsWatchdog`). `CausalityTest` extends
`SimulatedSensors`, and `Bench` extends `LaunchFiles`.

### HybridController

One action is one critical section of `mutex_`, with the accesses to fields
only its thread touches; `cpc` and `wpc` say where the two threads are.

- `Activate`, `DeactivateSignal`, `DeactivateJoin`, `Cleanup`: the life cycle.
  deactivate raises `stop_worker_`, wakes the worker and joins it.
- `SetPlanInput`, then `SetPlanForward`: setPlan in its two halves, with and
  without the mutex.
- `ComputeRead`, then `Accept`, `Keep` or `Fallback`, then `Command`:
  computeVelocityCommands copies the guide and decides, forwards the guide or
  takes it back, and computes the command: of stock MPPI, of the restricted
  adapter, or zero (`CommandOptions`).
- `WorkerTake`, `WorkerSnapshot`, `WorkerFail`, `WorkerSelect`,
  `WorkerPublish`, `WorkerStop`: workerLoop and planOnce. `WaitReturns` lets
  the bounded wait return at any time, as its timeout does.
- `Tick` and `Rollback` move the ROS clock on and back.

A path is the number of the global plan it serves and the id of the guide (0
for the global plan). Which candidate wins, and every geometric test, is an
outcome the worker picks.

`PlanHandoff` is what the plugin promises: MPPI tracks the newest global plan
or a guide, and guides never go back. `ImplementsHandoff` maps `plan`,
`tracked` and `adopted` to `inputGen`, `mppi` and `ref`.

### CmdWatchdog

`RawCommandCallback` and `PublishTimerCallback` are the two callbacks, one at
a time on one executor thread. The node looks only at the age of the last
command, so the model keeps that age, up to the value past which all ages are
alike. The planner (`Send`) and time (`Tick`) are outside; the timer may run up
to `Jitter` late. `WarnOutcomes` says what the warning of a timeout may do. As
written the logger rejects the values it is passed: with `"raises"` the first
timeout ends the node (`WarnRaises`: `alive` becomes false, nothing is published,
and nothing is received any more). With `"returns"` the timer callback publishes
after it (`Publish`): the node as documented. What only a watchdog that is still
there can promise is stated under `Watching`.

### ScopeLayer

`Callback` is a subscription callback together with `BufferGrid`, the part
under the lock: the generation check, the test for a clock that went back, the
bounded queue, the pairing and the replacement of the latest pair. The receipt
time is read before the lock is taken, so it is an argument of its own. A
callback may belong to the current subscription, to the one just replaced or
to the one being created. `UpdateBounds`, `UpdateCostsBegin` and
`UpdateCostsEnd` are the costmap cycle, including the roll of the window and
the reset of the window by the costmap; between the last two the layer
rasterizes without the lock. `SwapBegin` and `SwapEnd` are a topic change,
`SwapFails` one whose subscriptions could not be made, `SetEnabled` any other change
of parameters, `Reset` the clearing service.

A grid is its stamp and the world cells it covers; which of them it raises is
any subset. The model keeps where the master holds a SCOPE cost, not the cost.

### ScopePredictor

`ScanCallback` and `PoseCallback` fill the buffers and reset on a stamp that
goes back; `Schedule` is the whole of `_schedule`, with `build_job`'s choice of
scans (`Nearest`, `Unique`, `HasHistory`); `PublishResult` takes a result;
`DestroyNode` closes the input mailbox. `WorkerTake`, `WorkerPut` and
`WorkerEnd` are the thread. Stamps are modelled exactly for scans, since the
history is built from them; odometry is one sample or several, and whether it
brackets the history is left open.

### ImperativeController

The executor has three threads, and the planning callback is in a callback group
of its own: sensor callbacks run while it plans, another planning callback does
not. `ControlStart` takes the snapshot under `sensor_lock`; after it the callback
looks at no sensor again. It then ends early (`InputUnusable`, `ControlStop`: a
zero is published), is cut short by a context that is gone (`ControlAbandon`), or
has a velocity (`ControlPlan`) that `PublishBodyVelocity` lets through if
`enabled` holds at that moment. `ScanCallback` and `OdomCallback` read the clock
before they wait for the lock, so that they may store a time `CallbackDelay` old.
`Sigint`, `BurstZero`, `BurstEnd`, `Join` and `SecondSigint` are main's way out,
beside a planning callback that may still be running; `Kill` is a crash.

`CmdWatchdog` is taken in with its own `WarnOutcomes`: the watchdog may end on its
warning here as well, and then takes no more commands and leaves the driver as it is.
While it lives it handles a command in the tick it is sent in.

As in `CmdWatchdog` only ages are kept. One motion command of all may be marked,
as `"probe"`: it travels like the others through the queue and the watchdog to
the driver, and `probeAge` is the age of the older of its two inputs. What is true
of an arbitrary marked command is true of every command.

### PlanningCycle

The cycles of a program never overlap, and one cycle is one step. `program` says
whose: the robot's node (`EmergencyStop`, `BypassDrive`, `M1Cycle`), the Gazebo
node (`SimStop`, `SimCycle`) or the algorithm's own simulation (`DemoCycle`).
`UpdateTracks`, `Confirmed`, `FilterUpdate`, `PredictedMoving` and `MapUpdate` are
what a cycle does in its order; which detection lies near which track, and which
estimate moves, is any choice. `BypassAfter` is what `update_static_bypass_goal`
may leave of a manoeuvre, whatever it sees. `Visualize` is the part of
`publish_visualization` that has a memory: which markers are to be deleted.

A track's record has one field that the code does not keep, `seen`; it changes
nothing and is what `RepeatedlySeen` is stated with.

### SimulatedSensors and CausalityTest

One obstacle stands for the three. `mode` is what the mover was started for:
parked, roaming (the continuous and the random mode), or crossing. Its requests
to Gazebo may be lost (`LosePose`), since nobody reads the answers, and the mover
may crash while Gazebo keeps the obstacle's last velocity. `PublishActualPositions`
repeats the last report however old it is, as the code does. `SlipOdomCallback`
has the three cases of the simulator: the first message, one after no time or too
much of it, and every other.

`CausalityTest` adds the harness's states, with a costmap request whose reply may
not come; the epoch it announces, which the mover and the recorder take in their
own time; and the recorder that must be recording before the epoch. A launch
without the test's trigger has the sensors alone.

### LaunchFiles and Bench

`LaunchFiles` is data: for each file and its arguments the nodes that start
(`NodesOf`), each with its outputs. An output (`Flow`) names the processes it
reaches through Gazebo's own transport, the topics it needs and the topic or
transform it carries. `Delayed` lists what a TimerAction starts later, `NamesOf`
the nodes of a lifecycle manager, `Sessions` the files that the guides run side by
side. In `Bench` a topic flows if some live, active node carries it and what that
needs flows: `Lives` are those outputs, and `Flowing` is what they carry after as
many hops as the longest chain of the launch files has (`Carried` is one hop).

In `Bench` an operator starts and stops the files of a session, or the unattended
runner works: `Call`, `Launch`, `StartProbe`, `ProbeEnded` or `RunnerTimeout`,
`ValidatorClosed`, `StopGroup`, `ReadResult`. The probe waits for readiness in
passes (`Observe`, then `Gate`: the graph is looked at after the observations),
sends its goals and writes a result. `BringUp` is a lifecycle manager's walk
through its nodes, which ends at the first that fails. `Die`, `LeaderDies`,
`BondBreaks`, `ProbeDies` and `Signal` are the failures; `Signal` may arrive
between any two statements of the runner, inside its try block or not.

## Runs

| Run | Module, configuration | Question | Result |
| --- | --- | --- | --- |
| `hybrid` | `MCHybridController`, `HybridController.cfg` | do the plan, the reference and the reported source stay in step under all interleavings; does the plugin implement the handoff | holds; about 340,000 states |
| `hybrid_foreign_guide` | `HybridGuideOfCurrentPlan.cfg` | is a guide used only for the plan it was made for | violated |
| `hybrid_newest_guide` | `HybridNewestGuideTracked.cfg` | does MPPI track the newest guide | violated |
| `watchdog` | `MCCmdWatchdog`, `CmdWatchdog.cfg` | with a warning that raises or returns: is the robot stopped in time, and only then; what does a node that ends leave behind | holds; about 2,600 states |
| `scope_layer` | `MCScopeLayer`, `ScopeLayer.cfg` | are pairs complete, of one source and never older; is everything drawn taken back | holds; about 200,000 states |
| `scope_predictor` | `MCScopePredictor`, `ScopePredictor.cfg` | are predictions in order and of the current epoch; do errors and shutdown drain | holds; about 250,000 states |
| `imperative` | `MCImperativeController`, `ImperativeController.cfg` | with a warning that raises or returns: how old may the inputs of a command be that drives the base; does losing a sensor, or disabling, stop it for good | holds while the watchdog watches; about 365,000 states |
| `imperative_warning` | `MCImperativeController`, `ImperativeWarn.cfg` | with the warning as written, and whether the watchdog has ended or not: is the base never driven on older inputs | violated |
| `planning_cycle` | `MCPlanningCycle`, `PlanningCycle.cfg` | what do the cycles plan with, what stays in the map, does a bypass keep its course | holds; about 20,600 states |
| `causality` | `MCCausalityTest`, `CausalityTest.cfg` | is the test's baseline quiet, and does the crossing happen, under lost requests and crashes; does the odometry stay continuous | holds; about 133,000 states |
| `bench` | `MCBench`, `Bench.cfg` | are the sessions wired with one source each and guarded; what does the runner leave behind, and whose results does it report | holds; about 98,000 states |
| `wiring_real` | `MCBench`, `BenchReal.cfg` | does all motion of the real robot's launch pass the guards | violated |

### What the properties say

- **hybrid**: `PlanCoherence` (MPPI's plan, `forwarded_generation_`, the
  reference and the source agree), `CommandReady` (so does each command with
  the decision its cycle took before it let go of the mutex),
  `OneForeignGuide` (a new global plan lets at most one guide of an earlier
  plan through), `NoWorkerOutlives`, `ShadowTransparent`, `NeverBackwards`,
  `ImplementsHandoff`, and two liveness properties: `DeactivateReturns` and
  `PlanReachesWorker`.
- **watchdog**: `BoundWhileWatching` (no motion outlives the timeout by more than
  one late timer period, as long as the node has not ended on its warning),
  `EndsOnLast` (a node that has ended leaves the driver with the last command it
  received, not with an earlier one), and as liveness `SilenceStops`,
  for behaviours in which the node does not end, and
  `CommandsReachDriver`, for all. The run takes both outcomes of the warning at each
  timeout, so that it covers the node as written and as documented.
- **scope_layer**: `NoPairMissed`, `OneSource`, `NewestWins`, `NoGhosts`
  (every cost on the map lies within the bounds the layer will recompose),
  `ForgottenNotDrawn`, and as liveness `EventuallyWithdrawn`.
- **scope_predictor**: `PipelineInOrder` (shown, output, busy and input are in
  strict order of generation and anchor), `NeverAhead`, `NoBacklog`,
  `ErrorDrains`, and as liveness `StopEndsWorker`.
- **imperative**: `RecentWhileWatched` (end to end, and as long as the watchdog has
  not ended on its warning, a command that drives the base was planned from a scan
  and an odometry no older than the input timeout, one planning cycle, the
  watchdog's timeout and one late watchdog period together), and as liveness
  `SensorLossStops` and `DisablingStops`, for behaviours in which the watchdog does
  not end. With a warning that returns these conditions are always true; with the one
  as written they exclude what follows the first silence of the controller, and
  `imperative_warning` shows that the bound does not hold then
  (`DrivenOnRecentInputs`, the same bound without the condition).
- **planning_cycle**: `RepeatedlySeen` (what is planned with was matched at least
  twice, although ages count missed scans too), `NoTrail` (points of an object
  that turns out to move do not stay in the map), `CommittedBypass`.
- **causality**: `QuietBaseline` (the obstacle moves from the start of the
  crossing alone and not before its time), `NoOdomJump`, and as liveness
  `LeavesScan` and `CrossingHappens`.
- **bench**: `MeasuresItsOwn` (a probe that called the environment ready sees no
  node of another launch), `NothingLeftBehind` (a launch outlives its attempt only
  in the two ways it names), `ReportsThisCall`, `MotionGuarded` (with any one guard
  gone no motion reaches `/cmd_vel`), `SourcesUnique`, and as liveness `CallsEnd`.

### Bounds

- `hybrid`: two global plans let a search straddle setPlan, and what is before
  the first plan is generation 0; three guides give two of one plan and one of
  another. The clock has two values and the timeout is 0, so that a guide is
  fresh, stale, or from the future after a rollback. Both modes, the forced
  fallback and the restricted switch take any value at each cycle.
- `watchdog`: a tick is 50 ms. The timer has its production period of one
  tick and may be one tick late; the timeout of 0.40 s is eight ticks. The
  subscription's depth is 2 instead of 10: a queue overflows at any depth, and
  two commands of each kind tell which one was lost.
- `scope_layer`: two successive grids in different places, a window that
  covers two of three cells and rolls, queues of two instead of four (so that
  they overflow), two subscriptions, a clock of two values with a timeout of 0.
- `scope_predictor`: a history of two scans instead of ten, a tick of 50 ms,
  so that the period is two ticks and the tolerance of half a period lets a
  scan be near two slots; six stamps let the scheduler fall two periods behind;
  one reset separates two generations. With `MaxGen` resets used up a further
  reversal is not explored.
- `imperative`: a tick is half a second. The input timeout, the longest cycle
  and the watchdog's timeout of 0.4 s are one tick each, so that inputs expire,
  a cycle ends and the watchdog stops the base in any order. A queue of two and a
  burst of one zero let a command wait behind another one while the node ends.
- `planning_cycle`: ages 3 and 2 and one missed scan, so that a track is confirmed
  by an age that missed scans helped; two detections, three ids.
- `causality`: a tick is a second or more, and every duration is one tick; a ring
  of three positions shows a step of two. With the test's trigger the run has
  Gazebo's own lidar and without it the software lidar (`MCInit`): neither reads
  anything of the other, and the theorems need no such restriction.
- `bench`: two calls of two attempts over a cycle of two ROS domains, so that a
  domain comes again, within a call's attempts and across calls; one failure of
  any kind; a node of the localization, of the sensors and of the guards may die.

Deadlock is checked in every run but those of `Bench`, where the runner stops
after its last call and a launch settles. `Terminated` stands for the plugin
after cleanup and for the node after destroy_node, where the process may stop.

### Fairness

- `HybridController`: weak fairness of the steps of a call that has begun, of
  the join, and of the worker. The server finishes its calls; the worker's wait
  is bounded by `1 / update_rate` and its search by `max_planning_time_ms`.
  Nothing is assumed about when the server calls.
- `CmdWatchdog`: time passes and the timer runs when due (weak), and a command
  that waits is received (strong: the executor serves both callbacks in turn,
  and a command may be replaced in the queue while it waits).
- `ScopeLayer`: the costmap thread runs its cycles (weak). Nothing is assumed
  about messages, parameters or the clock.
- `ScopePredictor`: the publication timer runs and the worker is scheduled
  (weak), and inference returns.
- `ImperativeController`: time passes, the executor runs the planning callback
  when it is due and to its end, and the watchdog's fairness is as above. Nothing
  is assumed about sensors or signals.
- `CausalityTest`: time passes, the timers of the harness and of the mover and
  their publications run, and Gazebo reports the obstacle (weak). Requests and
  replies may be lost forever.
- `Bench`: the runner goes on (weak): each of its waits has a timeout of its own,
  except for the check of torch before a launch with SCOPE
  (`fast2d_unattended_runner.py:96`), a process that is taken to end. Nothing is
  assumed about the probe, a launch or the operator.
- `PlanningCycle` has no liveness, and no fairness.

## Proofs

TLAPS checks the theorems below for every value of the constants that satisfies
the named assumptions of each module (`ModeAssumption`, `TimingAssumption`,
`GridAssumption`, `HistoryAssumption`, `ImperativeAssumption`, `CycleAssumption`,
`SensorsAssumption`, `BenchAssumption`...): any number of plans, guides, resets,
grids, tracks, attempts and calls, any timeout, period, jitter and queue depth.

| Theorem | Establishes |
| --- | --- |
| `HybridControllerProofs!Inductive`, and from it `PlanCoherent`, `CommandsReady`, `AtMostOneForeignGuide`, `ShadowOnlyObserves`, `WorkerJoined` | the invariants of the run `hybrid` |
| `HybridControllerProofs!GuidesNeverGoBack` | `NeverBackwards` |
| `HybridControllerProofs!Implements` | the plugin implements `PlanHandoff` |
| `CmdWatchdogProofs!StopBounded`, `LastCommandStays` | `BoundWhileWatching`, `EndsOnLast`, each for every set of outcomes of the warning |
| `CmdWatchdogProofs!StaleIsZero` | `output_is_stale` agrees with what the driver was given; no run checks it |
| `ScopeLayerProofs!GhostFree`, `Withdraws` | `NoGhosts`, and that a cycle without a pair withdraws every cost |
| `ScopeLayerProofs!PairsComplete`, `SourcesKeptApart`, `ForgottenStays`, `NewestFirst` | `NoPairMissed`, `OneSource`, `ForgottenNotDrawn`, `NewestWins` |
| `ScopePredictorProofs!JobsInOrder`, `NothingAhead` | `PipelineInOrder` and `NeverAhead`, for histories of more than one scan |
| `ScopePredictorProofs!NoCatchingUp`, `ErrorsDrain` | `NoBacklog`, `ErrorDrains` |
| `ImperativeControllerProofs!ImplementsWatchdog` | a step of the composition is a step that `CmdWatchdog` allows, whatever the warning does |
| `ImperativeControllerProofs!InputsAreRecent` | `RecentWhileWatched`, from `Inductive` |
| `PlanningCycleProofs!PlannedWereSeen`, `TrailsSwept`, `BypassCommitted` | `RepeatedlySeen`, `NoTrail`, `CommittedBypass` |
| `PlanningCycleProofs!IdsNameOneTrack`, `MarkersKnown` | ids name one track each, and every marker on display will be deleted |
| `CausalityTestProofs!NoJumps`, `BaselineIsQuiet` | `NoOdomJump`, `QuietBaseline` |
| `BenchProofs!OnlyExcusedLaunchesStay`, `ReportsOwnResult` | `NothingLeftBehind`, `ReportsThisCall` |
| `BenchProofs!OneSourceEach`, `NoMotionUnguarded` | `SourcesUnique`, `MotionGuarded` |
| `BenchProofs!MeasuresAlone` | `MeasuresItsOwn`, if deaths are few enough (see below) |
| `HybridControllerProofs!JoinComes`, `PlanIsTaken`; `CmdWatchdogProofs!CommandsArrive`; `ScopeLayerProofs!CostsGo`; `ScopePredictorProofs!WorkerWindsDown`; `ImperativeControllerProofs!SilenceSpreads`; `CausalityTestProofs!CrossingComes`, `LeavingComes`; `BenchProofs!CallsWindDown` | what a liveness property says but for fairness (see below) |
| `TypeCorrect` of each of these modules | the module's `TypeOK` |

The arguments:

- **HybridController.** `PlanCoherence` is not inductive by itself. `IInv`
  adds which thread may be where (`ThreadShape`: the worker exists exactly
  between activate and the join), that every copy of a guide or an input lags
  behind its original (`CopiesLag`: reference, cycle's copy, latest guide,
  job, input), that a decision to use a guide is backed by a valid copy
  (`DecisionBacked`), and that shadow mode has nothing to take back. One lemma
  shows the type is kept, one the shape and the lag, one the handoff itself.
- **CmdWatchdog.** A latched motion was fresh when the timer last ran, `phase`
  ticks ago (`LatchedWasFresh`); the timer is late by `Jitter` at most while the node
  lives. `TimerRan` says what the timer made of the last command when it ran: from it
  follow `CommandsArrive`, and that a node whose warning raises had forwarded the last
  command before, because a command goes stale only after the timer has run on it.
  None of the theorems assumes anything of the warning; that a node whose warning only
  returns never ends is part of the induction.
- **ScopeLayer.** On the map: the window of a cycle covers what is drawn, so
  that nothing is left on the map while the layer rasterizes, and what it then
  draws lies within the bounds it remembers (`CostmapInv`). On the queues: all
  halves are of the current subscription, and no prediction matches an
  uncertainty. Appending keeps this if nothing matches, and removing a pair
  keeps it because it held before; the lemmas `AppendBounded` and
  `RemoveBounded` state this about sequences.

  `NewestWins` and `ForgottenNotDrawn` follow step by step: no step takes up a
  pair older than the one it replaces, and a pair forgotten while the layer
  rasterizes is not drawn by the next cycle.
- **ScopePredictor.** Order is a property of the choice of scans. The nearest
  stamp of a slot exists, since distances are natural numbers, and of two slots
  the later one never selects an older scan. The invariant `Kept` says of every
  job of the current generation that it was built for some slot behind the next
  anchor, for which its scan beats every older scan (`BuiltFor`). A later scan can
  only take a place further on, and `Unique` makes the next job's scan a different
  one: this is where a history of more than one scan is needed, because with one
  slot nothing compares two jobs.
- **ImperativeController.** `Whereabouts` follows the marked command: the age of
  a cycle's inputs is the input timeout plus the time the cycle has run; in the
  queue the command is no older than when it was published, since a message is
  handled within its tick; as the watchdog's last command it ages with it; at the
  driver it is older by the timer's phase at most. Teardown and crash publish
  nothing but zeros or what a cycle had under way. All of this is said of a watchdog
  that lives (`alive => Downstream`): one that has ended keeps what it had, and
  nothing bounds the age of that.
- **PlanningCycle.** `UniqueIds` needs the number of detections that are left over;
  that ids are finite gives cardinalities. `SeenTwice` explains why a confirmed
  track was seen twice although its age counts missed scans: confirmation asks that
  the last scan saw it. `HistoriesComplete` is what lets a map be swept back to a
  track's birth, and with it `NoTrail` is inductive.
- **CausalityTest.** `OffsetBounded`: since the last message the robot has moved
  no farther than its ticks, because every message, ignored or not, becomes the
  new reference. `EpochOrder` and `CrossingPlaced` say what follows what, from the
  announcement to the first motion.
- **Bench.** Active nodes are up. `NothingLeftBehind` is inductive once the types
  of the launch records are known. For the report, `ResultKept` says that a probe
  that is over has left this call's result or has died, and that after a signal no
  result is read.

  `SourcesUnique` and `MotionGuarded` rest on the launch files, and on what may run
  side by side: `SessionsApart` says that the operator's launches and the runner's
  are never there at the same time, that each is in the domain its call has, and
  which files each is of. The theorems then go through the sessions: of each file
  `FilesOffer` and the lemmas about it say, for all arguments, which node carries a
  topic and which node that reaches a guard's output needs the guard. `Flowing` is a
  recursive function of the number of hops; `FlowingUnfolds` gives its last three
  hops, which is as far as a guard is from the motors. Neither theorem assumes
  anything of who is up: a node that has died carries nothing.

  `MeasuresItsOwn` needs a count. A launch that is not the probe's stays in a domain
  because its own process died or a signal hit it outside the try block: one failure.
  The graph check sees its nodes as soon as one of those that start at once is still
  there (Gazebo itself, which is no ROS node, apart), and to miss it all of them must
  have died: as many failures (`FailuresCounted`: the nodes a launch has lost, and one
  more for the launch itself when nobody stops it, are no more than the failures there
  were). `MeasuresAlone`
  therefore assumes that one of the nodes a launch starts with does not die, or that
  there are no more failures than nodes it starts with.
  Without it the property is false: a leftover launch all of whose first nodes have
  died is invisible to the check until its delayed nodes start. The run `bench`
  satisfies it twice over, with three nodes that may die and one failure.

What of liveness can be proved. Fairness and ENABLED are out of this prover's reach,
so that every `~>` and `<>[]` stays with TLC. What makes them true is proved, for
every value of the constants, as action properties that speak of no schedule:

- A **count of the steps that are left**, which every step of the thread lowers and
  no other step raises: `CallsWindDown` (`CallsEnd`), `JoinComes` and `PlanIsTaken`
  (`DeactivateReturns`, `PlanReachesWorker`), `WorkerWindsDown` (`StopEndsWorker`),
  `CostsGo` (`EventuallyWithdrawn`; no cost is left when the count is 0).
- A **chain of states that are kept**, with the step that leads from each to the
  next: `SilenceSpreads` (`SensorLossStops` and `DisablingStops`: queue, last command,
  driver; by a timer that does not end the watchdog), `CrossingComes` (`CrossingHappens`: report, clock, mover, clock) and
  `LeavingComes` (`LeavesScan`: report, centers, scan).
- A **bound in time**: `StopBounded` (`SilenceStops`, while the node watches) and `CommandsArrive`
  (`CommandsReachDriver`: the command is at the driver once it is older than one
  late timer period).

That such a step is taken at all is the fairness of [Fairness](#fairness), and that
it can be taken is what TLC adds. So only the liveness properties themselves are
model-checked alone; every invariant and every action property of the runs is also
a theorem. Those of `MCCausalityTest`'s restricted initial states are theorems
without the restriction. The findings are counterexamples, and no theorems.

## Where code and comments disagree

1. **A guide of an earlier plan is used** (`hybrid_foreign_guide`). setPlan
   invalidates the pending guide (`hybrid_controller.cpp:191-193`), but
   planOnce publishes with `valid` set without comparing the generation of its
   input with the newest one (lines 471-474). A search under way during setPlan
   makes a guide of the earlier plan valid again, and the next cycle forwards
   it. `OneForeignGuide` shows the extent: one guide, until the next search.
2. **Later guides are not forwarded** (`hybrid_newest_guide`). A guide is
   forwarded only if the generation of its plan differs from
   `forwarded_generation_` (line 223). MPPI keeps the first guide of a plan
   while later ones keep it fresh; the design says that the newest valid guide
   is forwarded (`docs/local_fast2d_hybrid_design.md:8-9`).
3. **The watchdog's warning raises** (`imperative_warning`).
   `publish_timer_callback` passes values to format to `warn`
   (`cmd_vel_watchdog_node.py:111-114`), which in rclpy for Humble takes the
   message alone: the first timeout ends the node before it publishes zero.
   So after a kill or a second interrupt of the localized controller with a motion
   latched nobody publishes the zero that the docstring (lines 4-5) and
   `docs/system_architecture.md:183` promise 0.40 s after the last raw command, and
   the base keeps moving: neither the end-to-end bound nor the liveness of the
   controller holds without a watchdog that is still there. Where a zero is the last
   thing the controller sends, the base stands still all the same (`EndsOnLast`).
4. **The real robot's behavior server bypasses the guards** (`wiring_real`).
   `nav2_m1_real.launch.py:132` starts it without the remapping of `cmd_vel` that
   `nav2_m1_gazebo.launch.py:233-244` gives it: recovery behaviors publish on
   `/cmd_vel` themselves, past smoother, collision monitor and watchdog, which calls
   itself the only publisher there (`cmd_vel_watchdog_node.py:3-4`).
   `MotionGuarded` is the same statement with this node left out.

Met on the way, without a run:

- A topic change whose subscriptions could not be made leaves the generation number
  to the next attempt (`scope_layer.cpp:299-306`). A callback of the first attempt
  that is still running would pass the generation check of the second; the model
  does not tell the two apart.
- A restricted cycle without a fresh reference returns a zero command although
  the design has it forward the original plan
  (`docs/local_fast2d_hybrid_design.md:15-17`).
- The software lidar means to forget obstacles when a bridge stalls
  (`software_lidar.py:38-41`), but the mover repeats the last poses it heard with
  a new stamp (`dynamic_obstacle_mover.py:231-240`): only a mover that is gone, or
  one that parks its obstacles, clears the scan. `LeavesScan` states these two.
- A track's motion is confirmed by "consecutive fresh observations"
  (`track_stability.py:43-44`), but a scan that misses the track leaves the count
  as it is (lines 35-37).
- `controller_node.py` never looks at the age of a scan or of the odometry.
- A cycle that returns early has consumed the measured period
  (`m1_controller_node.py:560`), so that the next prediction of the tracks
  (line 638) covers less time than has passed.
- `_interrupt` promises that `one()` always runs its finally
  (`fast2d_unattended_runner.py:16-18`); a signal between Popen and the try
  statement, or during finally, leaves the simulator running. A launch process
  that died by itself is not signalled, and its nodes stay.
- A probe that dies without a result leaves an earlier call's `result.json` of the
  same name to be reported.
- The outer guard is meant to be larger than the probe's own timeouts (comment
  above the call); for a fixed action the probe's waits can add up to more.

## What the hazards without a property are

`PROJECT.json` lists hazards at their lines; those without a property say why.
They are the restricted adapter and its phase tracker, the selector's hysteresis,
the odometry buffer of the predictor beyond the presence of samples, the costmap
reply that never comes, which the harness has no answer to, and the watchdog's
`output_is_stale`, about which there is a theorem instead.

## Not modelled

Floating-point geometry, the SCOPE network, the optimizer of MPPI and the
numerical planner of the Imperative controllers are out of TLC's reach; where
a modelled component calls them, their outcome is any of those the code
distinguishes. Experiment scripts and passive recorders read data, compute and
report. Nav2, ROS, DDS and Gazebo are external: the models take from them what
the code relies on (one controller server call at a time, bounded queues that
lose their oldest, a clock that may go back, lifecycle managers that stop at the
first failing node). Left out of modelled components:

- `HybridController`: the restricted adapter's reference ids and tracking phase,
  the selector's hysteresis. A restricted cycle has a command or a zero.
- `ScopePredictor`: the queue of evaluations, which does not reach a prediction.
- `CausalityTest`: what the harness plans, and its log.
- `SimulatedSensors`: the slip profiles, which scale each increment, and the rays.
- `LaunchFiles`: RViz, joystick, and parameters that do not rewire the graph. The
  vendor's driver stands in for what the real robot brings.

## Plan

Done: the chains from plan to wheel, the simulated world, the causality test, the
launch files with who runs them; a theorem for every invariant and action property
of the runs, and the argument behind every liveness property. Next, most important
first:

1. `RestrictedTracking`: the adapter's reference ids, the phase tracker and the
   zero commands of a failing cycle; the selector's hysteresis as an operator.
2. The odometry buffer of the predictor with its stamps, and its evaluation
   queue; `GuideValidator`; the risk field's choice of a slice.
3. A*'s order of expansion against a reference definition on small graphs.
