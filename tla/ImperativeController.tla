------------------------ MODULE ImperativeController ------------------------
(***************************************************************************)
(* imperative_navigation's m1_controller_node, as a process: its sensor    *)
(* callbacks, its planning callback and its teardown, composed with the    *)
(* m1_cmd_watchdog that stands between its raw command and the motors.     *)
(*                                                                         *)
(* The executor has three threads.  Sensor callbacks run beside a planning *)
(* callback, which takes its inputs once, under sensor_lock, and publishes *)
(* up to MaxPlan ticks later; two planning callbacks never overlap.  What  *)
(* a cycle plans is the subject of PlanningCycle: here it moves the base   *)
(* or stops it.  As in CmdWatchdog, time is kept as ages.                  *)
(*                                                                         *)
(* One motion command of all may be marked, as "probe"; probeAge is then   *)
(* the age of the older of the two inputs it was planned from.             *)
(***************************************************************************)
EXTENDS Integers, Sequences, FiniteSets

CONSTANTS
    InputTimeout,     \* scan_timeout and odom_timeout, in ticks
    CallbackDelay,    \* ticks a sensor callback may wait for sensor_lock
    MaxPlan,          \* ticks a planning callback takes at most
    BurstLength,      \* zeros of publish_stop_burst
    WatchdogTimeout, Period, Jitter, QueueDepth,  \* of the watchdog
    WarnOutcomes      \* of the watchdog's warning

ASSUME ImperativeAssumption ==
    /\ InputTimeout \in Nat /\ CallbackDelay \in Nat /\ MaxPlan \in Nat
    /\ BurstLength \in Nat
    /\ WatchdogTimeout \in Nat \ {0} /\ Period \in Nat \ {0} /\ Jitter \in Nat
    /\ QueueDepth \in Nat \ {0}
    /\ WarnOutcomes \subseteq {"raises", "returns"} /\ WarnOutcomes # {}

VARIABLES
    scanAge,      \* ticks since last_scan_time; StaleAge if older, or no scan yet
    odomAge,      \* the same of last_odom_time and position
    enabled,      \* the parameter enabled, which may be set at run time
    due,          \* control_period has passed since the planning timer last fired
    pc,           \* the planning callback: "idle", "plan" or "publish"
    basis,        \* age of the older input of the callback's snapshot
    busy,         \* ticks since that callback began
    proc,         \* main: "spinning", "burst", "joining" or "gone"
    zerosLeft,    \* zeros of the burst still to be sent
    contextOk,    \* rclpy.ok()
    probeAge,     \* see above; 0 until the probe is sent
    probed,       \* the probe has been sent
    inbox, last, age, outputStale, phase, driver, alive   \* the watchdog

nodeVars     == <<scanAge, odomAge, enabled, due, pc, basis, busy, proc, zerosLeft, contextOk,
                  probeAge, probed>>
watchdogVars == <<inbox, last, age, outputStale, phase, driver, alive>>
vars         == <<nodeVars, watchdogVars>>

Probe == "probe"
Moves == {"move", Probe}

Watchdog == INSTANCE CmdWatchdog WITH Timeout <- WatchdogTimeout

StaleAge == InputTimeout + 1

\* The age a command's inputs may have when it is published.
PublishedAge == InputTimeout + MaxPlan

\* The age a driven command's inputs may have.
DrivenAge == PublishedAge + WatchdogTimeout + Watchdog!MaxLate

Older(a, b) == IF a >= b THEN a ELSE b

TypeOK ==
    /\ scanAge \in 0 .. StaleAge /\ odomAge \in 0 .. StaleAge
    /\ enabled \in BOOLEAN /\ contextOk \in BOOLEAN /\ probed \in BOOLEAN
    /\ due \in BOOLEAN
    /\ pc \in {"idle", "plan", "publish"}
    /\ basis \in 0 .. PublishedAge
    /\ busy \in 0 .. MaxPlan
    /\ proc \in {"spinning", "burst", "joining", "gone"}
    /\ zerosLeft \in 0 .. BurstLength
    /\ probeAge \in 0 .. DrivenAge + 1
    /\ Watchdog!TypeOK

\* The node starts with no input and in dry-run mode, whatever is enabled later.
Init ==
    /\ scanAge = StaleAge /\ odomAge = StaleAge
    /\ enabled \in BOOLEAN
    /\ due = FALSE
    /\ pc = "idle" /\ basis = 0 /\ busy = 0
    /\ proc = "spinning" /\ zerosLeft = 0 /\ contextOk = TRUE
    /\ probeAge = 0 /\ probed = FALSE
    /\ Watchdog!Init

-----------------------------------------------------------------------------
(* The callbacks of the executor.                                           *)

\* publish_message: a publisher of a context that is gone publishes nothing.
PublishMessage(c) ==
    IF contextOk THEN Watchdog!Send(c) ELSE UNCHANGED watchdogVars

\* scan_callback and odom_callback read the clock before they wait for
\* sensor_lock: of two that overlap the older one may be the last to store.
StoredAge(delay) == IF delay > InputTimeout THEN StaleAge ELSE delay

ScanCallback ==
    /\ proc = "spinning"
    /\ \E delay \in 0 .. CallbackDelay : scanAge' = StoredAge(delay)
    /\ UNCHANGED <<odomAge, enabled, due, pc, basis, busy, proc, zerosLeft, contextOk,
                   probeAge, probed, watchdogVars>>

OdomCallback ==
    /\ proc = "spinning"
    /\ \E delay \in 0 .. CallbackDelay : odomAge' = StoredAge(delay)
    /\ UNCHANGED <<scanAge, enabled, due, pc, basis, busy, proc, zerosLeft, contextOk,
                   probeAge, probed, watchdogVars>>

WrongOdomOnly == odomAge <= InputTimeout
WrongEither   == scanAge <= InputTimeout \/ odomAge <= InputTimeout

\* input_is_fresh, of the snapshot.
InputIsFresh == scanAge <= InputTimeout /\ odomAge <= InputTimeout

\* sensor_snapshot: the age of its older input.
Snapshot == Older(scanAge, odomAge)

\* control_callback up to input_is_fresh: the snapshot is taken here, and the
\* rest of the callback does not look at the sensors again.
ControlStart ==
    /\ proc = "spinning" /\ pc = "idle" /\ due
    /\ due' = FALSE
    /\ IF InputIsFresh
       THEN /\ pc' = "plan" /\ basis' = Snapshot /\ busy' = 0
            /\ UNCHANGED watchdogVars
       ELSE /\ PublishMessage(Watchdog!Zero)
            /\ UNCHANGED <<pc, basis, busy>>
    /\ UNCHANGED <<scanAge, odomAge, enabled, proc, zerosLeft, contextOk, probeAge, probed>>

CallbackEnds == pc' = "idle" /\ basis' = 0 /\ busy' = 0

StopAndReturn ==
    /\ pc = "plan"
    /\ PublishMessage(Watchdog!Zero)
    /\ CallbackEnds
    /\ UNCHANGED <<scanAge, odomAge, enabled, due, proc, zerosLeft, contextOk, probeAge, probed>>

\* Nothing to plan with: resolve_current_goal has no transform of the goal, or
\* scan_as_robot_relative_points none of the laser, or no valid return.
InputUnusable == StopAndReturn

\* The later returns that stop the base: a return in the emergency tube, the
\* goal reached, and any failure of the planner.
ControlStop == StopAndReturn

\* An RCLError while planning: the context is gone, and nothing is published.
ControlAbandon ==
    /\ pc = "plan" /\ ~contextOk
    /\ CallbackEnds
    /\ UNCHANGED <<scanAge, odomAge, enabled, due, proc, zerosLeft, contextOk, probeAge, probed,
                   watchdogVars>>

\* What bypass_velocity, choose_velocity or select_acceleration may answer.
Velocities == Watchdog!Commands

\* The bypass or the planner has a velocity for the base.
ControlPlan ==
    /\ pc = "plan"
    /\ pc' = "publish"
    /\ UNCHANGED <<scanAge, odomAge, enabled, due, basis, busy, proc, zerosLeft, contextOk,
                   probeAge, probed, watchdogVars>>

WrongUngated(c) == c

\* publish_body_velocity reads enabled now, not when the cycle began.
Gated(c) == IF enabled THEN c ELSE Watchdog!Zero

\* publish_body_velocity.  The velocity may be zero; a motion may be the probe.
PublishBodyVelocity(c) ==
    /\ pc = "publish"
    /\ c = Probe => ~probed
    /\ PublishMessage(Gated(c))
    /\ IF c = Probe /\ enabled /\ contextOk
       THEN probed' = TRUE /\ probeAge' = basis
       ELSE UNCHANGED <<probed, probeAge>>
    /\ CallbackEnds
    /\ UNCHANGED <<scanAge, odomAge, enabled, due, proc, zerosLeft, contextOk>>

\* Somebody sets the parameter.
SetEnabled ==
    /\ proc = "spinning"
    /\ enabled' = ~enabled
    /\ UNCHANGED <<scanAge, odomAge, due, pc, basis, busy, proc, zerosLeft, contextOk,
                   probeAge, probed, watchdogVars>>

-----------------------------------------------------------------------------
(* main: teardown beside a planning callback that may still be running.     *)

\* SIGINT leaves executor.spin.  The signal may have shut the context down.
Sigint ==
    /\ proc = "spinning"
    /\ proc' = "burst" /\ zerosLeft' = BurstLength
    /\ contextOk' \in BOOLEAN
    /\ UNCHANGED <<scanAge, odomAge, enabled, due, pc, basis, busy, probeAge, probed, watchdogVars>>

\* One zero of publish_stop_burst; it sleeps between two of them.
BurstZero ==
    /\ proc = "burst" /\ contextOk /\ zerosLeft > 0
    /\ PublishMessage(Watchdog!Zero)
    /\ zerosLeft' = zerosLeft - 1
    /\ UNCHANGED <<scanAge, odomAge, enabled, due, pc, basis, busy, proc, contextOk, probeAge, probed>>

BurstEnd ==
    /\ proc = "burst" /\ (contextOk => zerosLeft = 0)
    /\ proc' = "joining" /\ zerosLeft' = 0
    /\ UNCHANGED <<scanAge, odomAge, enabled, due, pc, basis, busy, contextOk, probeAge, probed,
                   watchdogVars>>

\* executor.shutdown has waited for the callback; the node is destroyed.
Join ==
    /\ proc = "joining" /\ pc = "idle"
    /\ proc' = "gone" /\ contextOk' = FALSE
    /\ UNCHANGED <<scanAge, odomAge, enabled, due, pc, basis, busy, zerosLeft, probeAge, probed,
                   watchdogVars>>

\* A second SIGINT: caught while executor.shutdown waits, and the context is
\* shut down; in the burst it leaves main, with the context as it is.  Either
\* way a planning callback still runs to its end.
SecondSigint ==
    /\ proc \in {"burst", "joining"}
    /\ proc' = "gone" /\ zerosLeft' = 0
    /\ contextOk' = (contextOk /\ proc = "burst")
    /\ UNCHANGED <<scanAge, odomAge, enabled, due, pc, basis, busy, probeAge, probed, watchdogVars>>

\* The process is killed.
Kill ==
    /\ proc # "gone"
    /\ proc' = "gone" /\ zerosLeft' = 0 /\ contextOk' = FALSE
    /\ CallbackEnds
    /\ UNCHANGED <<scanAge, odomAge, enabled, due, probeAge, probed, watchdogVars>>

-----------------------------------------------------------------------------
Next1(a, cap) == IF a < cap THEN a + 1 ELSE a

\* Time passes.  The watchdog handles a message within the tick it is sent in, and
\* a planning callback takes MaxPlan ticks at most.
Tick ==
    /\ Watchdog!Tick
    /\ inbox = <<>>
    /\ pc # "idle" => busy < MaxPlan
    /\ due' = TRUE
    /\ scanAge' = Next1(scanAge, StaleAge)
    /\ odomAge' = Next1(odomAge, StaleAge)
    /\ IF pc = "idle" THEN UNCHANGED <<basis, busy>>
       ELSE basis' = basis + 1 /\ busy' = busy + 1
    /\ probeAge' = IF probed THEN Next1(probeAge, DrivenAge + 1) ELSE probeAge
    /\ UNCHANGED <<enabled, pc, proc, zerosLeft, contextOk, probed>>

WatchdogCallback ==
    /\ Watchdog!RawCommandCallback \/ Watchdog!PublishTimerCallback
    /\ UNCHANGED nodeVars

Control ==
    \/ ControlStart \/ InputUnusable \/ ControlStop \/ ControlAbandon \/ ControlPlan
    \/ \E c \in Velocities : PublishBodyVelocity(c)

Teardown == Sigint \/ BurstZero \/ BurstEnd \/ Join \/ SecondSigint \/ Kill

Next == ScanCallback \/ OdomCallback \/ Control \/ SetEnabled \/ Teardown
        \/ Tick \/ WatchdogCallback

Spec == Init /\ [][Next]_vars

\* Time passes, and the executors of the two nodes run what is ready.
Fairness ==
    /\ WF_vars(Tick)
    /\ WF_vars(Control)
    /\ WF_vars(Watchdog!PublishTimerCallback /\ UNCHANGED nodeVars)
    /\ SF_vars(Watchdog!RawCommandCallback /\ UNCHANGED nodeVars)

FairSpec == Spec /\ Fairness

-----------------------------------------------------------------------------
(* Properties.                                                              *)

\* End to end: the base is not driven by a command whose scan or odometry was
\* received longer ago than the input timeout, one planning cycle, the watchdog's
\* timeout and one late watchdog period together.
DrivenOnRecentInputs == driver = Probe => probeAge <= DrivenAge

\* This holds for as long as the watchdog watches, whatever the planner, the
\* teardown or a crash of the controller does.
RecentWhileWatched == Watchdog!Watching => DrivenOnRecentInputs

\* If scans, or odometry, stop for good, the base stops for good, unless the
\* watchdog ends on its warning.
SensorLossStops ==
    []Watchdog!Watching =>
        /\ <>[][~ScanCallback]_vars => <>[](driver \notin Moves)
        /\ <>[][~OdomCallback]_vars => <>[](driver \notin Moves)

\* Once the parameter enabled stays false, the base stops for good, unless the
\* watchdog ends on its warning: a cycle that was planned while the parameter was
\* true does not slip through.
DisablingStops ==
    []Watchdog!Watching => (<>[]~enabled => <>[](driver \notin Moves))
=============================================================================
