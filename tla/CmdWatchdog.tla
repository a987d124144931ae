---------------------------- MODULE CmdWatchdog ----------------------------
(***************************************************************************)
(* m1_nav2_support's m1_cmd_watchdog node: it forwards the raw velocity    *)
(* command to the motor driver while that command is fresh, and publishes  *)
(* zero once it is not.                                                    *)
(*                                                                         *)
(* The node is one executor thread with two callbacks, a subscription of   *)
(* depth QueueDepth and a timer.  Time is a number of ticks; the node only *)
(* looks at the time since the last command, so the model keeps that age   *)
(* and the time since the timer last ran.  The driver, which latches the   *)
(* last velocity it is given, and the planner, which sends or stays        *)
(* silent, are outside the node.                                           *)
(***************************************************************************)
EXTENDS Integers, Sequences

CONSTANTS
    Moves,         \* the raw commands that move the base
    Timeout,       \* watchdog_timeout, in ticks
    Period,        \* 1 / publish_rate, in ticks
    Jitter,        \* ticks by which the timer callback may be late
    QueueDepth,    \* depth of the raw-command subscription
    WarnOutcomes   \* of the logger's warn: "raises" as written, "returns" as documented

ASSUME TimingAssumption == /\ Timeout \in Nat \ {0}
                           /\ Period \in Nat \ {0}
                           /\ Jitter \in Nat
ASSUME QueueAssumption == QueueDepth \in Nat \ {0}
ASSUME CommandAssumption == "zero" \notin Moves /\ "none" \notin Moves
ASSUME WarnAssumption == WarnOutcomes \subseteq {"raises", "returns"} /\ WarnOutcomes # {}

VARIABLES
    inbox,        \* raw commands waiting for the executor, oldest first
    last,         \* state.last_command, "none" before the first
    age,          \* ticks since last_received_ns, up to AgeCap
    outputStale,  \* output_is_stale
    phase,        \* ticks since the timer callback last ran
    driver,       \* the velocity the driver has latched, "none" at first
    alive         \* no exception has left rclpy.spin

vars == <<inbox, last, age, outputStale, phase, driver, alive>>

Zero     == "zero"
Commands == Moves \cup {Zero}
MaxLate  == Period + Jitter

\* Every later age is alike: the command is stale and the timer overdue.
AgeCap == Timeout + MaxLate + 1

TypeOK ==
    /\ inbox \in Seq(Commands) /\ Len(inbox) <= QueueDepth
    /\ last \in Commands \cup {"none"}
    /\ age \in 0 .. AgeCap
    /\ outputStale \in BOOLEAN
    /\ phase \in 0 .. MaxLate
    /\ driver \in Commands \cup {"none"}
    /\ alive \in BOOLEAN

Init ==
    /\ inbox = <<>>
    /\ last = "none" /\ age = 0
    /\ outputStale = TRUE
    /\ phase = 0
    /\ driver = "none"
    /\ alive = TRUE

-----------------------------------------------------------------------------
(* The node.  As in HybridController, a Wrong operator is a slip that shows *)
(* a property can fail.                                                     *)

WrongFactorOfTwo == last = "none" \/ age > 2 * Timeout

\* CommandWatchdogState.is_stale.
IsStale == last = "none" \/ age > Timeout

WrongLatch     == last
WrongTruncates == IF last = "none" \/ age > 0 THEN Zero ELSE last

\* CommandWatchdogState.command_for_time.
CommandForTime == IF IsStale THEN Zero ELSE last

\* raw_command_callback: the command replaces the last one.
RawCommandCallback ==
    /\ alive /\ inbox # <<>>
    /\ inbox' = Tail(inbox)
    /\ last' = Head(inbox) /\ age' = 0
    /\ outputStale' = FALSE
    /\ UNCHANGED <<phase, driver, alive>>

\* became_stale.
BecameStale == IsStale /\ ~outputStale

\* The timer keeps to a grid of Period, each call up to Jitter late: two calls
\* are Period - Jitter to Period + Jitter apart.
TimerDue == alive /\ phase >= Period - Jitter

\* The command or zero is published, after the warning if it has just gone stale.
Publish ==
    /\ BecameStale => "returns" \in WarnOutcomes
    /\ driver' = CommandForTime
    /\ UNCHANGED <<inbox, alive>>

\* warn rejects the values it is passed: the exception leaves the callback before
\* the publication, and ends the node with its subscription.
WarnRaises ==
    /\ BecameStale /\ "raises" \in WarnOutcomes
    /\ alive' = FALSE /\ inbox' = <<>>
    /\ UNCHANGED driver

\* publish_timer_callback.
PublishTimerCallback ==
    /\ TimerDue
    /\ outputStale' = IsStale
    /\ phase' = 0
    /\ Publish \/ WarnRaises
    /\ UNCHANGED <<last, age>>

-----------------------------------------------------------------------------
(* Outside the node.                                                        *)

Queued(c) == Append(IF Len(inbox) = QueueDepth THEN Tail(inbox) ELSE inbox, c)

\* The planner sends a raw command; a full queue loses its oldest.  A node that
\* has ended receives nothing.
Send(c) ==
    /\ inbox' = IF alive THEN Queued(c) ELSE inbox
    /\ UNCHANGED <<last, age, outputStale, phase, driver, alive>>

\* Time passes.  While the node lives its timer is late by Jitter at most.
Tick ==
    /\ alive => phase < MaxLate
    /\ age' = IF age < AgeCap THEN age + 1 ELSE age
    /\ phase' = IF alive THEN phase + 1 ELSE phase
    /\ UNCHANGED <<inbox, last, outputStale, driver, alive>>

Next ==
    \/ RawCommandCallback \/ PublishTimerCallback
    \/ Tick
    \/ \E c \in Commands : Send(c)

Spec == Init /\ [][Next]_vars

\* Time passes, and the executor runs callbacks that are due.
Fairness == WF_vars(Tick) /\ WF_vars(PublishTimerCallback) /\ SF_vars(RawCommandCallback)

FairSpec == Spec /\ Fairness

-----------------------------------------------------------------------------
(* Properties.                                                              *)

\* The node has not ended on its warning.
Watching == alive \/ "raises" \notin WarnOutcomes

\* The base is not driven by a raw command older than the timeout plus one late
\* timer period, although the driver latches what it is given.  This holds for as
\* long as the node watches: always, if the warning returns, and otherwise until
\* the first silence.
BoundWhileWatching == Watching /\ driver \in Moves => age <= Timeout + MaxLate

\* A node that has ended on its warning leaves the driver with the last command
\* it received, not with an earlier one: whether the base then stands still is up
\* to what the planner said last.  The timer must have run before the timeout.
EndsOnLast == ~alive /\ MaxLate <= Timeout => driver = last

\* If raw commands stop for good, the driver is stopped for good, unless the node
\* ends on its warning.
SilenceStops ==
    []Watching => (<>[][~RawCommandCallback]_vars => <>[](driver \notin Moves))

\* A raw command reaches the driver unless another one replaces it first: the
\* timer is not so slow that a command goes stale before it is forwarded.
CommandsReachDriver ==
    \A m \in Moves : last = m /\ ~IsStale ~> driver = m \/ last # m

\* The inductive invariant behind BoundWhileWatching: a latched motion is the
\* last command, or was replaced by a younger one; either way it was fresh when
\* the timer last ran, phase ticks ago.
LatchedWasFresh ==
    driver \in Moves /\ alive =>
        /\ age <= Timeout + phase
        /\ last # "none"
=============================================================================
