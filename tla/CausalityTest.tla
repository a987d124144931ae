--------------------------- MODULE CausalityTest ---------------------------
(***************************************************************************)
(* The causality test: a harness that waits for its inputs, announces an   *)
(* epoch and plans while the obstacle of SimulatedSensors crosses, and a   *)
(* recorder that must be recording before the epoch.  Without the test's   *)
(* trigger, the sensors run alone.                                         *)
(*                                                                         *)
(* The harness publishes its state at every tick of its timer; each of the *)
(* two subscribers takes the last one in its own time.                     *)
(***************************************************************************)
EXTENDS SimulatedSensors

CONSTANT PostEvent    \* ticks from the crossing to the end of the test

ASSUME CausalityAssumption == PostEvent \in Nat

VARIABLES
    record,          \* the launch argument record
    scopeEnabled,    \* the launch argument scope_enabled
    state,           \* state_, or "absent"
    odomSeen,        \* last_odom_ is set
    scopeReady,      \* scope_ready_
    recorderReady,   \* recorder_ready_
    pending,         \* pending_: a costmap request waits for its reply
    haveCostmap,     \* have_costmap_
    toMover,         \* a state message with the epoch waits for the mover
    toRecorder,      \* the state that waits for the recorder, or NoMessage
    process          \* the recorder's process: "none", "started", "ready", "ended"

harnessVars == <<state, odomSeen, scopeReady, recorderReady, pending, haveCostmap>>
testVars    == <<record, scopeEnabled, harnessVars, toMover, toRecorder, process>>
vars        == <<sensorVars, testVars>>

States    == {"WAIT_SYSTEM", "WAIT_COSTMAP", "WAIT_SCOPE_READY", "TEST_READY", "PRE_EVENT",
              "CROSSING", "POST_EVENT", "TEST_COMPLETE"}
Waiting   == {"WAIT_SYSTEM", "WAIT_COSTMAP", "WAIT_SCOPE_READY", "TEST_READY"}
NoMessage == "no message"

TypeOK ==
    /\ SensorsTypeOK
    /\ record \in BOOLEAN /\ scopeEnabled \in BOOLEAN
    /\ state \in States \cup {"absent"}
    /\ odomSeen \in BOOLEAN /\ scopeReady \in BOOLEAN /\ recorderReady \in BOOLEAN
    /\ pending \in BOOLEAN /\ haveCostmap \in BOOLEAN
    /\ toMover \in BOOLEAN /\ toRecorder \in {NoMessage, "TEST_READY", "TEST_COMPLETE"}
    /\ process \in {"none", "started", "ready", "ended"}

Init ==
    /\ SensorsInit
    /\ record \in BOOLEAN /\ scopeEnabled \in BOOLEAN
    /\ ~trigger => ~record /\ ~scopeEnabled
    /\ state = IF trigger THEN "WAIT_SYSTEM" ELSE "absent"
    /\ odomSeen = FALSE /\ scopeReady = FALSE /\ recorderReady = FALSE
    /\ pending = FALSE /\ haveCostmap = FALSE
    /\ toMover = FALSE /\ toRecorder = NoMessage
    /\ process = "none"

-----------------------------------------------------------------------------
(* The harness.                                                             *)

Announced == epochAge # NoEpoch

\* publishState: the states after TEST_READY come with the epoch.  The recorder
\* ignores all states but two.
PublishState(s) ==
    /\ toMover' = (s \notin Waiting)
    /\ toRecorder' = IF record /\ s \in {"TEST_READY", "TEST_COMPLETE"} THEN s ELSE NoMessage

\* The subscriptions: odometry as the simulator publishes it, SCOPE's
\* diagnostics, and the recorder's ready.
OdomArrives ==
    /\ state # "absent" /\ interval # NoStamp
    /\ odomSeen' = TRUE
    /\ UNCHANGED <<sensorVars, record, scopeEnabled, state, scopeReady, recorderReady, pending,
                   haveCostmap, toMover, toRecorder, process>>

ScopeArrives ==
    /\ scopeEnabled
    /\ scopeReady' = TRUE
    /\ UNCHANGED <<sensorVars, record, scopeEnabled, state, odomSeen, recorderReady, pending,
                   haveCostmap, toMover, toRecorder, process>>

\* The reply to requestCostmap, with a costmap or with an empty one; a reply
\* that is lost is an answer that never comes.
CostmapReply ==
    /\ pending
    /\ pending' = FALSE /\ haveCostmap' \in BOOLEAN
    /\ UNCHANGED <<sensorVars, record, scopeEnabled, state, odomSeen, scopeReady, recorderReady,
                   toMover, toRecorder, process>>

\* What tick does in WAIT_COSTMAP and WAIT_SCOPE_READY.
AfterWaiting ==
    CASE state = "WAIT_COSTMAP" /\ haveCostmap ->
            IF scopeEnabled THEN "WAIT_SCOPE_READY" ELSE "TEST_READY"
      [] state = "WAIT_SCOPE_READY" /\ scopeReady /\ haveCostmap -> "TEST_READY"
      [] OTHER -> state

\* tick before TEST_READY.
TickWaiting ==
    /\ state \in Waiting \ {"TEST_READY"}
    /\ PublishState(state)
    /\ IF state = "WAIT_SYSTEM"
       THEN state' = (IF odomSeen THEN "WAIT_COSTMAP" ELSE state) /\ UNCHANGED pending
       ELSE \/ state' = AfterWaiting /\ pending' = TRUE
            \/ state = "WAIT_COSTMAP" /\ UNCHANGED <<state, pending>>   \* no service yet
    /\ UNCHANGED <<sensorVars, record, scopeEnabled, odomSeen, scopeReady, recorderReady,
                   haveCostmap, process>>

\* wait_for_recorder is the launch argument record.
MayBegin == record => recorderReady

\* tick in TEST_READY: the epoch is announced.
TickReady ==
    /\ state = "TEST_READY"
    /\ IF MayBegin
       THEN /\ state' = "PRE_EVENT" /\ epochAge' = 0
            /\ PublishState("PRE_EVENT")
       ELSE /\ PublishState(state)
            /\ UNCHANGED <<state, epochAge>>
    /\ UNCHANGED <<setup, gazeboVars, moverVars, lidarVars, scan, slipVars, record,
                   scopeEnabled, odomSeen, scopeReady, recorderReady, pending, haveCostmap, process>>

\* The phase of a running test.  A late tick may find the crossing both begun and
\* half over.
NextPhase ==
    LET begun == IF state = "PRE_EVENT" /\ epochAge >= PreEvent THEN "CROSSING" ELSE state
        past  == begun = "CROSSING" /\ 2 * (epochAge - PreEvent) >= PostEvent
    IN  IF epochAge >= PreEvent + PostEvent THEN "TEST_COMPLETE"
        ELSE IF past THEN "POST_EVENT" ELSE begun

\* tick of a running test, which also plans if there is a costmap.
TickRunning ==
    /\ state \in {"PRE_EVENT", "CROSSING", "POST_EVENT"}
    /\ state' = NextPhase
    /\ PublishState(IF NextPhase = "TEST_COMPLETE" THEN NextPhase ELSE state)
    /\ pending' = TRUE
    /\ UNCHANGED <<sensorVars, record, scopeEnabled, odomSeen, scopeReady, recorderReady,
                   haveCostmap, process>>

HarnessTick == TickWaiting \/ TickReady \/ TickRunning

-----------------------------------------------------------------------------
(* The subscribers of the state.                                            *)

\* test_state_callback.
TestStateCallback ==
    /\ moverUp /\ toMover
    /\ toMover' = FALSE
    /\ epochKnown' = TRUE
    /\ UNCHANGED <<setup, gazeboVars, moverUp, reported, placed, confirmed, started, epochAge,
                   lidarVars, scan, slipVars, record, scopeEnabled, harnessVars, toRecorder,
                   process>>

\* phase3_recorder.
RecorderState ==
    /\ toRecorder # NoMessage /\ process # "ended"
    /\ toRecorder' = NoMessage
    /\ process' = CASE process = "none" /\ toRecorder = "TEST_READY" -> "started"
                    [] process # "none" /\ toRecorder = "TEST_COMPLETE" -> "ended"
                    [] OTHER -> process
    /\ UNCHANGED <<sensorVars, record, scopeEnabled, harnessVars, toMover>>

\* publish_ready, a second after the process was started: rosbag has found its
\* topics by then.
PublishReady ==
    /\ process = "started"
    /\ process' = "ready"
    /\ recorderReady' = TRUE
    /\ UNCHANGED <<sensorVars, record, scopeEnabled, state, odomSeen, scopeReady, pending,
                   haveCostmap, toMover, toRecorder>>

\* The harness publishes TEST_COMPLETE and exits: the message may not get out.
LoseComplete ==
    /\ toRecorder = "TEST_COMPLETE"
    /\ toRecorder' = NoMessage
    /\ UNCHANGED <<sensorVars, record, scopeEnabled, harnessVars, toMover, process>>

-----------------------------------------------------------------------------
\* The harness's timer is faster than a tick.
Tick == WorldTick /\ UNCHANGED testVars

Sensors == SensorsNext /\ UNCHANGED testVars

Harness == OdomArrives \/ ScopeArrives \/ CostmapReply \/ HarnessTick

Recorder == RecorderState \/ PublishReady \/ LoseComplete

Next == Tick \/ Sensors \/ Harness \/ TestStateCallback \/ Recorder

Spec == Init /\ [][Next]_vars

\* Time passes, every process that is up runs, Gazebo reports the obstacle.
Fairness ==
    /\ WF_vars(Tick) /\ WF_vars(HarnessTick) /\ WF_vars(TestStateCallback)
    /\ WF_vars(MoverStep /\ UNCHANGED testVars)
    /\ WF_vars(GazeboPoseCallback /\ UNCHANGED testVars)
    /\ WF_vars(PublishActualPositions /\ UNCHANGED testVars)
    /\ WF_vars(PublishScan /\ UNCHANGED testVars)

FairSpec == Spec /\ Fairness

-----------------------------------------------------------------------------
(* Properties.                                                              *)

\* The test's baseline: the obstacle moves from the start of the crossing alone,
\* and not before PreEvent after the epoch, whatever became of the request that
\* sets it down there and whenever the mover learns of the epoch.
QuietBaseline ==
    trigger => /\ velocity => Announced /\ epochAge >= PreEvent
               /\ velocity => place \in {"start", "underway"}

\* Without slip the odometry never jumps: it moves by no more than the robot
\* can within the longest interval that is accepted, whatever messages and how
\* much time went missing before.
NoOdomJump == step <= MaxInterval

\* An obstacle that is parked outside, or whose mover has crashed, leaves the
\* scan that Nav2 sees for good.
LeavesScan ==
    <>[](~moverUp \/ (mode = "parked" /\ place = "outside")) => <>[](scan \notin Inside)

\* An epoch that reaches a mover whose obstacle has been set down at the start
\* makes it cross, if the mover does not crash.
CrossingHappens ==
    (epochKnown /\ place = "start") ~> (place = "underway" \/ ~moverUp)
=============================================================================
