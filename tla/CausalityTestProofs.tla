------------------------ MODULE CausalityTestProofs ------------------------
(***************************************************************************)
(* Theorems about CausalityTest for every timeout, every duration of the   *)
(* test's phases, every accepted interval and every ring of positions.     *)
(***************************************************************************)
EXTENDS CausalityTest, TLAPS

USE SensorsAssumption, CausalityAssumption DEF NoEpoch, NoStamp, EpochCap

\* The odometry simulator measures from the last message: within an accepted
\* interval the robot has not gone farther than its ticks.
OffsetBounded ==
    /\ offset \in 0 .. Ring - 1 /\ step \in 0 .. Ring - 1
    /\ interval \in {NoStamp} \cup 0 .. MaxInterval + 1
    /\ interval # NoStamp /\ interval <= MaxInterval => offset <= interval
    /\ step <= MaxInterval

\* The epoch is announced as the harness leaves TEST_READY, and what knows of it
\* comes after.
EpochOrder ==
    /\ epochAge \in {NoEpoch} \cup 0 .. EpochCap
    /\ state \in Waiting => ~Announced
    /\ state \in {"PRE_EVENT", "CROSSING", "POST_EVENT"} => Announced
    /\ toMover \/ epochKnown => Announced

\* The crossing's obstacle is where the mover has it set down.
CrossingPlaced ==
    /\ trigger => mode = "crossing"
    /\ mode = "crossing" => request \in {NoPlace, "start"}
    /\ mode = "crossing" /\ (confirmed \/ reported = "start" \/ velocity)
          => place \in {"start", "underway"}
    /\ trigger /\ (started \/ velocity) => epochAge >= PreEvent

-----------------------------------------------------------------------------
LEMMA OffsetStep ==
  ASSUME OffsetBounded, [Next]_vars
  PROVE  OffsetBounded'
  <1>1. /\ offset \in 0 .. Ring - 1 /\ step \in 0 .. Ring - 1
        /\ interval \in {NoStamp} \cup 0 .. MaxInterval + 1
        /\ interval # NoStamp /\ interval <= MaxInterval => offset <= interval
        /\ step <= MaxInterval
    BY DEF OffsetBounded
  <1>2. CASE Tick
    <2>1. /\ interval' = IF interval = NoStamp THEN NoStamp ELSE Capped(interval, MaxInterval + 1)
          /\ offset' \in {offset, IF offset + 1 = Ring THEN 0 ELSE offset + 1}
          /\ step' = step
      BY <1>2, Zenon DEF Tick, WorldTick
    <2>2. QED
      BY <1>1, <2>1 DEF Capped, OffsetBounded
  <1>3. CASE SlipOdomCallback
    <2>1. /\ interval' = 0
          /\ \/ offset' = 0 /\ step' = 0
             \/ offset' = 0 /\ step' = step
             \/ offset' = 0 /\ step' = offset
                /\ interval # NoStamp /\ ~(interval = 0 \/ interval > MaxInterval)
      BY <1>3 DEF SlipOdomCallback, OffsetIfIgnored, Increment
    <2>2. QED
      BY <1>1, <2>1 DEF OffsetBounded
  <1>4. CASE UNCHANGED slipVars
    BY <1>1, <1>4 DEF slipVars, OffsetBounded
  <1>5. QED
    BY <1>2, <1>3, <1>4, Zenon
    DEF Next, Sensors, SensorsNext, ServePose, LosePose, MoverCrash, GazeboPoseCallback,
        CmdVelCallback, PublishActualPositions, MoverStep, StepParked, StepInitialize, StepCross,
        StepRoam, PublishScan, Harness, OdomArrives, ScopeArrives, CostmapReply, HarnessTick,
        TickWaiting, TickReady, TickRunning, TestStateCallback, Recorder, RecorderState,
        PublishReady, LoseComplete, vars, sensorVars

LEMMA EpochStep ==
  ASSUME EpochOrder, [Next]_vars
  PROVE  /\ EpochOrder'
         /\ Announced => Announced' /\ epochAge' >= epochAge
  <1> USE DEF EpochOrder, Announced
  <1>1. epochAge \in {NoEpoch} \cup 0 .. EpochCap
    OBVIOUS
  <1>2. CASE Tick
    <2>1. epochAge' = IF epochAge = NoEpoch THEN NoEpoch ELSE Capped(epochAge, EpochCap)
      BY <1>2, Zenon DEF Tick, WorldTick
    <2>2. state' = state /\ toMover' = toMover /\ epochKnown' = epochKnown
      BY <1>2, Zenon DEF Tick, WorldTick, testVars, harnessVars, moverVars
    <2>3. epochAge' \in {NoEpoch} \cup 0 .. EpochCap
      BY <1>1, <2>1 DEF Capped
    <2>4. epochAge' >= epochAge
      BY <1>1, <2>1 DEF Capped
    <2>5. (epochAge' # NoEpoch) <=> (epochAge # NoEpoch)
      BY <1>1, <2>1 DEF Capped
    <2>6. QED
      BY <2>2, <2>3, <2>4, <2>5, Zenon
  <1>3. CASE TickWaiting
    <2>1. epochAge' = epochAge /\ epochKnown' = epochKnown /\ toMover' = FALSE
      BY <1>3, Zenon DEF TickWaiting, PublishState, sensorVars, moverVars
    <2>2. state \in Waiting
      BY <1>3, Zenon DEF TickWaiting
    <2>3. state' \in Waiting
      <3>1. AfterWaiting \in Waiting
        BY <2>2 DEF AfterWaiting, Waiting
      <3>2. state' \in {"WAIT_COSTMAP", state, AfterWaiting}
        BY <1>3, Zenon DEF TickWaiting
      <3>3. QED
        BY <2>2, <3>1, <3>2 DEF Waiting
    <2>4. state' \notin {"PRE_EVENT", "CROSSING", "POST_EVENT"}
      BY <2>3 DEF Waiting
    <2>5. epochAge' = NoEpoch /\ ~epochKnown
      BY <2>1, <2>2, Zenon
    <2>6. epochAge' >= epochAge
      BY <1>1, <2>1
    <2>7. QED
      BY <1>1, <2>1, <2>2, <2>4, <2>5, <2>6, Zenon
  <1>4. CASE TickReady
    <2>1. state \in Waiting /\ epochKnown' = epochKnown
      BY <1>4 DEF TickReady, Waiting, moverVars
    <2>2. CASE MayBegin
      <3>1. state' = "PRE_EVENT" /\ epochAge' = 0
        BY <1>4, <2>2, Zenon DEF TickReady
      <3>2. QED
        BY <1>1, <2>1, <3>1 DEF Waiting
    <2>3. CASE ~MayBegin
      <3>1. state' = state /\ epochAge' = epochAge /\ toMover' = FALSE
        BY <1>4, <2>1, <2>3, Zenon DEF TickReady, PublishState
      <3>2. QED
        BY <1>1, <2>1, <3>1
    <2>4. QED
      BY <2>2, <2>3
  <1>5. CASE TickRunning
    <2>1. state \in {"PRE_EVENT", "CROSSING", "POST_EVENT"} /\ state' = NextPhase
          /\ epochAge' = epochAge /\ epochKnown' = epochKnown
      BY <1>5, Zenon DEF TickRunning, sensorVars, moverVars
    <2>2. NextPhase \notin Waiting
      BY <2>1 DEF NextPhase, Waiting
    <2>3. QED
      BY <1>1, <2>1, <2>2
  <1>6. CASE TestStateCallback
    <2>1. toMover /\ epochAge' = epochAge /\ state' = state
      BY <1>6, Zenon DEF TestStateCallback, harnessVars
    <2>2. QED
      BY <1>1, <2>1
  <1>7. CASE UNCHANGED <<epochAge, state, toMover, epochKnown>>
    BY <1>1, <1>7
  <1>8. QED
    BY <1>2, <1>3, <1>4, <1>5, <1>6, <1>7, Zenon
    DEF Next, Sensors, SensorsNext, ServePose, LosePose, MoverCrash, GazeboPoseCallback,
        CmdVelCallback, PublishActualPositions, MoverStep, StepParked, StepInitialize, StepCross,
        StepRoam, PublishScan, SlipOdomCallback, Harness, OdomArrives, ScopeArrives, CostmapReply,
        HarnessTick, Recorder, RecorderState, PublishReady, LoseComplete, vars, sensorVars,
        testVars, harnessVars, moverVars

LEMMA PlacedStep ==
  ASSUME EpochOrder, CrossingPlaced, [Next]_vars
  PROVE  CrossingPlaced'
  <1>1. /\ trigger => mode = "crossing"
        /\ mode = "crossing" => request \in {NoPlace, "start"}
        /\ mode = "crossing" /\ (confirmed \/ reported = "start" \/ velocity)
              => place \in {"start", "underway"}
        /\ trigger /\ (started \/ velocity) => epochAge >= PreEvent
    BY Zenon DEF CrossingPlaced
  <1>2. /\ Announced => epochAge' >= epochAge
        /\ ~Announced => epochAge = NoEpoch
        /\ epochAge \in Int /\ epochAge' \in Int
    BY EpochStep DEF EpochOrder, Announced
  <1>3. epochAge >= PreEvent => epochAge' >= PreEvent
    BY <1>2
  <1>4. CASE ServePose \/ LosePose
    <2>1. /\ request # NoPlace /\ request' = NoPlace
          /\ place' = request \/ place' = place
          /\ UNCHANGED <<mode, trigger, reported, confirmed, started, velocity>>
      BY <1>4, Zenon DEF ServePose, LosePose, setup, moverVars
    <2>2. QED
      BY <1>1, <1>3, <2>1, Zenon DEF CrossingPlaced
  <1>5. CASE MoverCrash \/ GazeboPoseCallback \/ CmdVelCallback
    BY <1>1, <1>3, <1>5
    DEF MoverCrash, GazeboPoseCallback, CmdVelCallback, CrossingPlaced, setup, gazeboVars
  <1>6. CASE StepParked \/ StepInitialize \/ StepRoam
    BY <1>1, <1>3, <1>6
    DEF StepParked, StepInitialize, StepRoam, SendPose, SendVelocity, CrossingPlaced, setup,
        gazeboVars, moverVars
  <1>7. CASE StepCross
    <2>1. trigger /\ StartedNow => epochAge >= PreEvent
      BY <1>1, Zenon DEF StartedNow
    <2>2. mode = "crossing" => place \in {"start", "underway"}
      BY <1>1, <1>7, Zenon DEF StepCross, ConfirmedNow
    <2>3. /\ UNCHANGED <<mode, trigger, place, request, reported>>
          /\ started' = StartedNow /\ velocity' = StartedNow
      BY <1>7, Zenon DEF StepCross, SendVelocity, setup
    <2>4. QED
      BY <1>1, <1>3, <2>1, <2>2, <2>3, Zenon DEF CrossingPlaced
  <1>8. CASE Tick
    <2>1. /\ UNCHANGED <<mode, trigger, request, reported, confirmed, started, velocity>>
          /\ place' = IF velocity THEN "underway" ELSE place
      BY <1>8, Zenon DEF Tick, WorldTick, setup, moverVars
    <2>2. QED
      BY <1>1, <1>3, <2>1, Zenon DEF CrossingPlaced
  <1>9. CASE UNCHANGED <<mode, trigger, request, reported, confirmed, started, velocity, place>>
    BY <1>1, <1>3, <1>9, Zenon DEF CrossingPlaced
  <1>10. QED
    BY <1>4, <1>5, <1>6, <1>7, <1>8, <1>9, Zenon
    DEF Next, Sensors, SensorsNext, PublishActualPositions, MoverStep, PublishScan,
        SlipOdomCallback, Harness, OdomArrives, ScopeArrives, CostmapReply, HarnessTick,
        TickWaiting, TickReady, TickRunning, TestStateCallback, Recorder, RecorderState,
        PublishReady, LoseComplete, vars, sensorVars, setup, gazeboVars, moverVars
-----------------------------------------------------------------------------
\* Without slip the odometry never jumps, whatever messages were missed
\* (odom_slip_simulator.py, odom_callback and integrate_increment): the truth
\* that increments are taken from is that of the last message, ignored or not.
THEOREM NoJumps == Spec => []NoOdomJump
  <1>1. Init => OffsetBounded
    BY DEF Init, SensorsInit, SlipInit, OffsetBounded
  <1>2. OffsetBounded /\ [Next]_vars => OffsetBounded'
    BY OffsetStep
  <1>3. OffsetBounded => NoOdomJump
    BY DEF OffsetBounded, NoOdomJump
  <1>4. QED
    BY <1>1, <1>2, <1>3, PTL DEF Spec

\* In a triggered test the obstacle moves from the start of the crossing alone
\* and not before PreEvent after the epoch (dynamic_obstacle_mover.py, step and
\* test_state_callback), however the request that sets it down there, the
\* report of its pose and the announcement of the epoch interleave.
THEOREM BaselineIsQuiet == Spec => []QuietBaseline
  <1>1. Init => EpochOrder /\ CrossingPlaced
    <2>1. SUFFICES ASSUME Init PROVE EpochOrder /\ CrossingPlaced
      OBVIOUS
    <2>2. /\ epochAge = NoEpoch /\ toMover = FALSE /\ epochKnown = FALSE
          /\ place = "home" /\ velocity = FALSE /\ request = NoPlace /\ reported = NoPlace
          /\ confirmed = FALSE /\ started = FALSE
          /\ trigger => mode = "crossing"
      BY <2>1, Zenon DEF Init, SensorsInit, WorldInit, MoverInit
    <2>3. state \in {"WAIT_SYSTEM", "absent"}
      BY <2>1, Zenon DEF Init
    <2>4. EpochOrder
      BY <2>2, <2>3 DEF EpochOrder, Announced, Waiting
    <2>5. NoPlace # "start"
      BY DEF NoPlace
    <2>6. CrossingPlaced
      BY <2>2, <2>5, Zenon DEF CrossingPlaced
    <2>7. QED
      BY <2>4, <2>6
  <1>2. EpochOrder /\ CrossingPlaced /\ [Next]_vars => (EpochOrder /\ CrossingPlaced)'
    BY EpochStep, PlacedStep
  <1>3. EpochOrder /\ CrossingPlaced => QuietBaseline
    <2>1. SUFFICES ASSUME EpochOrder, CrossingPlaced, trigger, velocity
                   PROVE  Announced /\ epochAge >= PreEvent /\ place \in {"start", "underway"}
      BY Zenon DEF QuietBaseline
    <2>2. epochAge >= PreEvent /\ place \in {"start", "underway"}
      BY <2>1, Zenon DEF CrossingPlaced
    <2>3. Announced
      BY <2>2 DEF Announced
    <2>4. QED
      BY <2>2, <2>3
  <1>4. QED
    BY <1>1, <1>2, <1>3, PTL DEF Spec
-----------------------------------------------------------------------------
(***************************************************************************)
(* Types.  The ages and the odometry are typed by what is above.           *)
(***************************************************************************)
SwitchesTyped ==
    /\ mode \in {"parked", "roaming", "crossing"}
    /\ trigger \in BOOLEAN /\ softwareLidar \in BOOLEAN
    /\ velocity \in BOOLEAN
    /\ moverUp \in BOOLEAN /\ placed \in BOOLEAN /\ confirmed \in BOOLEAN
    /\ started \in BOOLEAN /\ epochKnown \in BOOLEAN

PlacesTyped ==
    /\ place \in Places /\ request \in Places \cup {NoPlace}
    /\ reported \in Places \cup {NoPlace}
    /\ centers \in Places \cup {NoPlace} /\ centersAge \in 0 .. DynamicTimeout + 1
    /\ scan \in Places \cup {NoPlace, NoScan}

HarnessTyped ==
    /\ record \in BOOLEAN /\ scopeEnabled \in BOOLEAN
    /\ odomSeen \in BOOLEAN /\ scopeReady \in BOOLEAN /\ recorderReady \in BOOLEAN
    /\ pending \in BOOLEAN /\ haveCostmap \in BOOLEAN /\ toMover \in BOOLEAN

StatesTyped ==
    /\ state \in States \cup {"absent"}
    /\ toRecorder \in {NoMessage, "TEST_READY", "TEST_COMPLETE"}
    /\ process \in {"none", "started", "ready", "ended"}

LEMMA SwitchesStep == SwitchesTyped /\ [Next]_vars => SwitchesTyped'
  <1> SUFFICES ASSUME SwitchesTyped, [Next]_vars PROVE SwitchesTyped'
    OBVIOUS
  <1>1. StartedNow \in BOOLEAN
    BY Zenon DEF StartedNow, SwitchesTyped
  <1>2. CASE MoverStep
    BY <1>1, <1>2, Zenon
    DEF SwitchesTyped, MoverStep, StepParked, StepInitialize, StepCross, StepRoam, SendPose,
        SendVelocity, setup, moverVars, gazeboVars
  <1>3. CASE MoverCrash \/ GazeboPoseCallback \/ CmdVelCallback \/ TestStateCallback
    BY <1>3, Zenon
    DEF SwitchesTyped, MoverCrash, GazeboPoseCallback, CmdVelCallback, TestStateCallback, setup,
        gazeboVars
  <1>4. CASE UNCHANGED <<setup, velocity, moverVars>>
    BY <1>4, Zenon DEF SwitchesTyped, setup, moverVars
  <1>5. QED
    BY <1>2, <1>3, <1>4, Zenon
    DEF Next, Tick, WorldTick, Sensors, SensorsNext, ServePose, LosePose, PublishActualPositions,
        PublishScan, SlipOdomCallback, Harness, OdomArrives, ScopeArrives, CostmapReply,
        HarnessTick, TickWaiting, TickReady, TickRunning, Recorder, RecorderState, PublishReady,
        LoseComplete, vars, sensorVars, gazeboVars

LEMMA PlacesStep == PlacesTyped /\ [Next]_vars => PlacesTyped'
  <1> SUFFICES ASSUME PlacesTyped, [Next]_vars PROVE PlacesTyped'
    OBVIOUS
  <1>1. /\ {"home", "start", "outside", "underway"} \subseteq Places
        /\ 0 \in 0 .. DynamicTimeout + 1
        /\ Capped(centersAge, DynamicTimeout + 1) \in 0 .. DynamicTimeout + 1
    BY DEF Places, PlacesTyped, Capped
  <1>2. "start" \in Places /\ "outside" \in Places /\ "underway" \in Places
    BY DEF Places
  <1>3. Drawn \in Places \cup {NoPlace, NoScan}
    BY Zenon DEF Drawn, PlacesTyped
  <1>4. CASE ServePose \/ LosePose \/ GazeboPoseCallback
    BY <1>4, Zenon
    DEF PlacesTyped, ServePose, LosePose, GazeboPoseCallback, gazeboVars, lidarVars, moverVars
  <1>5. CASE PublishActualPositions \/ PublishScan
    BY <1>1, <1>3, <1>5, Zenon
    DEF PlacesTyped, PublishActualPositions, DynamicCallback, PublishScan, gazeboVars, lidarVars,
        moverVars
  <1>6. CASE StepParked \/ StepInitialize
    BY <1>1, <1>2, <1>6, Zenon
    DEF PlacesTyped, StepParked, StepInitialize, DynamicCallback, SendPose, SendVelocity,
        gazeboVars, lidarVars
  <1>7. CASE StepCross \/ StepRoam
    BY <1>7, Zenon DEF PlacesTyped, StepCross, StepRoam, lidarVars, moverVars
  <1>8. CASE Tick
    BY <1>1, <1>2, <1>8, Zenon DEF PlacesTyped, Tick, WorldTick, moverVars
  <1>9. CASE UNCHANGED <<place, request, reported, centers, centersAge, scan>>
    BY <1>9, Zenon DEF PlacesTyped
  <1>10. QED
    BY <1>4, <1>5, <1>6, <1>7, <1>8, <1>9, Zenon
    DEF Next, Sensors, SensorsNext, MoverStep, MoverCrash, CmdVelCallback, SlipOdomCallback,
        Harness, OdomArrives, ScopeArrives, CostmapReply, HarnessTick, TickWaiting, TickReady,
        TickRunning, TestStateCallback, Recorder, RecorderState, PublishReady, LoseComplete,
        vars, sensorVars, gazeboVars, lidarVars, moverVars

LEMMA HarnessStep == HarnessTyped /\ [Next]_vars => HarnessTyped'
  <1> SUFFICES ASSUME HarnessTyped, [Next]_vars PROVE HarnessTyped'
    OBVIOUS
  <1>1. CASE OdomArrives \/ ScopeArrives \/ CostmapReply
    BY <1>1, Zenon DEF HarnessTyped, OdomArrives, ScopeArrives, CostmapReply
  <1>2. CASE HarnessTick
    BY <1>2, Zenon
    DEF HarnessTyped, HarnessTick, TickWaiting, TickReady, TickRunning, PublishState
  <1>3. CASE TestStateCallback \/ Recorder
    BY <1>3, Zenon
    DEF HarnessTyped, TestStateCallback, Recorder, RecorderState, PublishReady, LoseComplete,
        harnessVars
  <1>4. CASE UNCHANGED testVars
    BY <1>4, Zenon DEF HarnessTyped, testVars, harnessVars
  <1>5. QED
    BY <1>1, <1>2, <1>3, <1>4, Zenon DEF Next, Tick, Sensors, Harness, vars

LEMMA StatesStep == StatesTyped /\ [Next]_vars => StatesTyped'
  <1> SUFFICES ASSUME StatesTyped, [Next]_vars PROVE StatesTyped'
    OBVIOUS
  <1>1. /\ state \in States \cup {"absent"}
        /\ toRecorder \in {NoMessage, "TEST_READY", "TEST_COMPLETE"}
        /\ process \in {"none", "started", "ready", "ended"}
    BY DEF StatesTyped
  <1>2. CASE HarnessTick
    <2>1. state' \in {state, "WAIT_COSTMAP", "PRE_EVENT", AfterWaiting, NextPhase}
          /\ process' = process
      BY <1>2, Zenon DEF HarnessTick, TickWaiting, TickReady, TickRunning
    <2>2. AfterWaiting \in States \cup {"absent"} /\ NextPhase \in States \cup {"absent"}
      BY <1>1 DEF AfterWaiting, NextPhase, States
    <2>3. toRecorder' \in {NoMessage, "TEST_READY", "TEST_COMPLETE"}
      <3>1. \E s : toRecorder' = IF record /\ s \in {"TEST_READY", "TEST_COMPLETE"} THEN s
                                 ELSE NoMessage
        BY <1>2, Zenon DEF HarnessTick, TickWaiting, TickReady, TickRunning, PublishState
      <3>2. QED
        BY <3>1, Zenon
    <2>4. QED
      BY <1>1, <2>1, <2>2, <2>3 DEF StatesTyped, States
  <1>3. CASE RecorderState
    <2>1. process' \in {process, "started", "ended"} /\ toRecorder' = NoMessage
          /\ state' = state
      BY <1>3 DEF RecorderState, harnessVars
    <2>2. QED
      BY <1>1, <2>1 DEF StatesTyped
  <1>4. CASE PublishReady \/ LoseComplete
    BY <1>1, <1>4 DEF StatesTyped, PublishReady, LoseComplete, harnessVars
  <1>5. CASE UNCHANGED <<state, toRecorder, process>>
    BY <1>1, <1>5 DEF StatesTyped
  <1>6. QED
    BY <1>2, <1>3, <1>4, <1>5, Zenon
    DEF Next, Tick, Sensors, Harness, Recorder, OdomArrives, ScopeArrives, CostmapReply,
        TestStateCallback, vars, testVars, harnessVars

\* Every variable of the test and of its sensors stays in its type.
THEOREM TypeCorrect == Spec => []TypeOK
  <1> DEFINE Inv == OffsetBounded /\ EpochOrder /\ SwitchesTyped /\ PlacesTyped /\ HarnessTyped
                      /\ StatesTyped
  <1>1. Init => Inv
    <2>1. SUFFICES ASSUME Init PROVE Inv
      OBVIOUS
    <2>2. SwitchesTyped /\ HarnessTyped
      BY <2>1, Zenon
      DEF Init, SensorsInit, WorldInit, MoverInit, LidarInit, SwitchesTyped, HarnessTyped
    <2>3. PlacesTyped
      BY <2>1 DEF Init, SensorsInit, WorldInit, MoverInit, LidarInit, PlacesTyped, Places
    <2>4. StatesTyped
      BY <2>1 DEF Init, StatesTyped, States
    <2>5. OffsetBounded
      BY <2>1 DEF Init, SensorsInit, SlipInit, OffsetBounded
    <2>6. EpochOrder
      <3>1. epochAge = NoEpoch /\ toMover = FALSE /\ epochKnown = FALSE
        BY <2>1, Zenon DEF Init, SensorsInit, WorldInit, MoverInit
      <3>2. state \in {"WAIT_SYSTEM", "absent"}
        BY <2>1, Zenon DEF Init
      <3>3. QED
        BY <3>1, <3>2 DEF EpochOrder, Announced, Waiting
    <2>7. QED
      BY <2>2, <2>3, <2>4, <2>5, <2>6
  <1>2. Inv /\ [Next]_vars => Inv'
    BY OffsetStep, EpochStep, SwitchesStep, PlacesStep, HarnessStep, StatesStep
  <1>3. Inv => TypeOK
    BY Zenon
    DEF OffsetBounded, EpochOrder, SwitchesTyped, PlacesTyped, HarnessTyped, StatesTyped, TypeOK,
        SensorsTypeOK
  <1>4. QED
    BY <1>1, <1>2, <1>3, PTL DEF Spec

-----------------------------------------------------------------------------
(***************************************************************************)
(* Why the crossing happens, and why an obstacle leaves the scan.          *)
(***************************************************************************)
\* Who knows of an epoch is the mover of the test.
TestKnown == epochKnown \/ toMover \/ state # "absent" => trigger

\* The obstacle comes to the start by the crossing's request alone and moves
\* once the crossing is started; a parked one stands, and is sent outside.
ObstacleSent ==
    /\ place = "start" \/ request = "start" => placed /\ mode = "crossing"
    /\ mode = "crossing" /\ velocity => started
    /\ mode = "parked" => ~velocity /\ request \in {NoPlace, "outside"}

LEMMA TestKnownStep ==
  ASSUME TestKnown, [Next]_vars
  PROVE  TestKnown'
  <1>1. epochKnown \/ toMover \/ state # "absent" => trigger
    BY Zenon DEF TestKnown
  <1>2. CASE HarnessTick
    <2>1. state # "absent"
      BY <1>2 DEF HarnessTick, TickWaiting, TickReady, TickRunning, Waiting
    <2>2. trigger' = trigger
      BY <1>2, Zenon DEF HarnessTick, TickWaiting, TickReady, TickRunning, sensorVars, setup
    <2>3. QED
      BY <1>1, <2>1, <2>2, Zenon DEF TestKnown
  <1>3. CASE TestStateCallback
    BY <1>1, <1>3, Zenon DEF TestStateCallback, TestKnown, setup, harnessVars
  <1>4. CASE UNCHANGED <<trigger, epochKnown, toMover, state>>
    BY <1>1, <1>4, Zenon DEF TestKnown
  <1>5. QED
    BY <1>2, <1>3, <1>4, Zenon
    DEF Next, Tick, WorldTick, Sensors, SensorsNext, ServePose, LosePose, MoverCrash,
        GazeboPoseCallback, CmdVelCallback, PublishActualPositions, MoverStep, StepParked,
        StepInitialize, StepCross, StepRoam, PublishScan, SlipOdomCallback, Harness, OdomArrives,
        ScopeArrives, CostmapReply, Recorder, RecorderState, PublishReady, LoseComplete,
        vars, sensorVars, setup, moverVars, testVars, harnessVars

LEMMA ObstacleSentStep ==
  ASSUME ObstacleSent, [Next]_vars
  PROVE  ObstacleSent'
  <1>1. /\ place = "start" \/ request = "start" => placed /\ mode = "crossing"
        /\ mode = "crossing" /\ velocity => started
        /\ mode = "parked" => ~velocity /\ request \in {NoPlace, "outside"}
    BY Zenon DEF ObstacleSent
  <1>2. CASE ServePose \/ LosePose
    <2>1. /\ request' = NoPlace /\ (place' = request \/ place' = place)
          /\ UNCHANGED <<mode, velocity, placed, started>>
      BY <1>2, Zenon DEF ServePose, LosePose, setup, moverVars
    <2>2. NoPlace # "start"
      BY DEF NoPlace
    <2>3. QED
      BY <1>1, <2>1, <2>2, Zenon DEF ObstacleSent
  <1>3. CASE CmdVelCallback
    BY <1>1, <1>3, Zenon DEF CmdVelCallback, ObstacleSent, setup, gazeboVars
  <1>4. CASE StepParked
    <2>1. UNCHANGED <<mode, started, place>> /\ mode = "parked"
      BY <1>4, Zenon DEF StepParked, gazeboVars, setup
    <2>2. \/ UNCHANGED <<velocity, request, placed>>
          \/ velocity' = FALSE /\ request' = "outside" /\ placed' = TRUE
      BY <1>4, Zenon DEF StepParked, gazeboVars, SendPose, SendVelocity
    <2>3. QED
      BY <1>1, <2>1, <2>2 DEF ObstacleSent
  <1>5. CASE StepInitialize
    <2>1. /\ mode = "crossing" /\ placed' = TRUE /\ request' = "start" /\ velocity' = FALSE
          /\ UNCHANGED <<mode, place, started>>
      BY <1>5, Zenon DEF StepInitialize, SendPose, SendVelocity, setup
    <2>2. QED
      BY <1>1, <2>1 DEF ObstacleSent
  <1>6. CASE StepCross
    <2>1. /\ mode = "crossing" /\ velocity' = StartedNow /\ started' = StartedNow
          /\ UNCHANGED <<mode, place, request, placed>>
      BY <1>6, Zenon DEF StepCross, SendVelocity, setup
    <2>2. QED
      BY <1>1, <2>1 DEF ObstacleSent
  <1>7. CASE StepRoam
    <2>1. mode = "roaming" /\ UNCHANGED <<mode, place, request, placed, started>>
      BY <1>7, Zenon DEF StepRoam, setup, moverVars
    <2>2. QED
      BY <1>1, <2>1 DEF ObstacleSent
  <1>8. CASE Tick
    <2>1. /\ place' = IF velocity THEN "underway" ELSE place
          /\ UNCHANGED <<mode, velocity, request, placed, started>>
      BY <1>8, Zenon DEF Tick, WorldTick, setup, moverVars
    <2>2. QED
      BY <1>1, <2>1 DEF ObstacleSent
  <1>9. CASE UNCHANGED <<mode, velocity, request, placed, started, place>>
    BY <1>1, <1>9, Zenon DEF ObstacleSent
  <1>10. QED
    BY <1>2, <1>3, <1>4, <1>5, <1>6, <1>7, <1>8, <1>9, Zenon
    DEF Next, Sensors, SensorsNext, MoverCrash, GazeboPoseCallback, PublishActualPositions,
        MoverStep, PublishScan, SlipOdomCallback, Harness, OdomArrives, ScopeArrives, CostmapReply,
        HarnessTick, TickWaiting, TickReady, TickRunning, TestStateCallback, Recorder,
        RecorderState, PublishReady, LoseComplete, vars, sensorVars, setup, gazeboVars, moverVars

\* The mover knows of the epoch, and the obstacle is where it will cross.
Poised == epochKnown /\ place = "start" /\ moverUp

\* Until the obstacle moves or the mover crashes, nothing takes back what the
\* crossing needs, and a report, the clock, a step of the mover and the clock
\* again bring it about.
CrossingNears ==
    Poised =>
        /\ Poised' \/ ~moverUp' \/ place' = "underway"
        /\ ConfirmedNow => ConfirmedNow'
        /\ epochAge >= PreEvent => epochAge' >= PreEvent
        /\ velocity => velocity'
        /\ GazeboPoseCallback => ConfirmedNow'
        /\ Tick /\ epochAge < PreEvent => epochAge' = epochAge + 1
        /\ MoverStep /\ ConfirmedNow /\ epochAge >= PreEvent => velocity'
        /\ Tick /\ velocity => place' = "underway"

\* The argument for CrossingHappens but for fairness.
THEOREM CrossingComes == Spec => [][CrossingNears]_vars
  <1> DEFINE Inv == EpochOrder /\ CrossingPlaced /\ TestKnown /\ ObstacleSent
  <1>1. Init => Inv
    <2> SUFFICES ASSUME Init PROVE Inv
      OBVIOUS
    <2>1. /\ epochAge = NoEpoch /\ toMover = FALSE /\ epochKnown = FALSE
          /\ place = "home" /\ velocity = FALSE /\ request = NoPlace /\ reported = NoPlace
          /\ confirmed = FALSE /\ started = FALSE
          /\ trigger => mode = "crossing"
          /\ state = IF trigger THEN "WAIT_SYSTEM" ELSE "absent"
      BY Zenon DEF Init, SensorsInit, WorldInit, MoverInit
    <2>2. EpochOrder
      BY <2>1 DEF EpochOrder, Announced, Waiting
    <2>3. NoPlace # "start"
      BY DEF NoPlace
    <2>4. CrossingPlaced
      BY <2>1, <2>3, Zenon DEF CrossingPlaced
    <2>5. TestKnown /\ ObstacleSent
      BY <2>1, <2>3 DEF TestKnown, ObstacleSent
    <2>6. QED
      BY <2>2, <2>4, <2>5
  <1>2. Inv /\ [Next]_vars => Inv'
    BY EpochStep, PlacedStep, TestKnownStep, ObstacleSentStep
  <1>3. Inv /\ [Next]_vars => [CrossingNears]_vars
    <2> SUFFICES ASSUME Inv, Next, Poised
                 PROVE  /\ Poised' \/ ~moverUp' \/ place' = "underway"
                        /\ ConfirmedNow => ConfirmedNow'
                        /\ epochAge >= PreEvent => epochAge' >= PreEvent
                        /\ velocity => velocity'
                        /\ GazeboPoseCallback => ConfirmedNow'
                        /\ Tick /\ epochAge < PreEvent => epochAge' = epochAge + 1
                        /\ MoverStep /\ ConfirmedNow /\ epochAge >= PreEvent => velocity'
                        /\ Tick /\ velocity => place' = "underway"
      BY Zenon DEF CrossingNears
    <2>1. /\ epochKnown /\ place = "start" /\ moverUp /\ trigger /\ placed /\ mode = "crossing"
          /\ request \in {NoPlace, "start"} /\ (velocity => started)
          /\ Announced /\ epochAge \in {NoEpoch} \cup 0 .. EpochCap
      BY Zenon DEF Poised, TestKnown, ObstacleSent, CrossingPlaced, EpochOrder
    <2>2. epochAge >= PreEvent => epochAge' >= PreEvent
      <3>1. epochAge' >= epochAge /\ epochAge' \in {NoEpoch} \cup 0 .. EpochCap
        BY <2>1, EpochStep DEF EpochOrder
      <3>2. QED
        BY <2>1, <3>1
    <2>3. /\ epochKnown'
          /\ place' = "start" \/ (velocity /\ place' = "underway")
      BY <2>1, Zenon
      DEF Next, Tick, WorldTick, Sensors, SensorsNext, ServePose, LosePose, MoverCrash,
          GazeboPoseCallback, CmdVelCallback, PublishActualPositions, MoverStep, StepParked,
          StepInitialize, StepCross, StepRoam, PublishScan, SlipOdomCallback, Harness, OdomArrives,
          ScopeArrives, CostmapReply, HarnessTick, TickWaiting, TickReady, TickRunning,
          TestStateCallback, Recorder, RecorderState, PublishReady, LoseComplete,
          sensorVars, gazeboVars, moverVars
    <2>4. ConfirmedNow => ConfirmedNow'
      BY <2>1, Zenon
      DEF ConfirmedNow, Next, Tick, WorldTick, Sensors, SensorsNext, ServePose, LosePose,
          MoverCrash, GazeboPoseCallback, CmdVelCallback, PublishActualPositions, MoverStep,
          StepParked, StepInitialize, StepCross, StepRoam, PublishScan, SlipOdomCallback, Harness,
          OdomArrives, ScopeArrives, CostmapReply, HarnessTick, TickWaiting, TickReady, TickRunning,
          TestStateCallback, Recorder, RecorderState, PublishReady, LoseComplete,
          sensorVars, moverVars
    <2>5. ASSUME MoverStep
          PROVE  velocity' = StartedNow
      <3>1. ~StepParked /\ ~StepRoam
        BY <2>1 DEF StepParked, StepRoam
      <3>2. StepCross
        BY <2>1, <2>5, <3>1, Zenon DEF MoverStep, StepInitialize
      <3>3. QED
        BY <3>2, Zenon DEF StepCross, SendVelocity
    <2>6. velocity => velocity'
      <3>1. CASE MoverStep
        BY <2>1, <2>5, <3>1, Zenon DEF StartedNow
      <3>2. CASE ~MoverStep
        BY <3>2, Zenon
        DEF Next, Tick, WorldTick, Sensors, SensorsNext, ServePose, LosePose, MoverCrash,
            GazeboPoseCallback, CmdVelCallback, PublishActualPositions, PublishScan,
            SlipOdomCallback, Harness, OdomArrives, ScopeArrives, CostmapReply, HarnessTick,
            TickWaiting, TickReady, TickRunning, TestStateCallback, Recorder, RecorderState,
            PublishReady, LoseComplete, sensorVars, gazeboVars
      <3>3. QED
        BY <3>1, <3>2
    <2>7. GazeboPoseCallback => ConfirmedNow'
      BY <2>1, Zenon DEF GazeboPoseCallback, ConfirmedNow
    <2>8. Tick /\ epochAge < PreEvent => epochAge' = epochAge + 1
      <3>1. Tick => epochAge' = IF epochAge = NoEpoch THEN NoEpoch ELSE Capped(epochAge, EpochCap)
        BY Zenon DEF Tick, WorldTick
      <3>2. QED
        BY <2>1, <3>1 DEF Capped, Announced
    <2>9. MoverStep /\ epochAge >= PreEvent => velocity'
      BY <2>1, <2>5, Zenon DEF StartedNow
    <2>10. Tick /\ velocity => place' = "underway"
      BY Zenon DEF Tick, WorldTick
    <2>11. QED
      BY <2>2, <2>3, <2>4, <2>6, <2>7, <2>8, <2>9, <2>10, Zenon DEF Poised
  <1> HIDE DEF Inv
  <1>4. QED
    BY <1>1, <1>2, <1>3, PTL DEF Spec

\* The obstacle is parked outside, or its mover is gone.
Gone == ~moverUp \/ (mode = "parked" /\ place = "outside")

\* What the mover repeats, what the lidar draws, and what the scan shows is not
\* inside: one after the other.
ReportsGone == ~moverUp \/ reported \notin Inside
DrawsGone   == ReportsGone /\ Drawn \notin Inside
ScanGone    == DrawsGone /\ scan \notin Inside

\* An obstacle that is gone stays so, and so does what follows from it; a report,
\* the mover's message or the lidar's timeout, and a scan bring it about.
LeavingNears ==
    Gone =>
        /\ Gone'
        /\ ReportsGone => ReportsGone'
        /\ DrawsGone => DrawsGone'
        /\ ScanGone => ScanGone'
        /\ GazeboPoseCallback => ReportsGone'
        /\ ReportsGone /\ softwareLidar /\ PublishActualPositions => DrawsGone'
        /\ Tick /\ centersAge <= DynamicTimeout => centersAge' = centersAge + 1
        /\ ReportsGone /\ centersAge > DynamicTimeout => DrawsGone
        /\ DrawsGone /\ PublishScan => ScanGone'

\* What a step does to what the lidar knows.
LEMMA CentersStep ==
  ASSUME PlacesTyped, [Next]_vars
  PROVE  \/ centers' = centers /\ centersAge' >= centersAge
         \/ moverUp /\ centers' = reported
         \/ centers' = NoPlace
  <1>1. centersAge \in 0 .. DynamicTimeout + 1
    BY Zenon DEF PlacesTyped
  <1>2. CASE PublishActualPositions \/ StepParked
    <2>1. \/ centers' = centers /\ centersAge' = centersAge
          \/ moverUp /\ centers' = reported
          \/ centers' = NoPlace
      BY <1>2, Zenon DEF PublishActualPositions, StepParked, DynamicCallback, lidarVars
    <2>2. QED
      BY <1>1, <2>1
  <1>3. CASE Tick
    BY <1>1, <1>3 DEF Tick, WorldTick, Capped
  <1>4. CASE UNCHANGED lidarVars
    BY <1>1, <1>4 DEF lidarVars
  <1>5. QED
    BY <1>2, <1>3, <1>4, Zenon
    DEF Next, Sensors, SensorsNext, ServePose, LosePose, MoverCrash, GazeboPoseCallback,
        CmdVelCallback, MoverStep, StepInitialize, StepCross, StepRoam, PublishScan,
        SlipOdomCallback, Harness, OdomArrives, ScopeArrives, CostmapReply, HarnessTick,
        TickWaiting, TickReady, TickRunning, TestStateCallback, Recorder, RecorderState,
        PublishReady, LoseComplete, vars, sensorVars

\* The argument for LeavesScan but for fairness: the mover may repeat an old
\* report, but not one that it hears no more, and the lidar forgets a mover that
\* has crashed.
THEOREM LeavingComes == Spec => [][LeavingNears]_vars
  <1>1. Init => ObstacleSent
    <2> SUFFICES ASSUME Init PROVE ObstacleSent
      OBVIOUS
    <2>1. place = "home" /\ velocity = FALSE /\ request = NoPlace
      BY Zenon DEF Init, SensorsInit, WorldInit
    <2>2. QED
      BY <2>1 DEF ObstacleSent, NoPlace
  <1>2. TypeOK /\ ObstacleSent /\ [Next]_vars => [LeavingNears]_vars
    <2> SUFFICES ASSUME TypeOK, ObstacleSent, Next, Gone
                 PROVE  /\ Gone'
                        /\ ReportsGone => ReportsGone'
                        /\ DrawsGone => DrawsGone'
                        /\ ScanGone => ScanGone'
                        /\ GazeboPoseCallback => ReportsGone'
                        /\ ReportsGone /\ softwareLidar /\ PublishActualPositions => DrawsGone'
                        /\ Tick /\ centersAge <= DynamicTimeout => centersAge' = centersAge + 1
                        /\ ReportsGone /\ centersAge > DynamicTimeout => DrawsGone
                        /\ DrawsGone /\ PublishScan => ScanGone'
      BY Zenon DEF LeavingNears
    <2>1. PlacesTyped
      BY Zenon DEF TypeOK, SensorsTypeOK, PlacesTyped
    <2>2. NoPlace \notin Inside /\ "outside" \notin Inside
      BY DEF NoPlace, Inside, Places
    <2>3. ~moverUp => ~moverUp'
      BY Zenon
      DEF Next, Tick, WorldTick, Sensors, SensorsNext, ServePose, LosePose, MoverCrash,
          GazeboPoseCallback, CmdVelCallback, PublishActualPositions, MoverStep, StepParked,
          StepInitialize, StepCross, StepRoam, PublishScan, SlipOdomCallback, Harness, OdomArrives,
          ScopeArrives, CostmapReply, HarnessTick, TickWaiting, TickReady, TickRunning,
          TestStateCallback, Recorder, RecorderState, PublishReady, LoseComplete,
          sensorVars, moverVars
    <2>4. ASSUME moverUp
          PROVE  mode' = "parked" /\ place' = "outside"
      <3>1. mode = "parked" /\ place = "outside" /\ ~velocity /\ request \in {NoPlace, "outside"}
        BY <2>4, Zenon DEF Gone, ObstacleSent
      <3>2. QED
        BY <3>1, Zenon
        DEF Next, Tick, WorldTick, Sensors, SensorsNext, ServePose, LosePose, MoverCrash,
            GazeboPoseCallback, CmdVelCallback, PublishActualPositions, MoverStep, StepParked,
            StepInitialize, StepCross, StepRoam, PublishScan, SlipOdomCallback, Harness,
            OdomArrives, ScopeArrives, CostmapReply, HarnessTick, TickWaiting, TickReady,
            TickRunning, TestStateCallback, Recorder, RecorderState, PublishReady, LoseComplete,
            sensorVars, setup, gazeboVars
    <2>5. Gone'
      BY <2>3, <2>4, Zenon DEF Gone
    <2>6. GazeboPoseCallback => ReportsGone' /\ reported' = place
      BY <2>2, <2>4, Zenon DEF GazeboPoseCallback, Gone, ReportsGone
    <2>7. ReportsGone => ReportsGone'
      <3>1. CASE GazeboPoseCallback
        BY <2>6, <3>1
      <3>2. CASE ~GazeboPoseCallback
        <4>1. reported' = reported
          BY <3>2, Zenon
          DEF Next, Tick, WorldTick, Sensors, SensorsNext, ServePose, LosePose, MoverCrash,
              CmdVelCallback, PublishActualPositions, MoverStep, StepParked, StepInitialize,
              StepCross, StepRoam, PublishScan, SlipOdomCallback, Harness, OdomArrives,
              ScopeArrives, CostmapReply, HarnessTick, TickWaiting, TickReady, TickRunning,
              TestStateCallback, Recorder, RecorderState, PublishReady, LoseComplete,
              sensorVars, moverVars
        <4>2. QED
          BY <2>3, <4>1, Zenon DEF ReportsGone
      <3>3. QED
        BY <3>1, <3>2
    <2>8. DrawsGone => DrawsGone'
      <3>1. ASSUME DrawsGone
            PROVE  Drawn' \notin Inside
        <4>1. CASE centers' = centers /\ centersAge' >= centersAge
          <5>1. centersAge \in Nat /\ centersAge' \in Nat
            BY <2>1, PlacesStep DEF PlacesTyped
          <5>2. centersAge' <= DynamicTimeout => centersAge <= DynamicTimeout
            BY <4>1, <5>1
          <5>3. QED
            BY <2>2, <3>1, <4>1, <5>2, Zenon DEF DrawsGone, Drawn
        <4>2. CASE moverUp /\ centers' = reported
          BY <2>2, <3>1, <4>2, Zenon DEF DrawsGone, ReportsGone, Drawn
        <4>3. CASE centers' = NoPlace
          BY <2>2, <4>3, Zenon DEF Drawn
        <4>4. QED
          BY <2>1, <4>1, <4>2, <4>3, CentersStep
      <3>2. QED
        BY <2>7, <3>1, Zenon DEF DrawsGone
    <2>9. DrawsGone /\ PublishScan => ScanGone'
      BY <2>8, Zenon DEF PublishScan, DrawsGone, ScanGone
    <2>10. ScanGone => ScanGone'
      <3>1. CASE PublishScan
        BY <2>9, <3>1, Zenon DEF ScanGone
      <3>2. CASE ~PublishScan
        <4>1. scan' = scan
          BY <3>2, Zenon
          DEF Next, Tick, WorldTick, Sensors, SensorsNext, ServePose, LosePose, MoverCrash,
              GazeboPoseCallback, CmdVelCallback, PublishActualPositions, MoverStep, StepParked,
              StepInitialize, StepCross, StepRoam, SlipOdomCallback, Harness, OdomArrives,
              ScopeArrives, CostmapReply, HarnessTick, TickWaiting, TickReady, TickRunning,
              TestStateCallback, Recorder, RecorderState, PublishReady, LoseComplete, sensorVars
        <4>2. QED
          BY <2>8, <4>1, Zenon DEF ScanGone
      <3>3. QED
        BY <3>1, <3>2
    <2>11. ReportsGone /\ softwareLidar /\ PublishActualPositions => DrawsGone'
      <3>1. PublishActualPositions /\ softwareLidar => moverUp /\ centers' = reported
        BY Zenon DEF PublishActualPositions, DynamicCallback
      <3>2. QED
        BY <2>2, <2>7, <3>1, Zenon DEF ReportsGone, DrawsGone, Drawn
    <2>12. Tick /\ centersAge <= DynamicTimeout => centersAge' = centersAge + 1
      <3>1. Tick => centersAge' = Capped(centersAge, DynamicTimeout + 1)
        BY Zenon DEF Tick, WorldTick
      <3>2. QED
        BY <2>1, <3>1 DEF Capped, PlacesTyped
    <2>13. ReportsGone /\ centersAge > DynamicTimeout => DrawsGone
      <3>1. centersAge > DynamicTimeout => ~(centersAge <= DynamicTimeout)
        BY <2>1 DEF PlacesTyped
      <3>2. QED
        BY <2>2, <3>1, Zenon DEF DrawsGone, Drawn
    <2>14. QED
      BY <2>5, <2>6, <2>7, <2>8, <2>9, <2>10, <2>11, <2>12, <2>13
  <1>3. QED
    BY <1>1, <1>2, ObstacleSentStep, TypeCorrect, PTL DEF Spec
=============================================================================
