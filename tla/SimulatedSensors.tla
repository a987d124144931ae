-------------------------- MODULE SimulatedSensors --------------------------
(***************************************************************************)
(* The simulated world's sensors: the node that moves Gazebo's obstacles   *)
(* and reports where they are (dynamic_obstacle_mover), the software lidar *)
(* that draws them into a scan, the relay that hands the scan to Nav2, and *)
(* the odometry simulator.  All but the relay run on Gazebo's clock.       *)
(*                                                                         *)
(* One obstacle stands for the three, its position is abstracted to a      *)
(* place, and the robot moves on a line that is closed to a ring.  Ages    *)
(* are kept in ticks of the clock.  CausalityTest has the specification.   *)
(***************************************************************************)
EXTENDS Integers

CONSTANTS
    DynamicTimeout,   \* dynamic_obstacle_timeout of the lidar, in ticks
    PreEvent,         \* ticks from the epoch to the crossing
    MaxInterval,      \* longest interval that odom_slip_simulator accepts
    Ring              \* number of positions of the robot

ASSUME SensorsAssumption ==
    /\ DynamicTimeout \in Nat /\ PreEvent \in Nat /\ MaxInterval \in Nat
    /\ Ring \in Nat \ {0}

VARIABLES
    mode,         \* what the mover was started for: "parked", "roaming" or "crossing"
    trigger,      \* test_sim_time_trigger
    softwareLidar, \* the software lidar was started, not Gazebo's own
    place,        \* Gazebo: where the obstacle is
    velocity,     \* Gazebo: it moves
    request,      \* a set_pose request under way: its place, or NoPlace
    moverUp,      \* the mover has not crashed
    reported,     \* actual_poses: the place last heard of, or NoPlace
    placed,       \* parked, or crossing_initialized: the requests are sent
    confirmed,    \* crossing_pose_confirmed
    started,      \* crossing_started
    epochKnown,   \* test_epoch_ns is set
    epochAge,     \* ticks since the epoch; NoEpoch before it
    centers,      \* lidar: dynamic_centers, a place or NoPlace
    centersAge,   \* ticks since last_dynamic_update_ns
    scan,         \* what the last scan on /scan shows: a place, NoPlace or NoScan
    offset,       \* Gazebo's position of the robot minus true_previous
    interval,     \* ticks since last_stamp_ns; NoStamp before the first message
    step          \* the distance between the last two odometry messages

moverVars   == <<moverUp, reported, placed, confirmed, started, epochKnown>>
gazeboVars  == <<place, velocity, request>>
lidarVars   == <<centers, centersAge>>
slipVars    == <<offset, interval, step>>
setup       == <<mode, trigger, softwareLidar>>
sensorVars  == <<setup, gazeboVars, moverVars, epochAge, lidarVars, scan, slipVars>>

\* Where the obstacle can be: where the world file has it, where the crossing
\* begins, outside the room, or anywhere else, having moved there.
Places  == {"home", "start", "outside", "underway"}
NoPlace == "no place"
NoScan  == "no scan"
Inside  == Places \ {"outside"}
NoEpoch == -1
NoStamp == -1

EpochCap    == PreEvent + 1
Capped(n, cap) == IF n < cap THEN n + 1 ELSE cap

SensorsTypeOK ==
    /\ mode \in {"parked", "roaming", "crossing"} /\ trigger \in BOOLEAN
    /\ softwareLidar \in BOOLEAN
    /\ place \in Places /\ velocity \in BOOLEAN /\ request \in Places \cup {NoPlace}
    /\ moverUp \in BOOLEAN /\ reported \in Places \cup {NoPlace}
    /\ placed \in BOOLEAN /\ confirmed \in BOOLEAN /\ started \in BOOLEAN
    /\ epochKnown \in BOOLEAN /\ epochAge \in {NoEpoch} \cup 0 .. EpochCap
    /\ centers \in Places \cup {NoPlace} /\ centersAge \in 0 .. DynamicTimeout + 1
    /\ scan \in Places \cup {NoPlace, NoScan}
    /\ offset \in 0 .. Ring - 1
    /\ interval \in {NoStamp} \cup 0 .. MaxInterval + 1
    /\ step \in 0 .. Ring - 1

WorldInit == place = "home" /\ velocity = FALSE /\ request = NoPlace /\ epochAge = NoEpoch

MoverInit ==
    /\ mode \in {"parked", "roaming", "crossing"}
    /\ trigger \in BOOLEAN /\ (trigger => mode = "crossing")
    /\ moverUp = TRUE /\ reported = NoPlace
    /\ placed = FALSE /\ confirmed = FALSE /\ started = FALSE /\ epochKnown = FALSE

LidarInit ==
    /\ softwareLidar \in BOOLEAN
    /\ centers = NoPlace /\ centersAge = DynamicTimeout + 1
    /\ scan = NoScan

SlipInit == offset = 0 /\ interval = NoStamp /\ step = 0

SensorsInit == WorldInit /\ MoverInit /\ LidarInit /\ SlipInit

-----------------------------------------------------------------------------
(* Gazebo, and its bridge.                                                  *)

\* A set_pose request is served, or lost on its way: nobody reads the answer.
ServePose ==
    /\ request # NoPlace
    /\ place' = request /\ request' = NoPlace
    /\ UNCHANGED <<setup, velocity, moverVars, epochAge, lidarVars, scan, slipVars>>

LosePose ==
    /\ request # NoPlace
    /\ request' = NoPlace
    /\ UNCHANGED <<setup, place, velocity, moverVars, epochAge, lidarVars, scan, slipVars>>

\* A tick of the clock: the robot moves by one position at most.
WorldTick ==
    /\ epochAge' = IF epochAge = NoEpoch THEN NoEpoch ELSE Capped(epochAge, EpochCap)
    /\ centersAge' = Capped(centersAge, DynamicTimeout + 1)
    /\ interval' = IF interval = NoStamp THEN NoStamp ELSE Capped(interval, MaxInterval + 1)
    /\ place' = IF velocity THEN "underway" ELSE place
    /\ offset' \in {offset, IF offset + 1 = Ring THEN 0 ELSE offset + 1}
    /\ UNCHANGED <<setup, velocity, request, moverVars, centers, scan, step>>

-----------------------------------------------------------------------------
(* dynamic_obstacle_mover.  A Wrong operator is a slip.                     *)

\* A set_pose request is sent and its answer dropped.
SendPose(p) == request' = p

SendVelocity(moves) == velocity' = moves

\* A crash, or the end of the process; Gazebo keeps the last velocity.
MoverCrash ==
    /\ moverUp
    /\ moverUp' = FALSE
    /\ UNCHANGED <<setup, gazeboVars, reported, placed, confirmed, started, epochKnown, epochAge,
                   lidarVars, scan, slipVars>>

GazeboPoseCallback ==
    /\ moverUp
    /\ reported' = place
    /\ UNCHANGED <<setup, gazeboVars, moverUp, placed, confirmed, started, epochKnown, epochAge,
                   lidarVars, scan, slipVars>>

\* cmd_vel_callback, which the test trigger replaces: the robot moves.
CmdVelCallback ==
    /\ moverUp /\ ~trigger
    /\ started' = TRUE
    /\ UNCHANGED <<setup, gazeboVars, moverUp, reported, placed, confirmed, epochKnown, epochAge,
                   lidarVars, scan, slipVars>>

\* dynamic_callback of the lidar, for a message that shows the obstacle at p.
DynamicCallback(p) ==
    IF softwareLidar THEN centers' = p /\ centersAge' = 0
    ELSE UNCHANGED lidarVars

\* publish_actual_positions repeats what was last heard, however old.
PublishActualPositions ==
    /\ moverUp /\ reported # NoPlace
    /\ DynamicCallback(reported)
    /\ UNCHANGED <<setup, gazeboVars, moverVars, epochAge, scan, slipVars>>

\* step, when disabled: parks the obstacle once, and reports none.
StepParked ==
    /\ moverUp /\ mode = "parked"
    /\ IF placed THEN UNCHANGED <<gazeboVars, placed>>
       ELSE placed' = TRUE /\ SendVelocity(FALSE) /\ SendPose("outside") /\ UNCHANGED place
    /\ DynamicCallback(NoPlace)
    /\ UNCHANGED <<setup, moverUp, reported, confirmed, started, epochKnown, epochAge,
                   scan, slipVars>>

\* step in the crossing mode, up to the return that waits for the start pose.
StepInitialize ==
    /\ moverUp /\ mode = "crossing" /\ ~placed
    /\ placed' = TRUE /\ SendPose("start") /\ SendVelocity(FALSE)
    /\ UNCHANGED <<setup, place, moverUp, reported, confirmed, started, epochKnown, epochAge,
                   lidarVars, scan, slipVars>>

WrongAtOnce  == started \/ (trigger /\ epochKnown)
WrongExactly == started \/ (trigger /\ epochKnown /\ epochAge = PreEvent)

\* crossing_started after the test of the clock.
StartedNow == started \/ (trigger /\ epochKnown /\ epochAge >= PreEvent)

\* crossing_pose_confirmed after the test of the pose.
ConfirmedNow == confirmed \/ reported = "start"

StepCross ==
    /\ moverUp /\ mode = "crossing" /\ placed /\ ConfirmedNow
    /\ confirmed' = TRUE
    /\ started' = StartedNow
    /\ SendVelocity(StartedNow)
    /\ UNCHANGED <<setup, place, request, moverUp, reported, placed, epochKnown, epochAge,
                   lidarVars, scan, slipVars>>

\* step in the continuous and the random_waypoint mode: the obstacle stands or
\* moves, as its random target and the room about it have it.
StepRoam ==
    /\ moverUp /\ mode = "roaming"
    /\ \E moves \in BOOLEAN : SendVelocity(moves)
    /\ UNCHANGED <<setup, place, request, moverVars, epochAge, lidarVars, scan, slipVars>>

MoverStep == StepParked \/ StepInitialize \/ StepCross \/ StepRoam

-----------------------------------------------------------------------------
(* software_lidar and scan_relay.                                           *)

WrongKeeps == centers

\* The obstacle that publish_scan draws.
Drawn == IF centersAge <= DynamicTimeout THEN centers ELSE NoPlace

\* publish_scan, once odometry has told where the robot is, and the relay.  A
\* scan that is lost between the two, or that falls into the relay's dropout
\* interval, leaves /scan as it is.
PublishScan ==
    /\ softwareLidar /\ interval # NoStamp
    /\ scan' = Drawn
    /\ UNCHANGED <<setup, gazeboVars, moverVars, epochAge, lidarVars, slipVars>>

-----------------------------------------------------------------------------
(* odom_slip_simulator, without slip: what is published is the truth        *)
(* integrated from one message to the next.                                 *)

WrongKeepsPrevious == offset

\* offset once a message that is ignored has become the new true_previous.
OffsetIfIgnored == 0

\* integrate_increment: without slip, what the robot has moved.
Increment == offset

\* The first message is published as it is; one after no time, or too much of
\* it, is not published; every other moves the odometry by what the robot has
\* moved since the last message.
SlipOdomCallback ==
    /\ interval' = 0
    /\ CASE interval = NoStamp ->
              offset' = 0 /\ step' = 0
         [] interval = 0 \/ interval > MaxInterval ->
              offset' = OffsetIfIgnored /\ UNCHANGED step
         [] OTHER ->
              offset' = 0 /\ step' = Increment
    /\ UNCHANGED <<setup, gazeboVars, moverVars, epochAge, lidarVars, scan>>

SensorsNext ==
    \/ ServePose \/ LosePose
    \/ MoverCrash \/ GazeboPoseCallback \/ CmdVelCallback \/ PublishActualPositions \/ MoverStep
    \/ PublishScan
    \/ SlipOdomCallback
=============================================================================
