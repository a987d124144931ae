--------------------------- MODULE PlanningCycle ---------------------------
(***************************************************************************)
(* What one cycle of imperative_navigation's planners does with a scan:    *)
(* the static bypass, the tracks of moving objects and their confirmation, *)
(* the point map, and the command that comes of them.                      *)
(*                                                                         *)
(* Three programs run these cycles: m1_controller_node ("m1"), the Gazebo  *)
(* controller_node ("sim"), and the original algorithm's own simulation    *)
(* ("demo").  Their cycles never overlap, so that a cycle is one step; the *)
(* timing of cycles is the subject of ImperativeController.                *)
(*                                                                         *)
(* Positions and velocities are abstracted to what the cycles decide from  *)
(* them.  A track's record has one field that the code does not keep:      *)
(* seen, how often it was matched with a detection.  Counters stop at the  *)
(* thresholds they are compared with.                                      *)
(***************************************************************************)
EXTENDS Integers, FiniteSets, FiniteSetsExt, Functions

CONSTANTS
    MaxMissed,            \* TRACK_MAX_MISSED
    ConfirmationAge,      \* track_confirmation_age
    MovingConfirmation,   \* moving_confirmation_age
    MaxDetections,        \* bound on the detections of a scan
    MaxId                 \* bound on the ids that are ever given

ASSUME CycleAssumption ==
    /\ MaxMissed \in Nat /\ MaxDetections \in Nat /\ MaxId \in Nat
    /\ ConfirmationAge \in Nat \ {0} /\ MovingConfirmation \in Nat \ {0}

VARIABLES
    program,      \* which of the three programs runs
    bypassOn,     \* m1: the static bypass is enabled and the rollout is not
    tracks,       \* the tracks, a set of records
    nextId,       \* next_track_id
    histories,    \* ids whose track_history has every position since birth
    observed,     \* _moving_observations, by id
    planning,     \* ids of planning_tracks
    dynamic,      \* dynamic_track_ids
    mapped,       \* ids of live tracks that have left points in map_points
    bypass,       \* the bypass manoeuvre, or NoBypass
    published,    \* published_track_ids
    shown         \* the track markers that a viewer of the topic displays

vars == <<program, bypassOn, tracks, nextId, histories, observed, planning, dynamic,
          mapped, bypass, published, shown>>

Ids      == 0 .. MaxId - 1
AgeCap   == IF ConfirmationAge > 2 THEN ConfirmationAge ELSE 2
Tracks   == [id : Ids, age : 1 .. AgeCap, missed : 0 .. MaxMissed, moving : BOOLEAN,
             seen : 1 .. AgeCap]
Bypasses == [phase : {"lane", "pass", "exit"}, side : {-1, 1}]
NoBypass == [phase |-> "none", side |-> 0]

IdsOf(set)  == {t.id : t \in set}
UpTo(n, cap) == IF n > cap THEN cap ELSE n

TypeOK ==
    /\ program \in {"m1", "sim", "demo"} /\ bypassOn \in BOOLEAN
    /\ tracks \subseteq Tracks
    /\ nextId \in 0 .. MaxId
    /\ histories \subseteq Ids
    /\ DOMAIN observed \subseteq Ids
    /\ \A i \in DOMAIN observed : observed[i] \in 0 .. MovingConfirmation
    /\ planning \subseteq Ids /\ dynamic \subseteq Ids /\ mapped \subseteq Ids
    /\ bypass \in Bypasses \cup {NoBypass}
    /\ published \subseteq Ids /\ shown \subseteq Ids

M1Start   == program = "m1" /\ bypassOn \in BOOLEAN
SimStart  == program = "sim" /\ bypassOn = FALSE
DemoStart == program = "demo" /\ bypassOn = FALSE

Init ==
    /\ M1Start \/ SimStart \/ DemoStart
    /\ tracks = {} /\ nextId = 0
    /\ histories = {}
    /\ observed = [i \in {} |-> 0]
    /\ planning = {} /\ dynamic = {} /\ mapped = {}
    /\ bypass = NoBypass
    /\ published = {} /\ shown = {}

-----------------------------------------------------------------------------
(* Tracking.  A Wrong operator is a slip that shows a property can fail.    *)

\* scan_to_cluster_detections: how many clusters of a scan become detections.
Detections == 0 .. MaxDetections

\* update_tracks takes the pairs of a prediction and a detection in the order
\* of their distance, up to TRACK_ASSOCIATION_DISTANCE, and skips one whose
\* track or detection is taken: of n detections as many are used as tracks are
\* matched.
Hits(n) == {hit \in SUBSET tracks : Cardinality(hit) <= n}

\* _track_record of a matched track; the filter's estimate moves or not.
Matched(t, moving) ==
    [t EXCEPT !.age = UpTo(@ + 1, AgeCap), !.missed = 0, !.moving = moving,
              !.seen = UpTo(@ + 1, AgeCap)]

\* _track_record of a track that was not matched: its age counts the scan.
Missed(t) ==
    [t EXCEPT !.age = UpTo(@ + 1, AgeCap), !.missed = @ + 1]

\* _new_track: no velocity yet.
NewTrack(id) ==
    [id |-> id, age |-> 1, missed |-> 0, moving |-> FALSE, seen |-> 1]

\* next_track_id after every detection that is left over has begun a track.
IdAfter(hit, n) == nextId + n - Cardinality(hit)

\* update_tracks: matched tracks go on, others until they have been missed
\* MaxMissed times, and every other detection begins a track.
UpdateTracks(hit, n, movers) ==
    {Matched(t, t \in movers) : t \in hit}
    \cup {Missed(t) : t \in {u \in tracks \ hit : u.missed < MaxMissed}}
    \cup {NewTrack(id) : id \in nextId .. nextId + n - Cardinality(hit) - 1}

WrongUnconfirmed(t) == t.missed = 0

\* ConfirmedTrackFilter.update exposes tracks of sufficient age that the last
\* scan has seen.
Confirmed(t) == t.age >= ConfirmationAge /\ t.missed = 0

\* The count of a track's moving observations: only a confirmed, seen track
\* counts, and only a seen, slow one starts the count again.
CountOf(t) == IF t.id \in DOMAIN observed THEN observed[t.id] ELSE 0

CountAfter(t) ==
    IF ~Confirmed(t) THEN CountOf(t)
    ELSE IF t.moving THEN UpTo(CountOf(t) + 1, MovingConfirmation) ELSE 0

FilterUpdate(ts) ==
    LET counted == {t \in ts : Confirmed(t) \/ t.id \in DOMAIN observed}
    IN  [i \in IdsOf(counted) |-> CountAfter(CHOOSE t \in counted : t.id = i)]

\* Tracks whose velocity is not set to zero.
PredictedMoving(ts) ==
    {t \in ts : Confirmed(t) /\ t.moving /\ CountAfter(t) >= MovingConfirmation}

WrongConfirmedOnly(ts) == histories \cup IdsOf({t \in ts : Confirmed(t) /\ t.age > 1})

\* Every cycle appends the position of every track, so that a history is
\* complete if its first position was appended when the track was born.
Histories(ts) == histories \cup (IdsOf(ts) \ IdsOf(tracks))

\* update_slam_map adds the points of the scan, and takes away those near any
\* position in the history of a dynamic track.
MapUpdate(ts, points, moving) ==
    LET seen  == IF points THEN IdsOf({t \in ts : t.missed = 0}) ELSE {}
        swept == moving \cap Histories(ts)
    IN  ((mapped \cup seen) \ swept) \cap IdsOf(ts)

\* From update_tracks to update_slam_map, in the two ROS nodes: n detections,
\* with points in the map's frame or without.
Perceive(n, points) ==
    \E hit \in Hits(n) :
        /\ nextId + n - Cardinality(hit) <= MaxId
        /\ nextId' = IdAfter(hit, n)
        /\ \E movers \in SUBSET hit :
              LET ts == UpdateTracks(hit, n, movers)
              IN  /\ tracks' = ts
                  /\ histories' = Histories(ts) \cap IdsOf(ts)
                  /\ observed' = FilterUpdate(ts)
                  /\ planning' = IdsOf({t \in ts : Confirmed(t)})
                  /\ dynamic' = IdsOf(PredictedMoving(ts))
                  /\ mapped' = MapUpdate(ts, points, dynamic')

PerceptionUnchanged ==
    UNCHANGED <<tracks, nextId, histories, observed, planning, dynamic, mapped>>

\* publish_visualization deletes the markers of tracks that are gone.
Visualize ==
    /\ published' = planning'
    /\ shown' = (shown \ (published \ planning')) \cup planning'

-----------------------------------------------------------------------------
(* m1_controller_node.                                                      *)

\* update_static_bypass_goal starts a manoeuvre: the side that is asked for, or
\* the one with more room.
Start == [phase : {"lane"}, side : {-1, 1}]

\* ... and continues one: at the goal of its phase the next phase begins.
AfterReached ==
    CASE bypass.phase = "lane" -> [bypass EXCEPT !.phase = "pass"]
      [] bypass.phase = "pass" -> [bypass EXCEPT !.phase = "exit"]
      [] OTHER -> NoBypass

WrongRestarts == {bypass, NoBypass} \cup Start

\* What update_static_bypass_goal may leave, given where the robot is and what
\* it sees: no blocker, a blocker, a goal that is reached or not, or a robot at
\* the final goal.
BypassAfter ==
    IF ~bypassOn THEN {NoBypass}
    ELSE IF bypass = NoBypass THEN {NoBypass} \cup Start
    ELSE {bypass, AfterReached, NoBypass}

\* A return in the emergency tube, or a planner that fails at once: the bypass
\* has moved on, the tracks have not.
EmergencyStop ==
    /\ program = "m1"
    /\ bypass' \in BypassAfter
    /\ PerceptionUnchanged /\ Visualize
    /\ UNCHANGED <<program, bypassOn>>

\* The bypass drives, and the rest of the cycle is left out.
BypassDrive ==
    /\ program = "m1"
    /\ bypass' \in BypassAfter \ {NoBypass}
    /\ PerceptionUnchanged /\ Visualize
    /\ UNCHANGED <<program, bypassOn>>

\* The whole cycle: it ends at the goal, with a command, or with a failure.
M1Cycle ==
    /\ program = "m1"
    /\ NoBypass \in BypassAfter /\ bypass' = NoBypass
    /\ \E n \in Detections : Perceive(n, TRUE)
    /\ Visualize
    /\ UNCHANGED <<program, bypassOn>>

-----------------------------------------------------------------------------
(* controller_node: a saturated scan is replaced by a map of the static     *)
(* obstacles and by Gazebo's own positions of the moving ones.              *)

\* A saturated scan and nothing to replace it with: the robot is stopped.
SimStop ==
    /\ program = "sim"
    /\ PerceptionUnchanged /\ Visualize
    /\ UNCHANGED <<program, bypassOn, bypass>>

\* What stands for the detections of a saturated scan: the obstacles that Gazebo
\* reports if its last report is fresh, or none.
SimDetections(fresh) == IF fresh THEN Detections ELSE {0}

\* The cycle; a saturated scan gives no points.
SimCycle(saturated) ==
    /\ program = "sim"
    /\ \E n \in Detections, fresh \in BOOLEAN :
          /\ saturated => n \in SimDetections(fresh)
          /\ Perceive(n, ~saturated)
    /\ Visualize
    /\ UNCHANGED <<program, bypassOn, bypass>>

-----------------------------------------------------------------------------
(* run_navigation: every track is planned with, and one that has moved once *)
(* remains dynamic.                                                         *)
DemoCycle ==
    /\ program = "demo"
    /\ \E n \in Detections : \E hit \in Hits(n) :
        /\ nextId + n - Cardinality(hit) <= MaxId
        /\ nextId' = IdAfter(hit, n)
        /\ \E movers \in SUBSET hit :
              LET ts == UpdateTracks(hit, n, movers)
              IN  /\ tracks' = ts
                  /\ histories' = Histories(ts) \cap IdsOf(ts)
                  /\ dynamic' = (dynamic \cup IdsOf({t \in ts : t.age >= 2 /\ t.moving}))
                                \cap IdsOf(ts)
                  /\ mapped' = MapUpdate(ts, TRUE, dynamic')
    /\ planning' = IdsOf(tracks')
    /\ UNCHANGED <<program, bypassOn, observed, bypass, published, shown>>

Next ==
    \/ EmergencyStop \/ BypassDrive \/ M1Cycle
    \/ SimStop \/ \E saturated \in BOOLEAN : SimCycle(saturated)
    \/ DemoCycle

Spec == Init /\ [][Next]_vars

-----------------------------------------------------------------------------
(* Properties.                                                              *)

\* No two tracks share an id, and none has an id that is still to be given,
\* however tracks come and go: histories, counts and markers are kept by id.
UniqueIds ==
    /\ \A s, t \in tracks : s.id = t.id => s = t
    /\ \A t \in tracks : t.id < nextId

\* The nodes only plan around objects that were seen repeatedly, although a
\* track's age also counts the scans that missed it.
RepeatedlySeen ==
    program # "demo" /\ ConfirmationAge > 1 =>
        \A t \in tracks : t.id \in planning => t.seen >= 2

\* Points that an object has left do not stay in the map as a false obstacle:
\* not those of a moving track either that came before it was known to move.
NoTrail == dynamic \cap mapped = {}

\* A manoeuvre keeps its side and never falls back to an earlier phase, however
\* many cycles stop in between.
CommittedBypass ==
    [][ bypass # NoBypass /\ bypass' # NoBypass =>
            /\ bypass'.side = bypass.side
            /\ bypass.phase = "pass" => bypass'.phase # "lane"
            /\ bypass.phase = "exit" => bypass'.phase = "exit" ]_vars

\* The markers on display are those the node remembers to delete.
MarkersRemembered == shown = published
=============================================================================
