------------------------ MODULE PlanningCycleProofs ------------------------
(***************************************************************************)
(* Theorems about PlanningCycle for any thresholds, any number of          *)
(* detections in a scan and any number of tracks.                          *)
(***************************************************************************)
EXTENDS PlanningCycle, FiniteSetTheorems, TLAPS

USE CycleAssumption

\* A track that the last scan has seen and that is not new has been seen twice.
SeenTwice == \A t \in tracks : t.age >= 2 /\ t.missed = 0 => t.seen >= 2

\* Every live track has its whole history.
HistoriesComplete == IdsOf(tracks) \subseteq histories

IInv == TypeOK /\ UniqueIds /\ SeenTwice /\ HistoriesComplete

-----------------------------------------------------------------------------
(* The tracks.                                                              *)

\* Live tracks are finitely many: their ids tell them apart.
LEMMA TracksFinite ==
  ASSUME TypeOK, UniqueIds
  PROVE  IsFiniteSet(tracks)
  <1> DEFINE idOf == [t \in tracks |-> t.id]
  <1>1. nextId \in Nat /\ MaxId \in Nat
    BY DEF TypeOK
  <1>2. \A t \in tracks : t.id \in 0 .. MaxId
    BY DEF TypeOK, Tracks, Ids
  <1>3. idOf \in Injection(tracks, 0 .. MaxId)
    BY <1>2 DEF Injection, IsInjective, UniqueIds
  <1>4. IsFiniteSet(0 .. MaxId)
    BY <1>1, FS_Interval
  <1> HIDE DEF idOf
  <1>5. QED
    BY <1>3, <1>4, FS_Injection

\* As many ids are given as there are detections left over.
LEMMA IdStep ==
  ASSUME TypeOK, UniqueIds, NEW n \in Detections, NEW hit \in Hits(n),
         nextId + n - Cardinality(hit) <= MaxId
  PROVE  /\ Cardinality(hit) \in Nat /\ Cardinality(hit) <= n
         /\ IdAfter(hit, n) \in nextId .. MaxId
  <1>1. hit \in SUBSET tracks /\ Cardinality(hit) <= n
    BY DEF Hits
  <1>2. IsFiniteSet(hit)
    BY <1>1, TracksFinite, FS_Subset
  <1>3. Cardinality(hit) \in Nat
    BY <1>2, FS_CardinalityType
  <1>4. n \in Nat /\ nextId \in Nat
    BY DEF Detections, TypeOK
  <1>5. QED
    BY <1>1, <1>3, <1>4 DEF IdAfter

\* What update_tracks makes of a track, field by field.
LEMMA UpdateFields ==
  ASSUME TypeOK, NEW hit \in SUBSET tracks, NEW movers, NEW n, NEW u \in UpdateTracks(hit, n, movers)
  PROVE  \/ \E t \in tracks :
               /\ u.id = t.id
               /\ \/ u = Matched(t, t \in movers) /\ t \in hit
                  \/ u = Missed(t) /\ t \in tracks \ hit /\ t.missed < MaxMissed
         \/ \E id \in nextId .. nextId + n - Cardinality(hit) - 1 : u = NewTrack(id)
  <1>1. \/ \E t \in hit : u = Matched(t, t \in movers)
        \/ \E t \in tracks \ hit : u = Missed(t) /\ t.missed < MaxMissed
        \/ \E id \in nextId .. nextId + n - Cardinality(hit) - 1 : u = NewTrack(id)
    BY Zenon DEF UpdateTracks
  <1>2. ASSUME NEW t \in tracks
        PROVE  Matched(t, t \in movers).id = t.id /\ Missed(t).id = t.id
    <2>1. t \in Tracks
      BY DEF TypeOK
    <2>2. QED
      BY <2>1 DEF Matched, Missed, Tracks
  <1>3. QED
    BY <1>1, <1>2, Zenon

LEMMA Counters ==
  ASSUME NEW cap \in Nat \ {0}, NEW a \in 1 .. cap
  PROVE  UpTo(a + 1, cap) \in 1 .. cap /\ (cap >= 2 => UpTo(a + 1, cap) >= 2)
  BY DEF UpTo

LEMMA CapFact == AgeCap \in Nat /\ AgeCap >= 2 /\ AgeCap >= ConfirmationAge
  BY DEF AgeCap

LEMMA TracksTyped ==
  ASSUME TypeOK, UniqueIds, NEW n \in Detections, NEW hit \in Hits(n), NEW movers,
         nextId + n - Cardinality(hit) <= MaxId
  PROVE  UpdateTracks(hit, n, movers) \subseteq Tracks
  <1> SUFFICES ASSUME NEW u \in UpdateTracks(hit, n, movers)
               PROVE  u \in Tracks
    OBVIOUS
  <1>1. hit \in SUBSET tracks
    BY DEF Hits
  <1>2. CASE \E t \in tracks : u = Matched(t, t \in movers)
    <2>1. PICK t \in tracks : u = Matched(t, t \in movers)
      BY <1>2
    <2>2. t \in Tracks
      BY DEF TypeOK
    <2>3. UpTo(t.age + 1, AgeCap) \in 1 .. AgeCap /\ UpTo(t.seen + 1, AgeCap) \in 1 .. AgeCap
      BY <2>2, CapFact, Counters DEF Tracks
    <2>4. 0 \in 0 .. MaxMissed /\ (t \in movers) \in BOOLEAN
      OBVIOUS
    <2>5. QED
      BY <2>1, <2>2, <2>3, <2>4 DEF Matched, Tracks
  <1>3. CASE \E t \in tracks : u = Missed(t) /\ t.missed < MaxMissed
    <2>1. PICK t \in tracks : u = Missed(t) /\ t.missed < MaxMissed
      BY <1>3
    <2>2. t \in Tracks
      BY DEF TypeOK
    <2>3. UpTo(t.age + 1, AgeCap) \in 1 .. AgeCap
      BY <2>2, CapFact, Counters DEF Tracks
    <2>4. t.missed + 1 \in 0 .. MaxMissed
      BY <2>1, <2>2 DEF Tracks
    <2>5. QED
      BY <2>1, <2>2, <2>3, <2>4 DEF Missed, Tracks
  <1>4. CASE \E id \in nextId .. nextId + n - Cardinality(hit) - 1 : u = NewTrack(id)
    <2>1. PICK id \in nextId .. nextId + n - Cardinality(hit) - 1 : u = NewTrack(id)
      BY <1>4
    <2>2. n \in Nat /\ nextId \in Nat /\ Cardinality(hit) \in Nat
      BY IdStep DEF Detections, TypeOK
    <2>3. id \in Ids
      BY <2>2 DEF Ids
    <2>4. 1 \in 1 .. AgeCap /\ 0 \in 0 .. MaxMissed
      BY CapFact
    <2>5. QED
      BY <2>1, <2>3, <2>4 DEF NewTrack, Tracks
  <1>5. QED
    BY <1>1, <1>2, <1>3, <1>4, UpdateFields

\* update_tracks keeps ids unique and below the next one, because each comes of
\* one earlier track or is given anew.
LEMMA IdsUnique ==
  ASSUME TypeOK, UniqueIds, NEW n \in Detections, NEW hit \in Hits(n), NEW movers,
         nextId + n - Cardinality(hit) <= MaxId
  PROVE  /\ \A u, v \in UpdateTracks(hit, n, movers) : u.id = v.id => u = v
         /\ \A u \in UpdateTracks(hit, n, movers) : u.id < IdAfter(hit, n)
  <1> DEFINE ts == UpdateTracks(hit, n, movers)
             Of(u, t) == /\ u.id = t.id
                         /\ \/ u = Matched(t, t \in movers) /\ t \in hit
                            \/ u = Missed(t) /\ t \in tracks \ hit /\ t.missed < MaxMissed
             Born(u) == u = NewTrack(u.id) /\ u.id \in nextId .. IdAfter(hit, n) - 1
  <1>1. hit \in SUBSET tracks
    BY DEF Hits
  <1>2. \A t \in tracks : t.id \in Nat /\ t.id < nextId
    BY DEF TypeOK, Tracks, Ids, UniqueIds
  <1>3. /\ IdAfter(hit, n) \in Int /\ nextId \in Nat /\ nextId <= IdAfter(hit, n)
        /\ n \in Nat /\ Cardinality(hit) \in Nat
    BY IdStep DEF TypeOK, Detections
  <1>4. \A u \in ts : (\E t \in tracks : Of(u, t)) \/ Born(u)
    <2>1. TAKE u \in ts
    <2>2. CASE \E id \in nextId .. nextId + n - Cardinality(hit) - 1 : u = NewTrack(id)
      <3>1. PICK id \in nextId .. nextId + n - Cardinality(hit) - 1 : u = NewTrack(id)
        BY <2>2
      <3>2. u.id = id
        BY <3>1 DEF NewTrack
      <3>3. id \in nextId .. IdAfter(hit, n) - 1
        BY <3>1, <1>3 DEF IdAfter
      <3>4. QED
        BY <3>1, <3>2, <3>3
    <2>3. QED
      BY <1>1, <2>2, UpdateFields
  <1>5. \A u, v, t : Of(u, t) /\ Of(v, t) => u = v
    OBVIOUS
  <1> HIDE DEF ts
  <1>6. ASSUME NEW u \in ts, NEW v \in ts, u.id = v.id
        PROVE  u = v
    <2>1. CASE Born(u) /\ Born(v)
      BY <2>1, <1>6
    <2>2. CASE (\E t \in tracks : Of(u, t)) /\ (\E t \in tracks : Of(v, t))
      <3>1. PICK s \in tracks : Of(u, s)
        BY <2>2
      <3>2. PICK t \in tracks : Of(v, t)
        BY <2>2
      <3>3. s = t
        BY <3>1, <3>2, <1>6 DEF UniqueIds
      <3>4. QED
        BY <3>1, <3>2, <3>3, <1>5
    <2>3. ASSUME NEW x, NEW y, (\E t \in tracks : Of(x, t)), Born(y)
          PROVE  x.id # y.id
      BY <2>3, <1>2, <1>3
    <2>4. QED
      BY <1>4, <1>6, <2>1, <2>2, <2>3
  <1>7. ASSUME NEW u \in ts
        PROVE  u.id < IdAfter(hit, n)
    BY <1>2, <1>4, <1>3
  <1>8. QED
    BY <1>6, <1>7 DEF ts

\* A scan that misses a track ends what could let the track be planned with,
\* and one that meets it counts.
LEMMA SeenStep ==
  ASSUME TypeOK, NEW hit \in SUBSET tracks, NEW movers, NEW n
  PROVE  \A u \in UpdateTracks(hit, n, movers) : u.age >= 2 /\ u.missed = 0 => u.seen >= 2
  <1> SUFFICES ASSUME NEW u \in UpdateTracks(hit, n, movers), u.age >= 2, u.missed = 0
               PROVE  u.seen >= 2
    OBVIOUS
  <1>1. ASSUME NEW t \in tracks, u = Matched(t, t \in movers)
        PROVE  u.seen >= 2
    <2>1. t \in Tracks
      BY DEF TypeOK
    <2>2. UpTo(t.seen + 1, AgeCap) >= 2
      BY <2>1, CapFact, Counters DEF Tracks
    <2>3. QED
      BY <1>1, <2>1, <2>2 DEF Matched, Tracks
  <1>2. ASSUME NEW t \in tracks, u = Missed(t)
        PROVE  FALSE
    <2>1. t \in Tracks
      BY DEF TypeOK
    <2>2. u.missed = t.missed + 1 /\ t.missed \in Nat
      BY <1>2, <2>1 DEF Missed, Tracks
    <2>3. QED
      BY <2>2
  <1>3. ASSUME NEW id, u = NewTrack(id)
        PROVE  FALSE
    BY <1>3 DEF NewTrack
  <1>4. \/ \E t \in tracks : u = Matched(t, t \in movers) \/ u = Missed(t)
        \/ \E id \in nextId .. nextId + n - Cardinality(hit) - 1 : u = NewTrack(id)
    <2>1. \/ \E t \in tracks :
                  /\ u.id = t.id
                  /\ \/ u = Matched(t, t \in movers) /\ t \in hit
                     \/ u = Missed(t) /\ t \in tracks \ hit /\ t.missed < MaxMissed
          \/ \E id \in nextId .. nextId + n - Cardinality(hit) - 1 : u = NewTrack(id)
      BY UpdateFields
    <2>2. QED
      BY <2>1, Zenon
  <1>5. QED
    BY <1>1, <1>2, <1>3, <1>4, Zenon

-----------------------------------------------------------------------------
(* The steps.                                                               *)

\* The filter's table of counts has counts of ids.
LEMMA FilterTyped ==
  ASSUME TypeOK, NEW ts \in SUBSET Tracks
  PROVE  /\ DOMAIN FilterUpdate(ts) \subseteq Ids
         /\ \A i \in DOMAIN FilterUpdate(ts) : FilterUpdate(ts)[i] \in 0 .. MovingConfirmation
  <1> DEFINE counted == {t \in ts : Confirmed(t) \/ t.id \in DOMAIN observed}
             pick(i) == CHOOSE t \in counted : t.id = i
  <1>1. FilterUpdate(ts) = [i \in IdsOf(counted) |-> CountAfter(pick(i))]
    BY DEF FilterUpdate
  <1>2. IdsOf(counted) \subseteq Ids
    BY DEF IdsOf, Tracks
  <1>3. \A t : CountOf(t) \in 0 .. MovingConfirmation
    <2>1. \A i \in DOMAIN observed : observed[i] \in 0 .. MovingConfirmation
      BY Zenon DEF TypeOK
    <2>2. 0 \in 0 .. MovingConfirmation
      OBVIOUS
    <2>3. QED
      BY <2>1, <2>2, Zenon DEF CountOf
  <1>4. ASSUME NEW t
        PROVE  CountAfter(t) \in 0 .. MovingConfirmation
    BY <1>3 DEF CountAfter, UpTo
  <1> HIDE DEF counted, pick
  <1>5. QED
    BY <1>1, <1>2, <1>4

\* From update_tracks to update_slam_map, in the ROS nodes.
LEMMA PerceiveStep ==
  ASSUME IInv, NEW n \in Detections, NEW points \in BOOLEAN, Perceive(n, points)
  PROVE  /\ tracks' \subseteq Tracks /\ nextId' \in 0 .. MaxId
         /\ histories' \subseteq Ids /\ HistoriesComplete'
         /\ DOMAIN observed' \subseteq Ids
         /\ \A i \in DOMAIN observed' : observed'[i] \in 0 .. MovingConfirmation
         /\ planning' \subseteq Ids /\ dynamic' \subseteq Ids /\ mapped' \subseteq Ids
         /\ UniqueIds' /\ SeenTwice' /\ NoTrail'
         /\ planning' = IdsOf({t \in tracks' : Confirmed(t)})
  <1>1. PICK hit \in Hits(n) :
          /\ nextId + n - Cardinality(hit) <= MaxId
          /\ nextId' = IdAfter(hit, n)
          /\ \E movers \in SUBSET hit :
                /\ tracks' = UpdateTracks(hit, n, movers)
                /\ histories' = Histories(tracks') \cap IdsOf(tracks')
                /\ observed' = FilterUpdate(tracks')
                /\ planning' = IdsOf({t \in tracks' : Confirmed(t)})
                /\ dynamic' = IdsOf(PredictedMoving(tracks'))
                /\ mapped' = MapUpdate(tracks', points, dynamic')
    BY Zenon DEF Perceive
  <1>2. PICK movers \in SUBSET hit :
          /\ tracks' = UpdateTracks(hit, n, movers)
          /\ histories' = Histories(tracks') \cap IdsOf(tracks')
          /\ observed' = FilterUpdate(tracks')
          /\ planning' = IdsOf({t \in tracks' : Confirmed(t)})
          /\ dynamic' = IdsOf(PredictedMoving(tracks'))
          /\ mapped' = MapUpdate(tracks', points, dynamic')
    BY <1>1, Zenon
  <1>3. TypeOK /\ UniqueIds /\ HistoriesComplete
    BY Zenon DEF IInv
  <1>4. tracks' \subseteq Tracks
    BY <1>1, <1>2, <1>3, TracksTyped, Zenon
  <1>5. nextId' \in 0 .. MaxId
    <2>1. IdAfter(hit, n) \in nextId .. MaxId
      BY <1>1, <1>3, IdStep, Zenon
    <2>2. nextId \in 0 .. MaxId
      BY <1>3, Zenon DEF TypeOK
    <2>3. QED
      BY <1>1, <2>1, <2>2
  <1>6. UniqueIds'
    <2>1. /\ \A u, v \in tracks' : u.id = v.id => u = v
          /\ \A u \in tracks' : u.id < nextId'
      BY <1>1, <1>2, <1>3, IdsUnique, Zenon
    <2>2. QED
      BY <2>1, Zenon DEF UniqueIds
  <1>7. SeenTwice'
    <2>1. hit \in SUBSET tracks
      BY Zenon DEF Hits
    <2>2. QED
      BY <1>2, <1>3, <2>1, SeenStep, Zenon DEF SeenTwice
  <1>8. IdsOf(tracks') \subseteq Ids
    BY <1>4 DEF IdsOf, Tracks
  <1>9. HistoriesComplete'
    BY <1>2, <1>3, Zenon DEF HistoriesComplete, Histories
  <1>10. histories' \subseteq Ids
    BY <1>2, <1>8, Zenon
  <1>11. dynamic' \subseteq IdsOf(tracks') /\ planning' \subseteq IdsOf(tracks')
    BY <1>2 DEF IdsOf, PredictedMoving
  <1>12. mapped' \subseteq IdsOf(tracks')
    BY <1>2, Zenon DEF MapUpdate
  <1>13. NoTrail'
    <2>1. dynamic' \subseteq Histories(tracks')
      BY <1>3, <1>11, Zenon DEF HistoriesComplete, Histories
    <2>2. mapped' \cap (dynamic' \cap Histories(tracks')) = {}
      BY <1>2 DEF MapUpdate
    <2>3. QED
      BY <2>1, <2>2 DEF NoTrail
  <1>14. /\ DOMAIN observed' \subseteq Ids
         /\ \A i \in DOMAIN observed' : observed'[i] \in 0 .. MovingConfirmation
    BY <1>2, <1>3, <1>4, FilterTyped, Zenon
  <1>15. QED
    BY <1>2, <1>4, <1>5, <1>6, <1>7, <1>8, <1>9, <1>10, <1>11, <1>12, <1>13, <1>14, Zenon

\* The same for the algorithm's own simulation.
LEMMA DemoStep ==
  ASSUME IInv, DemoCycle
  PROVE  /\ tracks' \subseteq Tracks /\ nextId' \in 0 .. MaxId
         /\ histories' \subseteq Ids /\ HistoriesComplete'
         /\ planning' \subseteq Ids /\ dynamic' \subseteq Ids /\ mapped' \subseteq Ids
         /\ UniqueIds' /\ SeenTwice' /\ NoTrail'
  <1>1. PICK n \in Detections : \E hit \in Hits(n) :
          /\ nextId + n - Cardinality(hit) <= MaxId
          /\ nextId' = IdAfter(hit, n)
          /\ \E movers \in SUBSET hit :
                LET ts == UpdateTracks(hit, n, movers)
                IN  /\ tracks' = ts
                    /\ histories' = Histories(ts) \cap IdsOf(ts)
                    /\ dynamic' = (dynamic \cup IdsOf({t \in ts : t.age >= 2 /\ t.moving}))
                                  \cap IdsOf(ts)
                    /\ mapped' = MapUpdate(ts, TRUE, dynamic')
    BY Zenon DEF DemoCycle
  <1>2. PICK hit \in Hits(n) :
          /\ nextId + n - Cardinality(hit) <= MaxId
          /\ nextId' = IdAfter(hit, n)
          /\ \E movers \in SUBSET hit :
                /\ tracks' = UpdateTracks(hit, n, movers)
                /\ histories' = Histories(tracks') \cap IdsOf(tracks')
                /\ dynamic' \subseteq IdsOf(tracks')
                /\ mapped' = MapUpdate(tracks', TRUE, dynamic')
    BY <1>1, Zenon
  <1>3. PICK movers \in SUBSET hit :
          /\ tracks' = UpdateTracks(hit, n, movers)
          /\ histories' = Histories(tracks') \cap IdsOf(tracks')
          /\ dynamic' \subseteq IdsOf(tracks')
          /\ mapped' = MapUpdate(tracks', TRUE, dynamic')
    BY <1>2, Zenon
  <1>4. TypeOK /\ UniqueIds /\ HistoriesComplete
    BY Zenon DEF IInv
  <1>5. tracks' \subseteq Tracks
    BY <1>2, <1>3, <1>4, TracksTyped, Zenon
  <1>6. nextId' \in 0 .. MaxId
    <2>1. IdAfter(hit, n) \in nextId .. MaxId
      BY <1>2, <1>4, IdStep, Zenon
    <2>2. nextId \in 0 .. MaxId
      BY <1>4, Zenon DEF TypeOK
    <2>3. QED
      BY <1>2, <2>1, <2>2
  <1>7. UniqueIds'
    <2>1. /\ \A u, v \in tracks' : u.id = v.id => u = v
          /\ \A u \in tracks' : u.id < nextId'
      BY <1>2, <1>3, <1>4, IdsUnique, Zenon
    <2>2. QED
      BY <2>1, Zenon DEF UniqueIds
  <1>8. SeenTwice'
    <2>1. hit \in SUBSET tracks
      BY Zenon DEF Hits
    <2>2. QED
      BY <1>3, <1>4, <2>1, SeenStep, Zenon DEF SeenTwice
  <1>9. IdsOf(tracks') \subseteq Ids
    BY <1>5 DEF IdsOf, Tracks
  <1>10. HistoriesComplete' /\ histories' \subseteq Ids
    BY <1>3, <1>4, <1>9, Zenon DEF HistoriesComplete, Histories
  <1>11. mapped' \subseteq IdsOf(tracks') /\ planning' \subseteq Ids
    BY <1>3, <1>9, Zenon DEF MapUpdate, DemoCycle
  <1>12. NoTrail'
    <2>1. dynamic' \subseteq Histories(tracks')
      BY <1>3, <1>4, Zenon DEF HistoriesComplete, Histories
    <2>2. mapped' \cap (dynamic' \cap Histories(tracks')) = {}
      BY <1>3 DEF MapUpdate
    <2>3. QED
      BY <2>1, <2>2 DEF NoTrail
  <1>13. QED
    BY <1>3, <1>5, <1>6, <1>7, <1>8, <1>9, <1>10, <1>11, <1>12, Zenon

\* What a manoeuvre may become is a manoeuvre.
LEMMA BypassTyped == TypeOK => BypassAfter \subseteq Bypasses \cup {NoBypass}
  BY DEF TypeOK, BypassAfter, AfterReached, Bypasses, NoBypass, Start

\* The cycles that leave the tracks alone.
LEMMA IdleStep ==
  ASSUME IInv, NoTrail, RepeatedlySeen, PerceptionUnchanged, Visualize, program' = program
  PROVE  /\ tracks' \subseteq Tracks /\ nextId' \in 0 .. MaxId /\ histories' \subseteq Ids
         /\ DOMAIN observed' \subseteq Ids
         /\ \A i \in DOMAIN observed' : observed'[i] \in 0 .. MovingConfirmation
         /\ planning' \subseteq Ids /\ dynamic' \subseteq Ids /\ mapped' \subseteq Ids
         /\ published' \subseteq Ids /\ shown' \subseteq Ids
         /\ UniqueIds' /\ SeenTwice' /\ HistoriesComplete' /\ NoTrail' /\ RepeatedlySeen'
  BY Zenon DEF IInv, TypeOK, UniqueIds, SeenTwice, HistoriesComplete, NoTrail, RepeatedlySeen,
              PerceptionUnchanged, Visualize

\* What is planned with is confirmed, and what is confirmed was seen twice.
LEMMA ConfirmedSeen ==
  ASSUME TypeOK, UniqueIds, SeenTwice, planning = IdsOf({t \in tracks : Confirmed(t)})
  PROVE  RepeatedlySeen
  <1> SUFFICES ASSUME ConfirmationAge > 1, NEW t \in tracks, t.id \in planning
               PROVE  t.seen >= 2
    BY DEF RepeatedlySeen
  <1>1. PICK s \in tracks : Confirmed(s) /\ s.id = t.id
    BY DEF IdsOf
  <1>2. s = t
    BY <1>1, Zenon DEF UniqueIds
  <1>3. t.age >= ConfirmationAge /\ t.missed = 0 /\ t.age \in Nat
    BY <1>1, <1>2 DEF Confirmed, TypeOK, Tracks
  <1>4. QED
    BY <1>3 DEF SeenTwice

\* The invariant that is proved as a whole.
Whole == IInv /\ NoTrail /\ RepeatedlySeen

LEMMA InitWhole == Init => Whole
  <1> SUFFICES ASSUME Init
               PROVE  Whole
    OBVIOUS
  <1>1. TypeOK
    <2>1. program \in {"m1", "sim", "demo"} /\ bypassOn \in BOOLEAN
      BY Zenon DEF Init, M1Start, SimStart, DemoStart
    <2>2. nextId \in 0 .. MaxId /\ DOMAIN observed = {}
      BY DEF Init
    <2>3. QED
      BY <2>1, <2>2, Zenon DEF Init, TypeOK
  <1>2. UniqueIds /\ SeenTwice /\ HistoriesComplete /\ NoTrail /\ RepeatedlySeen
    BY DEF Init, UniqueIds, SeenTwice, HistoriesComplete, NoTrail, RepeatedlySeen, IdsOf
  <1>3. QED
    BY <1>1, <1>2, Zenon DEF Whole, IInv

LEMMA StepWhole == Whole /\ [Next]_vars => Whole'
  <1> SUFFICES ASSUME Whole, [Next]_vars
               PROVE  Whole'
    OBVIOUS
  <1>1. IInv /\ TypeOK /\ NoTrail /\ RepeatedlySeen
    BY Zenon DEF Whole, IInv
  <1>2. ASSUME program' = program, bypassOn' = bypassOn, bypass' \in Bypasses \cup {NoBypass},
               PerceptionUnchanged, Visualize
        PROVE  Whole'
    <2>1. program' \in {"m1", "sim", "demo"} /\ bypassOn' \in BOOLEAN
      BY <1>1, <1>2, Zenon DEF TypeOK
    <2>2. QED
      BY <1>1, <1>2, <2>1, IdleStep, Zenon DEF Whole, IInv, TypeOK
  <1>3. ASSUME NEW n \in Detections, NEW points \in BOOLEAN, Perceive(n, points),
               program' = program, bypassOn' = bypassOn, bypass' \in Bypasses \cup {NoBypass},
               Visualize
        PROVE  Whole'
    <2>1. program' \in {"m1", "sim", "demo"} /\ bypassOn' \in BOOLEAN
      BY <1>1, <1>3, Zenon DEF TypeOK
    <2>2. /\ tracks' \subseteq Tracks /\ nextId' \in 0 .. MaxId
          /\ histories' \subseteq Ids /\ HistoriesComplete'
          /\ DOMAIN observed' \subseteq Ids
          /\ \A i \in DOMAIN observed' : observed'[i] \in 0 .. MovingConfirmation
          /\ planning' \subseteq Ids /\ dynamic' \subseteq Ids /\ mapped' \subseteq Ids
          /\ UniqueIds' /\ SeenTwice' /\ NoTrail'
          /\ planning' = IdsOf({t \in tracks' : Confirmed(t)})
      BY <1>1, <1>3, PerceiveStep, Zenon
    <2>3. published' \subseteq Ids /\ shown' \subseteq Ids
      BY <1>1, <1>3, <2>2, Zenon DEF Visualize, TypeOK
    <2>4. TypeOK'
      BY <1>3, <2>1, <2>2, <2>3, Zenon DEF TypeOK
    <2>5. RepeatedlySeen'
      <3>1. (TypeOK /\ UniqueIds /\ SeenTwice
               /\ planning = IdsOf({t \in tracks : Confirmed(t)}))'
        BY <2>2, <2>4, Zenon DEF IdsOf, Confirmed
      <3>2. QED
        BY <3>1, ConfirmedSeen, PTL
    <2>6. QED
      BY <2>2, <2>4, <2>5, Zenon DEF Whole, IInv
  <1>4. NoBypass \in Bypasses \cup {NoBypass} /\ BypassAfter \subseteq Bypasses \cup {NoBypass}
        /\ bypass \in Bypasses \cup {NoBypass}
    BY <1>1, BypassTyped, Zenon DEF TypeOK
  <1>5. CASE EmergencyStop
    BY <1>2, <1>4, <1>5, Zenon DEF EmergencyStop
  <1>6. CASE BypassDrive
    BY <1>2, <1>4, <1>6, Zenon DEF BypassDrive
  <1>7. CASE M1Cycle
    BY <1>3, <1>4, <1>7, Zenon DEF M1Cycle
  <1>8. CASE SimStop
    <2>1. bypass' = bypass
      BY <1>8, Zenon DEF SimStop
    <2>2. QED
      BY <1>2, <1>4, <1>8, <2>1, Zenon DEF SimStop
  <1>9. ASSUME NEW saturated \in BOOLEAN, SimCycle(saturated)
        PROVE  Whole'
    <2>1. bypass' = bypass /\ program' = program /\ bypassOn' = bypassOn /\ Visualize
      BY <1>9, Zenon DEF SimCycle
    <2>2. PICK n \in Detections : Perceive(n, ~saturated)
      BY <1>9, Zenon DEF SimCycle
    <2>3. (~saturated) \in BOOLEAN
      BY Zenon
    <2>4. QED
      BY <1>3, <1>4, <2>1, <2>2, <2>3, Zenon
  <1>10. CASE DemoCycle
    <2>1. /\ program = "demo" /\ program' = program /\ bypassOn' = bypassOn
          /\ bypass' = bypass /\ observed' = observed
          /\ published' = published /\ shown' = shown
      BY <1>10, Zenon DEF DemoCycle
    <2>2. RepeatedlySeen'
      BY <2>1 DEF RepeatedlySeen
    <2>3. /\ tracks' \subseteq Tracks /\ nextId' \in 0 .. MaxId
          /\ histories' \subseteq Ids /\ HistoriesComplete'
          /\ planning' \subseteq Ids /\ dynamic' \subseteq Ids /\ mapped' \subseteq Ids
          /\ UniqueIds' /\ SeenTwice' /\ NoTrail'
      BY <1>1, <1>10, DemoStep, Zenon
    <2>4. TypeOK'
      BY <1>1, <2>1, <2>3, Zenon DEF TypeOK
    <2>5. QED
      BY <2>2, <2>3, <2>4, Zenon DEF Whole, IInv
  <1>11. CASE UNCHANGED vars
    BY <1>1, <1>11, Zenon
    DEF vars, Whole, IInv, TypeOK, UniqueIds, SeenTwice, HistoriesComplete, NoTrail, RepeatedlySeen
  <1>12. QED
    BY <1>5, <1>6, <1>7, <1>8, <1>9, <1>10, <1>11, Zenon DEF Next

-----------------------------------------------------------------------------
(* The theorems.                                                            *)

\* The strengthened invariant holds in every reachable state.
THEOREM Inductive == Spec => []Whole
  BY InitWhole, StepWhole, PTL DEF Spec

\* Every variable of the cycle stays in its type.
THEOREM TypeCorrect == Spec => []TypeOK
  <1>1. Whole => TypeOK
    BY Zenon DEF Whole, IInv
  <1>2. QED
    BY <1>1, Inductive, PTL

\* Ids, by which histories, counts and markers are kept, name one track each.
THEOREM IdsNameOneTrack == Spec => []UniqueIds
  <1>1. Whole => UniqueIds
    BY Zenon DEF Whole, IInv
  <1>2. QED
    BY <1>1, Inductive, PTL

\* The nodes plan around nothing that was seen once.
THEOREM PlannedWereSeen == Spec => []RepeatedlySeen
  <1>1. Whole => RepeatedlySeen
    BY Zenon DEF Whole
  <1>2. QED
    BY <1>1, Inductive, PTL

\* A moving object leaves nothing of itself in the map.
THEOREM TrailsSwept == Spec => []NoTrail
  <1>1. Whole => NoTrail
    BY Zenon DEF Whole
  <1>2. QED
    BY <1>1, Inductive, PTL

\* A manoeuvre keeps its side and never falls back to an earlier phase.
THEOREM BypassCommitted == Spec => CommittedBypass
  <1> DEFINE Commits == bypass # NoBypass /\ bypass' # NoBypass =>
                            /\ bypass'.side = bypass.side
                            /\ bypass.phase = "pass" => bypass'.phase # "lane"
                            /\ bypass.phase = "exit" => bypass'.phase = "exit"
  <1>1. TypeOK /\ [Next]_vars => [Commits]_vars
    <2> SUFFICES ASSUME TypeOK, Next, bypass # NoBypass, bypass' # NoBypass
                 PROVE  Commits
      OBVIOUS
    <2>1. bypass \in Bypasses
      BY DEF TypeOK
    <2>2. CASE bypass' \in BypassAfter
      <3>1. bypass' = bypass \/ bypass' = AfterReached
        BY <2>2 DEF BypassAfter
      <3>2. CASE bypass' = AfterReached
        BY <2>1, <3>2 DEF AfterReached, Bypasses, NoBypass
      <3>3. CASE bypass' = bypass
        BY <3>3
      <3>4. QED
        BY <3>1, <3>2, <3>3
    <2>3. CASE bypass' = bypass
      BY <2>3
    <2>4. bypass' \in BypassAfter \/ bypass' = bypass
      BY Zenon DEF Next, EmergencyStop, BypassDrive, M1Cycle, SimStop, SimCycle, DemoCycle
    <2>5. QED
      BY <2>2, <2>3, <2>4
  <1>2. QED
    BY <1>1, TypeCorrect, PTL DEF Spec, CommittedBypass

\* The markers on display are those the node will delete.
THEOREM MarkersKnown == Spec => []MarkersRemembered
  <1>1. Init => MarkersRemembered
    BY DEF Init, MarkersRemembered
  <1>2. MarkersRemembered /\ [Next]_vars => MarkersRemembered'
    BY DEF MarkersRemembered, Next, EmergencyStop, BypassDrive, M1Cycle, SimStop, SimCycle,
           DemoCycle, Visualize, vars
  <1>3. QED
    BY <1>1, <1>2, PTL DEF Spec
=============================================================================
