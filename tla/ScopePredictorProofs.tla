------------------------ MODULE ScopePredictorProofs ------------------------
(***************************************************************************)
(* Theorems about ScopePredictor for every length and period of a history, *)
(* every tolerance, buffer and bound on the stamps and the resets.         *)
(***************************************************************************)
EXTENDS ScopePredictor, FiniteSetTheorems, WellFoundedInduction, TLAPS

USE HistoryAssumption, StreamAssumption, NoneAssumption DEF Times, Gens

(***************************************************************************)
(* The scans.                                                              *)
(***************************************************************************)
LEMMA LeastOfNaturals ==
  ASSUME NEW T, T \subseteq Nat, T # {}
  PROVE  \E x \in T : \A y \in T : x <= y
  <1> DEFINE R == {ss \in Nat \X Nat : ss[1] < ss[2]}
  <1>1. IsWellFoundedOn(R, Nat)
    BY NatLessThanWellFounded DEF OpToRel
  <1>2. \E x \in T : \A y \in T : ~(<<y, x>> \in R)
    <2> HIDE DEF R
    <2>1. QED
      BY <1>1, WFMin
  <1>3. \A x, y \in T : ~(<<y, x>> \in R) => x <= y
    OBVIOUS
  <1>4. QED
    BY <1>2, <1>3

\* The oldest and the newest scan of a buffer that is not empty.
LEMMA Extremes ==
  ASSUME scans \subseteq Times, scans # {}
  PROVE  /\ Min(scans) \in scans /\ \A s \in scans : Min(scans) <= s
         /\ Max(scans) \in scans /\ \A s \in scans : s <= Max(scans)
  <1>1. \E x \in scans : \A y \in scans : x <= y
    <2>1. scans \subseteq Nat
      OBVIOUS
    <2>2. QED
      BY <2>1, LeastOfNaturals, Zenon
  <1>2. \E x \in scans : \A y \in scans : x >= y
    <2> DEFINE T == {MaxTime - s : s \in scans}
    <2>1. T \subseteq Nat /\ T # {}
      <3>1. \A s \in scans : MaxTime - s \in Nat
        OBVIOUS
      <3>2. PICK s \in scans : TRUE
        OBVIOUS
      <3>3. QED
        BY <3>1, <3>2
    <2>2. PICK m \in T : \A y \in T : m <= y
      BY <2>1, LeastOfNaturals
    <2>3. PICK x \in scans : m = MaxTime - x
      BY <2>2
    <2>4. ASSUME NEW y \in scans
          PROVE  x >= y
      <3>1. MaxTime - y \in T /\ m <= MaxTime - y
        BY <2>2
      <3>2. QED
        BY <2>3, <3>1
    <2>5. QED
      BY <2>4
  <1>3. QED
    BY <1>1, <1>2 DEF Min, Max

\* The scan a is preferred to the scan s for the slot t.
Preferred(a, s, t) ==
    \/ Distance(a, t) < Distance(s, t)
    \/ Distance(a, t) = Distance(s, t) /\ a < s

LEMMA NearestPreferred ==
  ASSUME scans \subseteq Times, scans # {}, NEW t \in Int
  PROVE  /\ Nearest(t) \in scans
         /\ \A r \in scans \ {Nearest(t)} : Preferred(Nearest(t), r, t)
  <1> DEFINE D == {Distance(s, t) : s \in scans}
  <1>1. D \subseteq Nat /\ D # {}
    BY DEF Distance
  <1>2. PICK d \in D : \A e \in D : d <= e
    BY <1>1, LeastOfNaturals
  <1> DEFINE near == {s \in scans : Distance(s, t) = d}
  <1>3. near \subseteq Nat /\ near # {}
    BY <1>2
  <1>4. PICK a \in near : \A s \in near : a <= s
    BY <1>3, LeastOfNaturals
  <1>5. a \in scans /\ \A r \in scans \ {a} : Preferred(a, r, t)
    <2>1. ASSUME NEW r \in scans \ {a}
          PROVE  Preferred(a, r, t)
      <3>1. Distance(a, t) = d /\ d <= Distance(r, t) /\ d \in Nat /\ Distance(r, t) \in Nat
        BY <1>1, <1>2, <1>4
      <3>2. CASE Distance(r, t) = d
        <4>1. a <= r /\ a # r /\ a \in Nat /\ r \in Nat
          BY <1>3, <1>4, <3>2
        <4>2. QED
          BY <3>1, <3>2, <4>1 DEF Preferred
      <3>3. QED
        BY <3>1, <3>2 DEF Preferred
    <2>2. QED
      BY <1>4, <2>1
  <1>6. Nearest(t) = CHOOSE s \in scans : \A r \in scans \ {s} : Preferred(s, r, t)
    BY Zenon DEF Nearest, Preferred
  <1>7. QED
    BY <1>5, <1>6

\* A slot that prefers the earlier of two scans lies in the earlier half of what
\* is between them, and one that prefers the later in the later half.
LEMMA Halves ==
  ASSUME NEW a \in Nat, NEW b \in Nat, NEW t \in Int, a < b
  PROVE  /\ Preferred(a, b, t) <=> 2 * t <= a + b
         /\ Preferred(b, a, t) <=> 2 * t > a + b
  BY DEF Preferred, Distance

-----------------------------------------------------------------------------
(***************************************************************************)
(* Types.                                                                  *)
(***************************************************************************)
BufferTyped ==
    /\ scans \subseteq Times
    /\ \A s, t \in scans : s - t <= Buffer
    /\ generation \in Gens

FlagsTyped == terminal \in BOOLEAN /\ spinning \in BOOLEAN /\ ended \in BOOLEAN

PipelineTyped ==
    /\ input \in Jobs \cup {None} /\ busy \in Jobs \cup {None}
    /\ output \in Results \cup {None} /\ shown \in Jobs \cup {None}

SamplesTyped == samples \in [PoseStreams -> 0 .. 2]

AnchorTyped == nextAnchor \in Nat \cup {None}

\* What a scan, or a pose, does to the buffer and the generation.
LEMMA ScanEffect ==
  ASSUME BufferTyped, NEW stamp \in Times, ScanCallback(stamp)
  PROVE  /\ scans' \subseteq Times /\ stamp \in scans'
         /\ \/ /\ generation' = generation + 1 /\ generation' \in Gens /\ nextAnchor' = None
               /\ scans' = {stamp}
            \/ /\ generation' = generation /\ nextAnchor' = nextAnchor
               /\ scans' = {v \in scans \cup {stamp} : v >= stamp - Buffer}
               /\ \A s \in scans : s < stamp
  <1>1. CASE \E s \in scans : stamp <= s
    BY <1>1 DEF ScanCallback, TimeReset, BufferTyped
  <1>2. CASE ~\E s \in scans : stamp <= s
    <2>1. \A s \in scans : s < stamp
      BY <1>2 DEF BufferTyped
    <2>2. /\ generation' = generation /\ nextAnchor' = nextAnchor
          /\ scans' = {v \in scans \cup {stamp} : v >= stamp - Buffer}
      BY <1>2, Zenon DEF ScanCallback, Trimmed
    <2>3. scans \subseteq Times /\ stamp \in Nat /\ stamp >= stamp - Buffer
      BY DEF BufferTyped
    <2>4. scans' \subseteq Times /\ stamp \in scans'
      BY <2>2, <2>3
    <2>5. QED
      BY <2>1, <2>2, <2>4
  <1>3. QED
    BY <1>1, <1>2

LEMMA PoseEffect ==
  ASSUME BufferTyped, NEW p \in PoseStreams, PoseCallback(p)
  PROVE  /\ UNCHANGED <<scans, workerVars, shown, terminal, spinning>>
         /\ \/ generation' = generation + 1 /\ generation' \in Gens /\ nextAnchor' = None
            \/ generation' = generation /\ nextAnchor' = nextAnchor
  BY DEF PoseCallback, TimeReset, BufferTyped

LEMMA BufferStep == BufferTyped /\ [Next]_vars => BufferTyped'
  <1> SUFFICES ASSUME BufferTyped, [Next]_vars PROVE BufferTyped'
    OBVIOUS
  <1>1. ASSUME NEW stamp \in Times, ScanCallback(stamp)
        PROVE  BufferTyped'
    <2>1. scans' \subseteq Times /\ generation' \in Gens
      BY <1>1, ScanEffect DEF BufferTyped
    <2>2. scans' = {stamp} \/ \A s \in scans' : stamp - Buffer <= s /\ s <= stamp
      BY <1>1, ScanEffect DEF BufferTyped
    <2>3. \A s, t \in scans' : s - t <= Buffer
      BY <2>1, <2>2
    <2>4. QED
      BY <2>1, <2>3 DEF BufferTyped
  <1>2. ASSUME NEW p \in PoseStreams, PoseCallback(p)
        PROVE  BufferTyped'
    BY <1>2, PoseEffect DEF BufferTyped
  <1>3. CASE UNCHANGED <<scans, generation>>
    BY <1>3 DEF BufferTyped
  <1>4. QED
    BY <1>1, <1>2, <1>3
    DEF Next, Streams, Schedule, PublishResult, DestroyNode, Worker, WorkerTake, WorkerPut,
        WorkerEnd, Terminated, vars, streamVars, jobVars

LEMMA FlagsStep == FlagsTyped /\ [Next]_vars => FlagsTyped'
  BY Zenon
  DEF FlagsTyped, Next, Streams, ScanCallback, PoseCallback, Schedule, PublishResult, DestroyNode,
      Worker, WorkerTake, WorkerPut, WorkerEnd, Terminated, vars, workerVars

LEMMA SamplesStep == SamplesTyped /\ [Next]_vars => SamplesTyped'
  <1> SUFFICES ASSUME SamplesTyped, [Next]_vars PROVE SamplesTyped'
    OBVIOUS
  <1>1. ASSUME NEW p \in PoseStreams, PoseCallback(p)
        PROVE  SamplesTyped'
    BY <1>1 DEF PoseCallback, SamplesTyped
  <1>2. CASE UNCHANGED samples
    BY <1>2 DEF SamplesTyped
  <1>3. QED
    BY <1>1, <1>2
    DEF Next, Streams, ScanCallback, Schedule, PublishResult, DestroyNode, Worker, WorkerTake,
        WorkerPut, WorkerEnd, Terminated, vars, streamVars

(***************************************************************************)
(* What a timer's call of the scheduler does.                              *)
(***************************************************************************)
\* The slot a new job is built for lies on or after the next anchor, and the
\* anchor moves past it.
NewJob(t) ==
    /\ t \in Nat
    /\ nextAnchor # None => nextAnchor <= t
    /\ nextAnchor' = t + Period
    /\ scans # {} /\ \A s \in scans : s < t + Period
    /\ HasHistory(t)
    /\ input' = [gen |-> generation, anchor |-> Nearest(t)]

LEMMA ScheduleEffect ==
  ASSUME BufferTyped, AnchorTyped, Schedule
  PROVE  /\ UNCHANGED <<scans, generation, busy, output, shown>>
         /\ \/ nextAnchor' = nextAnchor /\ input' = input
            \/ /\ nextAnchor' \in Nat /\ input' = input
               /\ nextAnchor # None => nextAnchor <= nextAnchor'
               /\ nextAnchor' # nextAnchor => \A s \in scans : s < nextAnchor'
            \/ \E t \in Nat : NewJob(t)
  <1>1. UNCHANGED <<scans, generation, busy, output, shown>> /\ scans # {} /\ ScheduleJob
    BY DEF Schedule, MaySchedule, streamVars
  <1>2. /\ scans \subseteq Times /\ Max(scans) \in Times /\ Min(scans) \in Times
        /\ \A s \in scans : s <= Max(scans)
    BY <1>1, Extremes DEF BufferTyped
  <1>3. (SeqLen - 1) * Period \in Nat
    OBVIOUS
  <1>4. Anchor \in Nat /\ (nextAnchor # None => Anchor = nextAnchor)
    BY <1>2, <1>3 DEF Anchor, AnchorTyped
  <1>5. CASE nextAnchor' = Anchor /\ Max(scans) + Tolerance < Anchor /\ input' = input
    BY <1>1, <1>2, <1>4, <1>5
  <1>6. CASE /\ nextAnchor' = Anchor + Steps * Period + Period
             /\ \/ UNCHANGED input
                \/ /\ HasHistory(Anchor + Steps * Period)
                   /\ input' = [gen |-> generation, anchor |-> Nearest(Anchor + Steps * Period)]
    <2> DEFINE t == Anchor + Steps * Period
    <2>1. Steps \in Nat /\ (Max(scans) - Anchor < Steps * Period + Period)
      BY <1>2, <1>4 DEF Steps
    <2>2. Steps * Period \in Nat
      BY <2>1
    <2>3. t \in Nat /\ Anchor <= t /\ \A s \in scans : s < t + Period
      BY <1>2, <1>4, <2>1, <2>2
    <2>4. nextAnchor' = t + Period
      BY <1>6
    <2> HIDE DEF t
    <2>5. nextAnchor # None => nextAnchor <= t /\ nextAnchor <= t + Period
      BY <1>4, <2>3
    <2>6. CASE UNCHANGED input
      BY <1>1, <2>3, <2>4, <2>5, <2>6
    <2>7. CASE HasHistory(t) /\ input' = [gen |-> generation, anchor |-> Nearest(t)]
      BY <1>1, <2>3, <2>4, <2>5, <2>7 DEF NewJob
    <2>8. QED
      BY <1>6, <2>6, <2>7 DEF t
  <1>7. QED
    BY <1>1, <1>5, <1>6, Zenon DEF ScheduleJob
-----------------------------------------------------------------------------
(***************************************************************************)
(* The order of the jobs.  A job of the current generation was built for a *)
(* slot t that is behind the next anchor and for which it is nearer than   *)
(* any older scan, and it is not ahead of the buffer.                      *)
(***************************************************************************)
BuiltFor(anchor, t) ==
    /\ t + Period <= nextAnchor
    /\ \A s \in scans : s < anchor => 2 * t > s + anchor

Behind(anchor) ==
    /\ nextAnchor # None
    /\ \E s \in scans : anchor <= s
    /\ anchor \in scans \/ \A s \in scans : anchor < s
    /\ \E t \in Nat : BuiltFor(anchor, t)

\* A job, or None.
Kept(j) ==
    j # None => /\ j.anchor \in Times /\ j.gen \in Gens /\ j.gen <= generation
                /\ j.gen = generation => Behind(j.anchor)

AllKept == Kept(input) /\ Kept(busy) /\ Kept(output) /\ Kept(shown)

OrderInv == BufferTyped /\ AnchorTyped /\ AllKept /\ PipelineInOrder

\* The buffer and the scheduler's own progress keep what is known of a job.
LEMMA KeptByBuffer ==
  ASSUME BufferTyped, BufferTyped', AnchorTyped, NEW j, Kept(j),
         \/ UNCHANGED <<scans, generation>> /\ nextAnchor' \in Nat
            /\ (nextAnchor # None => nextAnchor <= nextAnchor')
         \/ UNCHANGED <<scans, generation, nextAnchor>>
         \/ generation' = generation + 1
         \/ \E stamp \in Times :
               /\ UNCHANGED <<generation, nextAnchor>>
               /\ scans' = {v \in scans \cup {stamp} : v >= stamp - Buffer}
               /\ \A s \in scans : s < stamp
  PROVE  j # None => /\ j.anchor \in Times /\ j.gen \in Gens /\ j.gen <= generation'
                     /\ j.gen = generation' => Behind(j.anchor)'
  <1> SUFFICES ASSUME j # None
               PROVE  /\ j.anchor \in Times /\ j.gen \in Gens /\ j.gen <= generation'
                      /\ j.gen = generation' => Behind(j.anchor)'
    OBVIOUS
  <1> DEFINE a == j.anchor
  <1>1. /\ a \in Times /\ j.gen \in Gens /\ j.gen <= generation
        /\ j.gen = generation => Behind(a)
    BY DEF Kept
  <1>2. generation \in Gens /\ scans \subseteq Times
    BY DEF BufferTyped
  <1> HIDE DEF a
  <1>3. CASE generation' = generation + 1
    BY <1>1, <1>2, <1>3 DEF a
  <1>4. ASSUME generation' = generation, j.gen = generation,
               /\ UNCHANGED scans
               /\ nextAnchor' \in Nat /\ nextAnchor <= nextAnchor'
        PROVE  Behind(a)'
    <2>1. PICK t \in Nat : BuiltFor(a, t)
      BY <1>1, <1>4 DEF Behind
    <2>2. nextAnchor \in Nat
      BY <1>1, <1>4 DEF Behind, AnchorTyped
    <2>3. BuiltFor(a, t)'
      BY <1>4, <2>1, <2>2 DEF BuiltFor
    <2>4. QED
      BY <1>1, <1>4, <2>3 DEF Behind
  <1>5. ASSUME generation' = generation, j.gen = generation, UNCHANGED nextAnchor,
               NEW stamp \in Times,
               scans' = {v \in scans \cup {stamp} : v >= stamp - Buffer},
               \A s \in scans : s < stamp
        PROVE  Behind(a)'
    <2>1. PICK t \in Nat : BuiltFor(a, t)
      BY <1>1, <1>5 DEF Behind
    <2>2. a < stamp /\ stamp \in scans'
      <3>1. PICK s \in scans : a <= s
        BY <1>1, <1>5 DEF Behind
      <3>2. QED
        BY <1>1, <1>2, <1>5, <3>1
    <2>3. \A s \in scans' : s = stamp \/ s \in scans
      BY <1>5
    <2>4. BuiltFor(a, t)'
      BY <1>1, <1>2, <1>5, <2>1, <2>2, <2>3 DEF BuiltFor
    <2>5. a \in scans' \/ \A s \in scans' : a < s
      <3>1. CASE a \in scans
        BY <1>1, <1>2, <1>5, <2>2, <2>3, <3>1
      <3>2. CASE \A s \in scans : a < s
        BY <2>2, <2>3, <3>2
      <3>3. QED
        BY <1>1, <1>5, <3>1, <3>2 DEF Behind
    <2>6. QED
      BY <1>1, <1>2, <1>5, <2>2, <2>4, <2>5 DEF Behind
  <1>6. CASE UNCHANGED <<scans, generation, nextAnchor>>
    <2>1. Behind(a) => Behind(a)'
      BY <1>6 DEF Behind, BuiltFor
    <2>2. QED
      BY <1>1, <1>6, <2>1 DEF a
  <1>7. generation' = generation /\ j.gen = generation => nextAnchor # None
    BY <1>1 DEF Behind
  <1>8. QED
    BY <1>1, <1>3, <1>4, <1>5, <1>6, <1>7 DEF a

\* A new job comes after every job of its generation, if a history has more
\* than one slot: a scan near two slots is refused.
LEMMA NewJobLast ==
  ASSUME SeqLen > 1, BufferTyped, AnchorTyped, NEW t \in Nat, NewJob(t),
         NEW a \in Times, Behind(a)
  PROVE  a < Nearest(t)
  <1> DEFINE b == Nearest(t)
             c == Nearest(t - Period)
  <1>1. PICK u \in Nat : BuiltFor(a, u)
    BY DEF Behind
  <1>2. /\ scans \subseteq Times /\ scans # {}
        /\ nextAnchor \in Nat /\ u + Period <= nextAnchor /\ nextAnchor <= t
        /\ \A s \in scans : s < a => 2 * u > s + a
    BY <1>1 DEF BufferTyped, AnchorTyped, NewJob, Behind, BuiltFor
  <1>3. /\ b \in scans /\ \A r \in scans \ {b} : Preferred(b, r, t)
        /\ c \in scans /\ \A r \in scans \ {c} : Preferred(c, r, t - Period)
    BY <1>2, NearestPreferred
  <1>4. b # c
    <2>1. t \in Slots(t) /\ t - Period \in Slots(t) /\ t # t - Period
      <3>1. 0 \in 0 .. SeqLen - 1 /\ 1 \in 0 .. SeqLen - 1
            /\ t - 0 * Period = t /\ t - 1 * Period = t - Period
        OBVIOUS
      <3>2. QED
        BY <3>1 DEF Slots
    <2>2. QED
      BY <2>1 DEF NewJob, HasHistory, Unique
  <1> HIDE DEF b, c
  <1>5. b \in Nat /\ c \in Nat /\ a \in Nat
    BY <1>2, <1>3
  <1>6. CASE a \notin scans
    BY <1>3, <1>6 DEF Behind, b
  <1>7. CASE a \in scans
    <2>1. ASSUME b < a PROVE FALSE
      <3>1. Preferred(b, a, t)
        BY <1>3, <1>5, <1>7, <2>1
      <3>2. 2 * t <= a + b
        BY <1>5, <2>1, <3>1, Halves
      <3>3. QED
        BY <1>2, <1>3, <1>5, <2>1, <3>2
    <2>2. ASSUME b = a PROVE FALSE
      <3>1. CASE c < a
        <4>1. 2 * (t - Period) <= c + a
          BY <1>3, <1>5, <1>7, <3>1, Halves
        <4>2. QED
          BY <1>2, <1>3, <1>5, <3>1, <4>1
      <3>2. CASE a < c
        <4>1. 2 * (t - Period) > a + c
          BY <1>3, <1>5, <1>7, <3>2, Halves
        <4>2. 2 * t <= a + c
          BY <1>3, <1>5, <2>2, <3>2, Halves
        <4>3. QED
          BY <1>5, <4>1, <4>2
      <3>3. QED
        BY <1>4, <1>5, <2>2, <3>1, <3>2
    <2>3. QED
      BY <1>5, <2>1, <2>2 DEF b
  <1>8. QED
    BY <1>6, <1>7

\* And it is known of it what is known of the others.
LEMMA NewJobBehind ==
  ASSUME BufferTyped, NEW t \in Nat, NewJob(t), UNCHANGED scans, NEW b, b = Nearest(t)
  PROVE  b \in Times /\ Behind(b)'
  <1>1. scans \subseteq Times /\ scans # {} /\ nextAnchor' = t + Period
    BY DEF BufferTyped, NewJob
  <1>2. b \in scans /\ \A r \in scans \ {b} : Preferred(b, r, t)
    BY <1>1, NearestPreferred
  <1>3. \A s \in scans : s < b => 2 * t > s + b
    BY <1>1, <1>2, Halves
  <1>4. BuiltFor(b, t)' /\ nextAnchor' # None
    BY <1>1, <1>3 DEF BuiltFor
  <1>5. QED
    BY <1>1, <1>2, <1>4 DEF Behind

(***************************************************************************)
(* The steps.                                                              *)
(***************************************************************************)
LEMMA AnchorStep ==
  ASSUME BufferTyped, AnchorTyped, [Next]_vars
  PROVE  AnchorTyped'
  <1>1. CASE Schedule
    BY <1>1, ScheduleEffect DEF AnchorTyped, NewJob
  <1>2. ASSUME NEW stamp \in Times, ScanCallback(stamp)
        PROVE  AnchorTyped'
    BY <1>2, ScanEffect DEF AnchorTyped
  <1>3. ASSUME NEW p \in PoseStreams, PoseCallback(p)
        PROVE  AnchorTyped'
    BY <1>3, PoseEffect DEF AnchorTyped
  <1>4. CASE UNCHANGED nextAnchor
    BY <1>4 DEF AnchorTyped
  <1>5. QED
    BY <1>1, <1>2, <1>3, <1>4
    DEF Next, Streams, PublishResult, DestroyNode, Worker, WorkerTake, WorkerPut, WorkerEnd,
        Terminated, vars, jobVars

\* A step that keeps the jobs where they are.
LEMMA JobsStay ==
  ASSUME OrderInv, BufferTyped', UNCHANGED <<input, busy, output, shown>>,
         \/ UNCHANGED <<scans, generation>> /\ nextAnchor' \in Nat
            /\ (nextAnchor # None => nextAnchor <= nextAnchor')
         \/ UNCHANGED <<scans, generation, nextAnchor>>
         \/ generation' = generation + 1
         \/ \E stamp \in Times :
               /\ UNCHANGED <<generation, nextAnchor>>
               /\ scans' = {v \in scans \cup {stamp} : v >= stamp - Buffer}
               /\ \A s \in scans : s < stamp
  PROVE  AllKept' /\ PipelineInOrder'
  <1>1. BufferTyped /\ AnchorTyped /\ AllKept /\ PipelineInOrder
    BY DEF OrderInv
  <1>2. ASSUME NEW j, Kept(j)
        PROVE  j # None => /\ j.anchor \in Times /\ j.gen \in Gens /\ j.gen <= generation'
                           /\ j.gen = generation' => Behind(j.anchor)'
    BY <1>1, <1>2, KeptByBuffer
  <1>3. PICK i, b, o, s : i = input /\ b = busy /\ o = output /\ s = shown
    OBVIOUS
  <1>4. Kept(i) /\ Kept(b) /\ Kept(o) /\ Kept(s)
    BY <1>1, <1>3 DEF AllKept
  <1>5. i = input' /\ b = busy' /\ o = output' /\ s = shown'
    BY <1>3
  <1>6. Kept(input)' /\ Kept(busy)' /\ Kept(output)' /\ Kept(shown)'
    BY <1>2, <1>4, <1>5 DEF Kept
  <1>7. PipelineInOrder'
    BY <1>1 DEF PipelineInOrder, InOrder
  <1>8. QED
    BY <1>6, <1>7 DEF AllKept

\* A step of a thread that hands a job on or drops one.
LEMMA JobsMove ==
  ASSUME OrderInv, UNCHANGED <<scans, generation, nextAnchor>>,
         PublishResult \/ DestroyNode \/ WorkerTake \/ WorkerPut
  PROVE  AllKept' /\ PipelineInOrder'
  <1>1. AllKept /\ PipelineInOrder
    BY DEF OrderInv
  <1>2. \A a : Behind(a)' <=> Behind(a)
    BY DEF Behind, BuiltFor
  <1>3. ASSUME NEW j, Kept(j), NEW k, k = None \/ (j # None /\ k.gen = j.gen /\ k.anchor = j.anchor)
        PROVE  k # None => /\ k.anchor \in Times /\ k.gen \in Gens /\ k.gen <= generation'
                           /\ k.gen = generation' => Behind(k.anchor)'
    BY <1>2, <1>3 DEF Kept
  <1>4. PICK i, b, o, s, in, bn, on, sn :
           /\ i = input /\ b = busy /\ o = output /\ s = shown
           /\ in = input' /\ bn = busy' /\ on = output' /\ sn = shown'
    OBVIOUS
  <1>5. /\ in \in {i, None}
        /\ bn \in {b, None} \/ (bn = i /\ i # None)
        /\ on \in {o, None} \/ (b # None /\ on.gen = b.gen /\ on.anchor = b.anchor)
        /\ sn = s \/ (o # None /\ sn.gen = o.gen /\ sn.anchor = o.anchor)
    BY <1>4 DEF PublishResult, DestroyNode, WorkerTake, WorkerPut
  <1>6. Kept(i) /\ Kept(b) /\ Kept(o) /\ Kept(s)
    BY <1>1, <1>4 DEF AllKept
  <1>7. Kept(input)' /\ Kept(busy)' /\ Kept(output)' /\ Kept(shown)'
    <2>1. Kept(input)' /\ Kept(busy)'
      BY <1>3, <1>4, <1>5, <1>6 DEF Kept
    <2>2. Kept(output)' /\ Kept(shown)'
      BY <1>3, <1>4, <1>5, <1>6 DEF Kept
    <2>3. QED
      BY <2>1, <2>2
  <1>8. PipelineInOrder'
    <2>1. CASE PublishResult
      BY <1>1, <2>1 DEF PublishResult, PipelineInOrder, InOrder
    <2>2. CASE DestroyNode
      BY <1>1, <2>2 DEF DestroyNode, PipelineInOrder, InOrder
    <2>3. CASE WorkerTake
      BY <1>1, <2>3 DEF WorkerTake, PipelineInOrder, InOrder
    <2>4. CASE WorkerPut
      BY <1>1, <2>4 DEF WorkerPut, PipelineInOrder, InOrder
    <2>5. QED
      BY <2>1, <2>2, <2>3, <2>4
  <1>9. QED
    BY <1>7, <1>8 DEF AllKept

\* A step that makes a job.
LEMMA JobsJoin ==
  ASSUME SeqLen > 1, OrderInv, BufferTyped', NEW t \in Nat, NewJob(t),
         UNCHANGED <<scans, generation, busy, output, shown>>
  PROVE  AllKept' /\ PipelineInOrder'
  <1>1. BufferTyped /\ AnchorTyped /\ AllKept /\ PipelineInOrder
    BY DEF OrderInv
  <1>2. PICK n, b, o, s : n = Nearest(t) /\ b = busy /\ o = output /\ s = shown
    OBVIOUS
  <1>3. n \in Times /\ Behind(n)' /\ generation \in Gens
    BY <1>1, <1>2, NewJobBehind DEF BufferTyped
  <1>4. input'.gen = generation /\ input'.anchor = n
    BY <1>2 DEF NewJob
  <1>5. Kept(input)'
    <2>1. generation' = generation /\ generation <= generation
      BY <1>3
    <2>2. QED
      BY <1>3, <1>4, <2>1 DEF Kept
  <1>6. /\ nextAnchor' \in Nat
        /\ nextAnchor # None => nextAnchor <= nextAnchor'
    BY <1>1 DEF NewJob, AnchorTyped
  <1>7. ASSUME NEW j, Kept(j)
        PROVE  j # None => /\ j.anchor \in Times /\ j.gen \in Gens /\ j.gen <= generation'
                           /\ j.gen = generation' => Behind(j.anchor)'
    BY <1>1, <1>6, <1>7, KeptByBuffer
  <1>8. Kept(b) /\ Kept(o) /\ Kept(s)
    BY <1>1, <1>2 DEF AllKept
  <1>9. Kept(busy)' /\ Kept(output)' /\ Kept(shown)'
    BY <1>2, <1>7, <1>8 DEF Kept
  <1>10. ASSUME NEW j, Kept(j), j # None
         PROVE  j.gen < generation \/ (j.gen = generation /\ j.anchor < n)
    <2>1. /\ j.anchor \in Times /\ j.gen \in Gens /\ j.gen <= generation
          /\ j.gen = generation => Behind(j.anchor)
      BY <1>10 DEF Kept
    <2>2. Behind(j.anchor) => j.anchor < n
      BY <1>1, <1>2, <2>1, NewJobLast
    <2>3. QED
      BY <1>3, <2>1, <2>2
  <1>11. InOrder(shown, input)' /\ InOrder(output, input)' /\ InOrder(busy, input)'
    BY <1>2, <1>4, <1>8, <1>10 DEF InOrder
  <1>12. InOrder(shown, output)' /\ InOrder(shown, busy)' /\ InOrder(output, busy)'
    BY <1>1 DEF PipelineInOrder, InOrder
  <1>13. QED
    BY <1>5, <1>9, <1>11, <1>12 DEF AllKept, PipelineInOrder

LEMMA OrderStep ==
  ASSUME SeqLen > 1, OrderInv, [Next]_vars
  PROVE  OrderInv'
  <1>1. BufferTyped /\ AnchorTyped
    BY DEF OrderInv
  <1>2. BufferTyped' /\ AnchorTyped'
    BY <1>1, BufferStep, AnchorStep
  <1>3. CASE Schedule
    <2>1. /\ UNCHANGED <<scans, generation, busy, output, shown>>
          /\ \/ nextAnchor' = nextAnchor /\ input' = input
             \/ /\ nextAnchor' \in Nat /\ input' = input
                /\ nextAnchor # None => nextAnchor <= nextAnchor'
             \/ \E t \in Nat : NewJob(t)
      BY <1>1, <1>3, ScheduleEffect
    <2>2. CASE \E t \in Nat : NewJob(t)
      <3>1. PICK t \in Nat : NewJob(t)
        BY <2>2
      <3>2. AllKept' /\ PipelineInOrder'
        BY <1>2, <2>1, <3>1, JobsJoin
      <3>3. QED
        BY <1>2, <3>2 DEF OrderInv
    <2>3. CASE input' = input /\ ~\E t \in Nat : NewJob(t)
      <3>1. \/ nextAnchor' = nextAnchor
            \/ nextAnchor' \in Nat /\ (nextAnchor # None => nextAnchor <= nextAnchor')
        BY <2>1, <2>3
      <3>2. AllKept' /\ PipelineInOrder'
        BY <1>2, <2>1, <2>3, <3>1, JobsStay
      <3>3. QED
        BY <1>2, <3>2 DEF OrderInv
    <2>4. QED
      BY <2>1, <2>2, <2>3
  <1>4. ASSUME NEW stamp \in Times, ScanCallback(stamp)
        PROVE  OrderInv'
    <2>1. UNCHANGED <<input, busy, output, shown>>
      BY <1>4 DEF ScanCallback, workerVars
    <2>2. AllKept' /\ PipelineInOrder'
      BY <1>1, <1>2, <1>4, <2>1, ScanEffect, JobsStay
    <2>3. QED
      BY <1>2, <2>2 DEF OrderInv
  <1>5. ASSUME NEW p \in PoseStreams, PoseCallback(p)
        PROVE  OrderInv'
    <2>1. UNCHANGED <<input, busy, output, shown>>
      BY <1>1, <1>5, PoseEffect DEF workerVars
    <2>2. AllKept' /\ PipelineInOrder'
      BY <1>1, <1>2, <1>5, <2>1, PoseEffect, JobsStay
    <2>3. QED
      BY <1>2, <2>2 DEF OrderInv
  <1>6. CASE PublishResult \/ DestroyNode \/ WorkerTake \/ WorkerPut
    <2>1. UNCHANGED <<scans, generation, nextAnchor>>
      BY <1>6 DEF PublishResult, DestroyNode, WorkerTake, WorkerPut, streamVars, jobVars
    <2>2. QED
      BY <1>2, <1>6, <2>1, JobsMove DEF OrderInv
  <1>7. CASE WorkerEnd \/ UNCHANGED vars
    <2>1. UNCHANGED <<scans, generation, nextAnchor, input, busy, output, shown>>
      BY <1>7 DEF WorkerEnd, vars, streamVars, jobVars, workerVars
    <2>2. QED
      BY <1>2, <2>1, JobsStay DEF OrderInv
  <1>8. QED
    BY <1>3, <1>4, <1>5, <1>6, <1>7 DEF Next, Streams, Worker, Terminated

LEMMA OrderInit == Init => OrderInv
  <1> SUFFICES ASSUME Init PROVE OrderInv
    OBVIOUS
  <1>1. BufferTyped /\ AnchorTyped
    BY DEF Init, BufferTyped, AnchorTyped
  <1>2. input = None /\ busy = None /\ output = None /\ shown = None
    BY DEF Init
  <1>3. AllKept /\ PipelineInOrder
    BY <1>2 DEF AllKept, Kept, PipelineInOrder, InOrder
  <1>4. QED
    BY <1>1, <1>3 DEF OrderInv

\* Jobs leave the pipeline in the order of their scans, whatever the streams, the
\* timers and the worker do in between (predictor_node.py _schedule and
\* _publish_result, streaming.py, latest_mailbox.py), provided that a history
\* has two slots to tell apart: with one, a wide tolerance repeats a scan.
THEOREM JobsInOrder == SeqLen > 1 => (Spec => []PipelineInOrder)
  <1> SUFFICES ASSUME SeqLen > 1
               PROVE  Spec => []PipelineInOrder
    OBVIOUS
  <1>1. OrderInv /\ [Next]_vars => OrderInv'
    BY OrderStep
  <1>2. OrderInv => PipelineInOrder
    BY DEF OrderInv
  <1>3. QED
    BY <1>1, <1>2, OrderInit, PTL DEF Spec

\* A prediction whose scan is ahead of the scan stream is never published: the
\* generation voids what is left over from before a reset (predictor_node.py,
\* _publish_result and _reset_on_time_reversal).
THEOREM NothingAhead == SeqLen > 1 => (Spec => NeverAhead)
  <1> SUFFICES ASSUME SeqLen > 1
               PROVE  Spec => NeverAhead
    OBVIOUS
  <1> DEFINE Seen == \E s \in scans : shown'.anchor <= s
  <1>1. OrderInv /\ [Next]_vars => OrderInv'
    BY OrderStep
  <1>2. OrderInv /\ [Next]_vars => [shown' # shown => Seen]_vars
    <2> SUFFICES ASSUME OrderInv, [Next]_vars, shown' # shown
                 PROVE  Seen
      OBVIOUS
    <2>1. PublishResult
      BY DEF Next, Streams, ScanCallback, PoseCallback, Schedule, DestroyNode, Worker, WorkerTake,
             WorkerPut, WorkerEnd, Terminated, vars
    <2>2. output # None /\ output.gen = generation /\ shown'.anchor = output.anchor
      BY <2>1 DEF PublishResult, Current
    <2>3. QED
      BY <2>2 DEF OrderInv, AllKept, Kept, Behind
  <1>3. QED
    BY <1>1, <1>2, OrderInit, PTL DEF Spec, NeverAhead

\* Whatever anchor the scheduler moves to lies ahead of the newest scan: after a
\* pause it does not work through the slots it missed (predictor_node.py,
\* _schedule).
THEOREM NoCatchingUp == Spec => NoBacklog
  <1> DEFINE Inv   == BufferTyped /\ AnchorTyped
             Ahead == nextAnchor' \notin {nextAnchor, None} => \A s \in scans : s < nextAnchor'
  <1>1. Init => Inv
    BY DEF Init, BufferTyped, AnchorTyped
  <1>2. Inv /\ [Next]_vars => Inv'
    BY BufferStep, AnchorStep
  <1>3. Inv /\ [Next]_vars => [Ahead]_vars
    <2> SUFFICES ASSUME Inv, [Next]_vars, nextAnchor' \notin {nextAnchor, None}
                 PROVE  \A s \in scans : s < nextAnchor'
      OBVIOUS
    <2>1. ASSUME NEW stamp \in Times, ScanCallback(stamp)
          PROVE  FALSE
      BY <2>1, ScanEffect
    <2>2. ASSUME NEW p \in PoseStreams, PoseCallback(p)
          PROVE  FALSE
      BY <2>2, PoseEffect
    <2>3. Schedule
      BY <2>1, <2>2
      DEF Next, Streams, PublishResult, DestroyNode, Worker, WorkerTake, WorkerPut, WorkerEnd,
          Terminated, vars, jobVars
    <2>4. QED
      BY <2>3, ScheduleEffect DEF NewJob
  <1>4. QED
    BY <1>1, <1>2, <1>3, PTL DEF Spec, NoBacklog

-----------------------------------------------------------------------------
(* After an error.                                                          *)

\* Where there is a job: at the input, at the worker, at the output.
Full == {i \in 1 .. 3 : <<input, busy, output>>[i] # None}

LEMMA FullIs == ASSUME NEW i
                PROVE  i \in Full <=> \/ i = 1 /\ input # None
                                      \/ i = 2 /\ busy # None
                                      \/ i = 3 /\ output # None
  BY DEF Full

\* A job that moves on leaves as many behind, or fewer.
LEMMA MovedOn ==
  ASSUME NEW S, IsFiniteSet(S), NEW x \in S, NEW y, NEW T \in SUBSET ((S \ {x}) \cup {y})
  PROVE  Cardinality(T) <= Cardinality(S)
  <1>1. /\ IsFiniteSet(S \ {x}) /\ Cardinality(S \ {x}) = Cardinality(S) - 1
        /\ Cardinality(S) \in Nat
    BY FS_RemoveElement, FS_CardinalityType
  <1>2. /\ IsFiniteSet((S \ {x}) \cup {y})
        /\ Cardinality((S \ {x}) \cup {y}) <= Cardinality(S)
    <2> DEFINE R == S \ {x}
    <2>1. /\ IsFiniteSet(R \cup {y})
          /\ Cardinality(R \cup {y}) =
               IF y \in R THEN Cardinality(R) ELSE Cardinality(R) + 1
      BY <1>1, FS_AddElement
    <2>2. Cardinality(R) = Cardinality(S) - 1 /\ Cardinality(S) \in Nat
      BY <1>1
    <2> HIDE DEF R
    <2>3. IsFiniteSet(R \cup {y}) /\ Cardinality(R \cup {y}) <= Cardinality(S)
      BY <2>1, <2>2
    <2>4. QED
      BY <2>3 DEF R
  <1>3. Cardinality(T) <= Cardinality((S \ {x}) \cup {y})
    BY <1>2, FS_Subset
  <1>4. Cardinality(T) \in Nat /\ Cardinality((S \ {x}) \cup {y}) \in Nat
    BY <1>2, FS_Subset, FS_CardinalityType
  <1>5. QED
    BY <1>1, <1>2, <1>3, <1>4

\* After an inference error the pipeline only drains, and each prediction that is
\* still shown takes one job out of it (predictor_node.py, _publish_result and
\* the early return of _schedule).
THEOREM ErrorsDrain == Spec => ErrorDrains
  <1> DEFINE Drains == terminal => /\ Pending' <= Pending
                                   /\ shown' # shown => Pending' < Pending
  <1>1. ASSUME [Next]_vars
        PROVE  [Drains]_vars
    <2> SUFFICES ASSUME terminal
                 PROVE  Drains
      OBVIOUS
    <2>1. Pending = Cardinality(Full) /\ Pending' = Cardinality(Full')
      BY DEF Pending, Full
    <2>2. IsFiniteSet(1 .. 3) /\ Full \subseteq 1 .. 3
      <3>1. IsFiniteSet(1 .. 3)
        <4>1. 1 \in Int /\ 3 \in Int
          OBVIOUS
        <4>2. QED
          BY <4>1, FS_Interval, Zenon
      <3>2. QED
        BY <3>1 DEF Full
    <2>3. IsFiniteSet(Full) /\ Cardinality(Full) \in Nat
      BY <2>2, FS_Subset, FS_CardinalityType
    <2>4. CASE PublishResult
      <3>1. 3 \in Full /\ Full' = Full \ {3}
        BY <2>4, FullIs DEF PublishResult, Full
      <3>2. Cardinality(Full') = Cardinality(Full) - 1
        BY <2>3, <3>1, FS_RemoveElement
      <3>3. QED
        BY <2>1, <2>3, <3>2
    <2>5. CASE DestroyNode
      <3>1. Full' \subseteq Full /\ shown' = shown
        BY <2>5 DEF DestroyNode, Full
      <3>2. Cardinality(Full') <= Cardinality(Full)
        BY <2>3, <3>1, FS_Subset
      <3>3. QED
        BY <2>1, <3>1, <3>2
    <2>6. CASE WorkerTake
      <3>1. 1 \in Full /\ Full' \subseteq (Full \ {1}) \cup {2} /\ shown' = shown
        BY <2>6 DEF WorkerTake, Full
      <3>2. QED
        BY <2>1, <2>3, <3>1, MovedOn
    <2>7. CASE WorkerPut
      <3>1. 2 \in Full /\ Full' \subseteq (Full \ {2}) \cup {3} /\ shown' = shown
        BY <2>7 DEF WorkerPut, Full
      <3>2. QED
        BY <2>1, <2>3, <3>1, MovedOn
    <2>8. CASE UNCHANGED <<input, busy, output, shown>>
      <3>1. Full' = Full
        BY <2>8 DEF Full
      <3>2. QED
        BY <2>1, <2>3, <2>8, <3>1
    <2>9. QED
      BY <1>1, <2>4, <2>5, <2>6, <2>7, <2>8, Zenon
      DEF Next, Streams, ScanCallback, PoseCallback, Schedule, MaySchedule, Worker, WorkerEnd,
          Terminated, vars, workerVars
  <1>2. QED
    BY <1>1, PTL DEF Spec, ErrorDrains

LEMMA PipelineStep ==
    PipelineTyped /\ BufferTyped /\ AnchorTyped /\ [Next]_vars => PipelineTyped'
  <1> SUFFICES ASSUME PipelineTyped, BufferTyped, AnchorTyped, [Next]_vars
               PROVE  PipelineTyped'
    OBVIOUS
  <1> USE DEF PipelineTyped
  <1>1. CASE Schedule
    <2>1. UNCHANGED <<busy, output, shown>> /\ (input' = input \/ \E t \in Nat : NewJob(t))
      BY <1>1, ScheduleEffect
    <2>2. ASSUME NEW t \in Nat, NewJob(t)
          PROVE  input' \in Jobs
      <3>1. scans \subseteq Times /\ scans # {} /\ t \in Int /\ generation \in Gens
        BY <2>2 DEF NewJob, BufferTyped
      <3>2. Nearest(t) \in Times
        BY <3>1, NearestPreferred
      <3>3. QED
        BY <2>2, <3>1, <3>2 DEF NewJob, Jobs
    <2>3. QED
      BY <2>1, <2>2
  <1>2. CASE PublishResult
    BY <1>2 DEF PublishResult, Jobs, Results
  <1>3. CASE DestroyNode \/ Worker
    BY <1>3 DEF DestroyNode, Worker, WorkerTake, WorkerPut, WorkerEnd, Jobs, Results
  <1>4. CASE UNCHANGED <<input, busy, output, shown>>
    BY <1>4
  <1>5. QED
    BY <1>1, <1>2, <1>3, <1>4
    DEF Next, Streams, ScanCallback, PoseCallback, Terminated, vars, workerVars

\* Every variable of the node stays in its type: the buffer keeps no scan that is
\* older than the newest by more than the buffer's duration.
THEOREM TypeCorrect == Spec => []TypeOK
  <1> DEFINE Inv == /\ BufferTyped /\ AnchorTyped /\ SamplesTyped /\ FlagsTyped
                    /\ PipelineTyped
  <1>1. Init => Inv
    <2> SUFFICES ASSUME Init PROVE Inv
      OBVIOUS
    <2>1. BufferTyped /\ AnchorTyped /\ SamplesTyped /\ PipelineTyped
      BY DEF Init, BufferTyped, AnchorTyped, SamplesTyped, PipelineTyped
    <2>2. FlagsTyped
      BY Zenon DEF Init, FlagsTyped
    <2>3. QED
      BY <2>1, <2>2
  <1>2. Inv /\ [Next]_vars => Inv'
    BY BufferStep, AnchorStep, SamplesStep, FlagsStep, PipelineStep
  <1>3. Inv => TypeOK
    BY Zenon DEF BufferTyped, AnchorTyped, SamplesTyped, FlagsTyped, PipelineTyped, TypeOK
  <1>4. QED
    BY <1>1, <1>2, <1>3, PTL DEF Spec

-----------------------------------------------------------------------------
(***************************************************************************)
(* Why the worker ends.                                                    *)
(***************************************************************************)
\* What the worker still does after destroy_node: an inference, and its return.
StepsLeft == IF ended THEN 0 ELSE IF busy # None THEN 2 ELSE 1

\* A mailbox that is closed stays empty, and a worker that has returned has no
\* job.
Closed ==
    /\ ~spinning => input = None
    /\ ended => busy = None

\* After destroy_node each step of the worker brings its end nearer, and nothing
\* else that may happen puts it off.
EndNears ==
    ~spinning =>
        /\ Worker => StepsLeft' < StepsLeft
        /\ ~Worker => StepsLeft' = StepsLeft

\* The argument for StopEndsWorker but for fairness: no timer, callback or late
\* result gives the worker another job once the mailbox is closed, so that it
\* ends after the inference that is under way.
THEOREM WorkerWindsDown == Spec => []Closed /\ [][EndNears]_vars
  <1> USE DEF streamVars, jobVars, workerVars, vars
  <1>1. Init => Closed
    BY DEF Init, Closed
  <1>2. Closed /\ [Next]_vars => Closed'
    <2> SUFFICES ASSUME Closed, [Next]_vars
                 PROVE  Closed'
      OBVIOUS
    <2>1. CASE \/ Streams \/ PublishResult \/ Terminated \/ UNCHANGED vars
      <3>1. UNCHANGED <<spinning, input, busy, ended>>
        BY <2>1, Zenon DEF Streams, ScanCallback, PoseCallback, PublishResult, Terminated
      <3>2. QED
        BY <3>1, Zenon DEF Closed
    <2>2. CASE Schedule
      <3>1. spinning /\ UNCHANGED <<spinning, busy, ended>>
        BY <2>2, Zenon DEF Schedule
      <3>2. QED
        BY <3>1, Zenon DEF Closed
    <2>3. CASE DestroyNode
      BY <2>3, Zenon DEF DestroyNode, Closed
    <2>4. CASE WorkerTake
      <3>1. spinning' = spinning /\ input' = None /\ ended' = ended /\ ~ended
        BY <2>4, Zenon DEF WorkerTake
      <3>2. QED
        BY <3>1, Zenon DEF Closed
    <2>5. CASE WorkerPut
      <3>1. spinning' = spinning /\ input' = input /\ ended' = ended /\ busy' = None
        BY <2>5, Zenon DEF WorkerPut
      <3>2. QED
        BY <3>1, Zenon DEF Closed
    <2>6. CASE WorkerEnd
      <3>1. spinning' = spinning /\ input' = input /\ busy' = busy /\ busy = None
        BY <2>6, Zenon DEF WorkerEnd
      <3>2. QED
        BY <3>1, Zenon DEF Closed
    <2>7. QED
      BY <2>1, <2>2, <2>3, <2>4, <2>5, <2>6, Zenon DEF Next, Worker
  <1>3. TypeOK /\ Closed /\ [Next]_vars => [EndNears]_vars
    <2> SUFFICES ASSUME TypeOK, Closed, Next, ~spinning
                 PROVE  /\ Worker => StepsLeft' < StepsLeft
                        /\ ~Worker => StepsLeft' = StepsLeft
      BY DEF EndNears
    <2>1. ASSUME Worker
          PROVE  StepsLeft' < StepsLeft
      BY <2>1 DEF Closed, StepsLeft, Worker, WorkerTake, WorkerPut, WorkerEnd
    <2>2. ASSUME ~Worker
          PROVE  UNCHANGED <<ended, busy>>
      BY <2>2 DEF Next, Streams, ScanCallback, PoseCallback, Schedule, PublishResult, DestroyNode,
                  Terminated
    <2>3. QED
      BY <2>1, <2>2 DEF StepsLeft
  <1>4. QED
    BY <1>1, <1>2, <1>3, TypeCorrect, PTL DEF Spec
=============================================================================
