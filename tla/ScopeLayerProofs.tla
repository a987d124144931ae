-------------------------- MODULE ScopeLayerProofs --------------------------
(***************************************************************************)
(* Theorems about ScopeLayer for every set of grids and map positions,     *)
(* every timeout, queue depth and bound on the clock and the topics.       *)
(***************************************************************************)
EXTENDS ScopeLayer, SequenceTheorems, TLAPS

(***************************************************************************)
(* The map.  The window of a cycle covers what was drawn before, so that   *)
(* clearing it leaves no SCOPE cost, and what is drawn next lies within    *)
(* the bounds that are remembered.                                         *)
(***************************************************************************)
CostmapInv ==
    /\ marked \subseteq map /\ window \subseteq map
    /\ NoGhosts
    /\ pc = "bounds" => rendered \cap map \subseteq window
    /\ pc = "raster" => marked = {}

\* The actions of the other threads leave the map alone.
LEMMA OthersKeepMap ==
  ASSUME Callbacks \/ Parameters \/ Reset \/ Tick \/ Rollback
  PROVE  UNCHANGED <<pc, rendered, map, window, marked>>
  <1>1. CASE Callbacks
    BY <1>1 DEF Callbacks, Callback, costmapVars
  <1>2. CASE Parameters
    BY <1>2 DEF Parameters, SwapBegin, SwapFails, SetEnabled, SwapEnd, costmapVars
  <1>3. CASE Reset \/ Tick \/ Rollback
    BY <1>3 DEF Reset, Tick, Rollback, costmapVars
  <1>4. QED
    BY <1>1, <1>2, <1>3

LEMMA CostmapStep == CostmapInv /\ [Next]_vars => CostmapInv'
  <1> SUFFICES ASSUME CostmapInv, [Next]_vars
               PROVE  CostmapInv'
    OBVIOUS
  <1> USE DEF CostmapInv, NoGhosts
  <1>1. CASE UpdateBounds
    <2>1. PICK rolled \in Maps : \E others \in {{}, rolled} :
             /\ map' = rolled
             /\ marked' = marked \cap rolled
             /\ window' = (Needed(cycle') \cap rolled) \cup others
      BY <1>1 DEF UpdateBounds
    <2>2. rendered' = rendered /\ (pc' = "idle" \/ pc' = "bounds")
      BY <1>1 DEF UpdateBounds
    <2>3. rendered \subseteq Needed(cycle')
      BY DEF Needed
    <2>4. QED
      BY <2>1, <2>2, <2>3
  <1>2. CASE UpdateCostsBegin
    <2>1. map' = map /\ marked' = marked \ window /\ marked' = {}
      BY <1>2 DEF UpdateCostsBegin
    <2>2. QED
      BY <1>2, <2>1 DEF UpdateCostsBegin
  <1>3. CASE UpdateCostsEnd
    <2>1. pc' = "idle" /\ map' = map
      BY <1>3 DEF UpdateCostsEnd
    <2>2. QED
      BY <1>3, <2>1 DEF UpdateCostsEnd
  <1>4. CASE UNCHANGED <<pc, rendered, map, window, marked>>
    BY <1>4
  <1>5. QED
    BY <1>1, <1>2, <1>3, <1>4, OthersKeepMap
    DEF Next, Costmap, vars, costmapVars

\* No ghost obstacle, whatever the other threads do within a cycle.
THEOREM GhostFree == Spec => []NoGhosts
  <1>1. Init => CostmapInv
    BY DEF Init, CostmapInv, NoGhosts
  <1>2. CostmapInv => NoGhosts
    BY DEF CostmapInv
  <1>3. QED
    BY <1>1, <1>2, CostmapStep, PTL DEF Spec

\* A cycle that has no snapshot to draw withdraws every SCOPE cost.
THEOREM Withdraws == Spec => Withdrawn
  <1>1. Init => CostmapInv
    BY DEF Init, CostmapInv, NoGhosts
  <1>2. CostmapInv /\ [Next]_vars
          => [pc = "bounds" /\ pc' = "idle" => marked' = {}]_vars
    <2> SUFFICES ASSUME CostmapInv, [Next]_vars, pc = "bounds", pc' = "idle"
                 PROVE  marked' = {}
      OBVIOUS
    <2>1. UpdateCostsBegin
      BY OthersKeepMap
      DEF Next, Costmap, UpdateBounds, UpdateCostsEnd, vars, costmapVars
    <2>2. QED
      BY <2>1 DEF UpdateCostsBegin, CostmapInv, NoGhosts
  <1>3. QED
    BY <1>1, <1>2, CostmapStep, PTL DEF Spec, Withdrawn

-----------------------------------------------------------------------------
(***************************************************************************)
(* The queues.                                                             *)
(***************************************************************************)
Elements(q) == {q[i] : i \in 1 .. Len(q)}

\* What appending to a bounded queue gives, and its front: the grids that
\* waited, perhaps without the oldest.
LEMMA AppendBounded ==
  ASSUME NEW q \in Seq(Frames), Len(q) <= Depth, NEW f \in Frames,
         NEW own, own = Bounded(Append(q, f))
  PROVE  /\ own \in Seq(Frames) /\ Len(own) <= Depth
         /\ Elements(own) \subseteq Elements(q) \cup {f}
         /\ Front(own) \in Seq(Frames) /\ Len(Front(own)) <= Depth
         /\ Elements(Front(own)) \subseteq Elements(q)
  <1> DEFINE all == Append(q, f)
  <1>1. /\ Len(q) \in Nat /\ Depth \in Nat \ {0}
        /\ all \in Seq(Frames) /\ all # <<>> /\ Len(all) = Len(q) + 1
        /\ \A i \in 1 .. Len(q) : all[i] = q[i]
        /\ all[Len(q) + 1] = f
    BY LenProperties, AppendProperties, BoundAssumption
  <1> HIDE DEF all
  <1>2. PICK skip \in {0, 1} : /\ own \in Seq(Frames)
                               /\ Len(own) = Len(all) - skip /\ Len(own) \in 1 .. Depth
                               /\ \A i \in 1 .. Len(own) : own[i] = all[i + skip]
    <2>1. CASE Len(all) > Depth
      <3>1. own = Tail(all)
        BY <2>1 DEF Bounded, all
      <3>2. /\ own \in Seq(Frames) /\ Len(own) = Len(all) - 1
            /\ \A i \in 1 .. Len(own) : own[i] = all[i + 1]
        BY <1>1, <3>1, HeadTailProperties
      <3>3. QED
        BY <1>1, <2>1, <3>2
    <2>2. CASE ~(Len(all) > Depth)
      <3>1. own = all
        BY <2>2 DEF Bounded, all
      <3>2. QED
        BY <1>1, <2>2, <3>1
    <2>3. QED
      BY <2>1, <2>2
  <1>3. /\ Front(own) \in Seq(Frames) /\ Len(Front(own)) = Len(own) - 1
        /\ \A i \in 1 .. Len(own) - 1 : Front(own)[i] = own[i]
    <2>1. \A i \in 1 .. Len(own) - 1 : own[i] \in Frames
      BY <1>2, ElementOfSeq
    <2>2. Len(own) - 1 \in Int /\ 1 \in Int /\ (Len(own) - 1) - 1 + 1 = Len(own) - 1
      BY <1>2
    <2>3. /\ SubSeq(own, 1, Len(own) - 1) \in Seq(Frames)
          /\ Len(SubSeq(own, 1, Len(own) - 1))
               = IF 1 <= Len(own) - 1 THEN (Len(own) - 1) - 1 + 1 ELSE 0
          /\ \A i \in 1 .. (Len(own) - 1) - 1 + 1 :
               SubSeq(own, 1, Len(own) - 1)[i] = own[1 + i - 1]
      BY <2>1, <2>2, SubSeqProperties
    <2>4. QED
      BY <1>2, <2>3 DEF Front
  <1>4. Elements(own) \subseteq Elements(q) \cup {f}
    <2>1. ASSUME NEW i \in 1 .. Len(own)
          PROVE  own[i] = f \/ \E j \in 1 .. Len(q) : own[i] = q[j]
      <3>1. /\ own[i] = all[i + skip]
            /\ i + skip \in 1 .. Len(q) \/ i + skip = Len(q) + 1
        BY <1>1, <1>2
      <3>2. QED
        BY <1>1, <3>1
    <2>2. QED
      BY <2>1 DEF Elements
  <1>5. Elements(Front(own)) \subseteq Elements(q)
    <2>1. ASSUME NEW i \in 1 .. Len(Front(own))
          PROVE  Front(own)[i] = q[i + skip] /\ i + skip \in 1 .. Len(q)
      BY <1>1, <1>2, <1>3
    <2>2. QED
      BY <2>1 DEF Elements
  <1>6. QED
    BY <1>2, <1>3, <1>4, <1>5, <1>1

\* Removing a grid from a queue.
LEMMA RemoveBounded ==
  ASSUME NEW q \in Seq(Frames), Len(q) <= Depth, NEW i \in 1 .. Len(q)
  PROVE  /\ RemoveAt(q, i) \in Seq(Frames) /\ Len(RemoveAt(q, i)) <= Depth
         /\ Elements(RemoveAt(q, i)) \subseteq Elements(q)
  <1> DEFINE left == SubSeq(q, 1, i - 1)
             right == SubSeq(q, i + 1, Len(q))
  <1>1. Len(q) \in Nat /\ Depth \in Nat /\ i \in Nat
    BY LenProperties, BoundAssumption
  <1>2. \A j \in 1 .. Len(q) : q[j] \in Frames
    BY ElementOfSeq
  <1>3. /\ left \in Seq(Frames) /\ Len(left) = i - 1
        /\ \A j \in 1 .. i - 1 : left[j] = q[j]
    <2>1. /\ left \in Seq(Frames)
          /\ Len(left) = IF 1 <= i - 1 THEN (i - 1) - 1 + 1 ELSE 0
          /\ \A j \in 1 .. (i - 1) - 1 + 1 : left[j] = q[1 + j - 1]
      <3>1. i - 1 \in Int /\ 1 \in Int /\ \A j \in 1 .. i - 1 : q[j] \in Frames
        BY <1>1, <1>2
      <3>2. QED
        BY <3>1, SubSeqProperties
    <2>2. QED
      BY <1>1, <2>1
  <1>4. /\ right \in Seq(Frames) /\ Len(right) = Len(q) - i
        /\ \A j \in 1 .. Len(q) - i : right[j] = q[i + j]
    <2>1. /\ right \in Seq(Frames)
          /\ Len(right) = IF i + 1 <= Len(q) THEN Len(q) - (i + 1) + 1 ELSE 0
          /\ \A j \in 1 .. Len(q) - (i + 1) + 1 : right[j] = q[(i + 1) + j - 1]
      <3>1. i + 1 \in Int /\ Len(q) \in Int /\ \A j \in i + 1 .. Len(q) : q[j] \in Frames
        BY <1>1, <1>2
      <3>2. QED
        BY <3>1, SubSeqProperties
    <2>2. QED
      BY <1>1, <2>1
  <1> HIDE DEF left, right
  <1>5. /\ left \o right \in Seq(Frames) /\ Len(left \o right) = Len(q) - 1
        /\ \A j \in 1 .. Len(q) - 1 :
             (left \o right)[j] = IF j <= i - 1 THEN left[j] ELSE right[j - (i - 1)]
    <2>1. /\ left \o right \in Seq(Frames)
          /\ Len(left \o right) = Len(left) + Len(right)
          /\ \A j \in 1 .. Len(left) + Len(right) :
               (left \o right)[j] = IF j <= Len(left) THEN left[j]
                                   ELSE right[j - Len(left)]
      BY <1>3, <1>4, ConcatProperties
    <2>2. Len(left) + Len(right) = Len(q) - 1
      BY <1>1, <1>3, <1>4
    <2>3. QED
      BY <1>3, <2>1, <2>2
  <1>6. RemoveAt(q, i) = left \o right
    BY DEF RemoveAt, left, right
  <1>7. ASSUME NEW j \in 1 .. Len(q) - 1
        PROVE  \E k \in 1 .. Len(q) : (left \o right)[j] = q[k]
    <2>1. CASE j <= i - 1
      BY <1>1, <1>3, <1>5, <2>1
    <2>2. CASE j > i - 1
      <3>1. j - (i - 1) \in 1 .. Len(q) - i /\ j + 1 \in 1 .. Len(q)
        BY <1>1, <2>2
      <3>2. (left \o right)[j] = right[j - (i - 1)]
        BY <1>1, <1>5, <2>2
      <3>3. right[j - (i - 1)] = q[i + (j - (i - 1))] /\ i + (j - (i - 1)) = j + 1
        BY <1>1, <1>4, <3>1
      <3>4. QED
        BY <3>1, <3>2, <3>3
    <2>3. j <= i - 1 \/ j > i - 1
      BY <1>1
    <2>4. QED
      BY <2>1, <2>2, <2>3, Zenon
  <1>8. Elements(left \o right) \subseteq Elements(q)
    <2>1. Elements(left \o right) = {(left \o right)[j] : j \in 1 .. Len(q) - 1}
      BY <1>5, Zenon DEF Elements
    <2>2. QED
      BY <1>7, <2>1, Zenon DEF Elements
  <1>9. QED
    BY <1>1, <1>5, <1>6, <1>8

(***************************************************************************)
(* Pairing.  A grid waits only if nothing in the other queue matches it,   *)
(* and all that waits came over the current subscriptions.                 *)
(***************************************************************************)
QueueInv ==
    /\ generation \in Gens
    /\ pending \in [Kinds -> Seq(Frames)]
    /\ \A k \in Kinds : Len(pending[k]) <= Depth
    /\ latest \in Snapshots \cup {None}
    /\ NoPairMissed
    /\ OneSource

\* The two pairing facts, of the grids that wait.
LEMMA InElements ==
  ASSUME NEW P, NEW U
  PROVE  (\A i \in 1 .. Len(P), j \in 1 .. Len(U) : P[i].grid # U[j].grid)
           <=> (\A e \in Elements(P), f \in Elements(U) : e.grid # f.grid)
  BY Zenon DEF Elements

\* The queues and the latest pair after a grid of the current subscription.
LEMMA BufferStep ==
  ASSUME QueueInv, NEW k \in Kinds, NEW g \in Grids, NEW at \in Times,
         BufferGrid(k, g, at, generation), UNCHANGED <<generation, cycle>>
  PROVE  QueueInv'
  <1> DEFINE base  == IF WentBack(at) THEN <<>> ELSE pending[k]
             other == IF WentBack(at) THEN <<>> ELSE pending[Other(k)]
             frame == [grid |-> g, gen |-> generation]
             own   == Bounded(Append(base, frame))
             pair  == [grid |-> g, gen |-> generation, at |-> at]
             old   == IF WentBack(at) THEN None ELSE latest
             found == Matches(other, g)
  <1>1. /\ Other(k) \in Kinds /\ Other(k) # k /\ Kinds = {k, Other(k)}
        /\ frame \in Frames /\ pair \in Snapshots
        /\ frame.grid = g /\ frame.gen = generation /\ pair.gen = generation
    BY DEF QueueInv, Kinds, Other, Frames, Snapshots
  <1>2. /\ base \in Seq(Frames) /\ Len(base) <= Depth
        /\ other \in Seq(Frames) /\ Len(other) <= Depth
        /\ Elements(base) \subseteq Elements(pending[k])
        /\ Elements(other) \subseteq Elements(pending[Other(k)])
    <2>1. <<>> \in Seq(Frames) /\ Len(<<>>) = 0 /\ Elements(<<>>) = {} /\ 0 <= Depth
      BY EmptySeq, BoundAssumption DEF Elements
    <2>2. \A kk \in Kinds : pending[kk] \in Seq(Frames) /\ Len(pending[kk]) <= Depth
      BY DEF QueueInv
    <2>3. QED
      BY <1>1, <2>1, <2>2
  <1>3. \A e \in Elements(base), f \in Elements(other) : e.grid # f.grid
    <2>1. \A e \in Elements(pending["prediction"]),
             f \in Elements(pending["uncertainty"]) : e.grid # f.grid
      BY InElements DEF QueueInv, NoPairMissed
    <2>2. QED
      BY <1>2, <2>1 DEF Other, Kinds
  <1>4. /\ \A kk \in Kinds : \A e \in Elements(pending[kk]) : e.gen = generation
        /\ old # None => old.gen = generation
        /\ old \in Snapshots \cup {None}
    BY Zenon DEF QueueInv, OneSource, Elements
  <1>5. /\ own \in Seq(Frames) /\ Len(own) <= Depth
        /\ Elements(own) \subseteq Elements(base) \cup {frame}
        /\ Front(own) \in Seq(Frames) /\ Len(Front(own)) <= Depth
        /\ Elements(Front(own)) \subseteq Elements(base)
    <2>1. own = Bounded(Append(base, frame))
      OBVIOUS
    <2> HIDE DEF own, base, frame
    <2>2. QED
      BY <1>1, <1>2, <2>1, AppendBounded, Zenon
  <1> DEFINE Good(mine, theirs) ==
                /\ mine \in Seq(Frames) /\ Len(mine) <= Depth
                /\ theirs \in Seq(Frames) /\ Len(theirs) <= Depth
                /\ \A e \in Elements(mine), f \in Elements(theirs) : e.grid # f.grid
                /\ \A e \in Elements(mine) \cup Elements(theirs) : e.gen = generation
  <1>6. \E mine, theirs :
           /\ Good(mine, theirs)
           /\ pending' = [pending EXCEPT ![k] = mine, ![Other(k)] = theirs]
    <2>1. CASE found = {} /\ pending' = [pending EXCEPT ![k] = own, ![Other(k)] = other]
      <3>1. \A f \in Elements(other) : f.grid # g
        BY <2>1 DEF Matches, Elements
      <3>2. Good(own, other)
        BY <1>1, <1>2, <1>3, <1>4, <1>5, <3>1
      <3>3. QED
        BY <2>1, <3>2
    <2>2. ASSUME NEW i \in found,
                 pending' = [pending EXCEPT ![k] = Erase(own, other, i)[1],
                                            ![Other(k)] = Erase(own, other, i)[2]]
          PROVE  \E mine, theirs :
                    /\ Good(mine, theirs)
                    /\ pending' = [pending EXCEPT ![k] = mine, ![Other(k)] = theirs]
      <3>1. i \in 1 .. Len(other)
        BY DEF Matches
      <3>2. /\ RemoveAt(other, i) \in Seq(Frames) /\ Len(RemoveAt(other, i)) <= Depth
            /\ Elements(RemoveAt(other, i)) \subseteq Elements(other)
        BY <1>2, <3>1, RemoveBounded
      <3>3. Good(Front(own), RemoveAt(other, i))
        BY <1>1, <1>2, <1>3, <1>4, <1>5, <3>2
      <3>4. pending' = [pending EXCEPT ![k] = Front(own),
                                       ![Other(k)] = RemoveAt(other, i)]
        BY <2>2 DEF Erase
      <3>5. QED
        BY <3>3, <3>4
    <2>3. QED
      BY <2>1, <2>2 DEF BufferGrid
  <1>7. PICK mine, theirs :
           /\ Good(mine, theirs)
           /\ pending' = [pending EXCEPT ![k] = mine, ![Other(k)] = theirs]
    BY <1>6
  <1>8. /\ pending' \in [Kinds -> Seq(Frames)]
        /\ pending'[k] = mine /\ pending'[Other(k)] = theirs
    BY <1>1, <1>7 DEF QueueInv
  <1>9. latest' = old \/ latest' = pair
    BY DEF BufferGrid
  <1> HIDE DEF base, other, frame, own, pair, old, found
  <1>10. NoPairMissed'
    <2>1. \A e \in Elements(pending'["prediction"]),
             f \in Elements(pending'["uncertainty"]) : e.grid # f.grid
      <3>1. CASE k = "prediction"
        <4>1. Other(k) = "uncertainty"
          BY <3>1 DEF Other
        <4>2. QED
          BY <1>7, <1>8, <3>1, <4>1, Zenon
      <3>2. CASE k = "uncertainty"
        <4>1. Other(k) = "prediction"
          BY <3>2 DEF Other
        <4>2. QED
          BY <1>7, <1>8, <3>2, <4>1, Zenon
      <3>3. QED
        BY <3>1, <3>2 DEF Kinds
    <2>2. QED
      BY <2>1, InElements DEF NoPairMissed
  <1>11. OneSource'
    <2>1. \A kk \in Kinds : \A e \in Elements(pending'[kk]) : e.gen = generation
      BY <1>1, <1>7, <1>8
    <2>2. /\ latest' # None => latest'.gen = generation
          /\ cycle # None => cycle.gen = generation
      BY <1>1, <1>4, <1>9 DEF QueueInv, OneSource
    <2>3. QED
      BY <2>1, <2>2 DEF OneSource, Elements
  <1>12. QED
    BY <1>1, <1>4, <1>7, <1>8, <1>9, <1>10, <1>11 DEF QueueInv

\* A topic change begins below the model's bound on them.
SwapBounded == creating => generation < MaxGen

LEMMA SwapStep == SwapBounded /\ [Next]_vars => SwapBounded'
  <1>1. SwapBounded /\ UNCHANGED <<creating, generation>> => SwapBounded'
    BY DEF SwapBounded
  <1>2. ASSUME NEW b \in BOOLEAN, SwapEnd(b)
        PROVE  SwapBounded'
    BY <1>2 DEF SwapEnd, SwapBounded
  <1>3. SwapBegin \/ SwapFails => SwapBounded'
    BY DEF SwapBegin, SwapFails, SwapBounded
  <1>4. QED
    BY <1>1, <1>2, <1>3
    DEF Next, Callbacks, Callback, Costmap, UpdateBounds, UpdateCostsBegin,
        UpdateCostsEnd, Parameters, SetEnabled, Reset, Tick, Rollback, vars,
        configVars

LEMMA QueueStep == QueueInv /\ SwapBounded /\ [Next]_vars => QueueInv'
  <1> SUFFICES ASSUME QueueInv, SwapBounded, [Next]_vars
               PROVE  QueueInv'
    OBVIOUS
  <1>1. /\ NoPending \in [Kinds -> Seq(Frames)]
        /\ \A k \in Kinds : NoPending[k] = <<>> /\ Len(NoPending[k]) = 0
        /\ Kinds = {"prediction", "uncertainty"}
    BY EmptySeq DEF NoPending, Kinds
  <1>2. ASSUME pending' = NoPending, latest' = None,
               cycle' = None \/ cycle'.gen = generation', generation' \in Gens
        PROVE  QueueInv'
    <2>1. \A k \in Kinds : Len(pending'[k]) <= Depth
      BY <1>1, <1>2, BoundAssumption
    <2>2. NoPairMissed' /\ OneSource'
      BY <1>1, <1>2 DEF NoPairMissed, OneSource
    <2>3. QED
      BY <1>1, <1>2, <2>1, <2>2 DEF QueueInv
  <1>3. CASE /\ UNCHANGED <<pending, latest, generation>>
             /\ cycle' = cycle \/ cycle' = Contribution
    <2>1. cycle' # None => cycle'.gen = generation
      BY <1>3 DEF QueueInv, OneSource, Contribution, Fresh
    <2>2. QED
      BY <1>3, <2>1 DEF QueueInv, NoPairMissed, OneSource
  <1>4. ASSUME NEW k \in Kinds, NEW g \in Grids, NEW at \in Times, NEW gen \in Gens,
               Callback(k, g, at, gen)
        PROVE  QueueInv'
    <2>1. UNCHANGED <<generation, cycle>>
      BY <1>4 DEF Callback, configVars, costmapVars
    <2>2. CASE Accepts(gen)
      <3>1. BufferGrid(k, g, at, generation)
        BY <1>4, <2>2 DEF Callback, Accepts
      <3>2. QED
        BY <2>1, <3>1, BufferStep
    <2>3. CASE ~Accepts(gen)
      BY <1>3, <1>4, <2>1, <2>3 DEF Callback
    <2>4. QED
      BY <2>2, <2>3
  <1>5. CASE UpdateBounds
    <2>1. generation' = generation /\ cycle' = Contribution
      BY <1>5 DEF UpdateBounds, configVars
    <2>2. CASE FromTheFuture
      <3>1. pending' = NoPending /\ latest' = None
        BY <1>5, <2>2 DEF UpdateBounds
      <3>2. cycle' = None \/ cycle'.gen = generation'
        BY <2>1 DEF Contribution, Fresh, QueueInv, OneSource
      <3>3. QED
        BY <1>2, <2>1, <3>1, <3>2 DEF QueueInv
    <2>3. CASE ~FromTheFuture
      BY <1>3, <1>5, <2>1, <2>3 DEF UpdateBounds
    <2>4. QED
      BY <2>2, <2>3
  <1>6. CASE SwapBegin \/ SwapFails \/ \E b \in BOOLEAN : SetEnabled(b)
    BY <1>3, <1>6 DEF SwapBegin, SwapFails, SetEnabled, inputVars, costmapVars
  <1>7. ASSUME NEW b \in BOOLEAN, SwapEnd(b)
        PROVE  QueueInv'
    <2>1. generation + 1 \in Gens
      BY <1>7, BoundAssumption DEF SwapEnd, SwapBounded, QueueInv, Gens
    <2>2. QED
      BY <1>2, <1>7, <2>1 DEF SwapEnd, QueuesAfterSwap
  <1>8. CASE Reset
    BY <1>2, <1>8 DEF Reset, configVars, QueueInv
  <1>9. CASE UpdateCostsBegin \/ UpdateCostsEnd \/ Tick \/ Rollback \/ UNCHANGED vars
    BY <1>3, <1>9
    DEF UpdateCostsBegin, UpdateCostsEnd, Tick, Rollback, vars, inputVars,
        configVars, costmapVars
  <1>10. QED
    BY <1>4, <1>5, <1>6, <1>7, <1>8, <1>9
    DEF Next, Callbacks, Costmap, Parameters

LEMMA QueueInductive == Spec => [](QueueInv /\ SwapBounded)
  <1>1. Init => QueueInv /\ SwapBounded
    <2> SUFFICES ASSUME Init
                 PROVE  QueueInv /\ SwapBounded
      OBVIOUS
    <2>1. /\ pending \in [Kinds -> Seq(Frames)]
          /\ \A k \in Kinds : pending[k] = <<>> /\ Len(pending[k]) = 0
      BY EmptySeq DEF Init, NoPending
    <2>2. \A k \in Kinds : Len(pending[k]) <= Depth
      BY <2>1, BoundAssumption
    <2>3. generation \in Gens /\ creating = FALSE /\ latest = None /\ cycle = None
      BY BoundAssumption DEF Init, Gens
    <2>4. NoPairMissed /\ OneSource
      BY <2>1, <2>3 DEF NoPairMissed, OneSource, Kinds
    <2>5. QED
      BY <2>1, <2>2, <2>3, <2>4 DEF QueueInv, SwapBounded
  <1>2. QED
    BY <1>1, QueueStep, SwapStep, PTL DEF Spec

\* Two halves that match never wait for each other.
THEOREM PairsComplete == Spec => []NoPairMissed
  <1>1. QueueInv => NoPairMissed
    BY DEF QueueInv
  <1>2. QED
    BY <1>1, QueueInductive, PTL

\* Nothing received over replaced subscriptions is paired or shown.
THEOREM SourcesKeptApart == Spec => []OneSource
  <1>1. QueueInv => OneSource
    BY DEF QueueInv
  <1>2. QED
    BY <1>1, QueueInductive, PTL
-----------------------------------------------------------------------------
(***************************************************************************)
(* What is drawn, and in which order.                                      *)
(***************************************************************************)
\* The costmap thread rasterizes a pair.
Held == pc = "raster" => raster # None

LEMMA HeldStep == Held /\ [Next]_vars => Held'
  <1> USE DEF Held
  <1>1. CASE UpdateBounds \/ UpdateCostsEnd
    BY <1>1 DEF UpdateBounds, UpdateCostsEnd
  <1>2. CASE UpdateCostsBegin
    BY <1>2 DEF UpdateCostsBegin
  <1>3. Held /\ UNCHANGED <<pc, raster>> => Held'
    OBVIOUS
  <1>4. QED
    BY <1>1, <1>2, <1>3
    DEF Next, Callbacks, Callback, Costmap, Parameters, SwapBegin, SwapFails, SetEnabled, SwapEnd,
        Reset, Tick, Rollback, vars, costmapVars

\* Only updateCosts adds costs, and only of the pair the cycle still holds.
THEOREM ForgottenStays == Spec => ForgottenNotDrawn
  <1> DEFINE Safe == marked' \subseteq marked \/ (cycle # None /\ cycle.gen = generation)
  <1>1. Init => Held
    BY DEF Init, Held
  <1>2. Held /\ [Next]_vars => [Safe]_vars
    <2>1. Held /\ UpdateCostsEnd => Safe
      BY DEF UpdateCostsEnd, StillCurrent, Held
    <2>2. UpdateBounds \/ UpdateCostsBegin => marked' \subseteq marked
      BY DEF UpdateBounds, UpdateCostsBegin
    <2>3. QED
      BY <2>1, <2>2, OthersKeepMap DEF Next, Costmap
  <1>3. QED
    BY <1>1, <1>2, HeldStep, PTL DEF Spec, ForgottenNotDrawn

\* A late pair never replaces one with a newer stamp; a clock that goes back
\* empties the queues first, so that nothing pairs in the same callback.
THEOREM NewestFirst == Spec => NewestWins
  <1> DEFINE Newer == latest # None /\ latest' # None
                         => latest'.grid.stamp >= latest.grid.stamp
  <1>1. ASSUME QueueInv, [Next]_vars, latest # None, latest' # None
        PROVE  latest'.grid.stamp >= latest.grid.stamp
    <2>1. latest.grid.stamp \in Nat
      BY <1>1, GridAssumption DEF QueueInv, Snapshots
    <2>2. CASE latest' = latest
      BY <2>1, <2>2
    <2>3. CASE Callbacks
      <3>1. PICK k \in Kinds, g \in Grids, at \in Times, gen \in Gens : Callback(k, g, at, gen)
        BY <2>3 DEF Callbacks
      <3>2. CASE ~Accepts(gen)
        BY <2>1, <3>1, <3>2 DEF Callback
      <3>3. CASE Accepts(gen) /\ WentBack(at)
        <4>1. \A i \in Matches(<<>>, g) : FALSE
          BY DEF Matches
        <4>2. latest' = None
          BY <3>1, <3>3, <4>1 DEF Callback, BufferGrid
        <4>3. QED
          BY <1>1, <4>2
      <3>4. CASE Accepts(gen) /\ ~WentBack(at)
        <4>1. LET pair == [grid |-> g, gen |-> gen, at |-> at]
              IN  latest' = latest \/ (latest' = pair /\ Replaces(pair, latest))
          BY <3>1, <3>4 DEF Callback, BufferGrid
        <4>2. QED
          BY <1>1, <2>1, <4>1 DEF Replaces
      <3>5. QED
        BY <3>2, <3>3, <3>4
    <2>4. CASE UpdateBounds \/ Parameters \/ Reset
      <3>1. latest' = latest \/ latest' = None
        BY <2>4
        DEF UpdateBounds, Parameters, SwapBegin, SwapFails, SetEnabled, SwapEnd, Reset, inputVars
      <3>2. QED
        BY <1>1, <2>2, <3>1
    <2>5. QED
      BY <1>1, <2>2, <2>3, <2>4
      DEF Next, Costmap, UpdateCostsBegin, UpdateCostsEnd, Tick, Rollback, vars, inputVars
  <1>2. QueueInv /\ [Next]_vars => [Newer]_vars
    BY <1>1
  <1>3. QED
    BY <1>2, QueueInductive, PTL DEF Spec, NewestWins

-----------------------------------------------------------------------------
(***************************************************************************)
(* Types.                                                                  *)
(***************************************************************************)
Rest ==
    /\ now \in Times
    /\ creating \in BOOLEAN /\ enabled \in BOOLEAN
    /\ lastReceive \in Times \cup {None}
    /\ pc \in {"idle", "bounds", "raster"}
    /\ cycle \in Frames \cup {None} /\ raster \in Frames \cup {None}
    /\ map \in Maps
    /\ rendered \subseteq World \cup UNION {g.cells : g \in Grids}

LEMMA RestStep ==
  ASSUME QueueInv, CostmapInv, Held, Rest, [Next]_vars
  PROVE  Rest'
  <1>1. /\ now \in Times /\ lastReceive \in Times \cup {None}
        /\ pc \in {"idle", "bounds", "raster"}
        /\ cycle \in Frames \cup {None} /\ raster \in Frames \cup {None}
        /\ map \in Maps /\ rendered \subseteq World \cup UNION {g.cells : g \in Grids}
    BY Zenon DEF Rest
  <1>2. creating' \in BOOLEAN /\ enabled' \in BOOLEAN
    BY Zenon
    DEF Rest, Next, Callbacks, Callback, Costmap, UpdateBounds, UpdateCostsBegin, UpdateCostsEnd,
        Parameters, SwapBegin, SwapFails, SetEnabled, SwapEnd, Reset, Tick, Rollback, vars,
        configVars
  <1>3. now' \in Times
    <2>1. CASE Tick \/ Rollback
      BY <1>1, <2>1, BoundAssumption DEF Tick, Rollback, Times
    <2>2. QED
      BY <1>1, <2>1
      DEF Next, Callbacks, Callback, Costmap, UpdateBounds, UpdateCostsBegin, UpdateCostsEnd,
          Parameters, SwapBegin, SwapFails, SetEnabled, SwapEnd, Reset, vars
  <1>4. lastReceive' \in Times \cup {None}
    <2>1. CASE Callbacks
      BY <1>1, <2>1 DEF Callbacks, Callback, BufferGrid
    <2>2. QED
      BY <1>1, <2>1
      DEF Next, Costmap, UpdateBounds, UpdateCostsBegin, UpdateCostsEnd, Parameters, SwapBegin,
          SwapFails, SetEnabled, SwapEnd, Reset, Tick, Rollback, vars, inputVars
  <1>5. cycle' \in Frames \cup {None} /\ raster' \in Frames \cup {None}
    <2>1. Contribution \in Frames \cup {None}
      BY DEF Contribution, Fresh, QueueInv, Snapshots, Frames
    <2>2. CASE UpdateBounds
      BY <1>1, <2>1, <2>2 DEF UpdateBounds
    <2>3. QED
      BY <1>1, <2>2
      DEF Next, Callbacks, Callback, Costmap, UpdateCostsBegin, UpdateCostsEnd, Parameters,
          SwapBegin, SwapFails, SetEnabled, SwapEnd, Reset, Tick, Rollback, vars, costmapVars
  <1>6. pc' \in {"idle", "bounds", "raster"} /\ map' \in Maps
    <2>1. CASE Costmap
      BY <1>1, <2>1 DEF Costmap, UpdateBounds, UpdateCostsBegin, UpdateCostsEnd
    <2>2. QED
      BY <1>1, <2>1, OthersKeepMap DEF Next, vars, costmapVars
  <1>7. rendered' \subseteq World \cup UNION {g.cells : g \in Grids}
    <2>1. CASE UpdateCostsEnd
      <3>1. raster # None /\ StillCurrent => raster.grid \in Grids
        BY <1>1 DEF Frames
      <3>2. raster # None
        BY <2>1 DEF UpdateCostsEnd, Held
      <3>3. QED
        BY <1>1, <2>1, <3>1, <3>2 DEF UpdateCostsEnd
    <2>2. CASE UpdateBounds \/ UpdateCostsBegin
      BY <1>1, <2>2 DEF UpdateBounds, UpdateCostsBegin
    <2>3. QED
      BY <1>1, <2>1, <2>2, OthersKeepMap DEF Next, Costmap, vars, costmapVars
  <1>8. QED
    BY <1>1, <1>2, <1>3, <1>4, <1>5, <1>6, <1>7, Zenon DEF Rest

\* Every variable of the layer stays in its type: the queues are bounded and the
\* window and the costs lie on the map.
THEOREM TypeCorrect == Spec => []TypeOK
  <1>1. Init => Rest /\ CostmapInv /\ Held
    <2>1. 0 \in Times
      BY BoundAssumption DEF Times
    <2>2. Init => CostmapInv
      BY DEF Init, CostmapInv, NoGhosts
    <2>3. Init => /\ pc \in {"idle", "bounds", "raster"} /\ map \in Maps
                  /\ rendered \subseteq World \cup UNION {g.cells : g \in Grids}
      BY DEF Init
    <2>4. Init => /\ now \in Times /\ creating \in BOOLEAN /\ enabled \in BOOLEAN
                  /\ lastReceive = None /\ cycle = None /\ raster = None
      BY <2>1, Zenon DEF Init
    <2>5. Init => Held
      BY DEF Init, Held
    <2>6. QED
      BY <2>2, <2>3, <2>4, <2>5, Zenon DEF Rest
  <1>2. Rest /\ QueueInv /\ CostmapInv /\ Held /\ [Next]_vars => Rest'
    BY RestStep
  <1>3. Rest /\ QueueInv /\ CostmapInv => TypeOK
    BY Zenon DEF Rest, QueueInv, CostmapInv, TypeOK
  <1>4. QED
    BY <1>1, <1>2, <1>3, CostmapStep, HeldStep, QueueInductive, PTL DEF Spec

-----------------------------------------------------------------------------
(***************************************************************************)
(* Why a layer that has nothing to show is rid of its costs.               *)
(***************************************************************************)
\* This cycle may still draw.
Draws == (pc = "bounds" /\ cycle # None) \/ (pc = "raster" /\ StillCurrent)

\* The steps of the costmap thread until no cost is left: the rest of a cycle
\* that has begun with a pair, and a cycle without one.
CostsLeft ==
    IF marked = {} /\ ~Draws THEN 0
    ELSE CASE pc = "bounds" /\ cycle # None -> 4
           [] pc = "raster"                 -> 3
           [] pc = "idle"                   -> 2
           [] OTHER                         -> 1

\* While there is nothing to show, each step of the costmap thread brings it
\* nearer, and no callback, parameter, reset or clock puts it off.
CostsRecede ==
    NothingToShow =>
        /\ Costmap => CostsLeft' < CostsLeft \/ (CostsLeft = 0 /\ CostsLeft' = 0)
        /\ ~Costmap => CostsLeft' <= CostsLeft

\* The argument for EventuallyWithdrawn but for fairness: a layer that is
\* disabled, stale, swapped or reset draws at most once more, and the cycle
\* after that clears what it drew.
THEOREM CostsGo == Spec => [](CostsLeft = 0 => marked = {}) /\ [][CostsRecede]_vars
  <1> DEFINE Inv == CostmapInv /\ Held /\ pc \in {"idle", "bounds", "raster"}
  <1>1. Init => Inv
    BY DEF Init, CostmapInv, NoGhosts, Held
  <1>2. Inv /\ [Next]_vars => Inv'
    <2>1. pc \in {"idle", "bounds", "raster"} /\ [Next]_vars => pc' \in {"idle", "bounds", "raster"}
      <3>1. Costmap => pc' \in {"idle", "bounds", "raster"}
        BY DEF Costmap, UpdateBounds, UpdateCostsBegin, UpdateCostsEnd
      <3>2. QED
        BY <3>1, OthersKeepMap DEF Next, vars, costmapVars
    <2>2. QED
      BY <2>1, CostmapStep, HeldStep
  <1>3. CostsLeft = 0 => marked = {}
    BY DEF CostsLeft
  <1>4. ASSUME Inv, Next, NothingToShow, Costmap
        PROVE  CostsLeft' < CostsLeft \/ (CostsLeft = 0 /\ CostsLeft' = 0)
    <2>1. CASE UpdateBounds
      <3>1. Contribution = None
        <4>1. ~Fresh
          <5>1. CASE now - latest.at > Timeout
            BY <5>1, BoundAssumption DEF Fresh
          <5>2. QED
            BY <1>4, <5>1, Zenon DEF NothingToShow, Fresh
        <4>2. QED
          BY <4>1, Zenon DEF Contribution
      <3>2. pc = "idle" /\ cycle' = None /\ marked' \subseteq marked
        BY <2>1, <3>1 DEF UpdateBounds
      <3>3. pc' = "bounds" \/ (pc' = "idle" /\ window' = {})
        BY <2>1 DEF UpdateBounds
      <3>4. ~Draws /\ ~Draws'
        BY <3>2, <3>3 DEF Draws
      <3>5. CASE marked = {}
        BY <3>2, <3>4, <3>5 DEF CostsLeft
      <3>6. CASE marked # {} /\ pc' = "bounds"
        <4>1. CostsLeft = 2 /\ CostsLeft' \in {0, 1}
          BY <3>2, <3>6 DEF CostsLeft
        <4>2. QED
          BY <4>1
      <3>7. CASE marked # {} /\ pc' = "idle"
        <4>1. marked' \subseteq rendered \cap map' /\ rendered \cap map' \subseteq window'
          BY <1>4, <2>1 DEF UpdateBounds, Needed, CostmapInv, NoGhosts
        <4>2. marked' = {}
          BY <3>3, <3>7, <4>1
        <4>3. CostsLeft = 2 /\ CostsLeft' = 0
          BY <3>2, <3>4, <3>7, <4>2 DEF CostsLeft
        <4>4. QED
          BY <4>3
      <3>8. QED
        BY <3>3, <3>5, <3>6, <3>7
    <2>2. CASE UpdateCostsBegin
      <3>1. marked' = {} /\ pc = "bounds" /\ cycle' = cycle
        BY <1>4, <2>2 DEF UpdateCostsBegin, CostmapInv, NoGhosts
      <3>2. CASE cycle = None
        <4>1. pc' = "idle"
          BY <2>2, <3>2 DEF UpdateCostsBegin
        <4>2. CostsLeft \in {0, 1} /\ CostsLeft' = 0
          BY <3>1, <3>2, <4>1 DEF CostsLeft, Draws
        <4>3. QED
          BY <4>2
      <3>3. CASE cycle # None
        <4>1. pc' = "raster"
          BY <2>2, <3>3 DEF UpdateCostsBegin
        <4>2. Draws
          BY <3>1, <3>3 DEF Draws
        <4>3. CostsLeft = 4 /\ CostsLeft' \in {0, 3}
          BY <3>1, <3>3, <4>1, <4>2 DEF CostsLeft
        <4>4. QED
          BY <4>3
      <3>4. QED
        BY <3>2, <3>3
    <2>3. CASE UpdateCostsEnd
      <3>1. pc = "raster" /\ pc' = "idle" /\ marked = {}
        BY <1>4, <2>3 DEF UpdateCostsEnd, CostmapInv
      <3>2. ~Draws'
        BY <3>1 DEF Draws
      <3>3. CASE StillCurrent
        <4>1. CostsLeft = 3 /\ CostsLeft' \in {0, 2}
          BY <3>1, <3>3 DEF CostsLeft, Draws
        <4>2. QED
          BY <4>1
      <3>4. CASE ~StillCurrent
        <4>1. marked' = marked
          BY <2>3, <3>4 DEF UpdateCostsEnd
        <4>2. CostsLeft' = 0 /\ CostsLeft = 0
          BY <3>1, <3>2, <3>4, <4>1 DEF CostsLeft, Draws
        <4>3. QED
          BY <4>2
      <3>5. QED
        BY <3>3, <3>4
    <2>4. QED
      BY <1>4, <2>1, <2>2, <2>3 DEF Costmap
  <1>5. ASSUME Inv, Next, ~Costmap
        PROVE  CostsLeft' <= CostsLeft
    <2>1. CASE Callbacks \/ Parameters \/ Reset \/ Tick \/ Rollback
      <3>1. pc' = pc /\ marked' = marked
        BY <2>1, OthersKeepMap
      <3>2. UNCHANGED <<cycle, raster, generation>> \/ (cycle' = None /\ raster' = raster)
        BY <2>1
        DEF Callbacks, Callback, Parameters, SwapBegin, SwapFails, SetEnabled, SwapEnd, Reset, Tick,
            Rollback, costmapVars, configVars
      <3>3. Draws' => Draws
        BY <1>5, <3>1, <3>2 DEF Draws, StillCurrent, Held
      <3>4. pc' = "bounds" /\ cycle' # None => cycle # None
        BY <3>2
      <3>5. QED
        BY <3>1, <3>3, <3>4 DEF CostsLeft
    <2>2. QED
      BY <1>5, <2>1 DEF Next
  <1>6. Inv /\ [Next]_vars => [CostsRecede]_vars
    BY <1>4, <1>5 DEF CostsRecede
  <1> HIDE DEF Inv
  <1>7. QED
    BY <1>1, <1>2, <1>3, <1>6, PTL DEF Spec
=============================================================================
