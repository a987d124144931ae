----------------------------- MODULE ScopeLayer -----------------------------
(***************************************************************************)
(* m1_scope_costmap_layer's ScopeLayer: a Nav2 costmap plugin that adds    *)
(* SCOPE's predicted occupancy to the local costmap and takes it back.     *)
(*                                                                         *)
(* Four actors share the layer under its mutex: the subscription callbacks *)
(* (one callback group, so one callback at a time), the costmap thread,    *)
(* the parameter callback and the costmap-clearing service.  Prediction    *)
(* and uncertainty arrive as two messages that are paired by stamp and     *)
(* geometry; the costmap thread draws the latest pair in the two calls     *)
(* updateBounds and updateCosts of its cycle, and lets go of the mutex     *)
(* while it rasterizes.                                                    *)
(*                                                                         *)
(* A grid is its stamp and the world cells its bounds cover.  Which of     *)
(* those cells it raises depends on the encoded values, the thresholds and *)
(* the obstacles already there: any subset, here.  The model keeps the set *)
(* of master cells that hold a SCOPE cost, not the cost.                   *)
(***************************************************************************)
EXTENDS Integers, Sequences, SequencesExt

CONSTANTS
    Grids,        \* the grids that may be published: [stamp, cells]
    Maps,         \* the sets of world cells the rolling window may cover
    Timeout,      \* stale_timeout, in ticks
    Depth,        \* kMaximumPendingPerTopic
    MaxTime,      \* bound on the clock
    MaxGen,       \* bound on the topic changes
    None          \* no value

World == UNION Maps
Kinds == {"prediction", "uncertainty"}
Times == 0 .. MaxTime
Gens  == 1 .. MaxGen

ASSUME GridAssumption ==
    \A g \in Grids : /\ g = [stamp |-> g.stamp, cells |-> g.cells]
                     /\ g.stamp \in Nat /\ g.cells # {}
ASSUME BoundAssumption ==
    /\ Timeout \in Nat /\ MaxTime \in Nat
    /\ MaxGen \in Nat \ {0} /\ Depth \in Nat \ {0}
ASSUME NoneAssumption ==
    None \notin Times
        \cup [grid : Grids, gen : Gens]
        \cup [grid : Grids, gen : Gens, at : Times]

VARIABLES
    now,          \* the node's clock, which a simulator may set back
    generation,   \* subscription_generation_
    creating,     \* onParametersChanged holds subscriptions not yet in use
    enabled,      \* config_.enabled
    pending,      \* pending_predictions_ and pending_uncertainties_
    lastReceive,  \* last_receive_time_
    latest,       \* latest_snapshot_
    pc,           \* the costmap thread: "idle", "bounds" or "raster"
    cycle,        \* cycle_snapshot_
    raster,       \* updateCosts' copy of it
    rendered,     \* rendered_bounds_, {} for none
    map,          \* the world cells the master covers
    window,       \* the cells this cycle clears and recomposes
    marked        \* the master cells that hold a SCOPE cost

inputVars   == <<pending, lastReceive, latest>>
configVars  == <<generation, creating, enabled>>
costmapVars == <<pc, cycle, raster, rendered, map, window, marked>>
vars == <<now, inputVars, configVars, costmapVars>>

\* The receipt time of a grid that waits is not kept: the pair is as old as its
\* second half, because a half received before lastReceive empties the queues.
\* Nor is the receipt time of a snapshot a cycle has chosen: nobody reads it.
Frames    == [grid : Grids, gen : Gens]
Snapshots == [grid : Grids, gen : Gens, at : Times]

TypeOK ==
    /\ now \in Times
    /\ generation \in Gens /\ creating \in BOOLEAN /\ enabled \in BOOLEAN
    /\ pending \in [Kinds -> Seq(Frames)]
    /\ \A k \in Kinds : Len(pending[k]) <= Depth
    /\ lastReceive \in Times \cup {None}
    /\ latest \in Snapshots \cup {None}
    /\ pc \in {"idle", "bounds", "raster"}
    /\ cycle \in Frames \cup {None} /\ raster \in Frames \cup {None}
    /\ map \in Maps
    /\ rendered \subseteq World \cup UNION {g.cells : g \in Grids}
    /\ window \subseteq map /\ marked \subseteq map

NoPending == [k \in Kinds |-> <<>>]

Init ==
    /\ now = 0
    /\ generation = 1 /\ creating = FALSE /\ enabled \in BOOLEAN
    /\ pending = NoPending
    /\ lastReceive = None /\ latest = None
    /\ pc = "idle" /\ cycle = None /\ raster = None
    /\ rendered = {} /\ map \in Maps /\ window = {} /\ marked = {}

-----------------------------------------------------------------------------
(* Subscription callbacks.  A Wrong operator is a slip that shows a        *)
(* property can fail.                                                      *)

Other(k) == IF k = "prediction" THEN "uncertainty" ELSE "prediction"

WrongAccepts(gen) == TRUE

\* bufferGrid's generation check.
Accepts(gen) == gen = generation

\* bufferGrid's test for a clock that has gone back.
WentBack(at) == lastReceive # None /\ at < lastReceive

\* The queue drops its oldest grid.
Bounded(q) == IF Len(q) > Depth THEN Tail(q) ELSE q

\* The positions in q of the grids that match g: matchingKey.
Matches(q, g) == {i \in 1 .. Len(q) : q[i].grid = g}

WrongReplaces(snapshot, old) == TRUE

\* A pair replaces the latest one unless its stamp is older.
Replaces(snapshot, old) == old = None \/ snapshot.grid.stamp >= old.grid.stamp

WrongErase(own, other, i) == <<own, RemoveAt(other, i)>>

\* Both halves of a pair leave their queues.
Erase(own, other, i) == <<Front(own), RemoveAt(other, i)>>

\* bufferGrid under the lock: the grid waits, or pairs with the oldest grid
\* that matches it.
BufferGrid(k, g, at, gen) ==
    LET back  == WentBack(at)
        own   == Bounded(Append(IF back THEN <<>> ELSE pending[k],
                                [grid |-> g, gen |-> gen]))
        other == IF back THEN <<>> ELSE pending[Other(k)]
        old   == IF back THEN None ELSE latest
        pair  == [grid |-> g, gen |-> gen, at |-> at]
        found == Matches(other, g)
    IN  /\ lastReceive' = at
        /\ \/ /\ found = {}
              /\ pending' = [pending EXCEPT ![k] = own, ![Other(k)] = other]
              /\ latest' = old
           \/ \E i \in found :
                 LET rest == Erase(own, other, i)
                 IN  /\ \A j \in found : i <= j
                     /\ pending' = [pending EXCEPT ![k] = rest[1],
                                                   ![Other(k)] = rest[2]]
                     /\ latest' = IF Replaces(pair, old) THEN pair ELSE old

\* A subscription callback, for the current subscription, for the one a topic
\* change has just replaced, or for the one it is about to install.  It reads
\* the clock before it waits for the lock, and the clock may go on or back in
\* between: at is any time.  An invalid grid changes nothing.
Callback(k, g, at, gen) ==
    /\ gen \in {generation - 1, generation}
                   \cup (IF creating THEN {generation + 1} ELSE {})
    /\ IF Accepts(gen) THEN BufferGrid(k, g, at, gen)
                       ELSE UNCHANGED <<pending, lastReceive, latest>>
    /\ UNCHANGED <<now, configVars, costmapVars>>

-----------------------------------------------------------------------------
(* The costmap thread.                                                      *)

WrongFresh == latest # None /\ now - latest.at \in 0 .. Timeout

\* The layer has a pair that is fresh by its receipt.
Fresh == enabled /\ latest # None /\ now - latest.at \in 0 .. Timeout

\* The pair updateBounds chooses for this cycle.
Contribution ==
    IF Fresh THEN [grid |-> latest.grid, gen |-> latest.gen] ELSE None

\* The receipt lies in the future: the clock has gone back.
FromTheFuture == enabled /\ latest # None /\ now < latest.at

WrongNeeded(snapshot) == IF snapshot = None THEN rendered ELSE snapshot.grid.cells

\* What the layer asks to recompose: what it drew last time, and the new grid.
Needed(snapshot) ==
    rendered \cup (IF snapshot = None THEN {} ELSE snapshot.grid.cells)

\* The costmap rolls, then asks its layers for bounds: updateBounds.  Other
\* layers may ask for more; if nobody asks for a cell of the map the cycle
\* ends here.
UpdateBounds ==
    /\ pc = "idle"
    /\ cycle' = Contribution
    /\ IF FromTheFuture
       THEN latest' = None /\ pending' = NoPending /\ lastReceive' = now
       ELSE UNCHANGED <<latest, pending, lastReceive>>
    /\ \E rolled \in Maps : \E others \in {{}, rolled} :
          /\ map' = rolled
          /\ marked' = marked \cap rolled
          /\ window' = (Needed(cycle') \cap rolled) \cup others
    /\ pc' = IF window' = {} THEN "idle" ELSE "bounds"
    /\ UNCHANGED <<now, configVars, raster, rendered>>

\* The costmap clears the window; updateCosts copies the snapshot, or forgets
\* the bounds if there is none.
UpdateCostsBegin ==
    /\ pc = "bounds"
    /\ marked' = marked \ window
    /\ raster' = cycle
    /\ IF cycle = None
       THEN pc' = "idle" /\ rendered' = {} /\ window' = {}
       ELSE pc' = "raster" /\ UNCHANGED <<rendered, window>>
    /\ UNCHANGED <<now, inputVars, configVars, cycle, map>>

WrongStillCurrent == TRUE

\* The snapshot is still the one to draw.
StillCurrent == raster.gen = generation /\ cycle = raster

\* updateCosts writes what it has rasterized, if the snapshot still stands.
UpdateCostsEnd ==
    /\ pc = "raster"
    /\ pc' = "idle" /\ raster' = None /\ window' = {}
    /\ IF StillCurrent
       THEN /\ \E raised \in SUBSET (raster.grid.cells \cap window) :
                  marked' = marked \cup raised
            /\ rendered' = raster.grid.cells
       ELSE UNCHANGED <<marked, rendered>>
    /\ UNCHANGED <<now, inputVars, configVars, cycle, map>>

-----------------------------------------------------------------------------
(* Parameters, the clearing service and the clock.                          *)

\* onParametersChanged without a topic change.
SetEnabled(b) ==
    /\ ~creating
    /\ enabled' = b
    /\ UNCHANGED <<now, generation, creating, inputVars, costmapVars>>

\* onParametersChanged with a topic change: the new subscriptions exist, and
\* may already call back, before they are installed.
SwapBegin ==
    /\ ~creating /\ generation < MaxGen
    /\ creating' = TRUE
    /\ UNCHANGED <<now, generation, enabled, inputVars, costmapVars>>

WrongKeepsQueues == pending

\* The queues after a topic change.
QueuesAfterSwap == NoPending

\* makeSubscriptions threw: nothing is installed, and the next topic change tries
\* the same generation number again.
SwapFails ==
    /\ creating
    /\ creating' = FALSE
    /\ UNCHANGED <<now, generation, enabled, inputVars, costmapVars>>

SwapEnd(b) ==
    /\ creating
    /\ creating' = FALSE
    /\ generation' = generation + 1
    /\ enabled' = b
    /\ pending' = QueuesAfterSwap
    /\ lastReceive' = None /\ latest' = None /\ cycle' = None
    /\ UNCHANGED <<now, pc, raster, rendered, map, window, marked>>

\* reset, called when the costmap is cleared: rendered_bounds_ stays.
Reset ==
    /\ pending' = NoPending
    /\ lastReceive' = None /\ latest' = None /\ cycle' = None
    /\ UNCHANGED <<now, configVars, pc, raster, rendered, map, window,
                   marked>>

Tick ==
    /\ now < MaxTime
    /\ now' = now + 1
    /\ UNCHANGED <<inputVars, configVars, costmapVars>>

\* The simulator restarts.
Rollback ==
    /\ now > 0
    /\ now' \in 0 .. now - 1
    /\ UNCHANGED <<inputVars, configVars, costmapVars>>

Callbacks ==
    \E k \in Kinds, g \in Grids, at \in Times, gen \in Gens : Callback(k, g, at, gen)
Parameters == SwapBegin \/ SwapFails \/ \E b \in BOOLEAN : SetEnabled(b) \/ SwapEnd(b)
Costmap == UpdateBounds \/ UpdateCostsBegin \/ UpdateCostsEnd

Next ==
    \/ Callbacks
    \/ Costmap
    \/ Parameters \/ Reset
    \/ Tick \/ Rollback

Spec == Init /\ [][Next]_vars

\* The costmap thread runs its cycles.
FairSpec == Spec /\ WF_vars(Costmap)

-----------------------------------------------------------------------------
(* Properties.                                                              *)

\* No ghost obstacle: a SCOPE cost on the map lies within rendered_bounds_, so
\* the next cycle recomposes it, whatever swap, reset, rollback or roll of the
\* window comes in the middle of a cycle.
NoGhosts == marked \subseteq rendered

\* A cycle without a snapshot withdraws every SCOPE cost.
Withdrawn ==
    [][pc = "bounds" /\ pc' = "idle" => marked' = {}]_vars

\* Two halves that match never wait for each other.
NoPairMissed ==
    \A i \in 1 .. Len(pending["prediction"]), j \in 1 .. Len(pending["uncertainty"]) :
        pending["prediction"][i].grid # pending["uncertainty"][j].grid

\* Whatever waits or is shown came over the subscriptions now in use: grids of
\* the old and the new topics are never paired.
OneSource ==
    /\ latest # None => latest.gen = generation
    /\ cycle # None => cycle.gen = generation
    /\ \A k \in Kinds : \A i \in 1 .. Len(pending[k]) : pending[k][i].gen = generation

\* The costs drawn belong to the newest pair: a late pair never replaces one
\* with a newer stamp, unless everything was forgotten first.
NewestWins ==
    [][latest # None /\ latest' # None
          => latest'.grid.stamp >= latest.grid.stamp]_vars

\* A pair the layer has forgotten, by a reset or a topic change while the
\* costmap thread rasterizes it without the lock, is not drawn.
ForgottenNotDrawn ==
    [][marked' \subseteq marked \/ (cycle # None /\ cycle.gen = generation)]_vars

NothingToShow == ~enabled \/ latest = None \/ now - latest.at > Timeout

\* When the layer has nothing to show for good (disabled, stale, swapped or
\* reset), the costmap is rid of its costs for good.
EventuallyWithdrawn == <>[]NothingToShow => <>[](marked = {})
=============================================================================
