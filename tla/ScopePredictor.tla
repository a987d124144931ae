--------------------------- MODULE ScopePredictor ---------------------------
(***************************************************************************)
(* m1_scope_predictor's node: one executor thread that buffers scans and   *)
(* odometry, schedules inference jobs and publishes predictions, and one   *)
(* worker thread that runs the model, joined by two one-element mailboxes  *)
(* that keep the latest item.                                              *)
(*                                                                         *)
(* Stamps count ticks; Period is the ten-hertz grid of the history.  The   *)
(* scan buffer is the set of its stamps, which increase strictly.  Of a    *)
(* pose stream the model keeps whether one or two samples are buffered:    *)
(* whether a sample goes back in time, whether the odometry brackets the   *)
(* history and whether a result is too old by the clock are left open.  A  *)
(* job is the generation it was built in and its anchor, the stamp of its  *)
(* newest scan; a result adds whether inference succeeded.  What only the  *)
(* diagnostics report (last_input_state, rates, ages) is left out.         *)
(***************************************************************************)
EXTENDS Integers, FiniteSets, FiniteSetsExt

CONSTANTS
    SeqLen,       \* SEQ_LEN, scans in a history
    Period,       \* HISTORY_PERIOD_NS, in ticks
    Tolerance,    \* scan_tolerance, in ticks
    Buffer,       \* buffer_duration, in ticks
    PoseStreams,  \* {"odom"}, with "truth" if the evaluator is enabled
    MaxTime,      \* bound on the stamps
    MaxGen,       \* bound on the resets
    None          \* no value

Times == 0 .. MaxTime
Gens  == 0 .. MaxGen

ASSUME HistoryAssumption ==
    /\ SeqLen \in Nat \ {0} /\ Period \in Nat \ {0}
    /\ Tolerance \in Nat /\ Buffer \in Nat
    /\ MaxTime \in Nat /\ MaxGen \in Nat
ASSUME StreamAssumption == "odom" \in PoseStreams
ASSUME NoneAssumption == None \notin Nat

VARIABLES
    scans,       \* stamps of the scan buffer
    samples,     \* samples of each pose stream, 2 for two or more
    nextAnchor,  \* next_anchor_ns
    generation,  \* input_generation
    terminal,    \* terminal_error is set
    spinning,    \* the executor runs; destroy_node has not been called
    input,       \* the worker's input mailbox
    busy,        \* the job under inference
    output,      \* the output mailbox
    ended,       \* the worker thread has returned, or never was
    shown        \* the last prediction published

streamVars == <<scans, samples>>
jobVars    == <<nextAnchor, generation>>
workerVars == <<input, busy, output, ended>>
vars == <<streamVars, jobVars, terminal, spinning, workerVars, shown>>

Jobs    == [gen : Gens, anchor : Times]
Results == [gen : Gens, anchor : Times, ok : BOOLEAN]

TypeOK ==
    /\ scans \subseteq Times
    /\ \A s, t \in scans : s - t <= Buffer
    /\ samples \in [PoseStreams -> 0 .. 2]
    /\ nextAnchor \in Nat \cup {None}
    /\ generation \in Gens
    /\ terminal \in BOOLEAN /\ spinning \in BOOLEAN /\ ended \in BOOLEAN
    /\ input \in Jobs \cup {None} /\ busy \in Jobs \cup {None}
    /\ output \in Results \cup {None} /\ shown \in Jobs \cup {None}

\* A backend that fails to load is an error too, and there is no worker.
Init ==
    /\ scans = {} /\ samples = [p \in PoseStreams |-> 0]
    /\ nextAnchor = None /\ generation = 0
    /\ terminal \in BOOLEAN /\ spinning = TRUE
    /\ input = None /\ busy = None /\ output = None
    /\ ended = terminal
    /\ shown = None

-----------------------------------------------------------------------------
(* The streams.  A Wrong operator is a slip that shows a property can fail. *)

WrongReset == UNCHANGED <<nextAnchor, generation>>

\* _reset_on_time_reversal, of any stream: what is under way is void.
TimeReset ==
    /\ generation < MaxGen
    /\ nextAnchor' = None
    /\ generation' = generation + 1

\* _trim
Trimmed(values, stamp) == {v \in values : v >= stamp - Buffer}

ScanCallback(stamp) ==
    /\ spinning
    /\ IF \E s \in scans : stamp <= s
       THEN TimeReset /\ scans' = {stamp}
       ELSE /\ scans' = Trimmed(scans \cup {stamp}, stamp)
            /\ UNCHANGED <<nextAnchor, generation>>
    /\ UNCHANGED <<samples, terminal, spinning, workerVars, shown>>

\* _odom_callback and _ground_truth_callback: the sample goes back in time, or
\* joins the buffer, whose older samples may all be due to leave.
PoseCallback(p) ==
    /\ spinning
    /\ \/ /\ samples[p] > 0
          /\ TimeReset
          /\ samples' = [samples EXCEPT ![p] = 1]
       \/ /\ \E kept \in {0, samples[p]} :
                samples' = [samples EXCEPT ![p] = IF kept = 0 THEN 1 ELSE 2]
          /\ UNCHANGED <<nextAnchor, generation>>
    /\ UNCHANGED <<scans, terminal, spinning, workerVars, shown>>

-----------------------------------------------------------------------------
(* build_job                                                                *)

Distance(s, t) == IF s < t THEN t - s ELSE s - t

\* find_nearest_indices: the nearest stamp, of two the earlier one.
Nearest(t) ==
    CHOOSE s \in scans : \A r \in scans \ {s} :
        \/ Distance(s, t) < Distance(r, t)
        \/ Distance(s, t) = Distance(r, t) /\ s < r

WrongUnique(slots) == TRUE

\* The slots of a history select different scans.
Unique(slots) == \A t, u \in slots : t # u => Nearest(t) # Nearest(u)

\* The stamps a history should have, up to its anchor target.
Slots(target) == {target - i * Period : i \in 0 .. SeqLen - 1}

HasHistory(target) ==
    /\ \A t \in Slots(target) : Distance(Nearest(t), t) <= Tolerance
    /\ Unique(Slots(target))

-----------------------------------------------------------------------------
(* The executor's timers.                                                   *)

\* The anchor the scheduler works towards.
Anchor ==
    IF nextAnchor = None THEN Min(scans) + (SeqLen - 1) * Period ELSE nextAnchor

WrongSteps == 0

\* Whole periods between that anchor and the newest scan.
Steps == IF Max(scans) < Anchor THEN 0 ELSE (Max(scans) - Anchor) \div Period

\* _schedule once the transform is known: wait for enough samples, for the
\* anchor, or submit a job.  The slot is spent even if build_job raises.
ScheduleJob ==
    IF Cardinality(scans) < SeqLen \/ samples["odom"] < 2
    THEN UNCHANGED <<nextAnchor, input>>
    ELSE IF Max(scans) + Tolerance < Anchor
    THEN nextAnchor' = Anchor /\ UNCHANGED input
    ELSE LET target == Anchor + Steps * Period
         IN  /\ nextAnchor' = target + Period
             /\ \/ UNCHANGED input
                \/ /\ HasHistory(target)
                   /\ input' = [gen |-> generation, anchor |-> Nearest(target)]

WrongMaySchedule == scans # {}

\* _schedule returns at once after an error, and before the first scan; it
\* returns too while the transform is unknown.
MaySchedule == ~terminal /\ scans # {}

Schedule ==
    /\ spinning /\ MaySchedule
    /\ ScheduleJob
    /\ UNCHANGED <<streamVars, generation, terminal, spinning, busy, output, ended,
                   shown>>

WrongCurrent(r) == TRUE

\* The result's history has not been reset.
Current(r) == r.gen = generation

\* _publish_result, of a result, which may be too old: an error, a result from
\* before a reset and an old one are dropped.
PublishResult ==
    /\ spinning /\ output # None
    /\ output' = None
    /\ terminal' = (terminal \/ ~output.ok)
    /\ \/ UNCHANGED shown
       \/ /\ output.ok /\ Current(output)
          /\ shown' = [gen |-> output.gen, anchor |-> output.anchor]
    /\ UNCHANGED <<streamVars, jobVars, spinning, input, busy, ended>>

\* destroy_node: the input mailbox closes and loses its job.
DestroyNode ==
    /\ spinning
    /\ spinning' = FALSE /\ input' = None
    /\ UNCHANGED <<streamVars, jobVars, terminal, busy, output, ended, shown>>

-----------------------------------------------------------------------------
(* The worker.                                                              *)

WorkerTake ==
    /\ ~ended /\ busy = None /\ input # None
    /\ busy' = input /\ input' = None
    /\ UNCHANGED <<streamVars, jobVars, terminal, spinning, output, ended,
                   shown>>

\* Inference succeeds or raises; an unread result is replaced.
WorkerPut ==
    /\ busy # None
    /\ \E ok \in BOOLEAN :
          output' = [gen |-> busy.gen, anchor |-> busy.anchor, ok |-> ok]
    /\ busy' = None
    /\ UNCHANGED <<streamVars, jobVars, terminal, spinning, input, ended,
                   shown>>

WrongGetReturns == FALSE

\* get returns None: the mailbox is closed and empty.
GetReturns == ~spinning /\ input = None

WorkerEnd ==
    /\ ~ended /\ busy = None /\ GetReturns
    /\ ended' = TRUE
    /\ UNCHANGED <<streamVars, jobVars, terminal, spinning, input, busy,
                   output, shown>>

-----------------------------------------------------------------------------
Streams == (\E stamp \in Times : ScanCallback(stamp))
               \/ \E p \in PoseStreams : PoseCallback(p)
\* After destroy_node the process may end, and its daemon thread with it.
Terminated == ~spinning /\ UNCHANGED vars

Worker == WorkerTake \/ WorkerPut \/ WorkerEnd

Next ==
    \/ Streams
    \/ Schedule \/ PublishResult \/ DestroyNode
    \/ Worker
    \/ Terminated

Spec == Init /\ [][Next]_vars

\* The timer runs, inference returns and the worker is scheduled.
FairSpec == Spec /\ WF_vars(PublishResult) /\ WF_vars(Worker)

-----------------------------------------------------------------------------
(* Properties.                                                              *)

\* Jobs leave the pipeline in the order of their scans, and no scan anchors two
\* predictions of a generation: from the last one published back to the next
\* one to infer, generation and anchor increase.  A tolerance of half a period
\* lets one scan be near two slots, and either mailbox may drop a job.
InOrder(j, k) ==
    \/ j = None \/ k = None
    \/ j.gen < k.gen
    \/ j.gen = k.gen /\ j.anchor < k.anchor

PipelineInOrder ==
    /\ InOrder(shown, output) /\ InOrder(shown, busy) /\ InOrder(shown, input)
    /\ InOrder(output, busy) /\ InOrder(output, input)
    /\ InOrder(busy, input)

\* A prediction whose scan is ahead of the scan stream, left over from before
\* a reset, is never published.
NeverAhead ==
    [][shown' # shown => \E s \in scans : shown'.anchor <= s]_vars

\* The scheduler never works through a backlog: whatever anchor it moves to
\* lies ahead of the newest scan.
NoBacklog ==
    [][nextAnchor' \notin {nextAnchor, None} => \A s \in scans : s < nextAnchor']_vars

\* After an inference error the pipeline only drains: nothing enters it, so at
\* most the two jobs that were under way are still published.
Pending == Cardinality({i \in 1 .. 3 : <<input, busy, output>>[i] # None})

ErrorDrains ==
    [][terminal => /\ Pending' <= Pending
                   /\ shown' # shown => Pending' < Pending]_vars

\* destroy_node ends the worker thread.
StopEndsWorker == ~spinning ~> ended
=============================================================================
