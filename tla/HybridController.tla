-------------------------- MODULE HybridController --------------------------
(***************************************************************************)
(* m1_local_fast2d::HybridController, the Nav2 controller plugin that puts *)
(* a local kinodynamic planner in front of the stock MPPI controller.      *)
(*                                                                         *)
(* Two threads share the plugin:                                           *)
(*  - the controller-server thread calls activate, deactivate, cleanup,    *)
(*    setPlan and computeVelocityCommands, one after the other;            *)
(*  - the worker thread (workerLoop, planOnce) turns the newest input into *)
(*    a local guide.                                                       *)
(* They meet in the fields guarded by mutex_.  One action below is one     *)
(* critical section of mutex_, together with the accesses to fields that   *)
(* only its thread touches.                                                *)
(*                                                                         *)
(* Paths are abstracted to the number of the global plan they come from    *)
(* and the id of the guide, 0 standing for the unmodified global plan.     *)
(* Counters, publications and diagnostics other than reference_source_ are *)
(* left out, and so is which candidate the selector prefers.               *)
(***************************************************************************)
EXTENDS Integers

CONSTANTS
    Modes,             \* values the mode parameter may be configured to
    StaleTimeout,      \* path_stale_timeout, in ticks
    ForceFallback,     \* values test_force_fallback may take at a cycle
    Restricted,        \* values restricted_mppi.enabled may take at a cycle
    VersionCompatible, \* the installed MPPI has the version the adapter needs
    ClockRollback,     \* TRUE: the ROS clock may be reset to 0
    MaxGen,            \* bound on the number of global plans
    MaxGuides,         \* bound on the number of guides
    MaxTime            \* bound on the ROS clock

ASSUME ModeAssumption == Modes \subseteq {"shadow", "active"}
ASSUME FlagAssumption == /\ ForceFallback \subseteq BOOLEAN
                         /\ Restricted \subseteq BOOLEAN
                         /\ VersionCompatible \in BOOLEAN
                         /\ ClockRollback \in BOOLEAN
ASSUME BoundAssumption == /\ StaleTimeout \in Nat
                          /\ MaxGen \in Nat
                          /\ MaxGuides \in Nat
                          /\ MaxTime \in Nat

VARIABLES
    (* the ROS clock and the plugin's life cycle *)
    now,          \* node->now()
    mode,         \* mode_, read once by configure
    life,         \* "inactive", "active" or "finalized"
    stop,         \* stop_worker_
    planned,      \* the controller server has called setPlan since activate
    (* fields guarded by mutex_ *)
    inputGen,     \* input_generation_ and latest_input_.plan / .generation
    posed,        \* latest_input_.pose has a frame: a cycle has stored a pose
    guide,        \* latest_guide_
    prevSel,      \* previous_selected_trajectory_
    ref,          \* latest_reference_
    source,       \* reference_source_
    (* the controller-server thread *)
    cpc,          \* where it is
    cg,           \* its copy of latest_guide_ in this cycle
    use,          \* use_guide
    mppi,         \* the plan last given to mppi_->setPlan
    forwarded,    \* forwarded_generation_
    cmd,          \* the command last returned, by the plan it follows
    (* the worker thread *)
    wpc,          \* where it is; "off" when there is no thread
    seen,         \* generation of the input it last took
    job           \* the input being planned, and what planOnce derived

life_vars   == <<mode, life, stop, planned>>
shared_vars == <<inputGen, posed, guide, prevSel, ref, source>>
ctl_vars    == <<cpc, cg, use, mppi, forwarded, cmd>>
worker_vars == <<wpc, seen, job>>
vars == <<now, life_vars, shared_vars, ctl_vars, worker_vars>>

Gens   == 0 .. MaxGen
Ids    == 0 .. MaxGuides
Times  == 0 .. MaxTime
Guides == [id : Ids, gen : Gens, stamp : Times, valid : BOOLEAN]
Plans  == [gen : Gens, id : Ids]
Routes == [gen : Gens, stamp : Times]
Jobs   == [gen : Gens, posed : BOOLEAN, snap : Times, prev : Routes]
Commands == [src : {"none", "mppi", "restricted", "zero"}, plan : Plans]

NoGuide     == [id |-> 0, gen |-> 0, stamp |-> 0, valid |-> FALSE]
NoRoute     == [gen |-> 0, stamp |-> 0]    \* plans are numbered from 1
NoJob       == [gen |-> 0, posed |-> FALSE, snap |-> 0, prev |-> NoRoute]
Original(g) == [gen |-> g, id |-> 0]
NoPlan      == Original(0)

TypeOK ==
    /\ now \in Times
    /\ mode \in {"shadow", "active"}
    /\ life \in {"inactive", "active", "finalized"}
    /\ stop \in BOOLEAN
    /\ planned \in BOOLEAN
    /\ inputGen \in Gens
    /\ posed \in BOOLEAN
    /\ guide \in Guides
    /\ prevSel \in Routes
    /\ ref \in Plans
    /\ source \in {"global_fallback", "local_fast2d"}
    /\ cpc \in {"idle", "setplan", "forward", "command", "join"}
    /\ cg \in Guides
    /\ use \in BOOLEAN
    /\ mppi \in Plans
    /\ forwarded \in Gens
    /\ cmd \in Commands
    /\ wpc \in {"off", "wait", "plan", "search", "publish", "stopped"}
    /\ seen \in Gens
    /\ job \in Jobs

Init ==
    /\ now = 0
    /\ mode \in Modes
    /\ life = "inactive" /\ stop = FALSE /\ planned = FALSE
    /\ inputGen = 0 /\ posed = FALSE
    /\ guide = NoGuide /\ prevSel = NoRoute
    /\ ref = NoPlan /\ source = "global_fallback"
    /\ cpc = "idle" /\ cg = NoGuide /\ use = FALSE
    /\ mppi = NoPlan /\ forwarded = 0
    /\ cmd = [src |-> "none", plan |-> NoPlan]
    /\ wpc = "off" /\ seen = 0 /\ job = NoJob

-----------------------------------------------------------------------------
(* The choices the actions below are built from.  Each wrong variant is a  *)
(* plausible slip in the code; no specification uses them, they show that  *)
(* the properties can fail.                                                *)

WrongKeepsValue == forwarded

\* The value of forwarded_generation_ when MPPI has the global plan.
NothingForwarded == 0

WrongKeepsGuide    == guide
WrongRestartsCount == NoGuide

\* latest_guide_ after setPlan.
InvalidatedGuide == [guide EXCEPT !.valid = FALSE]

\* The freshness test of a cycle.  The age is signed: a stamp in the future
\* of the clock is fresh.
Fresh(g) == now - g.stamp <= StaleTimeout

WrongIgnoresMode(force) == ~force /\ guide.valid /\ Fresh(guide)

\* use_guide.
Decision(force) == mode = "active" /\ ~force /\ guide.valid /\ Fresh(guide)

WrongLeavesGuide == mppi
WrongPlanOfGuide == IF forwarded # 0 THEN Original(cg.gen) ELSE mppi

\* MPPI's plan after a fallback: the global plan, if a guide replaced it.
RestoredPlan == IF forwarded # 0 THEN Original(inputGen) ELSE mppi

WrongWaitsForPose == posed

\* wait_for returns on a notification, or on its timeout of 1 / update_rate:
\* at any time.
WaitReturns == TRUE

\* latest_guide_ after planOnce.
PlannedGuide ==
    [id |-> guide.id + 1, gen |-> job.gen, stamp |-> now, valid |-> TRUE]

-----------------------------------------------------------------------------
(* Life cycle, on the controller-server thread. *)

\* activate(): start the worker thread; its seen starts from 0.
Activate ==
    /\ cpc = "idle" /\ life = "inactive"
    /\ life' = "active" /\ stop' = FALSE /\ planned' = FALSE
    /\ wpc' = "wait" /\ seen' = 0 /\ job' = NoJob
    /\ UNCHANGED <<now, mode, shared_vars, ctl_vars>>

\* deactivate() up to join(): ask the worker to stop, forget the route.
DeactivateSignal ==
    /\ cpc = "idle" /\ life = "active"
    /\ stop' = TRUE
    /\ prevSel' = NoRoute
    /\ cpc' = "join"
    /\ UNCHANGED <<now, mode, life, planned, inputGen, posed, guide, ref, source,
                   cg, use, mppi, forwarded, cmd, worker_vars>>

\* The thread is detached instead of joined.
WrongDetach ==
    /\ cpc = "join"
    /\ life' = "inactive"
    /\ cpc' = "idle"
    /\ UNCHANGED <<now, mode, stop, planned, shared_vars, cg, use, mppi,
                   forwarded, cmd, worker_vars>>

\* deactivate() from the return of join().
DeactivateJoin ==
    /\ cpc = "join" /\ wpc = "stopped"
    /\ wpc' = "off"
    /\ life' = "inactive"
    /\ cpc' = "idle"
    /\ UNCHANGED <<now, mode, stop, planned, shared_vars, cg, use, mppi, forwarded,
                   cmd, seen, job>>

\* cleanup() of an inactive plugin; the server then destroys the object.
Cleanup ==
    /\ cpc = "idle" /\ life = "inactive"
    /\ life' = "finalized"
    /\ prevSel' = NoRoute
    /\ stop' = TRUE
    /\ ref' = NoPlan
    /\ mppi' = NoPlan
    /\ UNCHANGED <<now, mode, planned, inputGen, posed, guide, source, cpc, cg, use,
                   forwarded, cmd, worker_vars>>

-----------------------------------------------------------------------------
(* setPlan and computeVelocityCommands, on the controller-server thread.   *)

\* setPlan(): the critical section.
SetPlanInput ==
    /\ cpc = "idle" /\ life = "active"
    /\ inputGen < MaxGen
    /\ inputGen' = inputGen + 1
    /\ guide' = InvalidatedGuide
    /\ prevSel' = NoRoute
    /\ cpc' = "setplan"
    /\ UNCHANGED <<now, life_vars, posed, ref, source, cg, use, mppi,
                   forwarded, cmd, worker_vars>>

\* setPlan(): mppi_->setPlan(path), after the mutex is released.
SetPlanForward ==
    /\ cpc = "setplan"
    /\ mppi' = Original(inputGen)
    /\ forwarded' = NothingForwarded
    /\ planned' = TRUE
    /\ cpc' = "idle"
    /\ UNCHANGED <<now, mode, life, stop, shared_vars, cg, use, cmd, worker_vars>>

\* computeVelocityCommands(): store pose and velocity, copy the guide, decide.
ComputeRead ==
    /\ cpc = "idle" /\ life = "active" /\ planned
    /\ posed' = TRUE
    /\ cg' = guide
    /\ \E force \in ForceFallback : use' = Decision(force)
    /\ cpc' = "forward"
    /\ UNCHANGED <<now, life_vars, inputGen, guide, prevSel, ref, source,
                   mppi, forwarded, cmd, worker_vars>>

\* A guide of a plan none of whose guides is forwarded yet: it becomes the
\* timed reference and MPPI's plan.
Accept ==
    /\ cpc = "forward" /\ use /\ cg.gen # forwarded
    /\ ref' = [gen |-> cg.gen, id |-> cg.id]
    /\ mppi' = [gen |-> cg.gen, id |-> cg.id]
    /\ forwarded' = cg.gen
    /\ source' = "local_fast2d"
    /\ cpc' = "command"
    /\ UNCHANGED <<now, life_vars, inputGen, posed, guide, prevSel, cg, use,
                   cmd, worker_vars>>

\* A guide of the plan already forwarded: MPPI keeps the guide it has.
Keep ==
    /\ cpc = "forward" /\ use /\ cg.gen = forwarded
    /\ cpc' = "command"
    /\ UNCHANGED <<now, life_vars, shared_vars, cg, use, mppi, forwarded, cmd,
                   worker_vars>>

\* No usable guide: give MPPI the global plan back if a guide replaced it.
Fallback ==
    /\ cpc = "forward" /\ ~use
    /\ mppi' = RestoredPlan
    /\ forwarded' = NothingForwarded
    /\ source' = "global_fallback"
    /\ cpc' = "command"
    /\ UNCHANGED <<now, life_vars, inputGen, posed, guide, prevSel, ref, cg,
                   use, cmd, worker_vars>>

\* The commands a cycle may return.  The restricted adapter tracks the timed
\* reference; without one, or when no sampled control is feasible, it returns
\* zero.  Every other branch is the stock controller on its current plan.
CommandOptions(restricted) ==
    IF mode = "active" /\ restricted /\ VersionCompatible
    THEN {[src |-> "zero", plan |-> NoPlan]} \cup
         (IF use THEN {[src |-> "restricted", plan |-> ref]} ELSE {})
    ELSE {[src |-> "mppi", plan |-> mppi]}

Command ==
    /\ cpc = "command"
    /\ \E restricted \in Restricted :
          \E c \in CommandOptions(restricted) : cmd' = c
    /\ cpc' = "idle"
    /\ UNCHANGED <<now, life_vars, shared_vars, cg, use, mppi, forwarded,
                   worker_vars>>

-----------------------------------------------------------------------------
(* workerLoop and planOnce, on the worker thread.                          *)

\* workerLoop(): the wait returns to a raised stop flag.
WorkerStop ==
    /\ wpc = "wait" /\ WaitReturns /\ stop
    /\ wpc' = "stopped"
    /\ UNCHANGED <<now, life_vars, shared_vars, ctl_vars, seen, job>>

\* workerLoop(): take the newest input; plan if it has a plan and a pose.
WorkerTake ==
    /\ wpc = "wait" /\ WaitReturns /\ ~stop
    /\ seen' = inputGen
    /\ job' = [gen |-> inputGen, posed |-> posed, snap |-> 0, prev |-> NoRoute]
    /\ wpc' = IF inputGen > 0 /\ posed THEN "plan" ELSE "wait"
    /\ UNCHANGED <<now, life_vars, shared_vars, ctl_vars>>

\* planOnce(): transforms found, costmap copied and stamped.
WorkerSnapshot ==
    /\ wpc = "plan"
    /\ job' = [job EXCEPT !.snap = now]
    /\ wpc' = "search"
    /\ UNCHANGED <<now, life_vars, shared_vars, ctl_vars, seen>>

\* planOnce(): a transform is missing, or the planner finds no path in time.
WorkerFail ==
    /\ wpc \in {"plan", "search"}
    /\ wpc' = "wait"
    /\ UNCHANGED <<now, life_vars, shared_vars, ctl_vars, seen, job>>

\* planOnce(): the planner succeeded; read the previously selected route,
\* dropping it when its stamp is in this plan's future.  MaxGuides bounds the
\* searches that may succeed.
WorkerSelect ==
    /\ wpc = "search"
    /\ guide.id < MaxGuides
    /\ LET route == IF prevSel.stamp > job.snap THEN NoRoute ELSE prevSel
       IN  /\ prevSel' = route
           /\ job' = [job EXCEPT !.prev = route]
    /\ wpc' = "publish"
    /\ UNCHANGED <<now, life_vars, inputGen, posed, guide, ref, source,
                   ctl_vars, seen>>

\* planOnce(): publish the guide.  Nothing checks that the input it was
\* planned from is still the current one.
WorkerPublish ==
    /\ wpc = "publish"
    /\ prevSel' = [gen |-> job.gen, stamp |-> job.snap]
    /\ guide' = PlannedGuide
    /\ wpc' = "wait"
    /\ UNCHANGED <<now, life_vars, inputGen, posed, ref, source, ctl_vars,
                   seen, job>>

-----------------------------------------------------------------------------
(* The ROS clock: time passes, and a restarted simulation sets it back.    *)

Tick ==
    /\ now < MaxTime
    /\ now' = now + 1
    /\ UNCHANGED <<life_vars, shared_vars, ctl_vars, worker_vars>>

Rollback ==
    /\ ClockRollback /\ now > 0
    /\ now' = 0
    /\ UNCHANGED <<life_vars, shared_vars, ctl_vars, worker_vars>>

Terminated == life = "finalized" /\ UNCHANGED vars

CycleNext  == Accept \/ Keep \/ Fallback \/ Command \/ SetPlanForward
WorkerNext == WorkerStop \/ WorkerTake \/ WorkerSnapshot \/ WorkerFail
              \/ WorkerSelect \/ WorkerPublish

Next ==
    \/ Activate \/ DeactivateSignal \/ DeactivateJoin \/ Cleanup
    \/ SetPlanInput \/ ComputeRead \/ CycleNext
    \/ WorkerNext
    \/ Tick \/ Rollback \/ Terminated

Spec == Init /\ [][Next]_vars

\* The threads run: a call the server has begun goes on, and the worker,
\* whose wait is bounded by 1 / update_rate and whose search is bounded by
\* max_planning_time_ms, goes on too.
Fairness ==
    /\ WF_vars(CycleNext)
    /\ WF_vars(DeactivateJoin)
    /\ WF_vars(WorkerNext)

FairSpec == Spec /\ Fairness
-----------------------------------------------------------------------------
(* What the two threads keep true.                                         *)

\* planOnce() is under way.
Planning == wpc \in {"plan", "search", "publish"}

\* The global plan mppi_ was last given: setPlan stores a new one before it
\* hands it over.
HandedGen == IF cpc = "setplan" THEN inputGen - 1 ELSE inputGen

\* forwarded_generation_ describes MPPI's plan: 0 means the global plan itself,
\* g means a guide planned for plan g, which is then also the timed reference.
\* Nothing but the order of the calls keeps the three in step.
PlanCoherence ==
    life # "finalized" =>
        IF forwarded = 0
        THEN mppi = Original(HandedGen)
        ELSE /\ mppi.gen = forwarded /\ mppi.id > 0
             /\ ref = mppi
             /\ source = "local_fast2d"

\* When a cycle asks for a command, MPPI's plan, the timed reference and the
\* reported reference_source_ all agree with the decision taken at its start,
\* although the mutex was released in between: a usable guide means a guide of
\* its generation that is no newer, anything else the newest global plan.
CommandReady ==
    cpc = "command" =>
        IF use
        THEN /\ mppi = ref /\ mppi.gen = cg.gen /\ mppi.id \in 1 .. cg.id
             /\ source = "local_fast2d"
        ELSE /\ mppi = Original(inputGen)
             /\ source = "global_fallback"

\* A guide planned for an earlier global plan may still be published after
\* setPlan, by a search that was under way, but only one: from then on the
\* worker plans for the newest plan.
OneForeignGuide ==
    guide.valid /\ guide.gen < inputGen /\ Planning
        => job.gen = inputGen

\* deactivate() leaves no worker behind: an inactive or destroyed plugin has
\* no thread that could still write a guide.
NoWorkerOutlives == life # "active" => wpc = "off"

\* Guides are numbered in the order of the plans they serve, across setPlan,
\* deactivate and activate: no later guide is for an earlier plan, and the
\* timed reference never goes back to an earlier guide.
NeverBackwards ==
    [][/\ guide.gen <= guide'.gen
       /\ life' # "finalized" => ref.id <= ref'.id /\ ref.gen <= ref'.gen]_vars

\* In shadow mode the plugin only observes: MPPI tracks global plans alone and
\* every command is the stock controller's.
ShadowTransparent ==
    mode = "shadow" => /\ mppi.id = 0
                       /\ cmd.src \in {"none", "mppi"} /\ cmd.plan.id = 0

\* What MPPI is given over time is the abstract handoff: global plans in their
\* order, and guides that never go back.
Handoff == INSTANCE PlanHandoff WITH plan <- inputGen, tracked <- mppi,
                                     adopted <- ref
ImplementsHandoff == Handoff!Spec

\* deactivate() returns: whatever the worker is doing, it sees the stop flag.
DeactivateReturns == cpc = "join" ~> life = "inactive"

\* A new global plan reaches the worker even if its notification is lost in
\* the middle of a search, unless the plugin is being deactivated.
PlanReachesWorker ==
    life = "active" /\ seen # inputGen ~> seen = inputGen \/ stop

-----------------------------------------------------------------------------
(* The inductive invariant behind the theorems of HybridControllerProofs.  *)

\* Which thread may be where: the server calls into an active plugin only, and
\* the thread exists exactly between activate and the join of deactivate.
ThreadShape ==
    /\ cpc # "idle" => life = "active"
    /\ life = "active" <=> wpc # "off"
    /\ cpc = "setplan" => inputGen > 0
    /\ wpc = "publish" => guide.id < MaxGuides

\* The copies of a guide and of an input lag behind what they are copied from.
CopiesLag ==
    /\ ref.id <= cg.id /\ cg.id <= guide.id
    /\ ref.gen <= cg.gen /\ cg.gen <= guide.gen
    /\ guide.gen <= inputGen /\ job.gen <= inputGen
    /\ Planning => guide.gen <= job.gen /\ job.gen > 0
    /\ guide.valid => guide.gen > 0 /\ guide.id > 0

\* A decision to use a guide is backed by a copy of a valid one.
DecisionBacked ==
    cpc \in {"forward", "command"} /\ use =>
        mode = "active" /\ cg.gen > 0 /\ cg.id > 0

\* Shadow mode has nothing to take back.
ShadowHasNoGuide == mode = "shadow" => forwarded = 0

IInv ==
    /\ TypeOK
    /\ ThreadShape /\ CopiesLag /\ DecisionBacked /\ ShadowHasNoGuide
    /\ PlanCoherence /\ CommandReady /\ OneForeignGuide
    /\ NoWorkerOutlives /\ ShadowTransparent

-----------------------------------------------------------------------------
(* What the comments and the design document say, and the code does not do. *)

\* setPlan, "a new global plan invalidates the pending guide": no cycle uses a
\* guide planned for an earlier plan.
GuideOfCurrentPlan == cpc = "command" /\ use => cg.gen = inputGen

\* "Forwards either the original plan or its newest valid local guide": a
\* cycle that uses a guide has MPPI track that guide.
NewestGuideTracked == cpc = "command" /\ use => mppi.id = cg.id
=============================================================================
