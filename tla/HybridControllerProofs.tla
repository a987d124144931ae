----------------------- MODULE HybridControllerProofs -----------------------
(***************************************************************************)
(* Theorems about HybridController for every mode, timeout, set of         *)
(* parameter values and bound.  IInv is inductive (Inductive); the         *)
(* properties the runs check follow from it.                               *)
(***************************************************************************)
EXTENDS HybridController, TLAPS

USE DEF Gens, Ids, Times, Original, NoPlan, NothingForwarded, InvalidatedGuide,
        Decision, RestoredPlan, PlannedGuide

\* The initial state, with no plan, no guide and no thread, satisfies IInv.
LEMMA InitIInv == Init => IInv
  <1> SUFFICES ASSUME Init
               PROVE  IInv
    OBVIOUS
  <1>1. NoGuide \in Guides /\ NoRoute \in Routes /\ NoPlan \in Plans
    BY BoundAssumption DEF Guides, Routes, Plans, NoGuide, NoRoute
  <1>2. NoJob \in Jobs /\ [src |-> "none", plan |-> NoPlan] \in Commands
    BY <1>1, BoundAssumption DEF Jobs, Commands, NoJob
  <1>3. TypeOK
    <2>1. 0 \in Gens /\ 0 \in Times
      BY BoundAssumption
    <2>2. QED
      BY <1>1, <1>2, <2>1, ModeAssumption, Zenon DEF Init, TypeOK
  <1>4. ThreadShape /\ CopiesLag /\ DecisionBacked /\ ShadowHasNoGuide
    BY DEF Init, ThreadShape, CopiesLag, DecisionBacked, ShadowHasNoGuide,
           Planning, NoGuide, NoJob
  <1>5. PlanCoherence /\ CommandReady /\ OneForeignGuide
    BY DEF Init, PlanCoherence, CommandReady, OneForeignGuide, HandedGen,
           Planning, NoGuide
  <1>6. NoWorkerOutlives /\ ShadowTransparent
    BY DEF Init, NoWorkerOutlives, ShadowTransparent
  <1>7. QED
    BY <1>3, <1>4, <1>5, <1>6 DEF IInv

\* Each action keeps every variable in its type, given the facts of IInv that
\* bound what it copies or counts.
LEMMA TypeStep ==
  ASSUME TypeOK, ThreadShape, CopiesLag, [Next]_vars
  PROVE  TypeOK'
  <1> USE BoundAssumption
          DEF TypeOK, Guides, Plans, Routes, Jobs, Commands, vars, life_vars,
              shared_vars, ctl_vars, worker_vars
  <1>1. CASE Activate \/ DeactivateSignal \/ DeactivateJoin \/ Cleanup
    <2>1. NoRoute \in Routes /\ NoJob \in Jobs /\ NoPlan \in Plans
      BY DEF NoRoute, NoJob
    <2>2. CASE Activate
      BY <2>1, <2>2 DEF Activate
    <2>3. CASE DeactivateSignal
      BY <2>1, <2>3 DEF DeactivateSignal
    <2>4. CASE DeactivateJoin
      BY <2>4 DEF DeactivateJoin
    <2>5. CASE Cleanup
      BY <2>1, <2>5 DEF Cleanup
    <2>6. QED
      BY <1>1, <2>2, <2>3, <2>4, <2>5
  <1>2. CASE SetPlanInput \/ SetPlanForward
    <2>1. CASE SetPlanInput
      <3>1. guide' \in Guides
        BY <2>1 DEF SetPlanInput
      <3>2. prevSel' \in Routes
        BY <2>1 DEF SetPlanInput, NoRoute
      <3>3. inputGen' \in Gens
        BY <2>1 DEF SetPlanInput
      <3>4. QED
        BY <2>1, <3>1, <3>2, <3>3 DEF SetPlanInput
    <2>2. CASE SetPlanForward
      BY <2>2 DEF SetPlanForward
    <2>3. QED
      BY <1>2, <2>1, <2>2
  <1>3. CASE ComputeRead
    BY <1>3 DEF ComputeRead
  <1>4. CASE Accept \/ Keep \/ Fallback
    BY <1>4 DEF Accept, Keep, Fallback
  <1>5. CASE Command
    BY <1>5 DEF Command, CommandOptions
  <1>6. CASE WorkerStop \/ WorkerTake \/ WorkerSnapshot \/ WorkerFail
    BY <1>6 DEF WorkerStop, WorkerTake, WorkerSnapshot, WorkerFail, NoRoute
  <1>7. CASE WorkerSelect
    BY <1>7 DEF WorkerSelect, NoRoute
  <1>8. CASE WorkerPublish
    BY <1>8 DEF WorkerPublish, ThreadShape
  <1>9. CASE Tick \/ Rollback \/ Terminated \/ UNCHANGED vars
    BY <1>9 DEF Tick, Rollback, Terminated
  <1>10. QED
    BY <1>1, <1>2, <1>3, <1>4, <1>5, <1>6, <1>7, <1>8, <1>9
    DEF Next, CycleNext, WorkerNext

\* The thread structure and the lag of the copies are kept by every step.
LEMMA ShapeStep ==
  ASSUME TypeOK, ThreadShape, CopiesLag, NoWorkerOutlives, [Next]_vars
  PROVE  ThreadShape' /\ CopiesLag' /\ NoWorkerOutlives'
  <1> USE BoundAssumption
          DEF TypeOK, ThreadShape, CopiesLag, NoWorkerOutlives, Planning,
              Guides, Plans, Routes, Jobs, vars, life_vars, shared_vars,
              ctl_vars, worker_vars
  <1>1. CASE Activate \/ DeactivateSignal \/ DeactivateJoin \/ Cleanup
    BY <1>1 DEF Activate, DeactivateSignal, DeactivateJoin, Cleanup, NoJob
  <1>2. CASE SetPlanInput \/ SetPlanForward
    BY <1>2 DEF SetPlanInput, SetPlanForward
  <1>3. CASE ComputeRead
    BY <1>3 DEF ComputeRead
  <1>4. CASE Accept \/ Keep \/ Fallback \/ Command
    BY <1>4 DEF Accept, Keep, Fallback, Command
  <1>5. CASE WorkerStop \/ WorkerTake \/ WorkerSnapshot \/ WorkerFail
    BY <1>5 DEF WorkerStop, WorkerTake, WorkerSnapshot, WorkerFail
  <1>6. CASE WorkerSelect
    BY <1>6 DEF WorkerSelect
  <1>7. CASE WorkerPublish
    BY <1>7 DEF WorkerPublish
  <1>8. CASE Tick \/ Rollback \/ Terminated \/ UNCHANGED vars
    BY <1>8 DEF Tick, Rollback, Terminated
  <1>9. QED
    BY <1>1, <1>2, <1>3, <1>4, <1>5, <1>6, <1>7, <1>8
    DEF Next, CycleNext, WorkerNext

\* The controller thread keeps MPPI's plan, the reference and the reported
\* source in step, whatever the worker does between its critical sections.
LEMMA HandoffStep ==
  ASSUME IInv, [Next]_vars
  PROVE  /\ DecisionBacked' /\ ShadowHasNoGuide'
         /\ PlanCoherence' /\ CommandReady'
         /\ OneForeignGuide' /\ ShadowTransparent'
  <1> USE BoundAssumption
          DEF IInv, TypeOK, ThreadShape, CopiesLag, DecisionBacked,
              ShadowHasNoGuide, PlanCoherence, CommandReady, OneForeignGuide,
              NoWorkerOutlives, ShadowTransparent, HandedGen, Planning,
              Guides, Plans, Jobs, Routes, Commands,
              vars, life_vars, shared_vars, ctl_vars, worker_vars
  <1>1. CASE Activate \/ DeactivateSignal \/ DeactivateJoin \/ Cleanup
    BY <1>1 DEF Activate, DeactivateSignal, DeactivateJoin, Cleanup
  <1>2. CASE SetPlanInput
    BY <1>2 DEF SetPlanInput
  <1>3. CASE SetPlanForward
    BY <1>3 DEF SetPlanForward
  <1>4. CASE ComputeRead
    BY <1>4 DEF ComputeRead
  <1>5. CASE Accept
    BY <1>5 DEF Accept
  <1>6. CASE Keep
    BY <1>6 DEF Keep
  <1>7. CASE Fallback
    BY <1>7 DEF Fallback
  <1>8. CASE Command
    BY <1>8 DEF Command, CommandOptions
  <1>9. CASE WorkerStop \/ WorkerTake \/ WorkerSnapshot \/ WorkerFail
    BY <1>9 DEF WorkerStop, WorkerTake, WorkerSnapshot, WorkerFail
  <1>10. CASE WorkerSelect \/ WorkerPublish
    BY <1>10 DEF WorkerSelect, WorkerPublish
  <1>11. CASE Tick \/ Rollback \/ Terminated \/ UNCHANGED vars
    BY <1>11 DEF Tick, Rollback, Terminated
  <1>12. QED
    BY <1>1, <1>2, <1>3, <1>4, <1>5, <1>6, <1>7, <1>8, <1>9, <1>10, <1>11
    DEF Next, CycleNext, WorkerNext

\* The inductive invariant of the plugin: Spec keeps all parts of IInv.
THEOREM Inductive == Spec => []IInv
  <1>1. Init => IInv
    BY InitIInv
  <1>2. IInv /\ [Next]_vars => IInv'
    <2> SUFFICES ASSUME IInv, [Next]_vars
                 PROVE  IInv'
      OBVIOUS
    <2>1. TypeOK'
      BY TypeStep DEF IInv
    <2>2. ThreadShape' /\ CopiesLag' /\ NoWorkerOutlives'
      BY ShapeStep DEF IInv
    <2>3. QED
      BY <2>1, <2>2, HandoffStep DEF IInv
  <1>3. QED
    BY <1>1, <1>2, PTL DEF Spec

\* Every variable of the plugin stays in its type.
THEOREM TypeCorrect == Spec => []TypeOK
  BY Inductive, PTL DEF IInv

\* MPPI's plan, forwarded_generation_, the timed reference and the reported
\* source never disagree between two calls of the controller server.
THEOREM PlanCoherent == Spec => []PlanCoherence
  BY Inductive, PTL DEF IInv

\* Every command is computed on exactly the plan the cycle decided for.
THEOREM CommandsReady == Spec => []CommandReady
  BY Inductive, PTL DEF IInv

\* A new global plan lets at most one guide of an earlier plan through.
THEOREM AtMostOneForeignGuide == Spec => []OneForeignGuide
  BY Inductive, PTL DEF IInv

\* Shadow mode never touches what the robot does.
THEOREM ShadowOnlyObserves == Spec => []ShadowTransparent
  BY Inductive, PTL DEF IInv

\* The planner's thread runs only between activate and the join in deactivate.
THEOREM WorkerJoined == Spec => []NoWorkerOutlives
  BY Inductive, PTL DEF IInv

\* No step replaces a guide, or the reference, by an earlier one.
THEOREM GuidesNeverGoBack == Spec => NeverBackwards
  <1>1. IInv /\ [Next]_vars
          => [/\ guide.gen <= guide'.gen
              /\ life' # "finalized" => ref.id <= ref'.id /\ ref.gen <= ref'.gen]_vars
    <2> SUFFICES ASSUME IInv, [Next]_vars
                 PROVE  /\ guide.gen <= guide'.gen
                        /\ life' # "finalized" =>
                              ref.id <= ref'.id /\ ref.gen <= ref'.gen
      OBVIOUS
    <2> USE BoundAssumption
            DEF IInv, TypeOK, CopiesLag, Planning, Guides, Plans, vars,
                life_vars, shared_vars, ctl_vars, worker_vars
    <2>1. CASE WorkerPublish
      BY <2>1 DEF WorkerPublish, Jobs
    <2>2. CASE Accept
      BY <2>2 DEF Accept
    <2>3. CASE SetPlanInput \/ Cleanup
      BY <2>3 DEF SetPlanInput, Cleanup
    <2>4. CASE UNCHANGED <<guide, ref>>
      BY <2>4
    <2>5. QED
      BY <2>1, <2>2, <2>3, <2>4
      DEF Next, CycleNext, WorkerNext, Activate, DeactivateSignal,
          DeactivateJoin, SetPlanForward, ComputeRead, Keep, Fallback, Command,
          WorkerStop, WorkerTake, WorkerSnapshot, WorkerFail, WorkerSelect,
          Tick, Rollback, Terminated
  <1>2. QED
    BY Inductive, <1>1, PTL DEF Spec, NeverBackwards

\* The plugin implements the abstract handoff: only setPlan announces a plan,
\* and MPPI is handed the newest one or a guide that is no step back.
THEOREM Implements == Spec => ImplementsHandoff
  <1>1. Init => Handoff!Init
    BY DEF Init, Handoff!Init, Handoff!Nothing
  <1>2. IInv /\ [Next]_vars => [Handoff!Next]_<<inputGen, mppi, ref>>
    <2> SUFFICES ASSUME IInv, [Next]_vars
                 PROVE  Handoff!Next \/ UNCHANGED <<inputGen, mppi, ref>>
      OBVIOUS
    <2>1. CASE SetPlanInput
      BY <2>1 DEF SetPlanInput, Handoff!Next, Handoff!NewPlan
    <2>2. CASE SetPlanForward
      BY <2>2 DEF SetPlanForward, Handoff!Next, Handoff!Track, shared_vars
    <2>3. CASE Fallback
      BY <2>3 DEF Fallback, Handoff!Next, Handoff!Track
    <2>4. CASE Accept
      <3>1. /\ cg.gen \in ref.gen .. inputGen
            /\ cg.id \in Nat \ {0}
            /\ ref.id <= cg.id
        BY <2>4, BoundAssumption
        DEF Accept, IInv, TypeOK, CopiesLag, DecisionBacked, Guides, Plans
      <3>2. QED
        BY <2>4, <3>1 DEF Accept, Handoff!Next, Handoff!Adopt
    <2>5. CASE Cleanup
      BY <2>5 DEF Cleanup, Handoff!Next, Handoff!Destroy, Handoff!Nothing
    <2>6. CASE UNCHANGED <<inputGen, mppi, ref>>
      BY <2>6
    <2>7. QED
      BY <2>1, <2>2, <2>3, <2>4, <2>5, <2>6
      DEF Next, CycleNext, WorkerNext, Activate, DeactivateSignal,
          DeactivateJoin, ComputeRead, Keep, Command, WorkerStop, WorkerTake,
          WorkerSnapshot, WorkerFail, WorkerSelect, WorkerPublish, Tick,
          Rollback, Terminated, vars, life_vars, shared_vars, ctl_vars,
          worker_vars
  <1>3. QED
    BY Inductive, <1>1, <1>2, PTL DEF Spec, ImplementsHandoff, Handoff!Spec

-----------------------------------------------------------------------------
\* Why the worker gets to its end, and to a new plan.

\* What the worker still does before it looks at the stop flag and returns.
WorkerLeft ==
    CASE wpc = "plan"    -> 4
      [] wpc = "search"  -> 3
      [] wpc = "publish" -> 2
      [] wpc = "wait"    -> 1
      [] OTHER           -> 0

\* While deactivate waits in join, the stop flag stays raised, and each step of
\* the worker brings it nearer to its end; nothing else that may happen
\* meanwhile keeps it from there.
JoinNears ==
    cpc = "join" =>
        /\ WorkerNext => WorkerLeft' < WorkerLeft
        /\ ~WorkerNext /\ ~DeactivateJoin => WorkerLeft' = WorkerLeft

StopRaised == cpc = "join" => stop /\ wpc # "off"

\* The argument for DeactivateReturns but for fairness: the worker has a few
\* steps left at most, none of them depends on another plan, pose or guide, and
\* the flag that ends it is not taken back.
THEOREM JoinComes == Spec => []StopRaised /\ [][JoinNears]_vars
  <1>1. Init => StopRaised
    BY DEF Init, StopRaised
  <1>2. IInv /\ StopRaised /\ [Next]_vars => StopRaised'
    <2> SUFFICES ASSUME IInv, StopRaised, [Next]_vars
                 PROVE  StopRaised'
      OBVIOUS
    <2>1. CASE cpc = "join"
      BY <2>1
      DEF StopRaised, IInv, ThreadShape, Next, vars, life_vars, shared_vars, ctl_vars, worker_vars,
          Activate, DeactivateSignal, DeactivateJoin, Cleanup, SetPlanInput, ComputeRead,
          CycleNext, Accept, Keep, Fallback, Command, SetPlanForward,
          WorkerNext, WorkerStop, WorkerTake, WorkerSnapshot, WorkerFail, WorkerSelect,
          WorkerPublish, Tick, Rollback, Terminated
    <2>2. CASE cpc # "join"
      BY <2>2
      DEF StopRaised, IInv, ThreadShape, Next, vars, life_vars, shared_vars, ctl_vars, worker_vars,
          Activate, DeactivateSignal, DeactivateJoin, Cleanup, SetPlanInput, ComputeRead,
          CycleNext, Accept, Keep, Fallback, Command, SetPlanForward,
          WorkerNext, WorkerStop, WorkerTake, WorkerSnapshot, WorkerFail, WorkerSelect,
          WorkerPublish, Tick, Rollback, Terminated
    <2>3. QED
      BY <2>1, <2>2
  <1>3. IInv /\ StopRaised /\ [Next]_vars => [JoinNears]_vars
    <2> SUFFICES ASSUME IInv, StopRaised, Next, cpc = "join"
                 PROVE  /\ WorkerNext => WorkerLeft' < WorkerLeft
                        /\ ~WorkerNext /\ ~DeactivateJoin => WorkerLeft' = WorkerLeft
      BY DEF JoinNears
    <2>1. ASSUME WorkerNext
          PROVE  WorkerLeft' < WorkerLeft
      BY <2>1
      DEF StopRaised, WorkerLeft, WorkerNext, WorkerStop, WorkerTake, WorkerSnapshot, WorkerFail,
          WorkerSelect, WorkerPublish
    <2>2. ASSUME ~WorkerNext, ~DeactivateJoin
          PROVE  WorkerLeft' = WorkerLeft
      <3>1. wpc' = wpc
        BY <2>2
        DEF Next, IInv, ThreadShape, vars, life_vars, shared_vars, ctl_vars, worker_vars, Activate,
            DeactivateSignal, Cleanup, SetPlanInput, ComputeRead, CycleNext, Accept, Keep, Fallback,
            Command, SetPlanForward, Tick, Rollback, Terminated
      <3>2. QED
        BY <3>1 DEF WorkerLeft
    <2>3. QED
      BY <2>1, <2>2
  <1>4. QED
    BY <1>1, <1>2, <1>3, Inductive, PTL DEF Spec

\* While the newest plan waits for the worker, each of its steps brings it
\* nearer to its next look at the input, or takes that plan; a plan that comes
\* meanwhile is the one it takes, and does not keep it from there.
TakeNears ==
    life = "active" /\ ~stop /\ seen # inputGen =>
        /\ WorkerNext => seen' = inputGen' \/ WorkerLeft' < WorkerLeft
        /\ ~WorkerNext => WorkerLeft' = WorkerLeft

\* The argument for PlanReachesWorker but for fairness: no notification is
\* needed, and a search under way is the only delay.
THEOREM PlanIsTaken == Spec => [][TakeNears]_vars
  <1>1. IInv /\ StopRaised /\ [Next]_vars => [TakeNears]_vars
    <2> SUFFICES ASSUME IInv, StopRaised, Next, life = "active", ~stop
                 PROVE  /\ WorkerNext => seen' = inputGen' \/ WorkerLeft' < WorkerLeft
                        /\ ~WorkerNext => WorkerLeft' = WorkerLeft
      BY DEF TakeNears
    <2>1. ASSUME WorkerNext
          PROVE  seen' = inputGen' \/ WorkerLeft' < WorkerLeft
      BY <2>1
      DEF WorkerLeft, WorkerNext, WorkerStop, WorkerTake, WorkerSnapshot, WorkerFail,
          WorkerSelect, WorkerPublish, shared_vars
    <2>2. ASSUME ~WorkerNext
          PROVE  WorkerLeft' = WorkerLeft
      <3>1. wpc' = wpc
        BY <2>2
        DEF Next, StopRaised, vars, life_vars, shared_vars, ctl_vars, worker_vars, Activate,
            DeactivateSignal, DeactivateJoin, Cleanup, SetPlanInput, ComputeRead, CycleNext,
            Accept, Keep, Fallback, Command, SetPlanForward, Tick, Rollback, Terminated
      <3>2. QED
        BY <3>1 DEF WorkerLeft
    <2>3. QED
      BY <2>1, <2>2
  <1>2. QED
    BY <1>1, JoinComes, Inductive, PTL DEF Spec
=============================================================================
