----------------------------- MODULE BenchProofs -----------------------------
(***************************************************************************)
(* Theorems about Bench for any number of calls, attempts, domains and     *)
(* failures, and whichever nodes may die.                                  *)
(***************************************************************************)
EXTENDS Bench, FiniteSetTheorems, TLAPS

USE BenchAssumption

-----------------------------------------------------------------------------
(* The groups. *)

GroupsTyped ==
    /\ groups \in [DOMAIN groups -> Groups]
    /\ \A i \in DOMAIN groups : groups[i].active \subseteq groups[i].up
    /\ DOMAIN groups \subseteq ({"file"} \X Files) \union ({"call"} \X Nat)

(* A change to one group that keeps it a group. *)
LEMMA OneChanged ==
  ASSUME GroupsTyped, NEW i \in DOMAIN groups, NEW g \in Groups, g.active \subseteq g.up,
         groups' = [groups EXCEPT ![i] = g]
  PROVE  GroupsTyped'
  BY DEF GroupsTyped

(* A group more. *)
LEMMA OneMore ==
  ASSUME GroupsTyped, NEW i \in ({"file"} \X Files) \union ({"call"} \X Nat),
         NEW g \in Groups, g.active \subseteq g.up, groups' = Added(i, g)
  PROVE  GroupsTyped'
  BY DEF GroupsTyped, Added

(* Fewer groups. *)
LEMMA Fewer ==
  ASSUME GroupsTyped, NEW S, groups' = Without(S)
  PROVE  GroupsTyped'
  BY DEF GroupsTyped, Without, Restrict

(* A launch starts as a group, with nothing active. *)
LEMMA NewGroupTyped ==
  ASSUME NEW file \in Files, NEW a \in Args, NEW d \in Nat
  PROVE  /\ NewGroup(file, a, d) \in Groups
         /\ NewGroup(file, a, d).active \subseteq NewGroup(file, a, d).up
  <1>1. Names[<<file, a>>] \subseteq NodeNames
    BY DEF NodeNames
  <1>2. QED
    BY <1>1 DEF NewGroup, Groups

(* The runner's domains are numbers. *)
LEMMA DomainTyped == \A index \in Indexes, attempt \in Nat : DomainOf(index, attempt) \in Nat
  <1>1. \A index \in Indexes : index * Retries \in Nat
    BY DEF BenchAssumption
  <1>2. QED
    BY <1>1 DEF DomainOf

(* Every file takes its own arguments only. *)
LEMMA ArgsTyped == \A file \in Files : ArgsOf(file) \subseteq Args
  BY DEF ArgsOf, Files

(* What a step of a launch does to its group. *)
LEMMA LaunchGroups ==
  ASSUME GroupsTyped, LaunchStep
  PROVE  /\ GroupsTyped' /\ DOMAIN groups' = DOMAIN groups
         /\ \A i \in DOMAIN groups : ~groups[i].leader => ~groups'[i].leader
  <1>1. PICK i \in DOMAIN groups :
           \/ FireTimer(i)
           \/ LeaderDies(i)
           \/ \E m \in Managers : BringUp(i, m) \/ BondBreaks(i, m)
           \/ \E n \in Mortal : Die(i, n)
    BY DEF LaunchStep
  <1>2. ASSUME NEW g \in Groups, g.active \subseteq g.up, g.leader => groups[i].leader,
               groups' = [groups EXCEPT ![i] = g]
        PROVE  /\ GroupsTyped' /\ DOMAIN groups' = DOMAIN groups
               /\ \A j \in DOMAIN groups : ~groups[j].leader => ~groups'[j].leader
    <2>1. GroupsTyped'
      BY <1>2, OneChanged
    <2>2. QED
      BY <1>2, <2>1 DEF GroupsTyped
  <1>3. /\ groups[i] \in Groups /\ groups[i].active \subseteq groups[i].up
        /\ groups \in [DOMAIN groups -> Groups]
    BY DEF GroupsTyped
  <1>4. CASE FireTimer(i)
    <2>1. PICK new : /\ new \subseteq Names[<<groups[i].file, groups[i].args>>]
                     /\ groups' = [groups EXCEPT ![i].fired = @ + 1, ![i].up = @ \union new]
      <3> DEFINE new == {Delayed(groups[i].file)[groups[i].fired + 1]}
                          \intersect Names[<<groups[i].file, groups[i].args>>]
      <3>1. groups' = [groups EXCEPT ![i].fired = @ + 1, ![i].up = @ \union new]
        BY <1>4, Zenon DEF FireTimer
      <3>2. new \subseteq Names[<<groups[i].file, groups[i].args>>]
        OBVIOUS
      <3> HIDE DEF new
      <3>3. QED
        BY <3>1, <3>2
    <2>2. new \subseteq NodeNames
      BY <1>3, <2>1 DEF NodeNames, Groups
    <2>3. PICK count \in Nat : count = groups[i].fired + 1
      BY <1>3 DEF Groups
    <2> DEFINE g == [groups[i] EXCEPT !.fired = count, !.up = @ \union new]
    <2>4. g \in Groups /\ g.active \subseteq g.up /\ (g.leader => groups[i].leader)
      BY <1>3, <2>2 DEF Groups
    <2>5. groups' = [groups EXCEPT ![i] = g]
      BY <1>3, <2>1, <2>3 DEF Groups
    <2>6. QED
      BY <1>2, <2>4, <2>5
  <1>5. CASE LeaderDies(i)
    <2> DEFINE g == [groups[i] EXCEPT !.leader = FALSE]
    <2>1. g \in Groups /\ g.active \subseteq g.up /\ (g.leader => groups[i].leader)
      BY <1>3 DEF Groups
    <2>2. groups' = [groups EXCEPT ![i] = g]
      BY <1>3, <1>5 DEF LeaderDies, Groups
    <2>3. QED
      BY <1>2, <2>1, <2>2
  <1>6. CASE \E m \in Managers : BringUp(i, m)
    <2>1. PICK m \in Managers, more \in SUBSET groups[i].up :
             groups' = [groups EXCEPT ![i].active = @ \union more, ![i].tried = @ \union {m}]
      <3>1. PICK m \in Managers : BringUp(i, m)
        BY <1>6
      <3>2. PICK k : /\ \A j \in 1 .. k : NamesOf(groups[i].file, m)[j] \in groups[i].up
                     /\ groups' = [groups EXCEPT
                           ![i].active = @ \union {NamesOf(groups[i].file, m)[j] : j \in 1 .. k},
                           ![i].tried = @ \union {m}]
        BY <3>1, Zenon DEF BringUp
      <3>3. {NamesOf(groups[i].file, m)[j] : j \in 1 .. k} \in SUBSET groups[i].up
        BY <3>2
      <3>4. QED
        BY <3>2, <3>3
    <2> DEFINE g == [groups[i] EXCEPT !.active = @ \union more, !.tried = @ \union {m}]
    <2>2. g \in Groups /\ g.active \subseteq g.up /\ (g.leader => groups[i].leader)
      BY <1>3 DEF Groups
    <2>3. groups' = [groups EXCEPT ![i] = g]
      BY <1>3, <2>1 DEF Groups
    <2>4. QED
      BY <1>2, <2>2, <2>3
  <1>7. CASE \E m \in Managers : BondBreaks(i, m)
    <2>1. PICK lost : groups' = [groups EXCEPT ![i].active = @ \ lost]
      BY <1>7, Zenon DEF BondBreaks
    <2> DEFINE g == [groups[i] EXCEPT !.active = @ \ lost]
    <2>2. g \in Groups /\ g.active \subseteq g.up /\ (g.leader => groups[i].leader)
      BY <1>3 DEF Groups
    <2>3. groups' = [groups EXCEPT ![i] = g]
      BY <1>3, <2>1 DEF Groups
    <2>4. QED
      BY <1>2, <2>2, <2>3
  <1>8. CASE \E n \in Mortal : Die(i, n)
    <2>1. PICK n : groups' = [groups EXCEPT ![i].up = @ \ {n}, ![i].active = @ \ {n}]
      BY <1>8, Zenon DEF Die
    <2> DEFINE g == [groups[i] EXCEPT !.up = @ \ {n}, !.active = @ \ {n}]
    <2>2. g \in Groups /\ g.active \subseteq g.up /\ (g.leader => groups[i].leader)
      BY <1>3 DEF Groups
    <2>3. groups' = [groups EXCEPT ![i] = g]
      BY <1>3, <2>1 DEF Groups
    <2>4. QED
      BY <1>2, <2>2, <2>3
  <1>9. QED
    BY <1>1, <1>4, <1>5, <1>6, <1>7, <1>8

(* What any other step does to the groups. *)
LEMMA OtherGroups ==
  ASSUME TypeOK, OperatorStep \/ RunnerStep \/ ProbeStep \/ Signal \/ Call
  PROVE  GroupsTyped'
  <1>1. GroupsTyped /\ runner.calls \in Nat /\ runner.attempt \in Nat /\ Retries \in Nat
    BY DEF TypeOK, GroupsTyped, Attempts
  <1>2. Current \in {"call"} \X Nat
    BY <1>1 DEF Current
  <1>3. CASE UNCHANGED groups
    BY <1>1, <1>3 DEF GroupsTyped
  <1>4. ASSUME NEW S, groups' = Without(S)
        PROVE  GroupsTyped'
    BY <1>1, <1>4, Fewer
  <1>5. CASE Launch
    <2>1. RunnerArgs \in Args /\ "nav2_m1_gazebo" \in Files
      BY DEF RunnerArgs, Args, Files, TypeOK
    <2>2. DomainOf(runner.index, runner.attempt) \in Nat
      BY <1>1, DomainTyped DEF TypeOK
    <2>3. QED
      BY <1>1, <1>2, <1>5, <2>1, <2>2, NewGroupTyped, OneMore DEF Launch
  <1>6. ASSUME NEW f \in session, NEW a \in ArgsOf(f), OperatorStarts(f, a)
        PROVE  GroupsTyped'
    <2>1. f \in Files /\ a \in Args /\ Operator \in Nat
      BY <1>6, ArgsTyped DEF TypeOK, Operator
    <2>2. groups' = Added(<<"file", f>>, NewGroup(f, a, Operator))
      BY <1>6 DEF OperatorStarts
    <2>3. QED
      BY <1>1, <2>1, <2>2, NewGroupTyped, OneMore
  <1>7. ASSUME NEW f \in session, OperatorStops(f)
        PROVE  GroupsTyped'
    BY <1>4, <1>7 DEF OperatorStops
  <1>8. CASE StopGroup \/ Signal
    BY <1>3, <1>4, <1>8 DEF StopGroup, Signal
  <1>9. CASE \/ ScopeInvalid \/ ProbeEnded \/ RunnerTimeout \/ ValidatorClosed \/ ReadResult
             \/ Call \/ ProbeStep \/ \E goals \in Goals : StartProbe(goals)
    <2>1. UNCHANGED groups
      BY <1>9, Zenon
      DEF ScopeInvalid, ProbeEnded, RunnerTimeout, ValidatorClosed, ReadResult, Call, StartProbe,
          ProbeStep, ProbeOnly, Observe, ClockBack, Gate, ReadyTimeout, SendGoal, GoalEnds,
          WriteResult, ProbeDies
    <2>2. QED
      BY <1>3, <2>1
  <1>10. QED
    BY <1>5, <1>6, <1>7, <1>8, <1>9 DEF OperatorStep, RunnerStep

-----------------------------------------------------------------------------
(* The types. *)

RunnerTyped ==
    runner \in [pc : RunnerStates, calls : 0 .. Invocations, index : Indexes,
                attempt : Attempts, scope : BOOLEAN, hits : SUBSET RunnerStates,
                unwinding : BOOLEAN, report : Nat]
FilesTyped == files \in [Attempts -> [call : Nat, invalid : BOOLEAN]]
ProbeTyped ==
    probe \in [pc : ProbeStates, seen : BOOLEAN, back : BOOLEAN, goals : Remaining,
               status : Statuses]

(* Writing a result leaves the call it is of. *)
LEMMA WriteTyped ==
  ASSUME FilesTyped, RunnerTyped, NEW invalid \in BOOLEAN, Write(invalid)
  PROVE  /\ FilesTyped'
         /\ files'[runner.attempt].call = runner.calls
  BY DEF FilesTyped, RunnerTyped, Write

(* The types of the runner and its files. *)
LEMMA RunnerStepTyped ==
  ASSUME RunnerTyped, FilesTyped, [Next]_vars
  PROVE  RunnerTyped' /\ FilesTyped'
  <1> USE DEF RunnerStates
  <1>1. /\ runner.calls \in Nat /\ runner.attempt \in Nat /\ Retries \in Nat
        /\ files[runner.attempt] \in [call : Nat, invalid : BOOLEAN]
    BY DEF RunnerTyped, FilesTyped, Attempts
  <1>2. ASSUME NEW pc \in RunnerStates, Go(pc), UNCHANGED files
        PROVE  RunnerTyped' /\ FilesTyped'
    BY <1>2 DEF Go, RunnerTyped, FilesTyped
  <1>3. CASE UNCHANGED <<runner, files>>
    BY <1>3 DEF RunnerTyped, FilesTyped
  <1>4. CASE Call
    <2>1. PICK n \in 0 .. Invocations : n = runner.calls + 1
      BY <1>1, <1>4 DEF Call
    <2>2. /\ runner' = [runner EXCEPT !.pc = "launching", !.calls = n, !.attempt = 0,
                                      !.unwinding = FALSE, !.report = 0]
          /\ UNCHANGED files
      BY <1>4, <2>1 DEF Call
    <2>3. 0 \in Attempts /\ 0 \in Nat
      BY DEF Attempts
    <2>4. QED
      BY <2>2, <2>3 DEF RunnerTyped, FilesTyped
  <1>5. CASE ScopeInvalid
    BY <1>1, <1>5, WriteTyped DEF ScopeInvalid, RunnerTyped
  <1>6. CASE Launch \/ ProbeEnded \/ ValidatorClosed \/ StopGroup
             \/ \E goals \in Goals : StartProbe(goals)
    BY <1>2, <1>6 DEF Launch, ProbeEnded, ValidatorClosed, StopGroup, StartProbe, AfterStop
  <1>7. CASE RunnerTimeout
    BY <1>7, WriteTyped DEF RunnerTimeout, Go, RunnerTyped
  <1>8. CASE ReadResult
    <2>1. PICK report \in [call : Nat, invalid : BOOLEAN] :
             /\ files' = [files EXCEPT ![runner.attempt] = report]
             /\ runner' = IF report.invalid /\ runner.attempt + 1 < Retries
                          THEN [runner EXCEPT !.pc = "launching", !.attempt = @ + 1]
                          ELSE [runner EXCEPT !.pc = "ended", !.report = report.call]
      <3> DEFINE report == IF files[runner.attempt].call = 0
                           THEN [call |-> runner.calls, invalid |-> FALSE]
                           ELSE files[runner.attempt]
      <3>1. report \in [call : Nat, invalid : BOOLEAN]
        BY <1>1
      <3>2. /\ files' = [files EXCEPT ![runner.attempt] = report]
            /\ runner' = IF report.invalid /\ runner.attempt + 1 < Retries
                         THEN [runner EXCEPT !.pc = "launching", !.attempt = @ + 1]
                         ELSE [runner EXCEPT !.pc = "ended", !.report = report.call]
        BY <1>8, Zenon DEF ReadResult
      <3> HIDE DEF report
      <3>3. QED
        BY <3>1, <3>2
    <2>2. FilesTyped'
      BY <2>1 DEF FilesTyped
    <2>3. CASE report.invalid /\ runner.attempt + 1 < Retries
      <3>1. PICK next \in Attempts : next = runner.attempt + 1
        BY <1>1, <2>3 DEF Attempts
      <3>2. runner' = [runner EXCEPT !.pc = "launching", !.attempt = next]
        BY <2>1, <2>3, <3>1
      <3>3. QED
        BY <2>2, <3>2 DEF RunnerTyped
    <2>4. CASE ~(report.invalid /\ runner.attempt + 1 < Retries)
      BY <2>1, <2>2, <2>4 DEF RunnerTyped
    <2>5. QED
      BY <2>3, <2>4
  <1>9. CASE Signal
    <2>1. PICK hits \in SUBSET RunnerStates, pc \in RunnerStates :
             runner' = [runner EXCEPT !.hits = hits, !.unwinding = TRUE, !.pc = pc]
      BY <1>9 DEF Signal, RunnerTyped
    <2>2. QED
      BY <1>9, <2>1 DEF Signal, RunnerTyped, FilesTyped
  <1>10. CASE WriteResult
    <2>1. (probe.status \in Invalid) \in BOOLEAN /\ Write(probe.status \in Invalid)
      BY <1>10 DEF WriteResult
    <2>2. FilesTyped'
      BY <2>1, WriteTyped
    <2>3. QED
      BY <1>10, <2>2 DEF WriteResult, RunnerTyped
  <1>11. CASE LaunchStep \/ OperatorStep \/ UNCHANGED vars
    BY <1>3, <1>11, Zenon
    DEF LaunchStep, FireTimer, LeaderDies, BringUp, BondBreaks, Die,
        OperatorStep, OperatorStarts, OperatorStops, vars
  <1>12. CASE Observe \/ ClockBack \/ Gate \/ ReadyTimeout \/ SendGoal \/ GoalEnds \/ ProbeDies
    BY <1>3, <1>12, Zenon
    DEF Observe, ClockBack, Gate, ReadyTimeout, SendGoal, GoalEnds, ProbeDies, ProbeOnly
  <1>13. QED
    BY <1>4, <1>5, <1>6, <1>7, <1>8, <1>9, <1>10, <1>11, <1>12, Zenon
    DEF Next, RunnerStep, ProbeStep

(* The type of the probe. *)
LEMMA ProbeStepTyped ==
  ASSUME ProbeTyped, [Next]_vars
  PROVE  ProbeTyped'
  <1> USE DEF ProbeStates, Statuses
  <1>1. <<>> \in Remaining /\ Goals \subseteq Remaining
    BY DEF Remaining
  <1>2. NoProbe \in [pc : ProbeStates, seen : BOOLEAN, back : BOOLEAN, goals : Remaining,
                     status : Statuses]
    BY <1>1 DEF NoProbe
  <1>3. CASE UNCHANGED probe
    BY <1>3 DEF ProbeTyped
  <1>4. ASSUME NEW status \in Statuses, probe' = Over(status) \/ probe' = Writing(status)
        PROVE  ProbeTyped'
    BY <1>2, <1>4 DEF ProbeTyped, Over, Writing
  <1>5. CASE probe' = NoProbe
    BY <1>2, <1>5 DEF ProbeTyped
  <1>6. ASSUME NEW goals \in Goals, StartProbe(goals)
        PROVE  ProbeTyped'
    BY <1>1, <1>2, <1>6 DEF StartProbe, ProbeTyped
  <1>7. CASE Observe \/ ClockBack
    BY <1>7 DEF Observe, ClockBack, ProbeTyped
  <1>8. CASE Gate
    BY <1>4, <1>8 DEF Gate, ProbeTyped
  <1>9. CASE SendGoal
    BY <1>4, <1>9 DEF SendGoal, ProbeGo, Measured, ProbeTyped
  <1>10. CASE GoalEnds
    <2>1. CASE probe' = Measured
      BY <1>4, <2>1 DEF Measured
    <2>2. CASE Len(probe.goals) > 1 /\ probe' = [probe EXCEPT !.goals = Tail(@), !.pc = "ready"]
      <3>1. Tail(<<"planner_server", "controller_server">>) = <<"controller_server">>
        OBVIOUS
      <3>2. /\ ~(Len(<<"bt_navigator">>) > 1) /\ ~(Len(<<"controller_server">>) > 1)
            /\ ~(Len(<<>>) > 1)
        OBVIOUS
      <3>3. probe.goals = <<"planner_server", "controller_server">>
        <4>1. probe.goals \in Remaining
          BY DEF ProbeTyped
        <4>2. /\ probe.goals # <<"bt_navigator">> /\ probe.goals # <<"controller_server">>
              /\ probe.goals # <<>>
          BY <2>2, <3>2, Zenon
        <4>3. QED
          BY <4>1, <4>2, Zenon DEF Remaining, Goals
      <3>4. Tail(probe.goals) \in Remaining
        BY <3>1, <3>3 DEF Remaining
      <3>5. QED
        BY <2>2, <3>4 DEF ProbeTyped
    <2>3. QED
      BY <1>10, <2>1, <2>2 DEF GoalEnds
  <1>11. CASE RunnerTimeout \/ ReadyTimeout \/ ProbeDies
    BY <1>4, <1>11 DEF RunnerTimeout, ReadyTimeout, ProbeDies
  <1>12. CASE WriteResult
    BY <1>4, <1>12 DEF WriteResult, ProbeTyped
  <1>13. CASE Call \/ ReadResult \/ Signal
    BY <1>5, <1>13, Zenon DEF Call, ReadResult, Signal
  <1>14. CASE \/ LaunchStep \/ OperatorStep \/ UNCHANGED vars
              \/ ScopeInvalid \/ Launch \/ ProbeEnded \/ ValidatorClosed \/ StopGroup
    BY <1>3, <1>14, Zenon
    DEF LaunchStep, FireTimer, LeaderDies, BringUp, BondBreaks, Die,
        OperatorStep, OperatorStarts, OperatorStops, vars,
        ScopeInvalid, Launch, ProbeEnded, ValidatorClosed, StopGroup
  <1>15. QED
    BY <1>6, <1>7, <1>8, <1>9, <1>10, <1>11, <1>12, <1>13, <1>14, Zenon
    DEF Next, RunnerStep, ProbeStep

(* The types of the first state. *)
LEMMA InitTyped == Init => TypeOK
  <1> SUFFICES ASSUME Init
               PROVE  TypeOK
    OBVIOUS
  <1>1. groups \in [DOMAIN groups -> Groups] /\ DOMAIN groups = {}
    BY DEF Init
  <1>2. session \subseteq Files
    BY DEF Init, Sessions, Files
  <1>3. /\ 0 \in Attempts /\ 0 \in 0 .. Invocations /\ 0 \in 0 .. MaxFaults
        /\ Attempts \subseteq Nat
    BY DEF Attempts
  <1>4. runner \in [pc : RunnerStates, calls : 0 .. Invocations, index : Indexes,
                    attempt : Attempts, scope : BOOLEAN, hits : SUBSET RunnerStates,
                    unwinding : BOOLEAN, report : Nat]
    BY <1>3 DEF Init, RunnerStates
  <1>5. probe \in [pc : ProbeStates, seen : BOOLEAN, back : BOOLEAN, goals : Remaining,
                   status : Statuses]
    BY DEF Init, NoProbe, ProbeStates, Remaining, Statuses
  <1>6. files \in [Attempts -> [call : Nat, invalid : BOOLEAN]]
    BY DEF Init
  <1>7. QED
    BY <1>1, <1>2, <1>3, <1>4, <1>5, <1>6 DEF TypeOK, Init

(* Every failure is within the bound. *)
LEMMA FaultsTyped == faults \in 0 .. MaxFaults /\ [Next]_vars => faults' \in 0 .. MaxFaults
  <1> SUFFICES ASSUME faults \in 0 .. MaxFaults, [Next]_vars
               PROVE  faults' \in 0 .. MaxFaults
    OBVIOUS
  <1>1. faults' = faults \/ (faults < MaxFaults /\ faults' = faults + 1)
    <2>1. ASSUME NEW i, NEW m, BringUp(i, m)
          PROVE  faults' = faults \/ (faults < MaxFaults /\ faults' = faults + 1)
      <3>1. PICK gaveUp \in BOOLEAN : /\ gaveUp => faults < MaxFaults
                                     /\ faults' = IF gaveUp THEN faults + 1 ELSE faults
        BY <2>1, Zenon DEF BringUp
      <3>2. QED
        BY <3>1
    <2>2. ASSUME NEW i, \/ FireTimer(i) \/ LeaderDies(i)
                        \/ \E n \in Mortal : Die(i, n)
                        \/ \E m \in Managers : BondBreaks(i, m)
          PROVE  faults' = faults \/ (faults < MaxFaults /\ faults' = faults + 1)
      BY <2>2, Zenon DEF LeaderDies, Die, FireTimer, BondBreaks
    <2>3. CASE OperatorStep \/ RunnerStep \/ Call \/ UNCHANGED vars
      BY <2>3, Zenon
      DEF OperatorStep, OperatorStarts, OperatorStops, RunnerStep, ScopeInvalid, Launch, StartProbe,
          ProbeEnded, RunnerTimeout, ValidatorClosed, StopGroup, ReadResult, Call, vars
    <2>4. CASE ProbeStep \/ Signal
      BY <2>4, Zenon
      DEF ProbeStep, ProbeOnly, Observe, ClockBack, Gate, ReadyTimeout, SendGoal, GoalEnds,
          WriteResult, ProbeDies, Signal
    <2>5. QED
      BY <2>1, <2>2, <2>3, <2>4, Zenon DEF Next, LaunchStep
  <1>2. QED
    BY <1>1

(* Every step keeps the types. *)
LEMMA StepTyped == TypeOK /\ [Next]_vars => TypeOK'
  <1> SUFFICES ASSUME TypeOK, [Next]_vars
               PROVE  TypeOK'
    OBVIOUS
  <1>1. GroupsTyped /\ RunnerTyped /\ FilesTyped /\ ProbeTyped /\ faults \in 0 .. MaxFaults
        /\ session \subseteq Files
    BY DEF TypeOK, GroupsTyped, RunnerTyped, FilesTyped, ProbeTyped
  <1>2. GroupsTyped'
    <2>1. CASE UNCHANGED vars
      BY <1>1, <2>1 DEF vars, GroupsTyped
    <2>2. QED
      BY <1>1, <2>1, LaunchGroups, OtherGroups DEF Next
  <1>3. session' = session
    BY Zenon
    DEF Next, vars, LaunchStep, FireTimer, LeaderDies, BringUp, BondBreaks, Die,
        OperatorStep, OperatorStarts, OperatorStops, RunnerStep, ScopeInvalid, Launch, StartProbe,
        ProbeEnded, RunnerTimeout, ValidatorClosed, StopGroup, ReadResult, Call,
        ProbeStep, ProbeOnly, Observe, ClockBack, Gate, ReadyTimeout, SendGoal, GoalEnds,
        WriteResult, ProbeDies, Signal
  <1>4. RunnerTyped' /\ FilesTyped' /\ ProbeTyped' /\ faults' \in 0 .. MaxFaults
    BY <1>1, RunnerStepTyped, ProbeStepTyped, FaultsTyped
  <1>5. QED
    BY <1>1, <1>2, <1>3, <1>4 DEF TypeOK, GroupsTyped, RunnerTyped, FilesTyped, ProbeTyped

(* The types, with a launch's record that survives every change, and active   *)
(* nodes that are up.                                                      *)
THEOREM TypeCorrect == Spec => []TypeOK
  BY InitTyped, StepTyped, PTL DEF Spec

-----------------------------------------------------------------------------
(* What a launch leaves behind. *)

(* The property's two ways of being left behind. *)
Excused(i) ==
    \/ ~groups[i].leader
    \/ runner.hits \intersect {"launched", "validator", "stopping"} # {}

(* The launch that the runner is still going to stop. *)
InHand(i) == i = Current /\ runner.pc \notin {"launching", "reading", "ended", "interrupted"}

(* Every step that leaves a launch behind is one of the two excuses. *)
LEMMA NothingLeftStep == TypeOK /\ NothingLeftBehind /\ [Next]_vars => NothingLeftBehind'
  <1> SUFFICES ASSUME TypeOK, NothingLeftBehind, [Next]_vars
               PROVE  NothingLeftBehind'
    OBVIOUS
  <1> USE DEF RunnerStates
  <1>1. \A i \in DOMAIN groups : i[1] = "call" => InHand(i) \/ Excused(i)
    BY Zenon DEF NothingLeftBehind, InHand, Excused
  <1>2. SUFFICES ASSUME NEW i \in DOMAIN groups', i[1] = "call"
                 PROVE  InHand(i)' \/ Excused(i)'
    BY Zenon DEF NothingLeftBehind, InHand, Excused
  <1>3. GroupsTyped /\ RunnerTyped
    BY DEF TypeOK, GroupsTyped, RunnerTyped
  <1>4. ASSUME i \in DOMAIN groups, ~groups[i].leader => ~groups'[i].leader,
               UNCHANGED runner
        PROVE  InHand(i)' \/ Excused(i)'
    BY <1>1, <1>2, <1>4 DEF InHand, Excused, Current
  <1>5. CASE UNCHANGED <<groups, runner>>
    BY <1>4, <1>5
  <1>6. CASE LaunchStep
    <2>1. UNCHANGED runner
      BY <1>6, Zenon DEF LaunchStep, FireTimer, LeaderDies, BringUp, BondBreaks, Die
    <2>2. QED
      BY <1>3, <1>4, <1>6, <2>1, LaunchGroups
  <1>7. ASSUME NEW f \in session, NEW a \in ArgsOf(f), OperatorStarts(f, a)
        PROVE  InHand(i)' \/ Excused(i)'
    <2>1. i # <<"file", f>>
      BY <1>2
    <2>2. i \in DOMAIN groups /\ groups'[i] = groups[i]
      BY <1>7, <2>1 DEF OperatorStarts, Added
    <2>3. QED
      BY <1>4, <1>7, <2>2 DEF OperatorStarts
  <1>8. ASSUME NEW S, groups' = Without(S)
        PROVE  i \in DOMAIN groups /\ groups'[i] = groups[i] /\ i \notin S
    BY <1>8 DEF Without, Restrict
  <1>9. ASSUME NEW f \in session, OperatorStops(f)
        PROVE  InHand(i)' \/ Excused(i)'
    BY <1>4, <1>8, <1>9 DEF OperatorStops
  <1>10. CASE Launch
    <2>1. runner.pc = "launching" /\ runner' = [runner EXCEPT !.pc = "launched"]
      BY <1>10 DEF Launch, Go
    <2>2. CASE i = Current
      BY <2>1, <2>2, <1>3 DEF InHand, Current, RunnerTyped
    <2>3. CASE i # Current
      <3>1. i \in DOMAIN groups /\ groups'[i] = groups[i]
        BY <1>10, <2>3 DEF Launch, Added
      <3>2. QED
        BY <1>1, <1>2, <1>3, <2>1, <3>1 DEF InHand, Excused, RunnerTyped
    <2>4. QED
      BY <2>2, <2>3
  <1>11. ASSUME UNCHANGED groups,
                \/ \E pc \in {"probing", "validator", "stopping"} : Go(pc)
                \/ ScopeInvalid \/ ReadResult \/ Call
         PROVE  InHand(i)' \/ Excused(i)'
    <2>1. InHand(i) \/ Excused(i)
      BY <1>1, <1>2, <1>11
    <2>2. CASE \E pc \in {"probing", "validator", "stopping"} : Go(pc)
      BY <1>3, <1>11, <2>1, <2>2 DEF InHand, Excused, Current, Go, RunnerTyped
    <2>3. CASE ScopeInvalid \/ ReadResult \/ Call
      <3>1. runner.pc \in {"launching", "reading", "ended", "interrupted"}
        BY <2>3 DEF ScopeInvalid, ReadResult, Call
      <3>2. runner'.hits = runner.hits
        BY <1>3, <2>3 DEF ScopeInvalid, ReadResult, Call, RunnerTyped
      <3>3. QED
        BY <1>11, <2>1, <3>1, <3>2 DEF InHand, Excused
    <2>4. QED
      BY <1>11, <2>2, <2>3
  <1>12. CASE StopGroup
    <2>1. runner' = [runner EXCEPT !.pc = AfterStop]
      BY <1>12 DEF StopGroup, Go
    <2>2. CASE groups[Current].leader
      <3>1. i \in DOMAIN groups /\ groups'[i] = groups[i] /\ i # Current
        BY <1>8, <1>12, <2>2 DEF StopGroup
      <3>2. QED
        BY <1>1, <1>2, <1>3, <2>1, <3>1 DEF InHand, Excused, RunnerTyped
    <2>3. CASE ~groups[Current].leader
      BY <1>1, <1>2, <1>3, <1>12, <2>1, <2>3 DEF StopGroup, InHand, Excused, RunnerTyped
    <2>4. QED
      BY <2>2, <2>3
  <1>13. CASE Signal
    <2>1. /\ i \in DOMAIN groups /\ groups'[i] = groups[i]
          /\ runner'.hits = runner.hits \union {runner.pc}
          /\ runner'.pc = IF runner.pc = "probing" THEN "validator" ELSE "interrupted"
          /\ runner'.calls = runner.calls /\ runner'.attempt = runner.attempt
      BY <1>3, <1>8, <1>13 DEF Signal, RunnerTyped
    <2>2. CASE Excused(i)
      BY <2>1, <2>2 DEF Excused
    <2>3. CASE InHand(i)
      <3>1. runner.pc \in {"launched", "probing", "validator", "stopping"}
        BY <1>3, <2>3 DEF InHand, RunnerTyped
      <3>2. CASE runner.pc = "probing"
        BY <2>1, <2>3, <3>2 DEF InHand, Current
      <3>3. CASE runner.pc # "probing"
        BY <2>1, <3>1, <3>3 DEF Excused
      <3>4. QED
        BY <3>2, <3>3
    <2>4. QED
      BY <1>1, <1>2, <2>1, <2>2, <2>3
  <1>14. CASE ProbeStep \/ UNCHANGED vars
    BY <1>5, <1>14, Zenon
    DEF ProbeStep, ProbeOnly, Observe, ClockBack, Gate, ReadyTimeout, SendGoal, GoalEnds,
        WriteResult, ProbeDies, vars
  <1>15. QED
    BY <1>6, <1>7, <1>9, <1>10, <1>11, <1>12, <1>13, <1>14, Zenon
    DEF Next, OperatorStep, RunnerStep, ScopeInvalid, ReadResult, Call, StartProbe, ProbeEnded,
        RunnerTimeout, ValidatorClosed

(* However often the runner is called, a launch outlives its attempt only if  *)
(* its own process died, or a signal landed outside the try block.          *)
THEOREM OnlyExcusedLaunchesStay == Spec => []NothingLeftBehind
  <1>1. Init => NothingLeftBehind
    BY DEF Init, NothingLeftBehind
  <1>2. QED
    BY <1>1, NothingLeftStep, TypeCorrect, PTL DEF Spec

-----------------------------------------------------------------------------
(* Whose result is reported. *)

(* The attempt's directory holds this call's result. *)
OwnResult == files[runner.attempt].call = runner.calls

(* A probe that is over has left this call's result, or has died; after a     *)
(* signal the runner reads none.                                           *)
ResultKept ==
    /\ runner.unwinding => runner.pc \in {"validator", "stopping", "interrupted"}
    /\ ~runner.unwinding =>
          /\ runner.pc = "probing" /\ probe.pc = "over" => probe.status = "DIED" \/ OwnResult
          /\ runner.pc \in {"validator", "stopping", "reading"} =>
                probe.status = "DIED" \/ OwnResult

(* Every step towards the report keeps the result of this call. *)
LEMMA ResultStep == TypeOK /\ ResultKept /\ [Next]_vars => ResultKept'
  <1> SUFFICES ASSUME TypeOK, ResultKept, [Next]_vars
               PROVE  ResultKept'
    OBVIOUS
  <1>1. RunnerTyped /\ FilesTyped /\ ProbeTyped
    BY DEF TypeOK, RunnerTyped, FilesTyped, ProbeTyped
  <1>2. CASE UNCHANGED <<runner, probe, files>>
    BY <1>2 DEF ResultKept, OwnResult
  <1>3. CASE LaunchStep \/ OperatorStep \/ UNCHANGED vars
    BY <1>2, <1>3, Zenon
    DEF LaunchStep, FireTimer, LeaderDies, BringUp, BondBreaks, Die,
        OperatorStep, OperatorStarts, OperatorStops, vars
  <1>4. CASE Call \/ ScopeInvalid \/ Launch \/ ReadResult
    BY <1>1, <1>4 DEF Call, ScopeInvalid, Launch, ReadResult, Go, ResultKept, RunnerTyped
  <1>5. ASSUME NEW goals \in Goals, StartProbe(goals)
        PROVE  ResultKept'
    BY <1>1, <1>5 DEF StartProbe, NoProbe, Go, ResultKept, RunnerTyped
  <1>6. CASE ProbeEnded \/ ValidatorClosed \/ StopGroup
    BY <1>1, <1>6
    DEF ProbeEnded, ValidatorClosed, StopGroup, AfterStop, Go, ResultKept, OwnResult, RunnerTyped
  <1>7. CASE RunnerTimeout
    <2>1. files'[runner.attempt].call = runner.calls
      <3>1. Write(FALSE)
        BY <1>7 DEF RunnerTimeout
      <3>2. QED
        BY <1>1, <3>1, WriteTyped
    <2>2. runner' = [runner EXCEPT !.pc = "validator"]
      BY <1>7 DEF RunnerTimeout, Go
    <2>3. runner.pc = "probing"
      BY <1>7 DEF RunnerTimeout
    <2>4. QED
      BY <1>1, <2>1, <2>2, <2>3 DEF ResultKept, OwnResult, RunnerTyped
  <1>8. CASE WriteResult
    <2>1. (probe.status \in Invalid) \in BOOLEAN /\ Write(probe.status \in Invalid)
      BY <1>8 DEF WriteResult
    <2>2. files'[runner.attempt].call = runner.calls
      BY <1>1, <2>1, WriteTyped
    <2>3. UNCHANGED runner /\ runner.pc = "probing"
      BY <1>8 DEF WriteResult, AtProbe
    <2>4. QED
      BY <2>2, <2>3 DEF ResultKept, OwnResult
  <1>9. CASE ProbeDies
    BY <1>9 DEF ProbeDies, Over, NoProbe, ResultKept
  <1>10. CASE Observe \/ ClockBack \/ Gate \/ ReadyTimeout \/ SendGoal \/ GoalEnds
    <2>1. UNCHANGED <<runner, files>> /\ runner.pc = "probing"
      BY <1>10, Zenon
      DEF Observe, ClockBack, Gate, ReadyTimeout, SendGoal, GoalEnds, AtProbe, ProbeOnly
    <2>2. probe'.pc # "over"
      <3>1. \A status : Writing(status).pc = "writing"
        BY DEF Writing, NoProbe
      <3>2. CASE Observe \/ ClockBack
        BY <1>1, <3>2 DEF Observe, ClockBack, AtProbe, ProbeTyped
      <3>3. CASE Gate
        BY <1>1, <3>1, <3>3 DEF Gate, AtProbe, ProbeTyped
      <3>4. CASE ReadyTimeout
        BY <3>1, <3>4 DEF ReadyTimeout
      <3>5. CASE SendGoal \/ GoalEnds
        BY <1>1, <3>1, <3>5 DEF SendGoal, GoalEnds, ProbeGo, Measured, ProbeTyped
      <3>6. QED
        BY <1>10, <3>2, <3>3, <3>4, <3>5
    <2>3. QED
      BY <2>1, <2>2 DEF ResultKept
  <1>11. CASE Signal
    <2>1. runner'.unwinding = TRUE /\ runner'.pc \in {"validator", "interrupted"}
      BY <1>1, <1>11 DEF Signal, RunnerTyped
    <2>2. QED
      BY <2>1 DEF ResultKept
  <1>12. QED
    BY <1>3, <1>4, <1>5, <1>6, <1>7, <1>8, <1>9, <1>10, <1>11, Zenon
    DEF Next, RunnerStep, ProbeStep

(* The runner reports this call's measurement unless the probe died without  *)
(* one, however many calls share its directories.                          *)
THEOREM ReportsOwnResult == Spec => ReportsThisCall
  <1>1. Init => ResultKept
    BY DEF Init, ResultKept
  <1>2. TypeOK /\ ResultKept /\ [Next]_vars =>
          (runner.pc = "reading" /\ runner'.pc = "ended" /\ probe.status # "DIED"
             => runner'.report = runner.calls)
    <2> SUFFICES ASSUME TypeOK, ResultKept, [Next]_vars, runner.pc = "reading",
                        runner'.pc = "ended", probe.status # "DIED"
                 PROVE  runner'.report = runner.calls
      OBVIOUS
    <2>1. RunnerTyped /\ OwnResult
      BY DEF TypeOK, RunnerTyped, ResultKept
    <2>2. ReadResult
      <3>1. CASE LaunchStep \/ OperatorStep \/ ProbeStep \/ UNCHANGED vars
        <4>1. runner' = runner
          BY <3>1, Zenon
          DEF LaunchStep, FireTimer, LeaderDies, BringUp, BondBreaks, Die,
              OperatorStep, OperatorStarts, OperatorStops, vars,
              ProbeStep, ProbeOnly, Observe, ClockBack, Gate, ReadyTimeout, SendGoal, GoalEnds,
              WriteResult, ProbeDies
        <4>2. QED
          BY <4>1
      <3>2. CASE Signal
        BY <2>1, <3>2 DEF Signal, RunnerTyped
      <3>3. CASE Call
        BY <3>3 DEF Call
      <3>4. QED
        BY <3>1, <3>2, <3>3
        DEF Next, RunnerStep, ScopeInvalid, Launch, StartProbe, ProbeEnded, RunnerTimeout,
            ValidatorClosed, StopGroup
    <2>3. PICK report : /\ report.call = runner.calls
                        /\ runner' = IF report.invalid /\ runner.attempt + 1 < Retries
                                     THEN [runner EXCEPT !.pc = "launching", !.attempt = @ + 1]
                                     ELSE [runner EXCEPT !.pc = "ended", !.report = report.call]
      <3> DEFINE report == IF files[runner.attempt].call = 0
                           THEN [call |-> runner.calls, invalid |-> FALSE]
                           ELSE files[runner.attempt]
      <3>1. report.call = runner.calls
        BY <2>1 DEF OwnResult
      <3>2. runner' = IF report.invalid /\ runner.attempt + 1 < Retries
                      THEN [runner EXCEPT !.pc = "launching", !.attempt = @ + 1]
                      ELSE [runner EXCEPT !.pc = "ended", !.report = report.call]
        BY <2>2, Zenon DEF ReadResult
      <3> HIDE DEF report
      <3>3. QED
        BY <3>1, <3>2
    <2>4. QED
      BY <2>1, <2>3 DEF RunnerTyped
  <1>3. QED
    BY <1>1, <1>2, ResultStep, TypeCorrect, PTL DEF Spec, ReportsThisCall

-----------------------------------------------------------------------------
(* Which launch a group is. *)

(* A launch keeps what it was started as. *)
SameLaunch(g, h) == g.file = h.file /\ g.args = h.args /\ g.domain = h.domain

(* The files of a session run side by side in the operator's domain, each    *)
(* once; while the runner works there is no session, and its launches are   *)
(* all of one file, outside the operator's domain.                         *)
Placed(i) ==
    IF i[1] = "file"
    THEN /\ i = <<"file", groups[i].file>> /\ groups[i].file \in session
         /\ groups[i].domain = Operator
    ELSE /\ session = {} /\ groups[i].file = "nav2_m1_gazebo" /\ groups[i].domain # Operator
         /\ groups[i].args \in {[software |-> TRUE, dual |-> TRUE, scope |-> b] : b \in BOOLEAN}

SessionsApart ==
    /\ session \in Sessions \union {{}}
    /\ session # {} => runner.pc = "ended"
    /\ \A i \in DOMAIN groups : Placed(i)

(* No step of a launch changes that. *)
LEMMA LaunchKeeps ==
  ASSUME GroupsTyped, LaunchStep
  PROVE  \A j \in DOMAIN groups : SameLaunch(groups'[j], groups[j])
  <1>1. PICK i \in DOMAIN groups :
           \/ FireTimer(i)
           \/ LeaderDies(i)
           \/ \E m \in Managers : BringUp(i, m) \/ BondBreaks(i, m)
           \/ \E n \in Mortal : Die(i, n)
    BY DEF LaunchStep
  <1>2. groups \in [DOMAIN groups -> Groups]
    BY DEF GroupsTyped
  <1>3. CASE FireTimer(i)
    <2>1. PICK new : groups' = [groups EXCEPT ![i].fired = @ + 1, ![i].up = @ \union new]
      BY <1>3, Zenon DEF FireTimer
    <2>2. QED
      BY <1>2, <2>1 DEF SameLaunch, Groups
  <1>4. CASE LeaderDies(i)
    BY <1>2, <1>4 DEF LeaderDies, SameLaunch, Groups
  <1>5. CASE \E m \in Managers : BringUp(i, m)
    <2>1. PICK more, m : groups' = [groups EXCEPT ![i].active = @ \union more,
                                                 ![i].tried = @ \union {m}]
      BY <1>5, Zenon DEF BringUp
    <2>2. QED
      BY <1>2, <2>1 DEF SameLaunch, Groups
  <1>6. CASE \E m \in Managers : BondBreaks(i, m)
    <2>1. PICK lost : groups' = [groups EXCEPT ![i].active = @ \ lost]
      BY <1>6, Zenon DEF BondBreaks
    <2>2. QED
      BY <1>2, <2>1 DEF SameLaunch, Groups
  <1>7. CASE \E n \in Mortal : Die(i, n)
    <2>1. PICK n : groups' = [groups EXCEPT ![i].up = @ \ {n}, ![i].active = @ \ {n}]
      BY <1>7, Zenon DEF Die
    <2>2. QED
      BY <1>2, <2>1 DEF SameLaunch, Groups
  <1>8. QED
    BY <1>1, <1>3, <1>4, <1>5, <1>6, <1>7

(* The topics that flow are those of eight hops. *)
LEMMA FlowingUnfolds ==
  ASSUME NEW d, NEW W
  PROVE  \E lives, r5 :
            /\ lives = Lives(d, W)
            /\ Flowing(d, W) = Carried(lives, Carried(lives, Carried(lives, r5)))
  <1> DEFINE lives == Lives(d, W)
             C(S) == Carried(lives, S)
             reach[k \in 0 .. 8] == IF k = 0 THEN {} ELSE Carried(lives, reach[k - 1])
             r1 == C({})  r2 == C(r1)  r3 == C(r2)  r4 == C(r3)
             r5 == C(r4)  r6 == C(r5)  r7 == C(r6)  r8 == C(r7)
             f == [k \in 0 .. 8 |->
                     IF k = 0 THEN {} ELSE IF k = 1 THEN r1 ELSE IF k = 2 THEN r2
                     ELSE IF k = 3 THEN r3 ELSE IF k = 4 THEN r4 ELSE IF k = 5 THEN r5
                     ELSE IF k = 6 THEN r6 ELSE IF k = 7 THEN r7 ELSE r8]
  <1>1. f = [k \in 0 .. 8 |-> IF k = 0 THEN {} ELSE Carried(lives, f[k - 1])]
    <2> HIDE DEF lives
    <2> QED OBVIOUS
  <1> HIDE DEF f
  <1>2. reach = [k \in 0 .. 8 |-> IF k = 0 THEN {} ELSE Carried(lives, reach[k - 1])]
    BY <1>1
  <1>3. Flowing(d, W) = reach[8]
    BY DEF Flowing
  <1> HIDE DEF reach, lives
  <1>4. reach[8] = Carried(lives, Carried(lives, Carried(lives, reach[5])))
    BY <1>2
  <1>5. QED
    BY <1>3, <1>4 DEF lives

(* The runner's domains are never the operator's. *)
LEMMA DomainApart == \A index \in Indexes, attempt \in Nat : DomainOf(index, attempt) # Operator
  <1>1. \A index \in Indexes : index * Retries \in Nat
    BY BenchAssumption
  <1>2. QED
    BY <1>1, BenchAssumption DEF DomainOf, Operator

(* Operator and runner never work at the same time. *)
LEMMA SessionsStep == TypeOK /\ SessionsApart /\ [Next]_vars => SessionsApart'
  <1> SUFFICES ASSUME TypeOK, SessionsApart, [Next]_vars
               PROVE  SessionsApart'
    OBVIOUS
  <1>1. GroupsTyped /\ RunnerTyped /\ session \in Sessions \union {{}}
    BY DEF TypeOK, GroupsTyped, RunnerTyped, SessionsApart
  <1>2. ASSUME NEW i \in DOMAIN groups, i \in DOMAIN groups', SameLaunch(groups'[i], groups[i]),
               UNCHANGED session
        PROVE  Placed(i)'
    BY <1>2 DEF SessionsApart, Placed, SameLaunch
  <1>3. CASE UNCHANGED <<groups, session, runner>>
    BY <1>3 DEF SessionsApart, Placed
  <1>4. CASE LaunchStep
    <2>1. UNCHANGED <<session, runner>>
      BY <1>4, Zenon DEF LaunchStep, FireTimer, LeaderDies, BringUp, BondBreaks, Die
    <2>2. DOMAIN groups' = DOMAIN groups
      BY <1>1, <1>4, LaunchGroups
    <2>3. \A i \in DOMAIN groups' : Placed(i)'
      BY <1>1, <1>2, <1>4, <2>1, <2>2, LaunchKeeps
    <2>4. QED
      BY <1>1, <2>1, <2>3 DEF SessionsApart
  <1>5. ASSUME NEW S, groups' = Without(S), UNCHANGED session
        PROVE  \A i \in DOMAIN groups' : Placed(i)'
    <2>1. \A i \in DOMAIN groups' : i \in DOMAIN groups /\ groups'[i] = groups[i]
      BY <1>5 DEF Without, Restrict
    <2>2. QED
      BY <1>2, <1>5, <2>1 DEF SameLaunch
  <1>6. ASSUME NEW f \in session, NEW a \in ArgsOf(f), OperatorStarts(f, a)
        PROVE  SessionsApart'
    <2>1. /\ groups' = Added(<<"file", f>>, NewGroup(f, a, Operator))
          /\ UNCHANGED <<session, runner>>
      BY <1>6 DEF OperatorStarts
    <2>2. ASSUME NEW i \in DOMAIN groups'
          PROVE  Placed(i)'
      <3>1. CASE i = <<"file", f>>
        BY <2>1, <2>2, <3>1 DEF Added, NewGroup, Placed
      <3>2. CASE i # <<"file", f>>
        <4>1. i \in DOMAIN groups /\ groups'[i] = groups[i]
          BY <2>1, <2>2, <3>2 DEF Added
        <4>2. QED
          BY <1>2, <2>1, <2>2, <4>1 DEF SameLaunch
      <3>3. QED
        BY <3>1, <3>2
    <2>3. QED
      BY <2>1, <2>2 DEF SessionsApart
  <1>7. ASSUME NEW f \in session, OperatorStops(f)
        PROVE  SessionsApart'
    BY <1>5, <1>7 DEF OperatorStops, SessionsApart
  <1>8. ASSUME runner.pc # "ended", UNCHANGED session, \A i \in DOMAIN groups' : Placed(i)'
        PROVE  SessionsApart'
    BY <1>8 DEF SessionsApart
  <1>9. CASE Launch
    <2>1. /\ groups' = Added(Current, NewGroup("nav2_m1_gazebo", RunnerArgs,
                                         DomainOf(runner.index, runner.attempt)))
          /\ UNCHANGED session /\ runner.pc = "launching"
      BY <1>9 DEF Launch
    <2>2. session = {}
      BY <2>1 DEF SessionsApart
    <2>3. runner.index \in Indexes /\ runner.attempt \in Nat /\ runner.scope \in BOOLEAN
      BY <1>1 DEF RunnerTyped, Attempts, BenchAssumption
    <2>4. DomainOf(runner.index, runner.attempt) # Operator
      BY <2>3, DomainApart
    <2>5. ASSUME NEW i \in DOMAIN groups'
          PROVE  Placed(i)'
      <3>1. CASE i = Current
        BY <2>1, <2>2, <2>3, <2>4, <2>5, <3>1 DEF Added, NewGroup, Placed, Current, RunnerArgs
      <3>2. CASE i # Current
        <4>1. i \in DOMAIN groups /\ groups'[i] = groups[i]
          BY <2>1, <2>5, <3>2 DEF Added
        <4>2. QED
          BY <1>2, <2>1, <2>5, <4>1 DEF SameLaunch
      <3>3. QED
        BY <3>1, <3>2
    <2>6. QED
      BY <1>8, <2>1, <2>5
  <1>10. CASE StopGroup \/ Signal
    <2>1. runner.pc # "ended" /\ UNCHANGED session
      BY <1>10 DEF StopGroup, Signal
    <2>2. groups' = groups \/ groups' = Without({Current})
      BY <1>10 DEF StopGroup, Signal
    <2>3. CASE groups' = groups
      BY <1>8, <2>1, <2>3 DEF SessionsApart, Placed
    <2>4. CASE groups' = Without({Current})
      BY <1>5, <1>8, <2>1, <2>4
    <2>5. QED
      BY <2>2, <2>3, <2>4
  <1>11. CASE \/ ScopeInvalid \/ ProbeEnded \/ RunnerTimeout \/ ValidatorClosed \/ ReadResult
              \/ \E goals \in Goals : StartProbe(goals)
    <2>1. runner.pc # "ended" /\ UNCHANGED <<groups, session>>
      BY <1>11, Zenon
      DEF ScopeInvalid, ProbeEnded, RunnerTimeout, ValidatorClosed, ReadResult, StartProbe
    <2>2. QED
      BY <1>8, <2>1 DEF SessionsApart, Placed
  <1>12. CASE Call
    BY <1>12 DEF Call, SessionsApart, Placed
  <1>13. CASE ProbeStep \/ UNCHANGED vars
    <2>1. UNCHANGED <<groups, session, runner>>
      BY <1>13, Zenon
      DEF ProbeStep, ProbeOnly, Observe, ClockBack, Gate, ReadyTimeout, SendGoal, GoalEnds,
          WriteResult, ProbeDies, vars
    <2>2. QED
      BY <1>3, <2>1
  <1>14. QED
    BY <1>4, <1>6, <1>7, <1>9, <1>10, <1>11, <1>12, <1>13, Zenon
    DEF Next, OperatorStep, RunnerStep

(* Operator and runner work apart in every state. *)
LEMMA SessionsKept == Spec => []SessionsApart
  <1>1. Init => SessionsApart
    BY DEF Init, SessionsApart
  <1>2. QED
    BY <1>1, SessionsStep, TypeCorrect, PTL DEF Spec

-----------------------------------------------------------------------------
(* The tables of the launch files. *)

(* The collision monitor and the watchdog of Nav2 pass on what they are sent. *)
PassesOn(name, needs) ==
    /\ name = "collision_monitor" => "/cmd_vel_smoothed" \in needs
    /\ name = "m1_cmd_watchdog" => "/m1/cmd_vel_raw" \in needs

(* Every output of the nodes is one of these pairs of a node and a topic. *)
Only(nodes, pairs) ==
    \A n \in nodes : \A f \in n.flows :
        <<n.name, f.topic>> \in pairs /\ PassesOn(n.name, f.needs)

(* An output of the table is a flow of a node of the file. *)
LEMMA OutputsAre ==
  ASSUME NEW file \in Files, NEW a \in Args, NEW o \in Outputs[<<file, a>>]
  PROVE  \E n \in NodesOf(file, a) : \E f \in n.flows : o = [node |-> n.name, flow |-> f]
  <1>1. Outputs[<<file, a>>] =
          UNION {{[node |-> n.name, flow |-> f] : f \in n.flows} : n \in NodesOf(file, a)}
    BY DEF Outputs
  <1>2. QED
    BY <1>1

(* What the simulator's nodes send. *)
LEMMA SimulatorSends ==
  ASSUME NEW a \in Args
  PROVE  Only(M1Gazebo(a),
              {<<"robot_state_publisher", "/tf_static">>,
               <<"dynamic_obstacle_mover", "/m1/dynamic_obstacles">>,
               <<"m1_gazebo_bridge_core", "/clock">>,
               <<"m1_gazebo_bridge_core", "/m1/gazebo_dynamic_tf">>,
               <<"m1_gazebo_bridge_core", "/ground_truth/odom">>,
               <<"odom_slip_simulator", "/odom">>, <<"odom_slip_simulator", Body>>}
              \union (IF a.software THEN {<<"software_lidar", "/sim_scan">>}
                      ELSE IF a.dual
                      THEN {<<"m1_gazebo_bridge_dual_scan", "/scan_front">>,
                            <<"m1_gazebo_bridge_dual_scan", "/scan_rear">>,
                            <<"m1_dual_laser_merger", "/scan">>}
                      ELSE {<<"m1_gazebo_bridge_scan", "/scan">>}))
  <1> USE DEF Only, PassesOn, Node, Flow, When
  <1>1. Only(SimulatorNodes, {<<"robot_state_publisher", "/tf_static">>})
    BY DEF SimulatorNodes
  <1>2. Only(ObstacleMover, {<<"dynamic_obstacle_mover", "/m1/dynamic_obstacles">>})
    BY DEF ObstacleMover
  <1>3. Only(Bridge, {<<"m1_gazebo_bridge_core", "/clock">>,
                      <<"m1_gazebo_bridge_core", "/m1/gazebo_dynamic_tf">>,
                      <<"m1_gazebo_bridge_core", "/ground_truth/odom">>})
    BY DEF Bridge
  <1>4. Only(SlipSimulator, {<<"odom_slip_simulator", "/odom">>, <<"odom_slip_simulator", Body>>})
    BY DEF SlipSimulator
  <1>5. Only(SingleScan(a), IF ~a.software /\ ~a.dual THEN {<<"m1_gazebo_bridge_scan", "/scan">>}
                            ELSE {})
    BY DEF SingleScan
  <1>6. Only(DualScan(a), IF ~a.software /\ a.dual
                          THEN {<<"m1_gazebo_bridge_dual_scan", "/scan_front">>,
                                <<"m1_gazebo_bridge_dual_scan", "/scan_rear">>,
                                <<"m1_dual_laser_merger", "/scan">>}
                          ELSE {})
    BY DEF DualScan
  <1>7. Only(SoftwareLidar(a), IF a.software THEN {<<"software_lidar", "/sim_scan">>} ELSE {})
    BY DEF SoftwareLidar
  <1>8. a.software \in BOOLEAN /\ a.dual \in BOOLEAN
    BY DEF Args
  <1>9. QED
    BY <1>1, <1>2, <1>3, <1>4, <1>5, <1>6, <1>7, <1>8 DEF M1Gazebo

(* The simulator's outputs that some other node must not send as well. *)
SimulatorKey(a) ==
    {<<"m1_gazebo_bridge_core", "/clock">>,
     <<"odom_slip_simulator", "/odom">>, <<"odom_slip_simulator", Body>>}
    \union (IF a.software THEN {}
            ELSE IF a.dual THEN {<<"m1_dual_laser_merger", "/scan">>}
            ELSE {<<"m1_gazebo_bridge_scan", "/scan">>})

(* What the nodes send that several files start. *)
LEMMA SharedSend ==
  /\ Only(Localization, {<<"map_server", "/map">>, <<"amcl", "map->odom">>})
  /\ Only(ControllerServer, {<<"controller_server", "/cmd_vel_nav">>})
  /\ Only(PlannerServer, {<<"planner_server", "/plan">>})
  /\ Only(Navigators, {})
  /\ Only(GazeboBehaviors, {<<"behavior_server", "/cmd_vel_nav">>})
  /\ Only(RealBehaviors, {<<"behavior_server", "/cmd_vel">>})
  /\ Only(VelocitySmoother, {<<"velocity_smoother", "/cmd_vel_smoothed">>})
  /\ Only(CollisionMonitor, {<<"collision_monitor", "/m1/cmd_vel_raw">>})
  /\ Only(NavWatchdog, {<<"m1_cmd_watchdog", "/cmd_vel">>})
  /\ Only(Vendor, {<<"vendor_base", "/odom">>, <<"vendor_base", Body>>, <<"vendor_base", "/scan">>,
                   <<"vendor_base", "/tf_static">>})
  <1> USE DEF Only, PassesOn, Node, Flow
  <1>1. Only(Localization, {<<"map_server", "/map">>, <<"amcl", "map->odom">>})
    BY DEF Localization
  <1>2. /\ Only(ControllerServer, {<<"controller_server", "/cmd_vel_nav">>})
        /\ Only(GazeboBehaviors, {<<"behavior_server", "/cmd_vel_nav">>})
        /\ Only(RealBehaviors, {<<"behavior_server", "/cmd_vel">>})
    BY DEF ControllerServer, GazeboBehaviors, RealBehaviors, Motion
  <1>3. Only(PlannerServer, {<<"planner_server", "/plan">>})
    BY DEF PlannerServer
  <1>4. Only(Navigators, {})
    BY DEF Navigators
  <1>5. /\ Only(VelocitySmoother, {<<"velocity_smoother", "/cmd_vel_smoothed">>})
        /\ Only(CollisionMonitor, {<<"collision_monitor", "/m1/cmd_vel_raw">>})
        /\ Only(NavWatchdog, {<<"m1_cmd_watchdog", "/cmd_vel">>})
    BY DEF VelocitySmoother, CollisionMonitor, NavWatchdog, Relay
  <1>6. Only(Vendor, {<<"vendor_base", "/odom">>, <<"vendor_base", Body>>,
                      <<"vendor_base", "/scan">>, <<"vendor_base", "/tf_static">>})
    BY DEF Vendor
  <1>7. QED
    BY <1>1, <1>2, <1>3, <1>4, <1>5, <1>6

(* The same of the nodes that a file names or moves to a topic of its own. *)
LEMMA AddressedSend ==
  ASSUME NEW a \in Args, NEW name
  PROVE  /\ name \notin {"collision_monitor", "m1_cmd_watchdog"} =>
              /\ Only(ScanRelay(a, name), IF a.software THEN {<<name, "/scan">>} ELSE {})
              /\ Only(ImperativeWatchdog(name), {<<name, "/cmd_vel">>})
              /\ \A topic : Only(Motion(name, topic), {<<name, topic>>})
         /\ Only(ScopeOnline(a), {<<"scope_predictor", "/scope/prediction">>})
  <1> USE DEF Only, PassesOn, Node, Flow, When
  <1>1. Only(ScopeOnline(a), {<<"scope_predictor", "/scope/prediction">>})
    BY DEF ScopeOnline
  <1>2. ASSUME name \notin {"collision_monitor", "m1_cmd_watchdog"}
        PROVE  Only(ScanRelay(a, name), IF a.software THEN {<<name, "/scan">>} ELSE {})
    BY <1>2 DEF ScanRelay
  <1>3. ASSUME name \notin {"collision_monitor", "m1_cmd_watchdog"}
        PROVE  Only(ImperativeWatchdog(name), {<<name, "/cmd_vel">>})
    BY <1>3 DEF ImperativeWatchdog, Relay
  <1>4. ASSUME name \notin {"collision_monitor", "m1_cmd_watchdog"}, NEW topic
        PROVE  Only(Motion(name, topic), {<<name, topic>>})
    BY <1>4 DEF Motion
  <1>5. QED
    BY <1>1, <1>2, <1>3, <1>4

(* The topics the two properties are about, and those on the way to /cmd_vel. *)
Sensing == {"/scan", "/odom", "/clock", Body, "map->odom", "/cmd_vel"}
OnTheWay == {"/m1/cmd_vel_raw", "/cmd_vel_smoothed"}

(* The pairs of a file with these topics. *)
RelayKey(a, name) == IF a.software THEN {<<name, "/scan">>} ELSE {}
SafetyKey ==
    {<<"velocity_smoother", "/cmd_vel_smoothed">>, <<"collision_monitor", "/m1/cmd_vel_raw">>,
     <<"m1_cmd_watchdog", "/cmd_vel">>}
LocalizationKey == {<<"amcl", "map->odom">>}

KeyOf(file, a) ==
    CASE file = "nav2_m1_gazebo" ->
            SimulatorKey(a) \union RelayKey(a, "m1_scan_relay") \union LocalizationKey \union SafetyKey
      [] file = "nav2_m1_real" ->
            LocalizationKey \union SafetyKey \union {<<"behavior_server", "/cmd_vel">>}
      [] file = "nav2_m1_mapping" ->
            SimulatorKey(a) \union RelayKey(a, "m1_scan_relay")
              \union {<<"slam_toolbox", "map->odom">>}
      [] file = "imperative_m1_gazebo" ->
            SimulatorKey(a) \union RelayKey(a, "imperative_scan_relay")
              \union {<<"imperative_controller", "/cmd_vel">>}
      [] file = "imperative_m1_localized_gazebo" ->
            SimulatorKey(a) \union RelayKey(a, "imperative_localized_scan_relay")
              \union LocalizationKey \union {<<"imperative_localized_cmd_watchdog", "/cmd_vel">>}
      [] file = "imperative_m1_localized_real" ->
            LocalizationKey \union {<<"imperative_localized_cmd_watchdog", "/cmd_vel">>}
      [] file = "imperative_m1_real" -> {}
      [] file = "imperative_cmd_watchdog" -> {<<"imperative_cmd_watchdog", "/cmd_vel">>}
      [] file = "vendor" ->
            {<<"vendor_base", "/odom">>, <<"vendor_base", Body>>, <<"vendor_base", "/scan">>}

(* Every output with one of these topics is one of these pairs. *)
Offers(nodes, pairs) ==
    \A n \in nodes : \A f \in n.flows :
        f.topic \in Sensing \union OnTheWay =>
            <<n.name, f.topic>> \in pairs /\ PassesOn(n.name, f.needs)

(* No file offers a topic of the two properties beyond its pairs. *)
LEMMA FilesOffer ==
  ASSUME NEW file \in Files, NEW a \in Args
  PROVE  Offers(NodesOf(file, a), KeyOf(file, a))
  <1> DEFINE K == KeyOf(file, a)
  <1> USE DEF Sensing, OnTheWay, Body
  <1>1. ASSUME SimulatorKey(a) \subseteq K
        PROVE  Offers(M1Gazebo(a), K)
    BY <1>1, SimulatorSends DEF SimulatorKey, Only, Offers
  <1>2. ASSUME NEW name, name \notin {"collision_monitor", "m1_cmd_watchdog"},
               RelayKey(a, name) \subseteq K
        PROVE  Offers(ScanRelay(a, name), K)
    <2>1. Only(ScanRelay(a, name), RelayKey(a, name))
      BY <1>2, AddressedSend DEF RelayKey
    <2>2. QED
      BY <1>2, <2>1 DEF Only, Offers
  <1>3. ASSUME LocalizationKey \subseteq K
        PROVE  Offers(Localization, K)
    BY <1>3, SharedSend DEF LocalizationKey, Only, Offers
  <1>4. ASSUME SafetyKey \subseteq K
        PROVE  Offers(VelocitySmoother, K) /\ Offers(CollisionMonitor, K) /\ Offers(NavWatchdog, K)
    BY <1>4, SharedSend DEF SafetyKey, Only, Offers
  <1>5. /\ Offers(ControllerServer, K) /\ Offers(PlannerServer, K) /\ Offers(Navigators, K)
        /\ Offers(GazeboBehaviors, K) /\ Offers(ScopeOnline(a), K)
    <2>1. Only(ScopeOnline(a), {<<"scope_predictor", "/scope/prediction">>})
      BY AddressedSend
    <2>2. QED
      BY <2>1, SharedSend DEF Only, Offers
  <1>6. /\ Offers({Node("lifecycle_manager_navigation", {})}, K)
        /\ Offers({Node("lifecycle_manager_safety", {})}, K)
    BY DEF Offers, Node
  <1>7. CASE file = "nav2_m1_gazebo"
    <2>1. K = SimulatorKey(a) \union RelayKey(a, "m1_scan_relay") \union LocalizationKey
                \union SafetyKey
      BY <1>7 DEF KeyOf
    <2> HIDE DEF K
    <2>2. Offers(Nav2Gazebo(a), K)
      <3>1. Offers(ScanRelay(a, "m1_scan_relay"), K)
        BY <1>2, <2>1
      <3>2. QED
        BY <1>1, <1>3, <1>4, <1>5, <1>6, <2>1, <3>1 DEF Offers, Nav2Gazebo
    <2>3. NodesOf(file, a) = Nav2Gazebo(a)
      BY <1>7 DEF NodesOf
    <2>4. QED
      BY <2>2, <2>3 DEF K
  <1>8. CASE file = "nav2_m1_real"
    <2>1. K = LocalizationKey \union SafetyKey \union {<<"behavior_server", "/cmd_vel">>}
      BY <1>8 DEF KeyOf
    <2> HIDE DEF K
    <2>2. Offers(RealBehaviors, K)
      BY <2>1, SharedSend DEF Only, Offers
    <2>3. Offers({Node("robot_state_publisher", {Flow({}, {}, "/tf_static")}),
                  Node("smoother_server", {})}, K)
      BY DEF Offers, Node, Flow
    <2>4. Offers(Nav2Real, K)
      BY <1>3, <1>4, <1>5, <1>6, <2>1, <2>2, <2>3 DEF Offers, Nav2Real
    <2>5. NodesOf(file, a) = Nav2Real
      BY <1>8 DEF NodesOf
    <2>6. QED
      BY <2>4, <2>5 DEF K
  <1>9. CASE file = "nav2_m1_mapping"
    <2>1. K = SimulatorKey(a) \union RelayKey(a, "m1_scan_relay")
                \union {<<"slam_toolbox", "map->odom">>}
      BY <1>9 DEF KeyOf
    <2> HIDE DEF K
    <2>2. Offers({Node("slam_toolbox", {Flow({}, {"/scan", Body}, t) : t \in {"/map", "map->odom"}}),
                  Node("map_saver", {}), Node("lifecycle_manager_slam", {})}, K)
      BY <2>1 DEF Offers, PassesOn, Node, Flow
    <2>3. Offers(Mapping(a), K)
      <3>1. Offers(ScanRelay(a, "m1_scan_relay"), K)
        BY <1>2, <2>1
      <3>2. QED
        BY <1>1, <2>1, <2>2, <3>1 DEF Offers, Mapping
    <2>4. NodesOf(file, a) = Mapping(a)
      BY <1>9 DEF NodesOf
    <2>5. QED
      BY <2>3, <2>4 DEF K
  <1>10. CASE file = "imperative_m1_gazebo"
    <2>1. K = SimulatorKey(a) \union RelayKey(a, "imperative_scan_relay")
                \union {<<"imperative_controller", "/cmd_vel">>}
      BY <1>10 DEF KeyOf
    <2> HIDE DEF K
    <2>2. Offers({Node("imperative_controller",
                     {Flow({}, {"/odom", IF a.software THEN "/sim_scan" ELSE "/scan"},
                           "/cmd_vel")})}, K)
      BY <2>1 DEF Offers, PassesOn, Node, Flow
    <2>3. Offers(ImperativeGazebo(a), K)
      <3>1. Offers(ScanRelay(a, "imperative_scan_relay"), K)
        BY <1>2, <2>1
      <3>2. QED
        BY <1>1, <2>1, <2>2, <3>1 DEF Offers, ImperativeGazebo
    <2>4. NodesOf(file, a) = ImperativeGazebo(a)
      BY <1>10 DEF NodesOf
    <2>5. QED
      BY <2>3, <2>4 DEF K
  <1>11. CASE file \in {"imperative_m1_localized_gazebo", "imperative_m1_localized_real"}
    <2>1. /\ {<<"imperative_localized_cmd_watchdog", "/cmd_vel">>} \union LocalizationKey \subseteq K
          /\ file = "imperative_m1_localized_gazebo" =>
               SimulatorKey(a) \union RelayKey(a, "imperative_localized_scan_relay") \subseteq K
      BY <1>11 DEF KeyOf
    <2> HIDE DEF K
    <2>2. /\ Offers(Motion("imperative_m1_controller", "/imperative/cmd_vel_raw"), K)
          /\ Offers(ImperativeWatchdog("imperative_localized_cmd_watchdog"), K)
      <3>1. /\ Only(Motion("imperative_m1_controller", "/imperative/cmd_vel_raw"),
                     {<<"imperative_m1_controller", "/imperative/cmd_vel_raw">>})
            /\ Only(ImperativeWatchdog("imperative_localized_cmd_watchdog"),
                     {<<"imperative_localized_cmd_watchdog", "/cmd_vel">>})
        BY AddressedSend
      <3>2. QED
        BY <2>1, <3>1 DEF Only, Offers
    <2>3. CASE file = "imperative_m1_localized_gazebo"
      <3>1. Offers(ImperativeLocalizedGazebo(a), K)
        <4>1. Offers(ScanRelay(a, "imperative_localized_scan_relay"), K)
          BY <1>2, <2>1, <2>3
        <4>2. QED
          BY <1>1, <1>3, <2>1, <2>2, <2>3, <4>1 DEF Offers, ImperativeLocalizedGazebo
      <3>2. NodesOf(file, a) = ImperativeLocalizedGazebo(a)
        BY <2>3 DEF NodesOf
      <3>3. QED
        BY <3>1, <3>2 DEF K
    <2>4. CASE file = "imperative_m1_localized_real"
      <3>1. Offers(ImperativeLocalizedReal, K)
        BY <1>3, <2>1, <2>2 DEF Offers, ImperativeLocalizedReal
      <3>2. NodesOf(file, a) = ImperativeLocalizedReal
        BY <2>4 DEF NodesOf
      <3>3. QED
        BY <3>1, <3>2 DEF K
    <2>5. QED
      BY <1>11, <2>3, <2>4
  <1>12. CASE file = "imperative_m1_real"
    <2>1. Offers(ImperativeReal, K)
      BY DEF Offers, ImperativeReal, Node, Flow
    <2>2. QED
      BY <1>12, <2>1 DEF NodesOf
  <1>13. CASE file = "imperative_cmd_watchdog"
    <2>1. K = {<<"imperative_cmd_watchdog", "/cmd_vel">>}
      BY <1>13 DEF KeyOf
    <2>2. Offers(ImperativeWatchdog("imperative_cmd_watchdog"), K)
      <3>1. Only(ImperativeWatchdog("imperative_cmd_watchdog"),
                 {<<"imperative_cmd_watchdog", "/cmd_vel">>})
        BY AddressedSend
      <3>2. QED
        BY <2>1, <3>1 DEF Only, Offers
    <2>3. NodesOf(file, a) = ImperativeWatchdog("imperative_cmd_watchdog")
      BY <1>13 DEF NodesOf, ImperativeCmdWatchdog
    <2>4. QED
      BY <2>2, <2>3
  <1>14. CASE file = "vendor"
    <2>1. K = {<<"vendor_base", "/odom">>, <<"vendor_base", Body>>, <<"vendor_base", "/scan">>}
      BY <1>14 DEF KeyOf
    <2> HIDE DEF K
    <2>2. Offers(Vendor, K)
      BY <2>1, SharedSend DEF Only, Offers
    <2>3. NodesOf(file, a) = Vendor
      BY <1>14 DEF NodesOf
    <2>4. QED
      BY <2>2, <2>3 DEF K
  <1>15. QED
    BY <1>7, <1>8, <1>9, <1>10, <1>11, <1>12, <1>13, <1>14 DEF Files

(* In one file a topic has one node, and the files of a session share none. *)
LEMMA OneNode ==
  ASSUME NEW file \in Files, NEW a \in Args, NEW t \in Sensing, NEW m, NEW n,
         <<m, t>> \in KeyOf(file, a), <<n, t>> \in KeyOf(file, a),
         m # "behavior_server", n # "behavior_server"
  PROVE  m = n
  <1> USE DEF Sensing, Body, SimulatorKey, RelayKey, LocalizationKey, SafetyKey
  <1>1. CASE file = "nav2_m1_gazebo"
    BY <1>1 DEF KeyOf
  <1>2. CASE file = "nav2_m1_real"
    BY <1>2 DEF KeyOf
  <1>3. CASE file = "nav2_m1_mapping"
    BY <1>3 DEF KeyOf
  <1>4. CASE file = "imperative_m1_gazebo"
    BY <1>4 DEF KeyOf
  <1>5. CASE file = "imperative_m1_localized_gazebo"
    BY <1>5 DEF KeyOf
  <1>6. CASE file = "imperative_m1_localized_real"
    BY <1>6 DEF KeyOf
  <1>7. CASE file \in {"imperative_m1_real", "imperative_cmd_watchdog"}
    BY <1>7 DEF KeyOf
  <1>8. CASE file = "vendor"
    BY <1>8 DEF KeyOf
  <1>9. QED
    BY <1>1, <1>2, <1>3, <1>4, <1>5, <1>6, <1>7, <1>8 DEF Files

(* What the vendor's driver sends, and what the files beside it do.         *)
LEMMA BesideVendor ==
  ASSUME NEW a \in Args, NEW t \in Sensing, NEW n
  PROVE  /\ <<n, t>> \in KeyOf("vendor", a) => t \in {"/odom", Body, "/scan"}
         /\ \A file \in {"nav2_m1_real", "imperative_m1_localized_real", "imperative_m1_real",
                         "imperative_cmd_watchdog"} :
              <<n, t>> \in KeyOf(file, a) => t \in {"map->odom", "/cmd_vel"}
         /\ <<n, t>> \notin KeyOf("imperative_m1_real", a)
  BY DEF KeyOf, LocalizationKey, SafetyKey, Sensing, Body

(* Two files of a session offer no topic of the property between them. *)
LEMMA OneFile ==
  ASSUME NEW s \in Sessions, NEW f \in s, NEW g \in s, NEW a \in Args, NEW b \in Args,
         NEW t \in Sensing, NEW m, NEW n, <<m, t>> \in KeyOf(f, a), <<n, t>> \in KeyOf(g, b)
  PROVE  f = g
  <1> SUFFICES ASSUME f # g
               PROVE  FALSE
    OBVIOUS
  <1> DEFINE Beside == {"nav2_m1_real", "imperative_m1_localized_real", "imperative_m1_real",
                        "imperative_cmd_watchdog"}
  <1>1. {"/odom", Body, "/scan"} \intersect {"map->odom", "/cmd_vel"} = {}
    BY DEF Body
  <1>2. \/ f = "vendor" /\ g \in Beside
        \/ g = "vendor" /\ f \in Beside
        \/ f = "imperative_m1_real" \/ g = "imperative_m1_real"
    BY DEF Sessions
  <1>3. CASE f = "vendor" /\ g \in Beside
    <2>1. t \in {"/odom", Body, "/scan"}
      BY <1>3, BesideVendor
    <2>2. t \in {"map->odom", "/cmd_vel"}
      BY <1>3, BesideVendor
    <2>3. QED
      BY <1>1, <2>1, <2>2
  <1>4. CASE g = "vendor" /\ f \in Beside
    <2>1. t \in {"/odom", Body, "/scan"}
      BY <1>4, BesideVendor
    <2>2. t \in {"map->odom", "/cmd_vel"}
      BY <1>4, BesideVendor
    <2>3. QED
      BY <1>1, <2>1, <2>2
  <1>5. CASE f = "imperative_m1_real" \/ g = "imperative_m1_real"
    BY <1>5, BesideVendor
  <1>6. QED
    BY <1>2, <1>3, <1>4, <1>5

(* What an output says of its launch's file. *)
LEMMA OutputKey ==
  ASSUME GroupsTyped, NEW i \in DOMAIN groups,
         NEW o \in Outputs[<<groups[i].file, groups[i].args>>],
         o.flow.topic \in Sensing \union OnTheWay
  PROVE  /\ groups[i].file \in Files /\ groups[i].args \in Args
         /\ <<o.node, o.flow.topic>> \in KeyOf(groups[i].file, groups[i].args)
         /\ PassesOn(o.node, o.flow.needs)
  <1>1. groups[i].file \in Files /\ groups[i].args \in Args
    BY DEF GroupsTyped, Groups
  <1>2. PICK n \in NodesOf(groups[i].file, groups[i].args) :
           \E f \in n.flows : o = [node |-> n.name, flow |-> f]
    BY <1>1, OutputsAre
  <1>3. PICK f \in n.flows : o = [node |-> n.name, flow |-> f]
    BY <1>2
  <1>4. Offers(NodesOf(groups[i].file, groups[i].args), KeyOf(groups[i].file, groups[i].args))
    BY <1>1, FilesOffer
  <1>5. o.node = n.name /\ o.flow = f
    BY <1>3
  <1>6. <<n.name, f.topic>> \in KeyOf(groups[i].file, groups[i].args) /\ PassesOn(n.name, f.needs)
    BY <1>4, <1>5 DEF Offers
  <1>7. QED
    BY <1>1, <1>5, <1>6

(* A set whose members are all the same has one at most. *)
LEMMA AtMostOne ==
  ASSUME NEW S, \A p, q \in S : p = q
  PROVE  Cardinality(S) <= 1
  <1>1. CASE S = {}
    BY <1>1, FS_EmptySet
  <1>2. CASE S # {}
    <2>1. PICK p \in S : TRUE
      BY <1>2
    <2>2. S = {p}
      BY <2>1
    <2>3. Cardinality({p}) = 1
      BY FS_Singleton
    <2>4. QED
      BY <2>2, <2>3
  <1>3. QED
    BY <1>1, <1>2

(* A session has one source of a topic in every state. *)
LEMMA SourcesAreUnique == TypeOK /\ SessionsApart => SourcesUnique
  <1> SUFFICES ASSUME TypeOK, SessionsApart, session # {},
                      NEW t \in {"/scan", "/odom", "/clock", Body, "map->odom", "/cmd_vel"}
               PROVE  Cardinality({p \in Publishers(Operator, t) : p[2] # "behavior_server"}) <= 1
    BY DEF SourcesUnique
  <1> DEFINE S == {p \in Publishers(Operator, t) : p[2] # "behavior_server"}
  <1>1. GroupsTyped /\ session \in Sessions /\ t \in Sensing
    BY DEF TypeOK, GroupsTyped, SessionsApart, Sensing
  <1>2. ASSUME NEW p \in S
        PROVE  \E i \in DOMAIN groups :
                  /\ p = <<i, p[2]>> /\ i = <<"file", groups[i].file>> /\ groups[i].file \in session
                  /\ groups[i].file \in Files /\ groups[i].args \in Args
                  /\ <<p[2], t>> \in KeyOf(groups[i].file, groups[i].args)
    <2>1. PICK i \in GroupsIn(Operator) :
             p \in {<<i, o.node>> : o \in {o \in Outputs[<<groups[i].file, groups[i].args>>] :
                                      o.flow.topic = t /\ o.node \in groups[i].up}}
      BY <1>2 DEF Publishers
    <2>2. PICK o \in Outputs[<<groups[i].file, groups[i].args>>] :
             o.flow.topic = t /\ p = <<i, o.node>>
      BY <2>1
    <2>3. i \in DOMAIN groups
      BY DEF GroupsIn
    <2>4. i = <<"file", groups[i].file>> /\ groups[i].file \in session
      BY <2>3 DEF SessionsApart, Placed
    <2>5. /\ groups[i].file \in Files /\ groups[i].args \in Args
          /\ <<o.node, t>> \in KeyOf(groups[i].file, groups[i].args)
      BY <1>1, <2>2, <2>3, OutputKey
    <2>6. QED
      BY <2>2, <2>3, <2>4, <2>5
  <1>3. ASSUME NEW p \in S, NEW q \in S
        PROVE  p = q
    <2>1. PICK i \in DOMAIN groups :
             /\ p = <<i, p[2]>> /\ i = <<"file", groups[i].file>> /\ groups[i].file \in session
             /\ groups[i].file \in Files /\ groups[i].args \in Args
             /\ <<p[2], t>> \in KeyOf(groups[i].file, groups[i].args)
      BY <1>2
    <2>2. PICK j \in DOMAIN groups :
             /\ q = <<j, q[2]>> /\ j = <<"file", groups[j].file>> /\ groups[j].file \in session
             /\ groups[j].file \in Files /\ groups[j].args \in Args
             /\ <<q[2], t>> \in KeyOf(groups[j].file, groups[j].args)
      BY <1>2
    <2>3. groups[i].file = groups[j].file
      BY <1>1, <2>1, <2>2, OneFile
    <2>4. i = j
      BY <2>1, <2>2, <2>3
    <2>5. p[2] # "behavior_server" /\ q[2] # "behavior_server"
      BY <1>3
    <2>6. p[2] = q[2]
      BY <1>1, <2>1, <2>2, <2>4, <2>5, OneNode
    <2>7. QED
      BY <2>1, <2>2, <2>4, <2>6
  <1>4. QED
    BY <1>3, AtMostOne

(* Whatever the arguments and the order in which terminals are opened, a    *)
(* session never has two sources of a scan, a transform, the clock, odometry*)
(* or /cmd_vel: no two of the files it runs, and no two nodes of one.       *)
THEOREM OneSourceEach == Spec => []SourcesUnique
  BY SourcesAreUnique, SessionsKept, TypeCorrect, PTL

(* A topic is carried by an output of a launch whose node is not left out. *)
LEMMA CarriedBy ==
  ASSUME NEW d, NEW W, NEW known, NEW t,
         t \in Carried(Lives(d, W), known)
  PROVE  \E i \in GroupsIn(d) : \E o \in Outputs[<<groups[i].file, groups[i].args>>] :
            o.flow.topic = t /\ o.node \notin W /\ o.flow.needs \subseteq known
  <1>1. PICK outputs \in Lives(d, W) :
           t \in {o.flow.topic : o \in {p \in outputs : p.flow.needs \subseteq known}}
    BY DEF Carried
  <1>2. PICK i \in GroupsIn(d) : outputs = Live(groups[i], W)
    BY <1>1 DEF Lives
  <1>3. PICK o \in outputs : o.flow.needs \subseteq known /\ o.flow.topic = t
    BY <1>1
  <1>4. o \in Outputs[<<groups[i].file, groups[i].args>>] /\ o.node \notin W
    BY <1>2, <1>3 DEF Live
  <1>5. QED
    BY <1>3, <1>4

(* Launches beside which no watchdog guards /cmd_vel alone. *)
NavFiles == {"nav2_m1_gazebo", "nav2_m1_real", "vendor"}

(* The nodes on Nav2's way to /cmd_vel. *)
LEMMA NavKeys ==
  ASSUME NEW file \in NavFiles, NEW a \in Args, NEW n
  PROVE  /\ <<n, "/cmd_vel_smoothed">> \in KeyOf(file, a) => n = "velocity_smoother"
         /\ <<n, "/m1/cmd_vel_raw">> \in KeyOf(file, a) => n = "collision_monitor"
         /\ <<n, "/cmd_vel">> \in KeyOf(file, a) =>
              \/ n = "m1_cmd_watchdog"
              \/ n = "behavior_server" /\ file = "nav2_m1_real"
  <1> USE DEF Body, SimulatorKey, RelayKey, LocalizationKey, SafetyKey
  <1>1. CASE file = "nav2_m1_gazebo"
    BY <1>1 DEF KeyOf
  <1>2. CASE file = "nav2_m1_real"
    BY <1>2 DEF KeyOf
  <1>3. CASE file = "vendor"
    BY <1>3 DEF KeyOf
  <1>4. QED
    BY <1>1, <1>2, <1>3 DEF NavFiles

(* The nodes on any other way, but for the simulation controller. *)
LEMMA OtherKeys ==
  ASSUME NEW file \in Files, NEW a \in Args, NEW n,
         file \notin {"nav2_m1_gazebo", "nav2_m1_real", "imperative_m1_gazebo"},
         <<n, "/cmd_vel">> \in KeyOf(file, a)
  PROVE  n \in Watchdogs
  <1> USE DEF Body, SimulatorKey, RelayKey, LocalizationKey, SafetyKey, Watchdogs
  <1>1. CASE file = "nav2_m1_mapping"
    BY <1>1 DEF KeyOf
  <1>2. CASE file = "imperative_m1_localized_gazebo"
    BY <1>2 DEF KeyOf
  <1>3. CASE file \in {"imperative_m1_localized_real", "imperative_m1_real",
                       "imperative_cmd_watchdog", "vendor"}
    BY <1>3 DEF KeyOf
  <1>4. QED
    BY <1>1, <1>2, <1>3 DEF Files

(* With any of its three guards gone Nav2's chain carries no motion. *)
LEMMA NavChain ==
  ASSUME GroupsTyped, NEW d, NEW W,
         \A i \in GroupsIn(d) : groups[i].file \in NavFiles,
         \/ "velocity_smoother" \in W \/ "collision_monitor" \in W \/ "m1_cmd_watchdog" \in W,
         \A i \in GroupsIn(d) : groups[i].file = "nav2_m1_real" => "behavior_server" \in W
  PROVE  "/cmd_vel" \notin Flowing(d, W)
  <1> SUFFICES ASSUME "/cmd_vel" \in Flowing(d, W)
               PROVE  FALSE
    OBVIOUS
  <1>1. PICK lives, r5 :
           /\ lives = Lives(d, W)
           /\ Flowing(d, W) = Carried(lives, Carried(lives, Carried(lives, r5)))
    BY FlowingUnfolds
  <1> DEFINE r6 == Carried(lives, r5)
             r7 == Carried(lives, r6)
  <1> HIDE DEF r6, r7
  <1>2. "/cmd_vel" \in Carried(lives, r7)
    BY <1>1 DEF r6, r7
  <1>3. ASSUME NEW known, NEW t \in {"/cmd_vel"} \union OnTheWay, t \in Carried(lives, known)
        PROVE  \E n, needs :
                  /\ n \notin W /\ needs \subseteq known /\ PassesOn(n, needs)
                  /\ t = "/cmd_vel" => n = "m1_cmd_watchdog"
                  /\ t = "/m1/cmd_vel_raw" => n = "collision_monitor"
                  /\ t = "/cmd_vel_smoothed" => n = "velocity_smoother"
    <2>1. PICK i \in GroupsIn(d) : \E o \in Outputs[<<groups[i].file, groups[i].args>>] :
             o.flow.topic = t /\ o.node \notin W /\ o.flow.needs \subseteq known
      BY <1>1, <1>3, CarriedBy
    <2>2. PICK o \in Outputs[<<groups[i].file, groups[i].args>>] :
             o.flow.topic = t /\ o.node \notin W /\ o.flow.needs \subseteq known
      BY <2>1
    <2>3. i \in DOMAIN groups
      BY DEF GroupsIn
    <2>4. o.flow.topic \in Sensing \union OnTheWay
      BY <2>2 DEF Sensing
    <2>5. /\ groups[i].args \in Args
          /\ <<o.node, t>> \in KeyOf(groups[i].file, groups[i].args)
          /\ PassesOn(o.node, o.flow.needs)
      BY <2>2, <2>3, <2>4, OutputKey
    <2>6. groups[i].file = "nav2_m1_real" => "behavior_server" \in W
      OBVIOUS
    <2>7. /\ t = "/cmd_vel" => o.node = "m1_cmd_watchdog"
          /\ t = "/m1/cmd_vel_raw" => o.node = "collision_monitor"
          /\ t = "/cmd_vel_smoothed" => o.node = "velocity_smoother"
      BY <2>2, <2>5, <2>6, NavKeys
    <2>8. QED
      BY <2>2, <2>5, <2>7
  <1>4. "m1_cmd_watchdog" \notin W /\ "/m1/cmd_vel_raw" \in r7
    <2>1. PICK n, needs : /\ n \notin W /\ needs \subseteq r7 /\ PassesOn(n, needs)
                          /\ n = "m1_cmd_watchdog"
      BY <1>2, <1>3
    <2>2. QED
      BY <2>1 DEF PassesOn
  <1>5. "collision_monitor" \notin W /\ "/cmd_vel_smoothed" \in r6
    <2>1. "/m1/cmd_vel_raw" \in Carried(lives, r6) /\ "/m1/cmd_vel_raw" \in OnTheWay
      BY <1>4 DEF r7, OnTheWay
    <2>2. PICK n, needs : /\ n \notin W /\ needs \subseteq r6 /\ PassesOn(n, needs)
                          /\ n = "collision_monitor"
      BY <1>3, <2>1
    <2>3. QED
      BY <2>2 DEF PassesOn
  <1>6. "velocity_smoother" \notin W
    <2>1. "/cmd_vel_smoothed" \in Carried(lives, r5) /\ "/cmd_vel_smoothed" \in OnTheWay
      BY <1>5 DEF r6, OnTheWay
    <2>2. QED
      BY <1>3, <2>1
  <1>7. QED
    BY <1>4, <1>5, <1>6

(* Without its watchdogs no other launch carries any. *)
LEMMA WatchdogAlone ==
  ASSUME GroupsTyped, NEW d, NEW W, Watchdogs \subseteq W,
         \A i \in GroupsIn(d) :
            groups[i].file \notin {"nav2_m1_gazebo", "nav2_m1_real", "imperative_m1_gazebo"}
  PROVE  "/cmd_vel" \notin Flowing(d, W)
  <1> SUFFICES ASSUME "/cmd_vel" \in Flowing(d, W)
               PROVE  FALSE
    OBVIOUS
  <1>1. PICK known : "/cmd_vel" \in Carried(Lives(d, W), known)
    BY FlowingUnfolds
  <1>2. PICK i \in GroupsIn(d) : \E o \in Outputs[<<groups[i].file, groups[i].args>>] :
           o.flow.topic = "/cmd_vel" /\ o.node \notin W
    BY <1>1, CarriedBy
  <1>3. PICK o \in Outputs[<<groups[i].file, groups[i].args>>] :
           o.flow.topic = "/cmd_vel" /\ o.node \notin W
    BY <1>2
  <1>4. i \in DOMAIN groups
    BY DEF GroupsIn
  <1>5. /\ groups[i].file \in Files /\ groups[i].args \in Args
        /\ <<o.node, "/cmd_vel">> \in KeyOf(groups[i].file, groups[i].args)
    BY <1>3, <1>4, OutputKey DEF Sensing
  <1>6. QED
    BY <1>3, <1>5, OtherKeys

(* The files beside Nav2's in a domain. *)
LEMMA BesideNav ==
  ASSUME SessionsApart, TypeOK, NEW d,
         FileIn(d, "nav2_m1_gazebo") \/ FileIn(d, "nav2_m1_real")
  PROVE  \A i \in GroupsIn(d) : groups[i].file \in NavFiles
  <1>1. SUFFICES ASSUME NEW i \in GroupsIn(d)
                 PROVE  groups[i].file \in NavFiles
    OBVIOUS
  <1>2. PICK k \in GroupsIn(d) : groups[k].file \in {"nav2_m1_gazebo", "nav2_m1_real"}
    BY DEF FileIn
  <1>3. /\ i \in DOMAIN groups /\ k \in DOMAIN groups
        /\ groups[i].domain = d /\ groups[k].domain = d
    BY DEF GroupsIn
  <1>4. Placed(i) /\ Placed(k)
    BY <1>3 DEF SessionsApart
  <1>5. CASE i[1] = "file"
    <2>1. groups[i].file \in session /\ groups[k].file \in session
      BY <1>3, <1>4, <1>5 DEF Placed
    <2>2. session \in Sessions
      BY <2>1 DEF SessionsApart
    <2>3. QED
      BY <1>2, <2>1, <2>2 DEF Sessions, NavFiles
  <1>6. CASE i[1] # "file"
    BY <1>4, <1>6 DEF Placed, NavFiles
  <1>7. QED
    BY <1>5, <1>6

(* No motion passes a guard that is gone, in every state. *)
LEMMA MotionIsGuarded == TypeOK /\ SessionsApart => MotionGuarded
  <1> SUFFICES ASSUME TypeOK, SessionsApart, NEW d \in ActiveDomains,
                      Unguarded(d, IF FileIn(d, "nav2_m1_real") THEN {"behavior_server"} ELSE {})
               PROVE  FALSE
    BY DEF MotionGuarded
  <1> DEFINE W == IF FileIn(d, "nav2_m1_real") THEN {"behavior_server"} ELSE {}
  <1>1. GroupsTyped
    BY DEF TypeOK, GroupsTyped
  <1>2. PICK guard \in Guards(d) : "/cmd_vel" \in Flowing(d, guard \union W)
    BY DEF Unguarded
  <1>3. CASE FileIn(d, "nav2_m1_gazebo") \/ FileIn(d, "nav2_m1_real")
    <2>1. guard \in {{"velocity_smoother"}, {"collision_monitor"}, Watchdogs}
      BY <1>2, <1>3 DEF Guards
    <2>2. \/ "velocity_smoother" \in guard \/ "collision_monitor" \in guard
          \/ "m1_cmd_watchdog" \in guard
      BY <2>1 DEF Watchdogs
    <2>3. \A i \in GroupsIn(d) :
             groups[i].file = "nav2_m1_real" => "behavior_server" \in guard \union W
      BY DEF FileIn
    <2>4. \A i \in GroupsIn(d) : groups[i].file \in NavFiles
      BY <1>3, BesideNav
    <2> HIDE DEF W
    <2>5. "/cmd_vel" \notin Flowing(d, guard \union W)
      BY <1>1, <2>2, <2>3, <2>4, NavChain
    <2>6. QED
      BY <1>2, <2>5
  <1>4. CASE ~(FileIn(d, "nav2_m1_gazebo") \/ FileIn(d, "nav2_m1_real"))
    <2>1. guard = Watchdogs /\ ~FileIn(d, "imperative_m1_gazebo")
      BY <1>2, <1>4 DEF Guards
    <2>2. \A i \in GroupsIn(d) :
             groups[i].file \notin {"nav2_m1_gazebo", "nav2_m1_real", "imperative_m1_gazebo"}
      BY <1>4, <2>1 DEF FileIn
    <2> HIDE DEF W
    <2>3. "/cmd_vel" \notin Flowing(d, guard \union W)
      BY <1>1, <2>1, <2>2, WatchdogAlone
    <2>4. QED
      BY <1>2, <2>3
  <1>5. QED
    BY <1>3, <1>4

(* In every domain, with any nodes dead, active or missing, /cmd_vel carries*)
(* motion only through each of the guards of the files that run there; the  *)
(* real robot's behavior server is the one exception.                       *)
THEOREM NoMotionUnguarded == Spec => []MotionGuarded
  BY MotionIsGuarded, SessionsKept, TypeCorrect, PTL

-----------------------------------------------------------------------------
(* Whom a probe measures. *)

(* The nodes that a launch of the runner has in the graph from the start, SCOPE *)
(* or not.                                                                 *)
Plain == [software |-> TRUE, dual |-> TRUE, scope |-> FALSE]
AtOnce ==
    Names[<<"nav2_m1_gazebo", Plain>>] \ (Range(Delayed("nav2_m1_gazebo")) \union NotInGraph)

CallGroups == {i \in DOMAIN groups : i[1] = "call"}

(* Those of them that have died. *)
Dead(i) == AtOnce \ groups[i].up
Deaths(i) == Cardinality(Dead(i))

(* A launch that nobody is going to stop any more. *)
Lost(i) == ~groups[i].leader \/ ~InHand(i)

(* Every death and every way of losing a launch is a failure of its own, and of *)
(* two launches one is lost.                                                *)
FailuresCounted ==
    /\ \A i \in CallGroups : Deaths(i) <= faults /\ (Lost(i) => Deaths(i) + 1 <= faults)
    /\ \A i, j \in CallGroups : i # j => Deaths(i) + Deaths(j) + 1 <= faults

OnlyMortalDie == \A i \in CallGroups : Dead(i) \subseteq Mortal

(* While the probe runs its launch is there. *)
Launched == {"launched", "probing", "validator", "stopping"}
LaunchThere == runner.pc \in Launched => Current \in DOMAIN groups

(* A probe that has found its launch ready is alone with it. *)
Alone ==
    runner.pc = "probing" /\ probe.pc \in {"ready", "running"} => GroupsIn(Here) = {Current}

Measuring == FailuresCounted /\ OnlyMortalDie /\ LaunchThere /\ Alone

(* Three elements are a finite set. *)
LEMMA ThreeFinite == ASSUME NEW x, NEW y, NEW z PROVE IsFiniteSet({x, y, z})
  <1>1. IsFiniteSet({x})
    BY FS_Singleton
  <1>2. IsFiniteSet({x} \union {y})
    BY <1>1, FS_AddElement
  <1>3. IsFiniteSet(({x} \union {y}) \union {z})
    BY <1>2, FS_AddElement
  <1>4. {x, y, z} = ({x} \union {y}) \union {z}
    OBVIOUS
  <1>5. QED
    BY <1>3, <1>4

(* The launch file names a finite number of nodes. *)
LEMMA AtOnceFinite == IsFiniteSet(AtOnce)
  <1> DEFINE A == {"gazebo", "spawn_m1", "robot_state_publisher"}
             B == {"dynamic_obstacle_mover", "m1_gazebo_bridge_core", "odom_slip_simulator"}
             C == {"software_lidar", "m1_scan_relay", "map_server"}
             D == {"amcl", "lifecycle_manager_localization", "controller_server"}
             E == {"planner_server", "behavior_server", "bt_navigator"}
             F == {"waypoint_follower", "velocity_smoother", "lifecycle_manager_navigation"}
             G == {"collision_monitor", "lifecycle_manager_safety", "m1_cmd_watchdog"}
             S == (((((A \union B) \union C) \union D) \union E) \union F) \union G
  <1>1. IsFiniteSet(S)
    <2>1. /\ IsFiniteSet(A) /\ IsFiniteSet(B) /\ IsFiniteSet(C) /\ IsFiniteSet(D)
          /\ IsFiniteSet(E) /\ IsFiniteSet(F) /\ IsFiniteSet(G)
      BY ThreeFinite
    <2> HIDE DEF A, B, C, D, E, F, G
    <2>2. IsFiniteSet((A \union B) \union C)
      BY <2>1, FS_Union
    <2>3. IsFiniteSet((((A \union B) \union C) \union D) \union E)
      BY <2>1, <2>2, FS_Union
    <2>4. QED
      BY <2>1, <2>3, FS_Union
  <1>2. \A n \in Nav2Gazebo(Plain) : n.name \in S
    <2> USE DEF Node, When, Plain
    <2>1. \A n \in M1Gazebo(Plain) : n.name \in S
      BY DEF M1Gazebo, SimulatorNodes, ObstacleMover, Bridge, SlipSimulator, SingleScan, DualScan,
             SoftwareLidar
    <2>2. \A n \in ScopeOnline(Plain) \union ScanRelay(Plain, "m1_scan_relay") : n.name \in S
      BY DEF ScopeOnline, ScanRelay
    <2>3. \A n \in Localization \union ControllerServer \union PlannerServer : n.name \in S
      BY DEF Localization, ControllerServer, PlannerServer, Motion
    <2>4. \A n \in GazeboBehaviors \union Navigators \union VelocitySmoother : n.name \in S
      BY DEF GazeboBehaviors, Navigators, VelocitySmoother, Motion, Relay
    <2>5. \A n \in CollisionMonitor \union NavWatchdog : n.name \in S
      BY DEF CollisionMonitor, NavWatchdog, Relay
    <2>6. QED
      BY <2>1, <2>2, <2>3, <2>4, <2>5 DEF Nav2Gazebo
  <1>3. <<"nav2_m1_gazebo", Plain>> \in Files \X Args
    BY DEF Files, Args, Plain
  <1>4. AtOnce \subseteq S
    BY <1>2, <1>3 DEF AtOnce, Names, NodesOf
  <1>5. QED
    BY <1>1, <1>4, FS_Subset

(* A launch of the runner starts with all of them. *)
LEMMA StartsWhole ==
  ASSUME runner.scope \in BOOLEAN, NEW d
  PROVE  AtOnce \subseteq NewGroup("nav2_m1_gazebo", RunnerArgs, d).up
  <1>1. RunnerArgs \in Args /\ RunnerArgs.software = TRUE /\ RunnerArgs.dual = TRUE
    BY DEF RunnerArgs, Args
  <1>2. Nav2Gazebo(Plain) \subseteq Nav2Gazebo(RunnerArgs)
    <2>1. M1Gazebo(Plain) = M1Gazebo(RunnerArgs)
      BY <1>1 DEF M1Gazebo, SingleScan, DualScan, SoftwareLidar, When, Plain
    <2>2. ScanRelay(Plain, "m1_scan_relay") = ScanRelay(RunnerArgs, "m1_scan_relay")
      BY <1>1 DEF ScanRelay, When, Plain
    <2>3. ScopeOnline(Plain) = {}
      BY DEF ScopeOnline, When, Plain
    <2>4. QED
      BY <2>1, <2>2, <2>3 DEF Nav2Gazebo
  <1>3. "nav2_m1_gazebo" \in Files /\ Plain \in Args
    BY DEF Files, Args, Plain
  <1>4. Names[<<"nav2_m1_gazebo", Plain>>] \subseteq Names[<<"nav2_m1_gazebo", RunnerArgs>>]
    BY <1>1, <1>2, <1>3 DEF Names, NodesOf
  <1>5. QED
    BY <1>4 DEF AtOnce, NewGroup

(* Deaths are a number, which a node more or less changes by one. *)
LEMMA DeathsCount ==
  ASSUME NEW U, NEW V, NEW n
  PROVE  /\ IsFiniteSet(AtOnce \ U) /\ Cardinality(AtOnce \ U) \in Nat
         /\ U \subseteq V => Cardinality(AtOnce \ V) <= Cardinality(AtOnce \ U)
         /\ U \ {n} \subseteq V => Cardinality(AtOnce \ V) <= Cardinality(AtOnce \ U) + 1
  <1>1. IsFiniteSet(AtOnce \ U) /\ Cardinality(AtOnce \ U) \in Nat
    BY AtOnceFinite, FS_Subset, FS_CardinalityType
  <1>2. ASSUME U \subseteq V
        PROVE  Cardinality(AtOnce \ V) <= Cardinality(AtOnce \ U)
    <2>1. AtOnce \ V \subseteq AtOnce \ U
      BY <1>2
    <2>2. QED
      BY <1>1, <2>1, FS_Subset
  <1>3. ASSUME U \ {n} \subseteq V
        PROVE  Cardinality(AtOnce \ V) <= Cardinality(AtOnce \ U) + 1
    <2> DEFINE T == (AtOnce \ U) \union {n}
    <2>1. IsFiniteSet(T) /\ Cardinality(T) \in Nat /\ Cardinality(T) <= Cardinality(AtOnce \ U) + 1
      BY <1>1, FS_AddElement, FS_CardinalityType
    <2>2. AtOnce \ V \subseteq T
      BY <1>3
    <2>3. Cardinality(AtOnce \ V) <= Cardinality(T)
      BY <2>1, <2>2, FS_Subset
    <2>4. Cardinality(AtOnce \ V) \in Nat
      BY AtOnceFinite, FS_Subset, FS_CardinalityType
    <2> HIDE DEF T
    <2>5. QED
      BY <1>1, <2>1, <2>3, <2>4
  <1>4. QED
    BY <1>1, <1>2, <1>3

(* What a step of a launch costs: nothing, or one failure for a node or for  *)
(* the launch itself.                                                      *)
LEMMA LaunchLosses ==
  ASSUME GroupsTyped, LaunchStep, faults \in Nat
  PROVE  \/ /\ faults' \in Nat /\ faults <= faults'
            /\ \A j \in DOMAIN groups :
                  groups[j].up \subseteq groups'[j].up /\ groups'[j].leader = groups[j].leader
         \/ /\ faults' = faults + 1
            /\ \A j \in DOMAIN groups : groups[j].up \subseteq groups'[j].up
         \/ /\ faults' = faults + 1
            /\ \E k \in DOMAIN groups, n \in Mortal :
                  /\ groups[k].up \ {n} \subseteq groups'[k].up
                  /\ \A j \in DOMAIN groups :
                        /\ groups'[j].leader = groups[j].leader
                        /\ j # k => groups[j].up \subseteq groups'[j].up
  <1>1. PICK i \in DOMAIN groups :
           \/ FireTimer(i)
           \/ LeaderDies(i)
           \/ \E m \in Managers : BringUp(i, m) \/ BondBreaks(i, m)
           \/ \E n \in Mortal : Die(i, n)
    BY DEF LaunchStep
  <1>2. groups \in [DOMAIN groups -> Groups]
    BY DEF GroupsTyped
  <1>3. CASE FireTimer(i)
    <2>1. PICK new : groups' = [groups EXCEPT ![i].fired = @ + 1, ![i].up = @ \union new]
      BY <1>3, Zenon DEF FireTimer
    <2>2. faults' = faults
      BY <1>3 DEF FireTimer
    <2>3. QED
      BY <1>2, <2>1, <2>2 DEF Groups
  <1>4. CASE LeaderDies(i)
    BY <1>2, <1>4 DEF LeaderDies, Groups
  <1>5. CASE \E m \in Managers : BringUp(i, m)
    <2>1. PICK more, m : groups' = [groups EXCEPT ![i].active = @ \union more,
                                                 ![i].tried = @ \union {m}]
      BY <1>5, Zenon DEF BringUp
    <2>2. faults' \in {faults, faults + 1}
      <3>1. PICK gaveUp : faults' = IF gaveUp THEN faults + 1 ELSE faults
        BY <1>5, Zenon DEF BringUp
      <3>2. QED
        BY <3>1
    <2>3. \A j \in DOMAIN groups :
             groups[j].up \subseteq groups'[j].up /\ groups'[j].leader = groups[j].leader
      BY <1>2, <2>1 DEF Groups
    <2>4. QED
      BY <2>2, <2>3
  <1>6. CASE \E m \in Managers : BondBreaks(i, m)
    <2>1. PICK lost : groups' = [groups EXCEPT ![i].active = @ \ lost]
      BY <1>6, Zenon DEF BondBreaks
    <2>2. faults' = faults
      BY <1>6, Zenon DEF BondBreaks
    <2>3. QED
      BY <1>2, <2>1, <2>2 DEF Groups
  <1>7. CASE \E n \in Mortal : Die(i, n)
    <2>1. PICK n \in Mortal : groups' = [groups EXCEPT ![i].up = @ \ {n}, ![i].active = @ \ {n}]
      BY <1>7, Zenon DEF Die
    <2>2. faults' = faults + 1
      BY <1>7, Zenon DEF Die
    <2>3. /\ groups[i].up \ {n} \subseteq groups'[i].up
          /\ \A j \in DOMAIN groups :
                /\ groups'[j].leader = groups[j].leader
                /\ j # i => groups[j].up \subseteq groups'[j].up
      BY <1>2, <2>1 DEF Groups
    <2>4. QED
      BY <2>2, <2>3
  <1>8. QED
    BY <1>1, <1>3, <1>4, <1>5, <1>6, <1>7

(* A step that adds no launch of the runner and costs a failure at most. *)
LEMMA CountedStep ==
  ASSUME FailuresCounted, faults \in Nat, faults' \in Nat, CallGroups' \subseteq CallGroups,
         \/ /\ faults <= faults'
            /\ \A i \in CallGroups' :
                  groups[i].up \subseteq groups'[i].up /\ (Lost(i)' => Lost(i))
         \/ /\ faults' = faults + 1
            /\ \A i \in CallGroups' : groups[i].up \subseteq groups'[i].up
         \/ /\ faults' = faults + 1
            /\ \E k, n :
                  /\ k \in CallGroups' => groups[k].up \ {n} \subseteq groups'[k].up
                  /\ \A i \in CallGroups' :
                        /\ Lost(i)' => Lost(i)
                        /\ i # k => groups[i].up \subseteq groups'[i].up
  PROVE  FailuresCounted'
  <1>1. \A i : Deaths(i) \in Nat /\ Deaths(i)' \in Nat
    BY DeathsCount DEF Deaths, Dead
  <1>2. \A i \in CallGroups' : groups[i].up \subseteq groups'[i].up => Deaths(i)' <= Deaths(i)
    BY DeathsCount DEF Deaths, Dead
  <1>3. \A i \in CallGroups' : \A n :
           groups[i].up \ {n} \subseteq groups'[i].up => Deaths(i)' <= Deaths(i) + 1
    BY DeathsCount DEF Deaths, Dead
  <1>4. /\ \A i \in CallGroups : Deaths(i) <= faults /\ (Lost(i) => Deaths(i) + 1 <= faults)
        /\ \A i, j \in CallGroups : i # j => Deaths(i) + Deaths(j) + 1 <= faults
    BY DEF FailuresCounted
  <1>5. CASE /\ faults <= faults'
             /\ \A i \in CallGroups' :
                   groups[i].up \subseteq groups'[i].up /\ (Lost(i)' => Lost(i))
    <2>1. \A i \in CallGroups' : i \in CallGroups /\ Deaths(i)' <= Deaths(i) /\ (Lost(i)' => Lost(i))
      BY <1>2, <1>5
    <2> HIDE DEF Lost, Deaths, CallGroups
    <2>2. QED
      BY <1>1, <1>4, <1>5, <2>1 DEF FailuresCounted
  <1>6. CASE faults' = faults + 1 /\ \A i \in CallGroups' : groups[i].up \subseteq groups'[i].up
    <2>1. \A i \in CallGroups' : i \in CallGroups /\ Deaths(i)' <= Deaths(i)
      BY <1>2, <1>6
    <2>2. QED
      BY <1>1, <1>4, <1>6, <2>1 DEF FailuresCounted
  <1>7. ASSUME NEW k, NEW n, faults' = faults + 1,
               k \in CallGroups' => groups[k].up \ {n} \subseteq groups'[k].up,
               \A i \in CallGroups' :
                  (Lost(i)' => Lost(i)) /\ (i # k => groups[i].up \subseteq groups'[i].up)
        PROVE  FailuresCounted'
    <2>1. \A i \in CallGroups' :
             /\ i \in CallGroups /\ (Lost(i)' => Lost(i))
             /\ i # k => Deaths(i)' <= Deaths(i)
             /\ Deaths(i)' <= Deaths(i) + 1
      BY <1>1, <1>2, <1>3, <1>7
    <2>2. QED
      BY <1>1, <1>4, <1>7, <2>1 DEF FailuresCounted
  <1>8. QED
    BY <1>5, <1>6, <1>7

(* The same of the nodes that have died. *)
LEMMA MortalStep ==
  ASSUME OnlyMortalDie, CallGroups' \subseteq CallGroups,
         \A i \in CallGroups' :
            \/ groups[i].up \subseteq groups'[i].up
            \/ \E n \in Mortal : groups[i].up \ {n} \subseteq groups'[i].up
  PROVE  OnlyMortalDie'
  BY DEF OnlyMortalDie, Dead

(* While nothing of the launches changes, the runner may go on. *)
LEMMA RunnerGoesOn ==
  ASSUME FailuresCounted, OnlyMortalDie, UNCHANGED <<groups, faults>>,
         \A i \in CallGroups : Lost(i)' => Lost(i)
  PROVE  FailuresCounted' /\ OnlyMortalDie'
  <1>1. CallGroups' = CallGroups /\ \A i : Deaths(i)' = Deaths(i) /\ Dead(i)' = Dead(i)
    BY DEF CallGroups, Deaths, Dead
  <1>2. QED
    BY <1>1 DEF FailuresCounted, OnlyMortalDie

(* No step gets by without its failure being counted. *)
LEMMA CountStep ==
  ASSUME TypeOK, SessionsApart, FailuresCounted, OnlyMortalDie, LaunchThere, [Next]_vars
  PROVE  FailuresCounted' /\ OnlyMortalDie'
  <1> USE DEF RunnerStates
  <1>1. GroupsTyped /\ RunnerTyped /\ faults \in Nat
    BY DEF TypeOK, GroupsTyped, RunnerTyped
  <1>2. CASE UNCHANGED <<groups, runner, faults>>
    BY <1>2, RunnerGoesOn DEF Lost, InHand, Current
  <1>3. CASE LaunchStep
    <2>1. UNCHANGED runner
      BY <1>3, Zenon DEF LaunchStep, FireTimer, LeaderDies, BringUp, BondBreaks, Die
    <2>2. DOMAIN groups' = DOMAIN groups /\ CallGroups' = CallGroups
      BY <1>1, <1>3, LaunchGroups DEF CallGroups
    <2>3. \A i \in CallGroups' : i \in DOMAIN groups
      BY <2>2 DEF CallGroups
    <2>4. \A i \in CallGroups' : groups'[i].leader = groups[i].leader => (Lost(i)' => Lost(i))
      BY <2>1 DEF Lost, InHand, Current
    <2>5. faults' \in Nat /\ FailuresCounted'
      <3>1. CASE /\ faults' \in Nat /\ faults <= faults'
                 /\ \A j \in DOMAIN groups :
                       groups[j].up \subseteq groups'[j].up /\ groups'[j].leader = groups[j].leader
        BY <1>1, <2>2, <2>3, <2>4, <3>1, CountedStep
      <3>2. CASE /\ faults' = faults + 1
                 /\ \A j \in DOMAIN groups : groups[j].up \subseteq groups'[j].up
        BY <1>1, <2>2, <2>3, <3>2, CountedStep
      <3>3. ASSUME NEW k \in DOMAIN groups, NEW n \in Mortal, faults' = faults + 1,
                   groups[k].up \ {n} \subseteq groups'[k].up,
                   \A j \in DOMAIN groups :
                      /\ groups'[j].leader = groups[j].leader
                      /\ j # k => groups[j].up \subseteq groups'[j].up
            PROVE  faults' \in Nat /\ FailuresCounted'
        <4>1. \A j \in CallGroups' :
                 (Lost(j)' => Lost(j)) /\ (j # k => groups[j].up \subseteq groups'[j].up)
          BY <2>3, <2>4, <3>3
        <4>2. faults' \in Nat
          BY <1>1, <3>3
        <4>3. QED
          BY <1>1, <2>2, <3>3, <4>1, <4>2, CountedStep
      <3>4. QED
        BY <1>1, <1>3, <3>1, <3>2, <3>3, LaunchLosses
    <2>6. OnlyMortalDie'
      <3>1. \A j \in DOMAIN groups :
               \/ groups[j].up \subseteq groups'[j].up
               \/ \E n \in Mortal : groups[j].up \ {n} \subseteq groups'[j].up
        BY <1>1, <1>3, LaunchLosses
      <3>2. QED
        BY <2>2, <2>3, <3>1, MortalStep
    <2>7. QED
      BY <2>5, <2>6
  <1>4. ASSUME NEW f \in session, NEW a \in ArgsOf(f), OperatorStarts(f, a)
        PROVE  FailuresCounted' /\ OnlyMortalDie'
    <2>1. UNCHANGED <<runner, faults>> /\ session # {}
      BY <1>4 DEF OperatorStarts
    <2>2. groups' = Added(<<"file", f>>, NewGroup(f, a, Operator))
      BY <1>4 DEF OperatorStarts
    <2>3. \A i \in CallGroups' : i \in CallGroups /\ groups'[i] = groups[i]
      BY <2>2 DEF Added, CallGroups
    <2>4. \A i \in CallGroups' :
             groups[i].up \subseteq groups'[i].up /\ (Lost(i)' => Lost(i))
      BY <2>1, <2>3 DEF Lost, InHand, Current
    <2>5. CallGroups' \subseteq CallGroups
      BY <2>3
    <2>6. faults' \in Nat /\ faults <= faults'
      BY <1>1, <2>1
    <2>7. QED
      BY <1>1, <2>4, <2>5, <2>6, CountedStep, MortalStep
  <1>5. ASSUME NEW S, groups' = Without(S)
        PROVE  /\ CallGroups' \subseteq CallGroups
               /\ \A i \in CallGroups' : groups'[i] = groups[i] /\ i \notin S
    BY <1>5 DEF Without, Restrict, CallGroups
  <1>6. ASSUME NEW f \in session, OperatorStops(f)
        PROVE  FailuresCounted' /\ OnlyMortalDie'
    <2>1. UNCHANGED <<runner, faults>> /\ groups' = Without({<<"file", f>>})
      BY <1>6 DEF OperatorStops
    <2>2. \A i \in CallGroups' :
             groups[i].up \subseteq groups'[i].up /\ (Lost(i)' => Lost(i))
      BY <1>5, <2>1 DEF Lost, InHand, Current
    <2>3. CallGroups' \subseteq CallGroups /\ faults' \in Nat /\ faults <= faults'
      BY <1>1, <1>5, <2>1
    <2>4. QED
      BY <1>1, <2>2, <2>3, CountedStep, MortalStep
  <1>7. CASE Launch
    <2>1. PICK d : /\ groups' = Added(Current, NewGroup("nav2_m1_gazebo", RunnerArgs, d))
                   /\ UNCHANGED faults
      BY <1>7 DEF Launch
    <2>2. runner.pc = "launching" /\ runner' = [runner EXCEPT !.pc = "launched"]
      BY <1>7 DEF Launch, Go
    <2>3. /\ AtOnce \subseteq groups'[Current].up /\ groups'[Current].leader = TRUE
          /\ Current \in DOMAIN groups'
      BY <1>1, <2>1, StartsWhole DEF RunnerTyped, Added, NewGroup
    <2>4. Current' = Current /\ runner'.pc = "launched"
      BY <1>1, <2>2 DEF Current, RunnerTyped
    <2>5. ~Lost(Current)' /\ Dead(Current)' = {} /\ Deaths(Current)' = 0
      <3>1. Dead(Current)' = {}
        BY <2>3, <2>4 DEF Dead
      <3>2. Cardinality({}) = 0
        BY FS_EmptySet
      <3>3. ~Lost(Current)'
        BY <2>3, <2>4 DEF Lost, InHand
      <3>4. QED
        BY <3>1, <3>2, <3>3 DEF Deaths
    <2>6. ASSUME NEW i \in CallGroups', i # Current
          PROVE  i \in CallGroups /\ groups'[i] = groups[i] /\ Lost(i)
      BY <2>1, <2>2, <2>6 DEF Added, CallGroups, Lost, InHand
    <2>7. \A i \in CallGroups' :
             i # Current => Deaths(i)' = Deaths(i) /\ Dead(i)' = Dead(i) /\ Deaths(i) + 1 <= faults
      BY <2>6 DEF Deaths, Dead, FailuresCounted
    <2>8. \A i : Deaths(i) \in Nat
      BY DeathsCount DEF Deaths, Dead
    <2>9. \A i \in CallGroups' : Deaths(i)' <= faults /\ (Lost(i)' => Deaths(i)' + 1 <= faults)
      BY <1>1, <2>4, <2>5, <2>7, <2>8
    <2>10. ASSUME NEW i \in CallGroups', NEW j \in CallGroups', i # j
           PROVE  Deaths(i)' + Deaths(j)' + 1 <= faults
      <3>1. CASE i = Current
        BY <1>1, <2>4, <2>5, <2>7, <2>8, <2>10, <3>1
      <3>2. CASE j = Current
        BY <1>1, <2>4, <2>5, <2>7, <2>8, <2>10, <3>2
      <3>3. CASE i # Current /\ j # Current
        BY <2>6, <2>7, <2>10, <3>3 DEF FailuresCounted
      <3>4. QED
        BY <3>1, <3>2, <3>3
    <2>11. FailuresCounted'
      BY <2>1, <2>9, <2>10 DEF FailuresCounted
    <2>12. OnlyMortalDie'
      BY <2>4, <2>5, <2>6, <2>7 DEF OnlyMortalDie
    <2>13. QED
      BY <2>11, <2>12
  <1>8. CASE StopGroup
    <2>1. /\ runner.pc = "stopping" /\ runner' = [runner EXCEPT !.pc = AfterStop]
          /\ UNCHANGED faults
      BY <1>8 DEF StopGroup, Go
    <2>2. CASE groups[Current].leader
      <3>1. groups' = Without({Current})
        BY <1>8, <2>2 DEF StopGroup
      <3>2. \A i \in CallGroups' : groups[i].up \subseteq groups'[i].up /\ Lost(i)
        BY <1>5, <3>1 DEF Lost, InHand
      <3>3. CallGroups' \subseteq CallGroups /\ faults' \in Nat /\ faults <= faults'
        BY <1>1, <1>5, <2>1, <3>1
      <3>4. QED
        BY <1>1, <3>2, <3>3, CountedStep, MortalStep
    <2>3. CASE ~groups[Current].leader
      <3>1. groups' = groups
        BY <1>8, <2>3 DEF StopGroup
      <3>2. \A i \in CallGroups : Lost(i)
        BY <2>3 DEF Lost, InHand
      <3>3. QED
        BY <2>1, <3>1, <3>2, RunnerGoesOn
    <2>4. QED
      BY <2>2, <2>3
  <1>9. CASE Signal
    <2>1. faults' = faults + 1 /\ faults' \in Nat
      BY <1>1, <1>9 DEF Signal
    <2>2. groups' = groups \/ groups' = Without({Current})
      BY <1>9 DEF Signal
    <2>3. /\ CallGroups' \subseteq CallGroups
          /\ \A i \in CallGroups' : groups[i].up \subseteq groups'[i].up
      BY <1>5, <2>2 DEF CallGroups
    <2>4. QED
      BY <1>1, <2>1, <2>3, CountedStep, MortalStep
  <1>10. ASSUME UNCHANGED <<groups, faults>>,
                \/ \E pc \in {"probing", "validator", "stopping"} : Go(pc)
                \/ ScopeInvalid \/ ReadResult \/ Call
         PROVE  FailuresCounted' /\ OnlyMortalDie'
    <2>1. CASE \E pc \in {"probing", "validator", "stopping"} : Go(pc)
      <3>1. \A i \in CallGroups : Lost(i)' => Lost(i)
        BY <1>1, <1>10, <2>1 DEF Lost, InHand, Current, Go, RunnerTyped
      <3>2. QED
        BY <1>10, <3>1, RunnerGoesOn
    <2>2. CASE ScopeInvalid \/ ReadResult \/ Call
      <3>1. runner.pc \in {"launching", "reading", "ended", "interrupted"}
        BY <2>2 DEF ScopeInvalid, ReadResult, Call
      <3>2. \A i \in CallGroups : Lost(i)
        BY <3>1 DEF Lost, InHand
      <3>3. QED
        BY <1>10, <3>2, RunnerGoesOn
    <2>3. QED
      BY <1>10, <2>1, <2>2
  <1>11. CASE (ProbeStep /\ ~ProbeDies) \/ UNCHANGED vars
    BY <1>2, <1>11, Zenon
    DEF ProbeStep, ProbeOnly, Observe, ClockBack, Gate, ReadyTimeout, SendGoal, GoalEnds,
        WriteResult, vars
  <1>12. CASE ProbeDies
    <2>1. UNCHANGED <<groups, runner>> /\ faults' = faults + 1
      BY <1>12 DEF ProbeDies
    <2>2. /\ CallGroups' = CallGroups /\ faults' \in Nat
          /\ \A i \in CallGroups' : groups[i].up \subseteq groups'[i].up
      BY <1>1, <2>1 DEF CallGroups
    <2>3. QED
      BY <1>1, <2>1, <2>2, CountedStep, MortalStep
  <1>13. QED
    BY <1>3, <1>4, <1>6, <1>7, <1>8, <1>9, <1>10, <1>11, <1>12, Zenon
    DEF Next, OperatorStep, RunnerStep, ScopeInvalid, ReadResult, Call, StartProbe, ProbeEnded,
        RunnerTimeout, ValidatorClosed

(* While the runner has a launch to tend, nobody else takes it away.         *)
LEMMA LaunchStays == TypeOK /\ SessionsApart /\ LaunchThere /\ [Next]_vars => LaunchThere'
  <1> SUFFICES ASSUME TypeOK, SessionsApart, LaunchThere, [Next]_vars, runner'.pc \in Launched
               PROVE  Current' \in DOMAIN groups'
    BY DEF LaunchThere
  <1> USE DEF Launched
  <1>1. GroupsTyped /\ RunnerTyped
    BY DEF TypeOK, GroupsTyped, RunnerTyped
  <1>2. ASSUME UNCHANGED runner, DOMAIN groups \subseteq DOMAIN groups'
        PROVE  Current' \in DOMAIN groups'
    BY <1>2 DEF LaunchThere, Current
  <1>3. CASE LaunchStep
    <2>1. UNCHANGED runner
      BY <1>3, Zenon DEF LaunchStep, FireTimer, LeaderDies, BringUp, BondBreaks, Die
    <2>2. QED
      BY <1>1, <1>2, <1>3, <2>1, LaunchGroups
  <1>4. CASE OperatorStep
    <2>1. session # {} /\ UNCHANGED runner
      BY <1>4, Zenon DEF OperatorStep, OperatorStarts, OperatorStops
    <2>2. QED
      BY <2>1 DEF SessionsApart
  <1>5. CASE Launch
    <2>1. Current' = Current
      BY <1>1, <1>5 DEF Launch, Go, Current, RunnerTyped
    <2>2. QED
      BY <1>5, <2>1 DEF Launch, Added
  <1>6. CASE ProbeEnded \/ RunnerTimeout \/ ValidatorClosed \/ \E goals \in Goals : StartProbe(goals)
    <2>1. /\ runner.pc \in Launched /\ UNCHANGED groups
          /\ \E pc \in {"probing", "validator", "stopping"} : Go(pc)
      BY <1>6 DEF ProbeEnded, RunnerTimeout, ValidatorClosed, StartProbe
    <2>2. Current' = Current
      BY <1>1, <2>1 DEF Go, Current, RunnerTyped
    <2>3. QED
      BY <2>1, <2>2 DEF LaunchThere
  <1>7. CASE Signal
    <2>1. runner.pc = "probing" /\ Current' = Current
      BY <1>1, <1>7 DEF Signal, Current, RunnerTyped
    <2>2. UNCHANGED groups
      BY <1>7, <2>1 DEF Signal
    <2>3. QED
      BY <2>1, <2>2 DEF LaunchThere
  <1>8. CASE ScopeInvalid \/ StopGroup \/ ReadResult \/ Call
    <2>1. runner'.pc \in {"ended", "interrupted", "reading", "launching"}
      <3>1. CASE ScopeInvalid
        BY <1>1, <3>1 DEF ScopeInvalid, RunnerTyped
      <3>2. CASE StopGroup
        BY <1>1, <3>2 DEF StopGroup, AfterStop, Go, RunnerTyped
      <3>3. CASE ReadResult
        BY <1>1, <3>3 DEF ReadResult, RunnerTyped
      <3>4. CASE Call
        BY <1>1, <3>4 DEF Call, RunnerTyped
      <3>5. QED
        BY <1>8, <3>1, <3>2, <3>3, <3>4
    <2>2. QED
      BY <2>1
  <1>9. CASE ProbeStep \/ UNCHANGED vars
    <2>1. UNCHANGED <<groups, runner>>
      BY <1>9, Zenon
      DEF ProbeStep, ProbeOnly, Observe, ClockBack, Gate, ReadyTimeout, SendGoal, GoalEnds,
          WriteResult, ProbeDies, vars
    <2>2. QED
      BY <1>2, <2>1
  <1>10. QED
    BY <1>3, <1>4, <1>5, <1>6, <1>7, <1>8, <1>9, Zenon DEF Next, RunnerStep

(* Two launches of which one is whole where the other is dead have cost as    *)
(* many failures as a launch has nodes from the start, and one for the loss. *)
LEMMA TwoTooMany ==
  ASSUME NEW i \in CallGroups, NEW j \in CallGroups, i # j,
         FailuresCounted, OnlyMortalDie, faults \in 0 .. MaxFaults,
         ~(AtOnce \subseteq Mortal) \/ MaxFaults <= Cardinality(AtOnce),
         groups[i].up \intersect groups[j].up \subseteq NotInGraph
  PROVE  FALSE
  <1>1. AtOnce \subseteq Dead(i) \union Dead(j)
    BY DEF Dead, AtOnce
  <1>2. Deaths(i) + Deaths(j) + 1 <= faults
    BY DEF FailuresCounted
  <1>3. Dead(i) \subseteq Mortal /\ Dead(j) \subseteq Mortal
    BY DEF OnlyMortalDie
  <1>4. /\ IsFiniteSet(Dead(i)) /\ IsFiniteSet(Dead(j))
        /\ Deaths(i) \in Nat /\ Deaths(j) \in Nat
    BY DeathsCount DEF Dead, Deaths
  <1>5. Cardinality(AtOnce) \in Nat /\ Cardinality(AtOnce) <= Deaths(i) + Deaths(j)
    <2> DEFINE both == Dead(i) \union Dead(j)
               shared == Dead(i) \intersect Dead(j)
    <2>1. /\ IsFiniteSet(both)
          /\ Cardinality(both) = Deaths(i) + Deaths(j) - Cardinality(shared)
      BY <1>4, FS_Union DEF Deaths
    <2>2. Cardinality(shared) \in Nat
      <3>1. IsFiniteSet(shared)
        BY <1>4, FS_Intersection
      <3>2. QED
        BY <3>1, FS_CardinalityType
    <2>3. Cardinality(both) \in Nat
      BY <2>1, FS_CardinalityType
    <2>4. Cardinality(AtOnce) \in Nat /\ Cardinality(AtOnce) <= Cardinality(both)
      BY <1>1, <2>1, FS_Subset, FS_CardinalityType, AtOnceFinite
    <2> HIDE DEF both, shared
    <2>5. QED
      BY <1>4, <2>1, <2>2, <2>3, <2>4
  <1>6. MaxFaults \in Nat
    BY BenchAssumption
  <1>7. QED
    BY <1>1, <1>2, <1>3, <1>4, <1>5, <1>6

(* The gate finds no other launch in the domain. *)
LEMMA GateAlone ==
  ASSUME TypeOK, SessionsApart, FailuresCounted, OnlyMortalDie, LaunchThere,
         ~(AtOnce \subseteq Mortal) \/ MaxFaults <= Cardinality(AtOnce),
         runner.pc = "probing", UniqueNames(Here)
  PROVE  GroupsIn(Here) = {Current}
  <1>1. Current \in GroupsIn(Here) /\ Current \in CallGroups
    BY DEF LaunchThere, Launched, GroupsIn, Here, CallGroups, Current
  <1>2. ASSUME NEW i \in GroupsIn(Here), i # Current
        PROVE  FALSE
    <2>1. i \in DOMAIN groups
      BY DEF GroupsIn
    <2>2. session = {}
      BY DEF SessionsApart
    <2>3. i[1] # "file"
      BY <2>1, <2>2 DEF SessionsApart, Placed
    <2>4. i \in CallGroups
      BY <2>1, <2>3 DEF TypeOK, CallGroups
    <2>5. groups[i].up \intersect groups[Current].up \subseteq NotInGraph
      BY <1>1, <1>2 DEF UniqueNames
    <2>6. faults \in 0 .. MaxFaults
      BY DEF TypeOK
    <2>7. QED
      BY <1>1, <1>2, <2>4, <2>5, <2>6, TwoTooMany
  <1>3. QED
    BY <1>1, <1>2

(* A launch that is ready stays alone: the runner starts no other meanwhile. *)
LEMMA AloneStep ==
  ASSUME TypeOK, SessionsApart, FailuresCounted, OnlyMortalDie, LaunchThere, Alone, [Next]_vars,
         ~(AtOnce \subseteq Mortal) \/ MaxFaults <= Cardinality(AtOnce)
  PROVE  Alone'
  <1> SUFFICES ASSUME runner'.pc = "probing", probe'.pc \in {"ready", "running"}
               PROVE  GroupsIn(Here)' = {Current'}
    BY DEF Alone
  <1>1. GroupsTyped /\ RunnerTyped /\ ProbeTyped
    BY DEF TypeOK, GroupsTyped, RunnerTyped, ProbeTyped
  <1>2. CASE LaunchStep
    <2>1. UNCHANGED <<runner, probe>>
      BY <1>2, Zenon DEF LaunchStep, FireTimer, LeaderDies, BringUp, BondBreaks, Die
    <2>2. GroupsIn(Here) = {Current} /\ Current' = Current
      BY <2>1 DEF Alone, Current
    <2>3. /\ DOMAIN groups' = DOMAIN groups
          /\ \A i \in DOMAIN groups : groups'[i].domain = groups[i].domain
      BY <1>1, <1>2, LaunchGroups, LaunchKeeps DEF SameLaunch
    <2>4. Current \in DOMAIN groups
      BY <2>2 DEF GroupsIn
    <2>5. Here' = Here
      BY <2>2, <2>3, <2>4 DEF Here
    <2>6. GroupsIn(Here)' = GroupsIn(Here)
      BY <2>3, <2>5 DEF GroupsIn
    <2>7. QED
      BY <2>2, <2>6
  <1>3. CASE OperatorStep
    <2>1. session # {} /\ UNCHANGED runner
      BY <1>3, Zenon DEF OperatorStep, OperatorStarts, OperatorStops
    <2>2. QED
      BY <2>1 DEF SessionsApart
  <1>4. CASE \/ Signal \/ Call \/ ScopeInvalid \/ Launch \/ ProbeEnded \/ RunnerTimeout
             \/ ValidatorClosed \/ StopGroup \/ ReadResult
    <2>1. CASE Signal
      BY <1>1, <2>1 DEF Signal, RunnerTyped
    <2>2. CASE Call \/ ScopeInvalid
      <3>1. runner'.pc \in {"launching", "ended"}
        BY <1>1, <2>2 DEF Call, ScopeInvalid, RunnerTyped
      <3>2. QED
        BY <3>1
    <2>3. CASE Launch \/ ProbeEnded \/ RunnerTimeout
      BY <1>1, <2>3 DEF Launch, ProbeEnded, RunnerTimeout, Go, RunnerTyped
    <2>4. CASE ValidatorClosed \/ StopGroup
      BY <1>1, <2>4 DEF ValidatorClosed, StopGroup, AfterStop, Go, RunnerTyped
    <2>5. CASE ReadResult
      <3>1. PICK report :
               runner' = IF report.invalid /\ runner.attempt + 1 < Retries
                         THEN [runner EXCEPT !.pc = "launching", !.attempt = @ + 1]
                         ELSE [runner EXCEPT !.pc = "ended", !.report = report.call]
        <4> DEFINE report == IF files[runner.attempt].call = 0
                             THEN [call |-> runner.calls, invalid |-> FALSE]
                             ELSE files[runner.attempt]
        <4>1. runner' = IF report.invalid /\ runner.attempt + 1 < Retries
                        THEN [runner EXCEPT !.pc = "launching", !.attempt = @ + 1]
                        ELSE [runner EXCEPT !.pc = "ended", !.report = report.call]
          BY <2>5, Zenon DEF ReadResult
        <4> HIDE DEF report
        <4>2. QED
          BY <4>1
      <3>2. runner'.pc \in {"launching", "ended"}
        BY <1>1, <3>1 DEF RunnerTyped
      <3>3. QED
        BY <3>2
    <2>6. QED
      BY <1>4, <2>1, <2>2, <2>3, <2>4, <2>5
  <1>5. CASE \E goals \in Goals : StartProbe(goals)
    BY <1>5 DEF StartProbe, NoProbe
  <1>6. CASE ProbeStep \/ UNCHANGED vars
    <2>1. UNCHANGED <<groups, runner>>
      BY <1>6, Zenon
      DEF ProbeStep, ProbeOnly, Observe, ClockBack, Gate, ReadyTimeout, SendGoal, GoalEnds,
          WriteResult, ProbeDies, vars
    <2>2. GroupsIn(Here)' = GroupsIn(Here) /\ Current' = Current
      BY <2>1 DEF GroupsIn, Here, Current
    <2>3. CASE Gate
      <3>1. \A status : Writing(status).pc = "writing"
        BY DEF Writing, NoProbe
      <3>2. GraphValid(Here)
        BY <1>1, <2>3, <3>1 DEF Gate, ProbeTyped
      <3>3. GroupsIn(Here) = {Current}
        BY <2>1, <3>2, GateAlone DEF GraphValid
      <3>4. QED
        BY <2>2, <3>3
    <2>4. CASE ~Gate
      <3>1. \A status : Writing(status).pc = "writing" /\ Over(status).pc = "over"
        BY DEF Writing, Over, NoProbe
      <3>2. probe.pc \in {"ready", "running"}
        <4>1. CASE Observe \/ ClockBack
          BY <1>1, <4>1 DEF Observe, ClockBack, ProbeTyped
        <4>2. CASE SendGoal \/ GoalEnds \/ ReadyTimeout \/ WriteResult \/ ProbeDies
          BY <3>1, <4>2 DEF SendGoal, GoalEnds, AtProbe, ReadyTimeout, WriteResult, ProbeDies
        <4>3. CASE UNCHANGED vars
          BY <4>3 DEF vars
        <4>4. QED
          BY <1>6, <2>4, <4>1, <4>2, <4>3 DEF ProbeStep
      <3>3. QED
        BY <2>1, <2>2, <3>2 DEF Alone
    <2>5. QED
      BY <2>3, <2>4
  <1>7. QED
    BY <1>2, <1>3, <1>4, <1>5, <1>6, Zenon DEF Next, RunnerStep

(* A probe that called the environment ready is alone with its own launch    *)
(* (unique_graph), however many calls, attempts and domains there are and    *)
(* wherever signals and deaths strike, as long as one of the nodes that      *)
(* every launch starts with does not die, or fewer failures happen than     *)
(* would kill them all.                                                    *)
THEOREM MeasuresAlone ==
  ASSUME ~(AtOnce \subseteq Mortal) \/ MaxFaults <= Cardinality(AtOnce)
  PROVE  Spec => []MeasuresItsOwn
  <1>1. Init => Measuring
    <2> SUFFICES ASSUME Init
                 PROVE  Measuring
      OBVIOUS
    <2>1. CallGroups = {} /\ runner.pc = "ended"
      BY DEF Init, CallGroups
    <2>2. QED
      BY <2>1
      DEF Measuring, FailuresCounted, OnlyMortalDie, LaunchThere, Launched, Alone
  <1>2. TypeOK /\ SessionsApart /\ Measuring /\ [Next]_vars => Measuring'
    BY CountStep, LaunchStays, AloneStep DEF Measuring
  <1>3. Measuring => MeasuresItsOwn
    BY DEF Measuring, Alone, MeasuresItsOwn
  <1>4. QED
    BY <1>1, <1>2, <1>3, TypeCorrect, SessionsKept, PTL DEF Spec

-----------------------------------------------------------------------------
(***************************************************************************)
(* Why a call ends.                                                        *)
(***************************************************************************)

(* The steps of an attempt that are left, this one included. *)
Position ==
    CASE runner.pc = "launching"  -> 6
      [] runner.pc = "launched"   -> 5
      [] runner.pc = "probing"    -> 4
      [] runner.pc = "validator"  -> 3
      [] runner.pc = "stopping"   -> 2
      [] runner.pc = "reading"    -> 1

(* What a call still has to do: steps of this attempt, and attempts. *)
ToDo ==
    IF runner.pc \in {"ended", "interrupted"} THEN 0
    ELSE 6 * (Retries - 1 - runner.attempt) + Position

(* What lowers that, and what leaves it alone. *)
WindsDown ==
    /\ RunnerStep \/ Signal => ToDo' < ToDo
    /\ ~(RunnerStep \/ Signal \/ Call) => ToDo' = ToDo

(* Until it ends a call has something to do. *)
LEMMA ToDoTyped ==
  ASSUME RunnerTyped
  PROVE  /\ ToDo \in Nat
         /\ runner.pc \notin {"ended", "interrupted"} => Position \in 1 .. 6 /\ ToDo > 0
  <1>1. runner.attempt \in 0 .. Retries - 1 /\ Retries \in Nat
    BY BenchAssumption DEF RunnerTyped, Attempts
  <1>2. runner.pc \notin {"ended", "interrupted"} => Position \in 1 .. 6
    BY DEF Position, RunnerTyped, RunnerStates
  <1>3. QED
    BY <1>1, <1>2 DEF ToDo

(* One position further in the same attempt. *)
LEMMA OneFurther ==
  ASSUME RunnerTyped, NEW pc, Go(pc),
         \/ runner.pc = "launching" /\ pc = "launched"
         \/ runner.pc = "launched" /\ pc = "probing"
         \/ runner.pc = "probing" /\ pc = "validator"
         \/ runner.pc = "validator" /\ pc = "stopping"
         \/ runner.pc = "stopping" /\ pc \in {"reading", "interrupted"}
  PROVE  ToDo' < ToDo
  <1>1. runner'.pc = pc /\ runner'.attempt = runner.attempt
    BY DEF Go, RunnerTyped
  <1>2. ToDo \in Nat /\ ToDo > 0
    BY ToDoTyped
  <1>3. CASE pc = "interrupted"
    BY <1>1, <1>2, <1>3 DEF ToDo
  <1>4. CASE pc # "interrupted"
    <2>1. Position' = Position - 1 /\ Position \in 2 .. 6
      BY <1>1, <1>4 DEF Position
    <2>2. runner.attempt \in Nat /\ Retries \in Nat
      BY BenchAssumption DEF RunnerTyped, Attempts
    <2>3. /\ ToDo = 6 * (Retries - 1 - runner.attempt) + Position
          /\ ToDo' = 6 * (Retries - 1 - runner.attempt) + Position'
      BY <1>1, <1>4 DEF ToDo
    <2>4. QED
      BY <2>1, <2>2, <2>3
  <1>5. QED
    BY <1>3, <1>4

(* Every step of the runner, and every signal, is one towards the end. *)
LEMMA RunnerAdvances ==
  ASSUME TypeOK, RunnerStep \/ Signal
  PROVE  ToDo' < ToDo
  <1> USE DEF RunnerStates
  <1>1. RunnerTyped /\ ToDo \in Nat
    BY ToDoTyped DEF TypeOK, RunnerTyped
  <1>2. ASSUME runner.pc \notin {"ended", "interrupted"}, runner'.pc \in {"ended", "interrupted"}
        PROVE  ToDo' < ToDo
    BY <1>1, <1>2, ToDoTyped DEF ToDo
  <1>3. CASE Launch \/ ProbeEnded \/ RunnerTimeout \/ ValidatorClosed \/ StopGroup
             \/ \E goals \in Goals : StartProbe(goals)
    <2>1. CASE Launch
      BY <1>1, <2>1, OneFurther DEF Launch
    <2>2. CASE ProbeEnded \/ RunnerTimeout
      BY <1>1, <2>2, OneFurther DEF ProbeEnded, RunnerTimeout
    <2>3. CASE ValidatorClosed
      BY <1>1, <2>3, OneFurther DEF ValidatorClosed
    <2>4. CASE StopGroup
      BY <1>1, <2>4, OneFurther DEF StopGroup, AfterStop
    <2>5. CASE \E goals \in Goals : StartProbe(goals)
      BY <1>1, <2>5, OneFurther DEF StartProbe
    <2>6. QED
      BY <1>3, <2>1, <2>2, <2>3, <2>4, <2>5
  <1>4. CASE ScopeInvalid
    BY <1>1, <1>2, <1>4 DEF ScopeInvalid, RunnerTyped
  <1>5. CASE ReadResult
    <2>1. runner.pc = "reading"
      BY <1>5 DEF ReadResult
    <2>2. PICK report : runner' = IF report.invalid /\ runner.attempt + 1 < Retries
                                  THEN [runner EXCEPT !.pc = "launching", !.attempt = @ + 1]
                                  ELSE [runner EXCEPT !.pc = "ended", !.report = report.call]
      <3> DEFINE report == IF files[runner.attempt].call = 0
                           THEN [call |-> runner.calls, invalid |-> FALSE]
                           ELSE files[runner.attempt]
      <3>1. runner' = IF report.invalid /\ runner.attempt + 1 < Retries
                      THEN [runner EXCEPT !.pc = "launching", !.attempt = @ + 1]
                      ELSE [runner EXCEPT !.pc = "ended", !.report = report.call]
        BY <1>5, Zenon DEF ReadResult
      <3> HIDE DEF report
      <3>2. QED
        BY <3>1
    <2>3. CASE report.invalid /\ runner.attempt + 1 < Retries
      <3>1. runner'.pc = "launching" /\ runner'.attempt = runner.attempt + 1
        BY <1>1, <2>2, <2>3 DEF RunnerTyped
      <3>2. Position = 1 /\ Position' = 6
        BY <2>1, <3>1 DEF Position
      <3>3. runner.attempt \in Nat /\ Retries \in Nat
        BY <1>1, BenchAssumption DEF RunnerTyped, Attempts
      <3>4. /\ ToDo = 6 * (Retries - 1 - runner.attempt) + 1
            /\ ToDo' = 6 * (Retries - 1 - (runner.attempt + 1)) + 6
        BY <2>1, <3>1, <3>2 DEF ToDo
      <3>5. QED
        BY <3>3, <3>4
    <2>4. CASE ~(report.invalid /\ runner.attempt + 1 < Retries)
      BY <1>1, <1>2, <2>1, <2>2, <2>4 DEF RunnerTyped
    <2>5. QED
      BY <2>3, <2>4
  <1>6. CASE Signal
    <2>1. CASE runner.pc = "probing"
      <3>1. runner'.pc = "validator" /\ runner'.attempt = runner.attempt
        BY <1>1, <1>6, <2>1 DEF Signal, RunnerTyped
      <3>2. Position = 4 /\ Position' = 3
        BY <2>1, <3>1 DEF Position
      <3>3. runner.attempt \in Nat /\ Retries \in Nat
        BY <1>1, BenchAssumption DEF RunnerTyped, Attempts
      <3>4. /\ ToDo = 6 * (Retries - 1 - runner.attempt) + 4
            /\ ToDo' = 6 * (Retries - 1 - runner.attempt) + 3
        BY <2>1, <3>1, <3>2 DEF ToDo
      <3>5. QED
        BY <3>3, <3>4
    <2>2. CASE runner.pc # "probing"
      BY <1>1, <1>2, <1>6, <2>2 DEF Signal, RunnerTyped
    <2>3. QED
      BY <2>1, <2>2
  <1>7. QED
    BY <1>3, <1>4, <1>5, <1>6 DEF RunnerStep

(* The argument for CallsEnd but for fairness: what a call still has to do is a *)
(* number that every step of the runner lowers and nothing but another call  *)
(* raises, whatever the probe, the launches and signals do.                 *)
THEOREM CallsWindDown == Spec => [](ToDo \in Nat) /\ [][WindsDown]_vars
  <1>1. TypeOK => ToDo \in Nat
    BY ToDoTyped DEF TypeOK, RunnerTyped
  <1>2. TypeOK /\ [Next]_vars => [WindsDown]_vars
    <2> SUFFICES ASSUME TypeOK, Next
                 PROVE  WindsDown
      OBVIOUS
    <2>1. RunnerStep \/ Signal => ToDo' < ToDo
      BY RunnerAdvances
    <2>2. CASE LaunchStep \/ OperatorStep \/ ProbeStep
      <3>1. UNCHANGED runner
        BY <2>2, Zenon
        DEF LaunchStep, FireTimer, LeaderDies, BringUp, BondBreaks, Die,
            OperatorStep, OperatorStarts, OperatorStops,
            ProbeStep, ProbeOnly, Observe, ClockBack, Gate, ReadyTimeout, SendGoal, GoalEnds,
            WriteResult, ProbeDies
      <3>2. ToDo' = ToDo
        BY <3>1 DEF ToDo, Position
      <3>3. QED
        BY <1>1, <2>1, <3>2 DEF WindsDown
    <2>3. CASE RunnerStep \/ Signal
      BY <2>1, <2>3 DEF WindsDown
    <2>4. CASE Call
      BY <2>1, <2>4 DEF WindsDown
    <2>5. QED
      BY <2>2, <2>3, <2>4 DEF Next
  <1>3. QED
    BY <1>1, <1>2, TypeCorrect, PTL DEF Spec
=============================================================================
