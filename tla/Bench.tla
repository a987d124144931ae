-------------------------------- MODULE Bench --------------------------------
(***************************************************************************)
(* Launches and who watches them: an operator who starts the files of a     *)
(* session in terminals of their own and stops any of them, or the          *)
(* unattended runner, which starts nav2_m1_gazebo for one attempt after      *)
(* another, each under a ROS domain of its own, lets the plan probe wait     *)
(* for readiness and send its goals, and tears the launch down.             *)
(* A launch brings its nodes up through delayed actions and lifecycle       *)
(* managers; nodes and launch processes die, and a signal may reach the     *)
(* runner at any point.                                                    *)
(***************************************************************************)
EXTENDS LaunchFiles, Integers, FiniteSets, Functions

CONSTANTS
    Invocations,    \* times the runner is called (with the same --name)
    Indexes,        \* values of --index
    Retries,        \* attempts per call
    Domains,        \* ROS domains the runner cycles through (80 in the code)
    MaxFaults,    \* deaths, given-up transitions and signals
    Mortal          \* the nodes that may die

ASSUME BenchAssumption ==
    /\ {Invocations, Retries, Domains, MaxFaults} \subseteq Nat \ {0}
    /\ Indexes \subseteq Nat

VARIABLES
    groups,     \* the process groups of the launches, by id
    session,    \* the files the operator runs side by side; {} while the runner works
    runner,     \* the runner: [pc, calls, index, attempt, scope, hits, unwinding, report]
    probe,      \* the plan probe of the attempt: [pc, seen, back, goals, status]
    files,      \* result.json of each attempt directory: [call, invalid], call 0 for none
    faults      \* deaths, given-up transitions and signals so far

vars == <<groups, session, runner, probe, files, faults>>

RunnerStates == {"ended", "launching", "launched", "probing", "validator", "stopping",
                 "reading", "interrupted"}
ProbeStates  == {"off", "waiting", "observed", "ready", "running", "writing", "over"}
Statuses     == {"NONE", "READY", "ENVIRONMENT_INVALID", "READINESS_TIMEOUT",
                 "RUNNER_TIMEOUT", "DIED"}

Operator == 0                                       \* the operator's ROS domain
Attempts == 0 .. Retries - 1

(* environment: DOMAIN_BASE + index * retries + attempt modulo the cycle *)
DomainOf(index, attempt) == 1 + ((index * Retries + attempt) % Domains)

-----------------------------------------------------------------------------
(* The ROS graph of a domain. *)

(* the outputs of a launch as a flat table, and the names of its nodes       *)
Outputs == [p \in Files \X Args |->
    UNION {{[node |-> n.name, flow |-> f] : f \in n.flows} : n \in NodesOf(p[1], p[2])}]
Names == [p \in Files \X Args |-> {n.name : n \in NodesOf(p[1], p[2])}]

(* the servers of the probe's goals, in order: navigate, and the fixed action;  *)
(* and what may be left of them                                             *)
Goals     == {<<"bt_navigator">>, <<"planner_server", "controller_server">>}
Remaining == Goals \union {<<"controller_server">>, <<>>}

NodeNames == UNION {Names[p] : p \in Files \X Args}

Groups ==
    [file : Files, args : Args, domain : Nat, leader : BOOLEAN, up : SUBSET NodeNames,
     fired : Nat, active : SUBSET NodeNames, tried : SUBSET Managers]

(* an active node is up *)
TypeOK ==
    /\ groups \in [DOMAIN groups -> Groups]
    /\ \A i \in DOMAIN groups : groups[i].active \subseteq groups[i].up
    /\ DOMAIN groups \subseteq ({"file"} \X Files) \union ({"call"} \X Nat)
    /\ session \subseteq Files
    /\ runner \in [pc : RunnerStates, calls : 0 .. Invocations, index : Indexes,
                   attempt : Attempts, scope : BOOLEAN, hits : SUBSET RunnerStates,
                   unwinding : BOOLEAN, report : Nat]
    /\ probe \in [pc : ProbeStates, seen : BOOLEAN, back : BOOLEAN, goals : Remaining,
                  status : Statuses]
    /\ files \in [Attempts -> [call : Nat, invalid : BOOLEAN]]
    /\ faults \in 0 .. MaxFaults

Working(g) == g.up \ (Managed \ g.active)

GroupsIn(d) == {i \in DOMAIN groups : groups[i].domain = d}

(* the outputs of a launch that its working nodes send, were the nodes of   *)
(* without gone                                                            *)
Live(g, without) ==
    LET working == Working(g) \ without
    IN  {o \in Outputs[<<g.file, g.args>>] : o.node \in working /\ o.flow.peers \subseteq g.up}

Lives(d, without) == {Live(groups[i], without) : i \in GroupsIn(d)}

(* the topics that the outputs of these launches carry, given known ones   *)
Carried(lives, known) ==
    UNION {{o.flow.topic : o \in {p \in outputs : p.flow.needs \subseteq known}}
             : outputs \in lives}

(* the topics of a domain that carry data, were the nodes of without gone *)
Flowing(d, without) ==
    LET lives == Lives(d, without)
        reach[k \in 0 .. 8] == IF k = 0 THEN {} ELSE Carried(lives, reach[k - 1])
    IN  reach[8]

Publishers(d, topic) ==
    UNION {{<<i, o.node>> : o \in {p \in Outputs[<<groups[i].file, groups[i].args>>] :
                                      p.flow.topic = topic /\ p.node \in groups[i].up}}
             : i \in GroupsIn(d)}

(* gz sim is no ROS node, and create has left the graph once it has spawned  *)
NotInGraph == {"gazebo", "spawn_m1"}

UniqueNames(d) ==
    \A i, j \in GroupsIn(d) : i # j => groups[i].up \intersect groups[j].up \subseteq NotInGraph

-----------------------------------------------------------------------------
(* A launch and its bring-up. *)

NewGroup(file, a, d) ==
    [file |-> file, args |-> a, domain |-> d, leader |-> TRUE,
     up |-> Names[<<file, a>>] \ Range(Delayed(file)), fired |-> 0, active |-> {}, tried |-> {}]

Added(id, g) == [i \in DOMAIN groups \union {id} |-> IF i = id THEN g ELSE groups[i]]
Without(ids) == Restrict(groups, DOMAIN groups \ ids)

(* the next TimerAction of a running launch; the delays are far enough apart *)
(* for the managers started before to have finished or given up            *)
FireTimer(i) ==
    /\ groups[i].leader
    /\ groups[i].fired < Len(Delayed(groups[i].file))
    /\ groups[i].up \intersect Managers \subseteq groups[i].tried
    /\ LET g == groups[i]
           new == {Delayed(g.file)[g.fired + 1]} \intersect Names[<<g.file, g.args>>]
       IN  groups' = [groups EXCEPT ![i].fired = @ + 1, ![i].up = @ \union new]
    /\ UNCHANGED <<session, runner, probe, files, faults>>

(* transforms a costmap waits for while its server is activated *)
TransformsFor(name) ==
    CASE name = "controller_server" -> {Body}
      [] name = "planner_server" -> Localized
      [] OTHER -> {}

(* A manager takes its nodes through configure and activate in the order of *)
(* node_names. A transition that fails, because a transform is missing or a *)
(* service call timed out, ends the bring-up with the nodes before it up.   *)
BringUp(i, manager) ==
    LET g == groups[i]
        names == NamesOf(g.file, manager)
        ready(k) == names[k] \in g.up /\ TransformsFor(names[k]) \subseteq Flowing(g.domain, {})
        gaveUp(k) == k < Len(names) /\ ready(k + 1)
    IN  /\ manager \in g.up \ g.tried
        /\ \E k \in 0 .. Len(names) :
             /\ \A j \in 1 .. k : ready(j)
             /\ gaveUp(k) => faults < MaxFaults
             /\ faults' = IF gaveUp(k) THEN faults + 1 ELSE faults
             /\ groups' = [groups EXCEPT ![i].active = @ \union {names[j] : j \in 1 .. k},
                                         ![i].tried = @ \union {manager}]
        /\ UNCHANGED <<session, runner, probe, files>>

Die(i, name) ==
    /\ faults < MaxFaults
    /\ name \in groups[i].up \intersect Mortal
    /\ groups' = [groups EXCEPT ![i].up = @ \ {name}, ![i].active = @ \ {name}]
    /\ faults' = faults + 1
    /\ UNCHANGED <<session, runner, probe, files>>

(* the bond to a managed node broke: the manager takes all its nodes down *)
BondBreaks(i, manager) ==
    LET g == groups[i]
        names == Range(NamesOf(g.file, manager))
    IN  /\ manager \in g.up \intersect g.tried
        /\ ~(names \subseteq g.up)
        /\ names \intersect g.active # {}
        /\ groups' = [groups EXCEPT ![i].active = @ \ names]
        /\ UNCHANGED <<session, runner, probe, files, faults>>

(* ros2 launch itself is killed: its nodes run on *)
LeaderDies(i) ==
    /\ faults < MaxFaults
    /\ groups[i].leader
    /\ runner.pc # "stopping"
    /\ groups' = [groups EXCEPT ![i].leader = FALSE]
    /\ faults' = faults + 1
    /\ UNCHANGED <<session, runner, probe, files>>

-----------------------------------------------------------------------------
(* The operator's terminals. *)

OperatorStarts(file, a) ==
    /\ file \in session
    /\ <<"file", file>> \notin DOMAIN groups
    /\ groups' = Added(<<"file", file>>, NewGroup(file, a, Operator))
    /\ UNCHANGED <<session, runner, probe, files, faults>>

OperatorStops(file) ==
    /\ <<"file", file>> \in DOMAIN groups
    /\ groups' = Without({<<"file", file>>})
    /\ UNCHANGED <<session, runner, probe, files, faults>>

-----------------------------------------------------------------------------
(* The runner. *)

Current == <<"call", runner.calls * Retries + runner.attempt>>
NoProbe == [pc |-> "off", seen |-> FALSE, back |-> FALSE, goals |-> <<>>, status |-> "NONE"]
Over(status) == [NoProbe EXCEPT !.pc = "over", !.status = status]
Go(pc) == runner' = [runner EXCEPT !.pc = pc]
Write(invalid) ==
    files' = [files EXCEPT ![runner.attempt] = [call |-> runner.calls, invalid |-> invalid]]

RunnerArgs == [software |-> TRUE, dual |-> TRUE, scope |-> runner.scope]

(* the same command line again: name, index and arguments                  *)
Call ==
    /\ session = {}
    /\ runner.pc \in {"ended", "interrupted"}
    /\ runner.calls < Invocations
    /\ runner' = [runner EXCEPT !.pc = "launching", !.calls = @ + 1, !.attempt = 0,
                                !.unwinding = FALSE, !.report = 0]
    /\ probe' = NoProbe
    /\ UNCHANGED <<groups, session, files, faults>>

(* torch or the model file is missing: reported without a launch.  The       *)
(* check of torch is a process of its own, which is taken to end            *)
ScopeInvalid ==
    /\ runner.pc = "launching"
    /\ runner.scope
    /\ Write(FALSE)
    /\ runner' = [runner EXCEPT !.pc = "ended", !.report = runner.calls]
    /\ UNCHANGED <<groups, session, probe, faults>>

(* Popen returned; the try statement is not entered yet *)
Launch ==
    /\ runner.pc = "launching"
    /\ groups' = Added(Current, NewGroup("nav2_m1_gazebo", RunnerArgs,
                                         DomainOf(runner.index, runner.attempt)))
    /\ Go("launched")
    /\ UNCHANGED <<session, probe, files, faults>>

StartProbe(goals) ==
    /\ runner.pc = "launched"
    /\ probe' = [NoProbe EXCEPT !.pc = "waiting", !.goals = goals]
    /\ Go("probing")
    /\ UNCHANGED <<groups, session, files, faults>>

(* subprocess.run returned *)
ProbeEnded ==
    /\ runner.pc = "probing"
    /\ probe.pc = "over"
    /\ Go("validator")
    /\ UNCHANGED <<groups, session, probe, files, faults>>

(* Mutant: no result is written for a probe that was killed. *)
WrongUnreported ==
    /\ runner.pc = "probing"
    /\ probe.pc # "over"
    /\ probe' = Over("RUNNER_TIMEOUT")
    /\ Go("validator")
    /\ UNCHANGED <<groups, session, files, faults>>

(* Mutant: only the probe's own timeouts end it. *)
WrongUntimed ==
    /\ FALSE
    /\ UNCHANGED vars

(* its timeout expired: the probe is killed and a formal result written *)
RunnerTimeout ==
    /\ runner.pc = "probing"
    /\ probe.pc # "over"
    /\ probe' = Over("RUNNER_TIMEOUT")
    /\ Write(FALSE)
    /\ Go("validator")
    /\ UNCHANGED <<groups, session, faults>>

(* finally: the validator is waited for and stopped, then the launch group. *)
ValidatorClosed ==
    /\ runner.pc = "validator"
    /\ Go("stopping")
    /\ UNCHANGED <<groups, session, probe, files, faults>>

AfterStop == IF runner.unwinding THEN "interrupted" ELSE "reading"

(* Mutant: the launch is asked to end by INT alone. *)
WrongAskedOnce ==
    /\ runner.pc = "stopping"
    /\ groups' \in {groups, Without({Current})}
    /\ Go(AfterStop)
    /\ UNCHANGED <<session, probe, files, faults>>

(* stop_process_group: INT, TERM and KILL until the leader is gone; KILL    *)
(* always ends it. A leader that has ended before is not signalled at all.  *)
StopGroup ==
    /\ runner.pc = "stopping"
    /\ groups' = IF groups[Current].leader THEN Without({Current}) ELSE groups
    /\ Go(AfterStop)
    /\ UNCHANGED <<session, probe, files, faults>>

(* result.json of the attempt's directory, whichever call wrote it, decides *)
(* on a retry and is the report; it is written back                        *)
ReadResult ==
    LET report == IF files[runner.attempt].call = 0
                  THEN [call |-> runner.calls, invalid |-> FALSE]      \* "no result"
                  ELSE files[runner.attempt]
    IN  /\ runner.pc = "reading"
        /\ files' = [files EXCEPT ![runner.attempt] = report]
        /\ runner' = IF report.invalid /\ runner.attempt + 1 < Retries
                     THEN [runner EXCEPT !.pc = "launching", !.attempt = @ + 1]
                     ELSE [runner EXCEPT !.pc = "ended", !.report = report.call]
        /\ probe' = NoProbe
        /\ UNCHANGED <<groups, session, faults>>

(* _interrupt: the first SIGINT or SIGTERM raises KeyboardInterrupt wherever *)
(* the runner is. Only while the probe runs is it inside try; while it stops *)
(* the launch it gives up between two signals.                             *)
Signal ==
    /\ faults < MaxFaults
    /\ runner.pc \notin {"ended", "interrupted"}
    /\ faults' = faults + 1
    /\ runner' = [runner EXCEPT !.hits = @ \union {runner.pc}, !.unwinding = TRUE,
                     !.pc = IF runner.pc = "probing" THEN "validator" ELSE "interrupted"]
    /\ probe' = NoProbe
    /\ groups' \in {groups} \union
          (IF runner.pc = "stopping" /\ groups[Current].leader THEN {Without({Current})} ELSE {})
    /\ UNCHANGED <<session, files>>

-----------------------------------------------------------------------------
(* The probe. *)

Invalid == {"ENVIRONMENT_INVALID", "READINESS_TIMEOUT"}

Here == groups[Current].domain
ProbeGo(pc) == probe' = [probe EXCEPT !.pc = pc]
AtProbe(pc) == runner.pc = "probing" /\ probe.pc = pc
Writing(status) == [NoProbe EXCEPT !.pc = "writing", !.status = status]
Measured == Writing("READY")
ProbeOnly == UNCHANGED <<groups, session, runner, files, faults>>

ActiveIn(d, name) == \E i \in GroupsIn(d) : name \in Working(groups[i])

GateNodes == {"planner_server", "controller_server", "bt_navigator", "amcl",
              "velocity_smoother", "collision_monitor"}

(* one pass of wait_ready over its observations *)
Observe ==
    /\ AtProbe("waiting")
    /\ probe' = [probe EXCEPT
         !.pc = "observed",
         !.seen = /\ {"/clock", "/sim_scan", "/scan", "map->odom", Body} \subseteq Flowing(Here, {})
                  /\ \A n \in GateNodes : ActiveIn(Here, n)]
    /\ ProbeOnly

(* on_clock: two simulators publish their own times *)
ClockBack ==
    /\ runner.pc = "probing"
    /\ probe.pc \in {"waiting", "observed"}
    /\ ~probe.back
    /\ Cardinality(Publishers(Here, "/clock")) > 1
    /\ probe' = [probe EXCEPT !.back = TRUE]
    /\ ProbeOnly

(* Mutant: any publisher will do. *)
WrongShared(d) ==
    \A t \in {"/clock", "/odom", Body, "/tf_static"} : Publishers(d, t) # {}

(* unique_graph *)
GraphValid(d) ==
    /\ Cardinality(Publishers(d, "/clock")) = 1
    /\ Cardinality(Publishers(d, "/odom")) = 1
    /\ Publishers(d, Body) # {} /\ Publishers(d, "/tf_static") # {}
    /\ UniqueNames(d)

(* the end of the pass: the graph is looked at after the observations *)
Gate ==
    /\ AtProbe("observed")
    /\ probe' = IF probe.back THEN Writing("ENVIRONMENT_INVALID")
                ELSE IF probe.seen /\ GraphValid(Here)
                     THEN [probe EXCEPT !.pc = "ready", !.seen = FALSE, !.status = "READY"]
                     ELSE [probe EXCEPT !.pc = "waiting", !.seen = FALSE]
    /\ ProbeOnly

ReadyTimeout ==
    /\ AtProbe("waiting")
    /\ probe' = Writing("READINESS_TIMEOUT")
    /\ ProbeOnly

(* send_action: accepted by an active server, or refused, or not in time *)
SendGoal ==
    /\ AtProbe("ready")
    /\ \/ /\ ActiveIn(Here, Head(probe.goals))
          /\ ProbeGo("running")
       \/ probe' = Measured
    /\ ProbeOnly

(* the result: the next goal follows a success only; any other status, and  *)
(* the timeout that cancels the goal, end the measurement                  *)
GoalEnds ==
    /\ AtProbe("running")
    /\ \/ /\ ActiveIn(Here, Head(probe.goals))
          /\ Len(probe.goals) > 1
          /\ probe' = [probe EXCEPT !.goals = Tail(@), !.pc = "ready"]
       \/ probe' = Measured
    /\ ProbeOnly

WriteResult ==
    /\ AtProbe("writing")
    /\ Write(probe.status \in Invalid)
    /\ probe' = Over(probe.status)
    /\ UNCHANGED <<groups, session, runner, faults>>

(* an exception in the probe: nothing is written *)
ProbeDies ==
    /\ runner.pc = "probing"
    /\ probe.pc # "over"
    /\ faults < MaxFaults
    /\ faults' = faults + 1
    /\ probe' = Over("DIED")
    /\ UNCHANGED <<groups, session, runner, files>>

-----------------------------------------------------------------------------
Init ==
    /\ groups = <<>>
    /\ session \in Sessions \union {{}}
    /\ runner \in [pc : {"ended"}, calls : {0}, index : Indexes, attempt : {0},
                   scope : BOOLEAN, hits : {{}}, unwinding : {FALSE}, report : {0}]
    /\ probe = NoProbe
    /\ files = [k \in Attempts |-> [call |-> 0, invalid |-> FALSE]]
    /\ faults = 0

LaunchStep ==
    \E i \in DOMAIN groups :
        \/ FireTimer(i)
        \/ LeaderDies(i)
        \/ \E m \in Managers : BringUp(i, m) \/ BondBreaks(i, m)
        \/ \E n \in Mortal : Die(i, n)

OperatorStep ==
    \E f \in session :
        \/ \E a \in ArgsOf(f) : OperatorStarts(f, a)
        \/ OperatorStops(f)

RunnerStep ==
    \/ ScopeInvalid
    \/ Launch
    \/ \E goals \in Goals : StartProbe(goals)
    \/ ProbeEnded
    \/ RunnerTimeout
    \/ ValidatorClosed
    \/ StopGroup
    \/ ReadResult

ProbeStep ==
    \/ Observe
    \/ ClockBack
    \/ Gate
    \/ ReadyTimeout
    \/ SendGoal
    \/ GoalEnds
    \/ WriteResult
    \/ ProbeDies

Next ==
    \/ LaunchStep
    \/ OperatorStep
    \/ RunnerStep
    \/ ProbeStep
    \/ Signal
    \/ Call

Spec == Init /\ [][Next]_vars

(* the runner goes on: every wait of its own has a timeout, but for the one *)
(* check of torch before a launch, which is taken to end; nothing is asked  *)
(* of the probe or of the launch                                           *)
FairSpec == Spec /\ WF_vars(RunnerStep)

-----------------------------------------------------------------------------
(* A probe that called the environment ready measured its own launch alone: *)
(* no node of an earlier one, left in the same domain by a signal or by a   *)
(* launch process that died, is in the graph (unique_graph).               *)
MeasuresItsOwn ==
    probe.pc \in {"ready", "running"} /\ runner.pc = "probing" =>
        \A i \in GroupsIn(Here) : i = Current \/ groups[i].up = {}

(* A launch outlives the attempt it was started for only if its own process *)
(* died before it could be stopped or the signal landed outside the try     *)
(* block: _interrupt's claim that finally runs, as far as it holds.         *)
NothingLeftBehind ==
    \A i \in DOMAIN groups :
        i[1] = "call" =>
            \/ i = Current /\ runner.pc \notin {"launching", "reading", "ended", "interrupted"}
            \/ ~groups[i].leader
            \/ runner.hits \intersect {"launched", "validator", "stopping"} # {}

(* What the runner reports comes from this call, unless the probe died      *)
(* without a result: then it may be an older call's file in a directory of  *)
(* the same name.                                                          *)
ReportsThisCall ==
    [][runner.pc = "reading" /\ runner'.pc = "ended" /\ probe.status # "DIED"
         => runner'.report = runner.calls]_vars

(* The velocity guards of the session: with any one of them gone no motion   *)
(* reaches /cmd_vel. The behavior server of the real robot's launch is left *)
(* out, see AllMotionGuarded.                                              *)
FileIn(d, f) == \E i \in GroupsIn(d) : groups[i].file = f
Watchdogs == {"m1_cmd_watchdog", "imperative_cmd_watchdog", "imperative_localized_cmd_watchdog"}
Guards(d) ==
    IF FileIn(d, "nav2_m1_gazebo") \/ FileIn(d, "nav2_m1_real")
    THEN {{"velocity_smoother"}, {"collision_monitor"}, Watchdogs}
    ELSE IF FileIn(d, "imperative_m1_gazebo") THEN {} ELSE {Watchdogs}
ActiveDomains == {groups[i].domain : i \in DOMAIN groups}
Unguarded(d, without) ==
    /\ "/cmd_vel" \in Flowing(d, without)
    /\ \E guard \in Guards(d) : "/cmd_vel" \in Flowing(d, guard \union without)

MotionGuarded ==
    \A d \in ActiveDomains :
        ~Unguarded(d, IF FileIn(d, "nav2_m1_real") THEN {"behavior_server"} ELSE {})

(* The same with every source of motion.                                   *)
AllMotionGuarded == \A d \in ActiveDomains : ~Unguarded(d, {})

(* In one launch session each sensor topic and each transform has one source, *)
(* whatever the arguments.                                                 *)
SourcesUnique ==
    session # {} =>
        \A t \in {"/scan", "/odom", "/clock", Body, "map->odom", "/cmd_vel"} :
            Cardinality({p \in Publishers(Operator, t) : p[2] # "behavior_server"}) <= 1

(* Every call of the runner ends, whatever the probe and the launch do, if   *)
(* its check of torch does.                                                *)
CallsEnd == runner.pc \notin {"ended", "interrupted"} ~> runner.pc \in {"ended", "interrupted"}
=============================================================================
