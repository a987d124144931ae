--------------------- MODULE ImperativeControllerProofs ---------------------
(***************************************************************************)
(* Theorems about ImperativeController for every timeout, period, jitter,  *)
(* queue depth and duration of a planning cycle, and for every set of      *)
(* outcomes of the warning: for the watchdog as written, which ends on it, *)
(* and as documented.                                                      *)
(***************************************************************************)
EXTENDS ImperativeController, SequenceTheorems, TLAPS

USE ImperativeAssumption
    DEF StaleAge, PublishedAge, DrivenAge, Watchdog!MaxLate, Watchdog!AgeCap

\* Where the probe is once it is sent, and how old its inputs can be there.
Downstream ==
    /\ ~probed => last # Probe /\ driver # Probe
    /\ ~probed \/ probeAge > PublishedAge => inbox \in Seq(Watchdog!Commands \ {Probe})
    /\ last = Probe /\ age < Watchdog!AgeCap => probeAge <= PublishedAge + age
    /\ driver = Probe => probeAge <= PublishedAge + WatchdogTimeout + phase

\* In a cycle, and from there to the driver for as long as the watchdog lives:
\* one that has ended takes no more commands, and the driver keeps its own.
Whereabouts ==
    /\ pc # "idle" => basis <= InputTimeout + busy
    /\ "raises" \notin WarnOutcomes => alive
    /\ alive => Downstream

IInv == TypeOK /\ Whereabouts

-----------------------------------------------------------------------------
(* The watchdog's side.                                                     *)

\* What the node does to the watchdog is what the watchdog's own specification
\* lets a planner do: send a command, or nothing.
LEMMA WatchdogStep ==
  ASSUME [Next]_vars
  PROVE  [Watchdog!Next]_watchdogVars
  <1> USE DEF PublishMessage
  <1>1. Watchdog!Zero \in Watchdog!Commands /\ \A c \in Velocities : Gated(c) \in Watchdog!Commands
    BY Zenon DEF Velocities, Gated, Watchdog!Commands
  <1>2. ASSUME NEW c \in Watchdog!Commands, PublishMessage(c)
        PROVE  [Watchdog!Next]_watchdogVars
    BY <1>2, Zenon DEF Watchdog!Next
  <1>3. CASE ControlStart \/ InputUnusable \/ ControlStop \/ BurstZero
    BY <1>1, <1>2, <1>3, Zenon DEF ControlStart, InputUnusable, ControlStop, StopAndReturn, BurstZero
  <1>4. ASSUME NEW c \in Velocities, PublishBodyVelocity(c)
        PROVE  [Watchdog!Next]_watchdogVars
    BY <1>1, <1>2, <1>4, Zenon DEF PublishBodyVelocity
  <1>5. CASE ScanCallback \/ OdomCallback \/ ControlAbandon \/ ControlPlan \/ SetEnabled
             \/ Sigint \/ BurstEnd \/ Join \/ SecondSigint \/ Kill
    BY <1>5, Zenon
    DEF ScanCallback, OdomCallback, ControlAbandon, ControlPlan, SetEnabled,
        Sigint, BurstEnd, Join, SecondSigint, Kill
  <1>6. CASE Tick \/ WatchdogCallback
    BY <1>6, Zenon DEF Tick, WatchdogCallback, Watchdog!Next
  <1>7. CASE UNCHANGED vars
    BY <1>7, Zenon DEF vars
  <1>8. QED
    BY <1>3, <1>4, <1>5, <1>6, <1>7, Zenon DEF Next, Control, Teardown

\* Only the watchdog's timer ends it, when the warning raises.
LEMMA WatchdogEnds ==
  ASSUME [Next]_vars
  PROVE  /\ alive' => alive
         /\ "raises" \notin WarnOutcomes /\ alive => alive'
  <1>1. CASE Watchdog!PublishTimerCallback
    BY <1>1, Zenon DEF Watchdog!PublishTimerCallback, Watchdog!TimerDue, Watchdog!Publish,
                       Watchdog!WarnRaises
  <1>2. CASE UNCHANGED alive
    BY <1>2
  <1>3. QED
    BY <1>1, <1>2, WatchdogStep, Zenon
    DEF Watchdog!Next, Watchdog!RawCommandCallback, Watchdog!Tick, Watchdog!Send, watchdogVars

\* Any set of commands that holds what waits and what is sent holds what waits
\* then.
LEMMA InboxKeeps ==
  ASSUME NEW S, inbox \in Seq(S), NEW c \in S, Watchdog!Send(c)
  PROVE  /\ inbox' \in Seq(S)
         /\ Len(inbox) <= QueueDepth => Len(inbox') <= QueueDepth
  <1>1. Len(inbox) \in Nat
    BY LenProperties
  <1>2. CASE alive /\ Len(inbox) = QueueDepth
    <2>1. inbox # <<>>
      BY <1>2, EmptySeq
    <2>2. Tail(inbox) \in Seq(S) /\ Len(Tail(inbox)) = Len(inbox) - 1
      BY <2>1, HeadTailProperties
    <2>3. inbox' = Append(Tail(inbox), c)
      BY <1>2 DEF Watchdog!Send, Watchdog!Queued
    <2>4. QED
      BY <1>1, <2>2, <2>3, AppendProperties
  <1>3. CASE alive /\ Len(inbox) # QueueDepth
    <2>1. inbox' = Append(inbox, c)
      BY <1>3 DEF Watchdog!Send, Watchdog!Queued
    <2>2. QED
      BY <1>1, <1>3, <2>1, AppendProperties
  <1>4. CASE ~alive
    BY <1>4 DEF Watchdog!Send
  <1>5. QED
    BY <1>2, <1>3, <1>4

LEMMA ReceiveKeeps ==
  ASSUME NEW S, inbox \in Seq(S), Watchdog!RawCommandCallback
  PROVE  last' \in S /\ inbox' \in Seq(S) /\ Len(inbox') = Len(inbox) - 1
  BY HeadTailProperties DEF Watchdog!RawCommandCallback

\* The watchdog's variables stay in their types.
LEMMA WatchdogTyped ==
  ASSUME Watchdog!TypeOK, [Watchdog!Next]_watchdogVars
  PROVE  Watchdog!TypeOK'
  <1>1. /\ inbox \in Seq(Watchdog!Commands) /\ Len(inbox) <= QueueDepth
        /\ age \in 0 .. Watchdog!AgeCap /\ phase \in 0 .. Watchdog!MaxLate
        /\ last \in Watchdog!Commands \cup {"none"} /\ driver \in Watchdog!Commands \cup {"none"}
        /\ outputStale \in BOOLEAN /\ alive \in BOOLEAN
    BY Zenon DEF Watchdog!TypeOK
  <1>2. /\ inbox' \in Seq(Watchdog!Commands) /\ Len(inbox') <= QueueDepth
        /\ last' \in Watchdog!Commands \cup {"none"}
    <2>1. CASE Watchdog!RawCommandCallback
      <3>1. Len(inbox) \in Nat
        BY <1>1, LenProperties
      <3>2. /\ last' \in Watchdog!Commands /\ inbox' \in Seq(Watchdog!Commands)
            /\ Len(inbox') = Len(inbox) - 1
        BY <1>1, <2>1, ReceiveKeeps, Zenon
      <3>3. Len(inbox) <= QueueDepth
        BY <1>1, Zenon
      <3>4. Len(inbox') <= QueueDepth
        BY <3>1, <3>2, <3>3
      <3>5. QED
        BY <3>2, <3>4, Zenon
    <2>2. ASSUME NEW c \in Watchdog!Commands, Watchdog!Send(c)
          PROVE  /\ inbox' \in Seq(Watchdog!Commands) /\ Len(inbox') <= QueueDepth
                 /\ last' = last
      BY <1>1, <2>2, InboxKeeps DEF Watchdog!Send
    <2>3. CASE inbox' \in {inbox, <<>>} /\ last' = last
      <3>1. <<>> \in Seq(Watchdog!Commands) /\ Len(<<>>) = 0
        BY EmptySeq
      <3>2. CASE inbox' = inbox
        BY <1>1, <2>3, <3>2, Zenon
      <3>3. CASE inbox' = <<>>
        <4>1. Len(inbox') <= QueueDepth
          BY <3>1, <3>3
        <4>2. QED
          BY <1>1, <2>3, <3>1, <3>3, <4>1, Zenon
      <3>4. QED
        BY <2>3, <3>2, <3>3, Zenon
    <2>4. QED
      BY <1>1, <2>1, <2>2, <2>3, Zenon
      DEF Watchdog!Next, Watchdog!PublishTimerCallback, Watchdog!Publish, Watchdog!WarnRaises,
          Watchdog!Tick, watchdogVars
  <1>3. driver' \in Watchdog!Commands \cup {"none"}
    <2>1. Watchdog!CommandForTime \in Watchdog!Commands \cup {"none"}
      BY <1>1, Zenon DEF Watchdog!CommandForTime, Watchdog!Commands
    <2>2. QED
      BY <1>1, <2>1, Zenon
      DEF Watchdog!Next, Watchdog!PublishTimerCallback, Watchdog!Publish, Watchdog!WarnRaises,
          Watchdog!RawCommandCallback, Watchdog!Tick, Watchdog!Send, watchdogVars
  <1>4. age' \in 0 .. Watchdog!AgeCap /\ phase' \in 0 .. Watchdog!MaxLate
    <2>1. age \in 0 .. Watchdog!AgeCap /\ phase \in 0 .. Watchdog!MaxLate
      BY <1>1, Zenon
    <2>2. CASE Watchdog!Tick
      <3>1. /\ age' = IF age < Watchdog!AgeCap THEN age + 1 ELSE age
            /\ phase' = IF alive THEN phase + 1 ELSE phase
            /\ alive => phase < Watchdog!MaxLate
        BY <2>2, Zenon DEF Watchdog!Tick
      <3>2. QED
        BY <2>1, <3>1
    <2>3. CASE Watchdog!RawCommandCallback
      BY <2>1, <2>3 DEF Watchdog!RawCommandCallback
    <2>4. CASE Watchdog!PublishTimerCallback
      BY <2>1, <2>4 DEF Watchdog!PublishTimerCallback
    <2>5. CASE UNCHANGED <<age, phase>>
      BY <2>1, <2>5
    <2>6. QED
      BY <2>2, <2>3, <2>4, <2>5, Zenon
      DEF Watchdog!Next, Watchdog!PublishTimerCallback, Watchdog!RawCommandCallback,
          Watchdog!Send, watchdogVars
  <1>5. /\ outputStale' \in BOOLEAN /\ alive' \in BOOLEAN
    <2>1. Watchdog!IsStale \in BOOLEAN
      BY DEF Watchdog!IsStale
    <2>2. QED
      BY <1>1, <2>1, Zenon
      DEF Watchdog!Next, Watchdog!PublishTimerCallback, Watchdog!RawCommandCallback,
          Watchdog!Tick, Watchdog!Send, watchdogVars, Watchdog!Publish, Watchdog!WarnRaises
  <1>6. QED
    BY <1>2, <1>3, <1>4, <1>5, Zenon DEF Watchdog!TypeOK

\* The composition implements the watchdog's own specification.
THEOREM ImplementsWatchdog == Spec => Watchdog!Spec
  <1>1. Init => Watchdog!Init
    BY Zenon DEF Init
  <1>2. [Next]_vars => [Watchdog!Next]_(Watchdog!vars)
    BY WatchdogStep, Zenon DEF watchdogVars, Watchdog!vars
  <1>3. QED
    BY <1>1, <1>2, PTL DEF Spec, Watchdog!Spec

-----------------------------------------------------------------------------
(* The node's side.                                                         *)

\* The variables that are not ages.
LEMMA FlagsTyped ==
  ASSUME TypeOK, [Next]_vars
  PROVE  /\ enabled' \in BOOLEAN /\ contextOk' \in BOOLEAN /\ probed' \in BOOLEAN
         /\ due' \in BOOLEAN
         /\ pc' \in {"idle", "plan", "publish"}
         /\ proc' \in {"spinning", "burst", "joining", "gone"}
  <1> USE Zenon DEF TypeOK
  <1>1. CASE ScanCallback \/ OdomCallback \/ ControlStart
    BY <1>1 DEF ScanCallback, OdomCallback, ControlStart
  <1>2. CASE Control
    BY <1>1, <1>2 DEF Control, InputUnusable, ControlStop, ControlAbandon, ControlPlan, StopAndReturn,
              CallbackEnds, PublishBodyVelocity
  <1>3. CASE SetEnabled \/ Teardown
    BY <1>3 DEF SetEnabled, Teardown, Sigint, BurstZero, BurstEnd, Join, SecondSigint, Kill,
                CallbackEnds
  <1>4. CASE Tick \/ WatchdogCallback \/ UNCHANGED vars
    BY <1>4 DEF Tick, WatchdogCallback, vars, nodeVars
  <1>5. QED
    BY <1>1, <1>2, <1>3, <1>4 DEF Next

\* What arithmetic needs of the type invariant.
LEMMA AgesTyped ==
  TypeOK => /\ scanAge \in 0 .. StaleAge /\ odomAge \in 0 .. StaleAge
            /\ basis \in 0 .. PublishedAge /\ busy \in 0 .. MaxPlan
            /\ zerosLeft \in 0 .. BurstLength /\ probeAge \in 0 .. DrivenAge + 1
            /\ age \in 0 .. Watchdog!AgeCap /\ phase \in 0 .. Watchdog!MaxLate
  BY Zenon DEF TypeOK, Watchdog!TypeOK

\* The snapshot of a cycle is as old as its older input, and the cycle adds
\* what it has taken.
LEMMA BasisStep ==
  ASSUME TypeOK, [Next]_vars, pc # "idle" => basis <= InputTimeout + busy
  PROVE  /\ basis' \in 0 .. PublishedAge /\ busy' \in 0 .. MaxPlan
         /\ pc' # "idle" => basis' <= InputTimeout + busy'
  <1>1. /\ scanAge \in Nat /\ odomAge \in Nat
        /\ basis \in 0 .. PublishedAge /\ busy \in 0 .. MaxPlan
    BY AgesTyped
  <1>2. CASE ControlStart
    <2>1. CASE InputIsFresh
      <3>1. basis' = Snapshot /\ busy' = 0
        BY <1>2, <2>1 DEF ControlStart
      <3>2. Snapshot \in Nat /\ Snapshot <= InputTimeout
        BY <1>1, <2>1 DEF Snapshot, Older, InputIsFresh
      <3>3. QED
        BY <3>1, <3>2
    <2>2. CASE ~InputIsFresh
      BY <1>1, <1>2, <2>2 DEF ControlStart
    <2>3. QED
      BY <2>1, <2>2
  <1>3. CASE pc' = "idle" /\ basis' = 0 /\ busy' = 0
    BY <1>3
  <1>4. CASE Tick
    <2>1. /\ pc # "idle" => busy < MaxPlan
          /\ IF pc = "idle" THEN UNCHANGED <<basis, busy>>
             ELSE basis' = basis + 1 /\ busy' = busy + 1
          /\ pc' = pc
      BY <1>4, Zenon DEF Tick
    <2>2. QED
      BY <1>1, <2>1
  <1>5. CASE UNCHANGED <<basis, busy>> /\ (pc' # "idle" => pc # "idle")
    BY <1>1, <1>5
  <1>6. QED
    BY <1>2, <1>3, <1>4, <1>5, Zenon
    DEF Next, ScanCallback, OdomCallback, Control, InputUnusable, ControlStop, ControlAbandon,
        ControlPlan, StopAndReturn, CallbackEnds, PublishBodyVelocity, SetEnabled, Teardown, Sigint,
        BurstZero, BurstEnd, Join, SecondSigint, Kill, WatchdogCallback, vars, nodeVars

\* The other ages and the count of the burst.
LEMMA AgesStep ==
  ASSUME TypeOK, [Next]_vars
  PROVE  /\ scanAge' \in 0 .. StaleAge /\ odomAge' \in 0 .. StaleAge
         /\ zerosLeft' \in 0 .. BurstLength /\ probeAge' \in 0 .. DrivenAge + 1
  <1>1. /\ scanAge \in 0 .. StaleAge /\ odomAge \in 0 .. StaleAge
        /\ basis \in 0 .. PublishedAge
        /\ zerosLeft \in 0 .. BurstLength /\ probeAge \in 0 .. DrivenAge + 1
    BY AgesTyped
  <1>2. scanAge' \in 0 .. StaleAge /\ odomAge' \in 0 .. StaleAge
    <2>1. \A delay \in 0 .. CallbackDelay : StoredAge(delay) \in 0 .. StaleAge
      BY DEF StoredAge
    <2>2. CASE Tick
      <3>1. scanAge' = Next1(scanAge, StaleAge) /\ odomAge' = Next1(odomAge, StaleAge)
        BY <2>2, Zenon DEF Tick
      <3>2. QED
        BY <1>1, <3>1 DEF Next1
    <2>3. CASE ScanCallback \/ OdomCallback
      BY <1>1, <2>1, <2>3, Zenon DEF ScanCallback, OdomCallback
    <2>4. CASE UNCHANGED <<scanAge, odomAge>>
      BY <1>1, <2>4
    <2>5. QED
      BY <2>2, <2>3, <2>4, Zenon
      DEF Next, Control, ControlStart, InputUnusable, ControlStop, ControlAbandon,
          ControlPlan, StopAndReturn, PublishBodyVelocity, SetEnabled, Teardown, Sigint,
          BurstZero, BurstEnd, Join, SecondSigint, Kill, WatchdogCallback, vars, nodeVars
  <1>3. zerosLeft' \in 0 .. BurstLength
    <2>1. CASE BurstZero
      <3>1. zerosLeft > 0 /\ zerosLeft' = zerosLeft - 1
        BY <2>1, Zenon DEF BurstZero
      <3>2. QED
        BY <1>1, <3>1
    <2>2. CASE zerosLeft' \in {zerosLeft, 0, BurstLength}
      BY <1>1, <2>2
    <2>3. QED
      BY <2>1, <2>2, Zenon
      DEF Next, ScanCallback, OdomCallback, Control, ControlStart, InputUnusable, ControlStop,
          ControlAbandon, ControlPlan, StopAndReturn, PublishBodyVelocity, SetEnabled, Teardown,
          Sigint, BurstEnd, Join, SecondSigint, Kill, Tick, WatchdogCallback, vars, nodeVars
  <1>4. probeAge' \in 0 .. DrivenAge + 1
    <2>1. CASE Tick
      <3>1. probeAge' \in {Next1(probeAge, DrivenAge + 1), probeAge}
        BY <2>1, Zenon DEF Tick
      <3>2. QED
        BY <1>1, <3>1 DEF Next1
    <2>2. CASE probeAge' \in {probeAge, basis}
      BY <1>1, <2>2
    <2>3. QED
      BY <2>1, <2>2, Zenon
      DEF Next, ScanCallback, OdomCallback, Control, ControlStart, InputUnusable, ControlStop,
          ControlAbandon, ControlPlan, StopAndReturn, PublishBodyVelocity, SetEnabled, Teardown,
          Sigint, BurstZero, BurstEnd, Join, SecondSigint, Kill, WatchdogCallback, vars, nodeVars
  <1>5. QED
    BY <1>2, <1>3, <1>4

-----------------------------------------------------------------------------
(* Where the probe is.                                                      *)

\* A command that is not the probe leaves the probe where it is.
LEMMA SendOther ==
  ASSUME Downstream, NEW c \in Watchdog!Commands \ {Probe}, Watchdog!Send(c),
         probed' = probed, probeAge' = probeAge
  PROVE  Downstream'
  <1>1. ~probed \/ probeAge > PublishedAge => inbox' \in Seq(Watchdog!Commands \ {Probe})
    BY InboxKeeps DEF Downstream
  <1>2. UNCHANGED <<last, age, phase, driver>>
    BY DEF Watchdog!Send
  <1>3. QED
    BY <1>1, <1>2 DEF Downstream

\* A probe is young when it is sent.
LEMMA SendProbe ==
  ASSUME TypeOK, Downstream, Watchdog!Send(Probe), ~probed, probed' = TRUE,
         probeAge' \in Nat, probeAge' <= PublishedAge
  PROVE  Downstream'
  <1>1. UNCHANGED <<last, age, phase, driver>> /\ last # Probe /\ driver # Probe
    BY DEF Watchdog!Send, Downstream
  <1>2. QED
    BY <1>1 DEF Downstream

LEMMA ReceiveProbe ==
  ASSUME TypeOK, Downstream, Watchdog!RawCommandCallback, UNCHANGED nodeVars
  PROVE  Downstream'
  <1>1. probed' = probed /\ probeAge' = probeAge /\ probeAge \in Nat
    BY AgesTyped DEF nodeVars
  <1>2. age' = 0 /\ UNCHANGED <<phase, driver>>
    BY DEF Watchdog!RawCommandCallback
  <1>3. ~probed \/ probeAge > PublishedAge
          => last' # Probe /\ inbox' \in Seq(Watchdog!Commands \ {Probe})
    BY ReceiveKeeps DEF Downstream
  <1>4. QED
    BY <1>1, <1>2, <1>3 DEF Downstream

LEMMA PublishProbe ==
  ASSUME TypeOK, Downstream, Watchdog!PublishTimerCallback, alive', UNCHANGED nodeVars
  PROVE  Downstream'
  <1>1. probed' = probed /\ probeAge' = probeAge /\ probeAge \in Nat /\ age \in Nat
    BY AgesTyped DEF nodeVars
  <1>2. Watchdog!Publish
    BY Zenon DEF Watchdog!PublishTimerCallback, Watchdog!WarnRaises
  <1>3. phase' = 0 /\ driver' = Watchdog!CommandForTime /\ UNCHANGED <<inbox, last, age>>
    BY <1>2, Zenon DEF Watchdog!PublishTimerCallback, Watchdog!Publish
  <1>4. driver' = Probe => last = Probe /\ age <= WatchdogTimeout
    BY <1>1, <1>3 DEF Watchdog!CommandForTime, Watchdog!IsStale, Watchdog!Zero, Probe
  <1>5. WatchdogTimeout < Watchdog!AgeCap
    OBVIOUS
  <1>6. QED
    BY <1>1, <1>3, <1>4, <1>5 DEF Downstream

\* The inputs of the probe grow no faster than what bounds their age, for time
\* passes only when no command waits.
LEMMA TickProbe ==
  ASSUME TypeOK, Downstream, alive, Tick
  PROVE  Downstream'
  <1>1. probeAge \in Nat /\ age \in Nat /\ phase \in Nat
    BY AgesTyped
  <1>2. /\ inbox' = <<>> /\ probed' = probed /\ UNCHANGED <<last, driver>>
        /\ age' = IF age < Watchdog!AgeCap THEN age + 1 ELSE age
        /\ phase' = phase + 1
        /\ probeAge' = IF probed THEN Next1(probeAge, DrivenAge + 1) ELSE probeAge
    BY Zenon DEF Tick, Watchdog!Tick
  <1>3. probeAge' <= probeAge + 1 /\ probeAge' \in Nat
    BY <1>1, <1>2 DEF Next1
  <1>4. inbox' \in Seq(Watchdog!Commands \ {Probe})
    BY <1>2, EmptySeq
  <1>5. last = Probe /\ age' < Watchdog!AgeCap => probeAge' <= PublishedAge + age'
    BY <1>1, <1>2, <1>3 DEF Downstream
  <1>6. driver = Probe => probeAge' <= PublishedAge + WatchdogTimeout + phase'
    BY <1>1, <1>2, <1>3 DEF Downstream
  <1>7. QED
    BY <1>2, <1>4, <1>5, <1>6, Zenon DEF Downstream

LEMMA DownstreamStep ==
  ASSUME IInv, [Next]_vars, alive'
  PROVE  Downstream'
  <1>0. alive
    BY WatchdogEnds
  <1>1. TypeOK /\ Downstream /\ (pc # "idle" => basis <= InputTimeout + busy)
    BY <1>0, Zenon DEF IInv, Whereabouts
  <1>2. Watchdog!Zero \in Watchdog!Commands \ {Probe}
    BY DEF Watchdog!Zero, Watchdog!Commands, Probe
  <1>3. CASE probed' = probed /\ probeAge' = probeAge /\ UNCHANGED watchdogVars
    BY <1>1, <1>3, Zenon DEF Downstream, watchdogVars
  <1>4. CASE probed' = probed /\ probeAge' = probeAge /\ PublishMessage(Watchdog!Zero)
    BY <1>1, <1>2, <1>3, <1>4, SendOther, Zenon DEF PublishMessage
  <1>5. ASSUME NEW c \in Velocities, PublishBodyVelocity(c)
        PROVE  Downstream'
    <2>1. CASE c = Probe /\ enabled /\ contextOk
      <3>1. ~probed /\ probed' = TRUE /\ probeAge' = basis /\ pc = "publish"
        BY <1>5, <2>1, Zenon DEF PublishBodyVelocity
      <3>2. Watchdog!Send(Probe)
        BY <1>5, <2>1, Zenon DEF PublishBodyVelocity, PublishMessage, Gated
      <3>3. pc # "idle"
        BY <3>1
      <3>4. basis \in Nat /\ basis <= PublishedAge
        BY <1>1, AgesTyped
      <3>5. QED
        BY <1>1, <3>1, <3>2, <3>4, SendProbe, Zenon
    <2>2. CASE ~(c = Probe /\ enabled /\ contextOk)
      <3>1. probed' = probed /\ probeAge' = probeAge /\ PublishMessage(Gated(c))
        BY <1>5, <2>2, Zenon DEF PublishBodyVelocity
      <3>2. contextOk => Gated(c) \in Watchdog!Commands \ {Probe}
        BY <1>2, <2>2, Zenon DEF Gated, Velocities
      <3>3. QED
        BY <1>1, <1>3, <3>1, <3>2, SendOther, Zenon DEF PublishMessage
    <2>3. QED
      BY <2>1, <2>2
  <1>6. CASE Tick
    BY <1>0, <1>1, <1>6, TickProbe, Zenon
  <1>7. CASE WatchdogCallback
    BY <1>1, <1>7, ReceiveProbe, PublishProbe, Zenon DEF WatchdogCallback
  <1>8. QED
    BY <1>3, <1>4, <1>5, <1>6, <1>7, Zenon
    DEF Next, ScanCallback, OdomCallback, Control, ControlStart, InputUnusable, ControlStop,
        ControlAbandon, ControlPlan, StopAndReturn, SetEnabled, Teardown, Sigint,
        BurstZero, BurstEnd, Join, SecondSigint, Kill, vars, nodeVars

-----------------------------------------------------------------------------
(* The theorems.                                                            *)

LEMMA InitInductive == Init => IInv
  <1> SUFFICES ASSUME Init
               PROVE  IInv
    OBVIOUS
  <1>1. /\ inbox = <<>> /\ last = "none" /\ age = 0 /\ phase = 0 /\ driver = "none"
        /\ alive = TRUE /\ outputStale = TRUE
    BY Zenon DEF Init, Watchdog!Init
  <1>2. inbox \in Seq(Watchdog!Commands) /\ Len(inbox) = 0
        /\ inbox \in Seq(Watchdog!Commands \ {Probe})
    BY <1>1, EmptySeq
  <1>3. Watchdog!TypeOK
    <2>1. Len(inbox) <= QueueDepth /\ age \in 0 .. Watchdog!AgeCap /\ phase \in 0 .. Watchdog!MaxLate
      <3>1. age = 0 /\ phase = 0 /\ Len(inbox) = 0
        BY <1>1, <1>2, Zenon
      <3>2. QED
        BY <3>1
    <2>2. QED
      BY <1>1, <1>2, <2>1, Zenon DEF Watchdog!TypeOK
  <1>4. TypeOK
    <2>1. /\ scanAge \in 0 .. StaleAge /\ odomAge \in 0 .. StaleAge
          /\ basis \in 0 .. PublishedAge /\ busy \in 0 .. MaxPlan
          /\ zerosLeft \in 0 .. BurstLength /\ probeAge \in 0 .. DrivenAge + 1
      <3>1. /\ scanAge = StaleAge /\ odomAge = StaleAge /\ basis = 0 /\ busy = 0
            /\ zerosLeft = 0 /\ probeAge = 0
        BY Zenon DEF Init
      <3>2. QED
        BY <3>1
    <2>2. QED
      BY <1>3, <2>1, Zenon DEF Init, TypeOK
  <1>5. Whereabouts
    <2>1. last # Probe /\ driver # Probe
      BY <1>1 DEF Probe
    <2>2. QED
      BY <1>1, <1>2, <2>1, Zenon DEF Init, Whereabouts, Downstream
  <1>6. QED
    BY <1>4, <1>5, Zenon DEF IInv

LEMMA StepInductive == IInv /\ [Next]_vars => IInv'
  <1> SUFFICES ASSUME IInv, [Next]_vars
               PROVE  IInv'
    OBVIOUS
  <1>1. /\ TypeOK /\ Watchdog!TypeOK /\ (pc # "idle" => basis <= InputTimeout + busy)
        /\ "raises" \notin WarnOutcomes => alive
    BY Zenon DEF IInv, Whereabouts, TypeOK
  <1>2. Watchdog!TypeOK'
    BY <1>1, WatchdogStep, WatchdogTyped
  <1>3. TypeOK'
    BY <1>1, <1>2, FlagsTyped, AgesStep, BasisStep, Zenon DEF TypeOK
  <1>4. Whereabouts'
    BY <1>1, DownstreamStep, BasisStep, WatchdogEnds, Zenon DEF Whereabouts
  <1>5. QED
    BY <1>3, <1>4, Zenon DEF IInv

\* The strengthened invariant holds in every reachable state.
THEOREM Inductive == Spec => []IInv
  BY InitInductive, StepInductive, PTL DEF Spec

\* Every variable of the node and of its watchdog stays in its type.
THEOREM TypeCorrect == Spec => []TypeOK
  <1>1. IInv => TypeOK
    BY Zenon DEF IInv
  <1>2. QED
    BY <1>1, Inductive, PTL

\* As long as the watchdog watches, no motion outlives its inputs by more than a
\* planning cycle, the watchdog's timeout and one late watchdog period.
THEOREM InputsAreRecent == Spec => []RecentWhileWatched
  <1>1. ASSUME IInv
        PROVE  RecentWhileWatched
    <2>1. TypeOK
      BY <1>1, Zenon DEF IInv
    <2>2. phase \in Nat /\ phase <= Watchdog!MaxLate /\ probeAge \in Nat
      BY <2>1, AgesTyped
    <2>3. ASSUME Watchdog!Watching, driver = Probe
          PROVE  probeAge <= PublishedAge + WatchdogTimeout + phase
      BY <1>1, <2>3, Zenon DEF IInv, Whereabouts, Downstream, Watchdog!Watching
    <2>4. ASSUME Watchdog!Watching, driver = Probe
          PROVE  probeAge <= DrivenAge
      BY <2>2, <2>3, <2>4
    <2>5. QED
      BY <2>4, Zenon DEF RecentWhileWatched, DrivenOnRecentInputs
  <1>2. QED
    BY <1>1, Inductive, PTL

-----------------------------------------------------------------------------
(* Why the base stops.                                                      *)

\* A cycle that begins now would stop the base.
Stale == scanAge > InputTimeout \/ odomAge > InputTimeout

\* The node has no motion to send: none may be, or none is planned and none can
\* be.
Silenced == ~enabled \/ (pc = "idle" /\ Stale)

\* The three places a motion may still be in, and no motion in the first, in the
\* first two, in any.
InboxQuiet == inbox \in Seq({Watchdog!Zero})
LastQuiet  == InboxQuiet /\ (last \in Moves => age > WatchdogTimeout)
BaseQuiet  == LastQuiet /\ driver \notin Moves

\* What has become quiet remains so while the node is silenced, and the quiet
\* spreads: time passes only once the inbox is quiet, what is received then and
\* what has become too old leave no motion to publish, and a timer that does not
\* end the watchdog publishes none.
QuietSpreads ==
    Silenced =>
        /\ InboxQuiet => InboxQuiet'
        /\ LastQuiet => LastQuiet'
        /\ BaseQuiet => BaseQuiet'
        /\ Tick => InboxQuiet'
        /\ InboxQuiet /\ Watchdog!RawCommandCallback => LastQuiet'
        /\ InboxQuiet /\ age > WatchdogTimeout => LastQuiet
        /\ LastQuiet /\ Watchdog!PublishTimerCallback /\ alive' => BaseQuiet'

\* A node without fresh inputs and without a cycle under way stays silenced
\* until a scan and an odometry message come.
SilenceHolds ==
    pc = "idle" /\ Stale /\ ~ScanCallback /\ ~OdomCallback => pc' = "idle" /\ Stale'

\* A silenced node sends zeros or nothing.
LEMMA SilencedSends ==
  ASSUME Silenced, [Next]_vars
  PROVE  \/ Watchdog!Send(Watchdog!Zero)
         \/ Watchdog!Tick
         \/ Watchdog!RawCommandCallback
         \/ Watchdog!PublishTimerCallback
         \/ UNCHANGED watchdogVars
  <1>1. CASE PublishMessage(Watchdog!Zero)
    BY <1>1, Zenon DEF PublishMessage
  <1>2. ASSUME NEW c \in Velocities, PublishBodyVelocity(c)
        PROVE  PublishMessage(Watchdog!Zero)
    <2>1. pc = "publish" /\ PublishMessage(Gated(c))
      BY <1>2, Zenon DEF PublishBodyVelocity
    <2>2. ~enabled
      BY <2>1 DEF Silenced
    <2>3. QED
      BY <2>1, <2>2, Zenon DEF Gated
  <1>3. QED
    BY <1>1, <1>2, Zenon
    DEF Next, ScanCallback, OdomCallback, Control, ControlStart, InputUnusable, ControlStop,
        ControlAbandon, ControlPlan, StopAndReturn, SetEnabled, Teardown, Sigint, BurstZero,
        BurstEnd, Join, SecondSigint, Kill, Tick, WatchdogCallback, vars

\* A zero that is received, and a publication, after the inbox is quiet.
LEMMA QuietReceives ==
  ASSUME InboxQuiet, Watchdog!RawCommandCallback
  PROVE  LastQuiet' /\ UNCHANGED driver
  <1>1. last' \in {Watchdog!Zero} /\ InboxQuiet'
    BY ReceiveKeeps DEF InboxQuiet
  <1>2. last' \notin Moves
    BY <1>1 DEF Watchdog!Zero, Moves, Probe
  <1>3. QED
    BY <1>1, <1>2, Zenon DEF LastQuiet, Watchdog!RawCommandCallback

LEMMA QuietPublishes ==
  ASSUME LastQuiet, Watchdog!PublishTimerCallback, Watchdog!Publish
  PROVE  BaseQuiet'
  <1>1. driver' = Watchdog!CommandForTime /\ UNCHANGED <<inbox, last, age>>
    BY Zenon DEF Watchdog!PublishTimerCallback, Watchdog!Publish
  <1>2. driver' \notin Moves
    BY <1>1 DEF LastQuiet, Watchdog!CommandForTime, Watchdog!IsStale, Watchdog!Zero, Moves, Probe
  <1>3. QED
    BY <1>1, <1>2, Zenon DEF LastQuiet, BaseQuiet, InboxQuiet

\* The argument for SensorLossStops and DisablingStops but for fairness, for
\* every timeout, period and jitter: a node whose inputs are too old, or whose
\* enabled is false, has stopped the base for good as soon as a cycle that was
\* under way is over, what waits is received, and the timer has run on it.  A
\* timer whose warning raises does not stop the base: it leaves it as it is.
THEOREM SilenceSpreads == Spec => [][QuietSpreads]_vars /\ [][SilenceHolds]_vars
  <1>1. TypeOK /\ [Next]_vars => [QuietSpreads]_vars
    <2> SUFFICES ASSUME TypeOK, Next, Silenced
                 PROVE  /\ InboxQuiet => InboxQuiet'
                        /\ LastQuiet => LastQuiet'
                        /\ BaseQuiet => BaseQuiet'
                        /\ Tick => InboxQuiet'
                        /\ InboxQuiet /\ Watchdog!RawCommandCallback => LastQuiet'
                        /\ InboxQuiet /\ age > WatchdogTimeout => LastQuiet
                        /\ LastQuiet /\ Watchdog!PublishTimerCallback /\ alive' => BaseQuiet'
      BY Zenon DEF QuietSpreads
    <2>1. ASSUME InboxQuiet
          PROVE  /\ InboxQuiet'
                 /\ LastQuiet => LastQuiet'
                 /\ BaseQuiet => BaseQuiet'
      <3>1. CASE Watchdog!Send(Watchdog!Zero)
        <4>1. InboxQuiet'
          BY <2>1, <3>1, InboxKeeps, Zenon DEF InboxQuiet
        <4>2. UNCHANGED <<last, age, driver>>
          BY <3>1 DEF Watchdog!Send
        <4>3. QED
          BY <4>1, <4>2 DEF LastQuiet, BaseQuiet
      <3>2. CASE Watchdog!Tick
        <4>1. UNCHANGED <<inbox, last, driver>> /\ age' \in {age, age + 1} /\ age \in Nat
          BY <3>2, AgesTyped DEF Watchdog!Tick
        <4>2. QED
          BY <2>1, <4>1 DEF InboxQuiet, LastQuiet, BaseQuiet
      <3>3. CASE Watchdog!RawCommandCallback
        BY <2>1, <3>3, QuietReceives, Zenon DEF LastQuiet, BaseQuiet
      <3>4. CASE Watchdog!PublishTimerCallback
        <4>1. UNCHANGED <<last, age>> /\ inbox' \in {inbox, <<>>}
          BY <3>4 DEF Watchdog!PublishTimerCallback, Watchdog!Publish, Watchdog!WarnRaises
        <4>2. InboxQuiet' /\ (LastQuiet => LastQuiet')
          BY <2>1, <4>1, EmptySeq DEF InboxQuiet, LastQuiet
        <4>3. CASE Watchdog!WarnRaises
          <5>1. driver' = driver
            BY <4>3, Zenon DEF Watchdog!WarnRaises
          <5>2. QED
            BY <4>2, <5>1, Zenon DEF BaseQuiet
        <4>4. CASE Watchdog!Publish
          BY <3>4, <4>2, <4>4, QuietPublishes, Zenon DEF BaseQuiet
        <4>5. QED
          BY <3>4, <4>3, <4>4, Zenon DEF Watchdog!PublishTimerCallback
      <3>5. CASE UNCHANGED watchdogVars
        BY <2>1, <3>5, Zenon DEF watchdogVars, InboxQuiet, LastQuiet, BaseQuiet
      <3>6. QED
        BY <3>1, <3>2, <3>3, <3>4, <3>5, SilencedSends, Zenon
    <2>2. ASSUME Tick
          PROVE  InboxQuiet'
      <3>1. inbox' = <<>>
        BY <2>2, Zenon DEF Tick, Watchdog!Tick
      <3>2. QED
        BY <3>1, EmptySeq DEF InboxQuiet
    <2>3. InboxQuiet /\ age > WatchdogTimeout => LastQuiet
      BY Zenon DEF LastQuiet
    <2>4. Watchdog!PublishTimerCallback /\ alive' => Watchdog!Publish
      BY Zenon DEF Watchdog!PublishTimerCallback, Watchdog!WarnRaises
    <2>5. QED
      BY <2>1, <2>2, <2>3, <2>4, QuietReceives, QuietPublishes, Zenon DEF LastQuiet, BaseQuiet
  <1>2. TypeOK /\ [Next]_vars => [SilenceHolds]_vars
    <2> SUFFICES ASSUME TypeOK, Next, pc = "idle", Stale, ~ScanCallback, ~OdomCallback
                 PROVE  pc' = "idle" /\ Stale'
      BY Zenon DEF SilenceHolds
    <2>1. scanAge \in 0 .. StaleAge /\ odomAge \in 0 .. StaleAge
      BY AgesTyped
    <2>2. CASE Tick
      <3>1. /\ pc' = pc
            /\ scanAge' = Next1(scanAge, StaleAge) /\ odomAge' = Next1(odomAge, StaleAge)
        BY <2>2, Zenon DEF Tick
      <3>2. QED
        BY <2>1, <3>1 DEF Next1, Stale
    <2>3. CASE ControlStart
      <3>1. ~InputIsFresh
        BY <2>1 DEF Stale, InputIsFresh
      <3>2. UNCHANGED <<pc, scanAge, odomAge>>
        BY <2>3, <3>1, Zenon DEF ControlStart
      <3>3. QED
        BY <3>2 DEF Stale
    <2>4. CASE pc' = "idle" /\ UNCHANGED <<scanAge, odomAge>>
      BY <2>4 DEF Stale
    <2>5. CASE ControlPlan \/ \E c \in Velocities : PublishBodyVelocity(c)
      BY <2>5 DEF ControlPlan, PublishBodyVelocity
    <2>6. QED
      BY <2>2, <2>3, <2>4, <2>5, Zenon
      DEF Next, Control, InputUnusable, ControlStop, ControlAbandon, StopAndReturn, CallbackEnds,
          SetEnabled, Teardown, Sigint, BurstZero, BurstEnd, Join, SecondSigint, Kill,
          WatchdogCallback, nodeVars
  <1>3. QED
    BY <1>1, <1>2, TypeCorrect, PTL DEF Spec
=============================================================================
