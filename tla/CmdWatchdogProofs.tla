------------------------- MODULE CmdWatchdogProofs -------------------------
(***************************************************************************)
(* Theorems about CmdWatchdog for every timeout, period, jitter, queue     *)
(* depth and set of commands, and for every set of outcomes of the         *)
(* warning: for the node as written, which ends on it, and as documented.  *)
(***************************************************************************)
EXTENDS CmdWatchdog, SequenceTheorems, TLAPS

USE TimingAssumption, QueueAssumption, CommandAssumption, WarnAssumption
    DEF MaxLate, AgeCap

\* Receiving takes a command off the queue; sending keeps it within its depth.
LEMMA InboxStep ==
  ASSUME TypeOK, [Next]_vars
  PROVE  inbox' \in Seq(Commands) /\ Len(inbox') <= QueueDepth
  <1>1. /\ inbox \in Seq(Commands)
        /\ Len(inbox) \in Nat /\ Len(inbox) <= QueueDepth
    BY LenProperties DEF TypeOK
  <1>2. inbox # <<>> => /\ Tail(inbox) \in Seq(Commands)
                        /\ Len(Tail(inbox)) = Len(inbox) - 1
    BY <1>1, HeadTailProperties
  <1>3. CASE RawCommandCallback
    BY <1>1, <1>2, <1>3 DEF RawCommandCallback
  <1>4. ASSUME NEW c \in Commands
        PROVE  Queued(c) \in Seq(Commands) /\ Len(Queued(c)) <= QueueDepth
    <2>1. CASE Len(inbox) = QueueDepth
      <3>1. inbox # <<>>
        BY <2>1, EmptySeq
      <3>2. Queued(c) = Append(Tail(inbox), c)
        BY <2>1 DEF Queued
      <3>3. QED
        BY <1>1, <1>2, <2>1, <3>1, <3>2, AppendProperties
    <2>2. CASE Len(inbox) # QueueDepth
      <3>1. Queued(c) = Append(inbox, c)
        BY <2>2 DEF Queued
      <3>2. QED
        BY <1>1, <2>2, <3>1, AppendProperties
    <2>3. QED
      BY <2>1, <2>2
  <1>5. CASE inbox' = inbox
    BY <1>1, <1>5
  <1>6. CASE inbox' = <<>>
    <2>1. <<>> \in Seq(Commands) /\ Len(<<>>) = 0
      BY EmptySeq
    <2>2. QED
      BY <1>6, <2>1
  <1>7. QED
    BY <1>3, <1>4, <1>5, <1>6
    DEF Next, PublishTimerCallback, Publish, WarnRaises, Tick, Send, vars

\* The command the node holds, and the one the driver holds, are commands.
LEMMA CommandStep ==
  ASSUME TypeOK, [Next]_vars
  PROVE  last' \in Commands \cup {"none"} /\ driver' \in Commands \cup {"none"}
  <1> USE DEF TypeOK
  <1>1. CASE RawCommandCallback
    <2>1. Head(inbox) \in Commands
      BY <1>1, HeadTailProperties DEF RawCommandCallback
    <2>2. QED
      BY <1>1, <2>1 DEF RawCommandCallback
  <1>2. CASE PublishTimerCallback
    BY <1>2 DEF PublishTimerCallback, Publish, WarnRaises, CommandForTime, IsStale, Commands, Zero
  <1>3. CASE UNCHANGED <<last, driver>>
    BY <1>3
  <1>4. QED
    BY <1>1, <1>2, <1>3 DEF Next, Tick, Send, vars

\* The two ages are bounded.
LEMMA AgeStep ==
  ASSUME TypeOK, [Next]_vars
  PROVE  age' \in 0 .. AgeCap /\ phase' \in 0 .. MaxLate
  <1>1. age \in 0 .. AgeCap /\ phase \in 0 .. MaxLate
    BY DEF TypeOK
  <1>2. CASE Tick
    BY <1>1, <1>2 DEF Tick
  <1>3. QED
    BY <1>1, <1>2
    DEF Next, RawCommandCallback, PublishTimerCallback, Send, vars

\* What arithmetic needs of the type invariant.
LEMMA AgesBounded == TypeOK => age \in Nat /\ phase \in Nat /\ phase <= MaxLate
  <1>1. TypeOK => age \in 0 .. AgeCap /\ phase \in 0 .. MaxLate
    BY Zenon DEF TypeOK
  <1>2. QED
    BY <1>1

\* The flags.
LEMMA FlagStep ==
  ASSUME TypeOK, [Next]_vars
  PROVE  outputStale' \in BOOLEAN /\ alive' \in BOOLEAN
  <1>1. IsStale \in BOOLEAN
    BY DEF IsStale
  <1>2. QED
    BY <1>1, Zenon
    DEF TypeOK, Next, RawCommandCallback, PublishTimerCallback,
        Publish, WarnRaises, Tick, Send, vars

\* Every variable of the node stays in its type.
THEOREM TypeCorrect == Spec => []TypeOK
  <1>1. Init => TypeOK
    <2>1. ASSUME Init PROVE inbox \in Seq(Commands) /\ Len(inbox) <= QueueDepth
      <3>1. <<>> \in Seq(Commands) /\ Len(<<>>) = 0
        BY EmptySeq
      <3>2. inbox = <<>>
        BY <2>1 DEF Init
      <3>3. QED
        BY <3>1, <3>2
    <2>2. 0 \in 0 .. AgeCap /\ 0 \in 0 .. MaxLate
      OBVIOUS
    <2>3. ASSUME Init
          PROVE  TypeOK
      <3>1. last \in Commands \cup {"none"} /\ driver \in Commands \cup {"none"}
        BY <2>3 DEF Init
      <3>2. outputStale \in BOOLEAN /\ alive \in BOOLEAN
        BY <2>3, Zenon DEF Init
      <3>3. age \in 0 .. AgeCap /\ phase \in 0 .. MaxLate
        BY <2>2, <2>3 DEF Init
      <3>4. QED
        BY <2>1, <2>3, <3>1, <3>2, <3>3, Zenon DEF TypeOK
    <2>4. QED
      BY <2>3
  <1>2. TypeOK /\ [Next]_vars => TypeOK'
    BY InboxStep, CommandStep, AgeStep, FlagStep DEF TypeOK
  <1>3. QED
    BY <1>1, <1>2, PTL DEF Spec

\* While the node lives and calls its output stale, the driver holds no motion,
\* in whatever order commands and timer come: what output_is_stale is for.
StaleOutputIsZero == alive /\ outputStale => driver \notin Moves

\* output_is_stale agrees with what the driver was given, over both callbacks.
THEOREM StaleIsZero == Spec => []StaleOutputIsZero
  <1>1. Init => StaleOutputIsZero
    BY DEF Init, StaleOutputIsZero
  <1>2. TypeOK /\ StaleOutputIsZero /\ [Next]_vars => StaleOutputIsZero'
    BY DEF TypeOK, StaleOutputIsZero, Next, RawCommandCallback,
           PublishTimerCallback, Publish, WarnRaises, CommandForTime, IsStale,
           Zero, Tick, Send, vars
  <1>3. QED
    BY <1>1, <1>2, TypeCorrect, PTL DEF Spec

\* Only the warning ends the node, and only on a command that has gone stale.
LEMMA EndStep ==
  ASSUME TypeOK, [Next]_vars
  PROVE  /\ alive' => alive
         /\ "raises" \notin WarnOutcomes /\ alive => alive'
         /\ alive /\ ~alive' =>
               PublishTimerCallback /\ IsStale /\ ~outputStale /\ driver' = driver
  <1>1. CASE PublishTimerCallback
    BY <1>1, Zenon DEF PublishTimerCallback, TimerDue, Publish, WarnRaises, BecameStale
  <1>2. CASE UNCHANGED alive
    BY <1>2
  <1>3. QED
    BY <1>1, <1>2, Zenon DEF Next, RawCommandCallback, Tick, Send, vars

\* As long as the node watches the base is not driven by a command older than the
\* timeout plus one late period of the timer.  A latched motion was fresh when
\* the timer last ran (LatchedWasFresh), the timer is never later than MaxLate
\* while the node lives, and the age grows only with the time since it ran.
THEOREM StopBounded == Spec => []BoundWhileWatching
  <1> DEFINE Inv == ("raises" \notin WarnOutcomes => alive) /\ LatchedWasFresh
  <1>1. Init => Inv
    BY DEF Init, LatchedWasFresh
  <1>2. ASSUME TypeOK, Inv, [Next]_vars
        PROVE  Inv'
    <2>0. ("raises" \notin WarnOutcomes => alive') /\ (alive' => alive)
      BY <1>2, EndStep, Zenon
    <2> SUFFICES ASSUME alive'
                 PROVE  LatchedWasFresh'
      BY <2>0 DEF LatchedWasFresh
    <2>1. age \in Nat /\ phase \in Nat /\ phase <= MaxLate
      BY <1>2, AgesBounded, Zenon
    <2>2. CASE RawCommandCallback
      <3>1. last' \in Commands
        BY <1>2, <2>2, HeadTailProperties DEF RawCommandCallback, TypeOK
      <3>2. QED
        BY <1>2, <2>0, <2>1, <2>2, <3>1
        DEF RawCommandCallback, LatchedWasFresh, Commands, Zero
    <2>3. CASE PublishTimerCallback
      <3>1. driver' = CommandForTime
        BY <2>3, Zenon DEF PublishTimerCallback, Publish, WarnRaises
      <3>3. ASSUME driver' \in Moves
            PROVE  ~IsStale
        BY <3>1, <3>3 DEF CommandForTime, Zero
      <3>4. ASSUME driver' \in Moves
            PROVE  age' <= Timeout + phase' /\ last' # "none"
        BY <2>1, <2>3, <3>3, <3>4 DEF PublishTimerCallback, IsStale
      <3>5. QED
        BY <3>4 DEF LatchedWasFresh
    <2>4. CASE Tick
      <3>1. driver' = driver /\ last' = last
        BY <2>4 DEF Tick
      <3>2. age' <= age + 1 /\ phase' = phase + 1
        BY <2>0, <2>1, <2>4 DEF Tick
      <3>3. age' \in Nat
        BY <2>1, <2>4 DEF Tick
      <3>4. QED
        BY <1>2, <2>0, <2>1, <3>1, <3>2, <3>3 DEF LatchedWasFresh
    <2>5. CASE UNCHANGED <<last, age, phase, driver, alive>>
      BY <1>2, <2>5 DEF LatchedWasFresh
    <2>6. QED
      BY <1>2, <2>2, <2>3, <2>4, <2>5 DEF Next, Send, vars
  <1>3. ASSUME TypeOK, Inv
        PROVE  BoundWhileWatching
    <2>1. age \in Nat /\ phase \in Nat /\ phase <= MaxLate
      BY <1>3, AgesBounded, Zenon
    <2>2. ASSUME Watching, driver \in Moves
          PROVE  age <= Timeout + phase
      BY <1>3, <2>2 DEF LatchedWasFresh, Watching
    <2>3. ASSUME Watching, driver \in Moves
          PROVE  age <= Timeout + MaxLate
      BY <2>1, <2>2, <2>3
    <2>4. QED
      BY <2>3, Zenon DEF BoundWhileWatching, MaxLate
  <1> HIDE DEF Inv
  <1>4. QED
    BY <1>1, <1>2, <1>3, TypeCorrect, PTL DEF Spec

-----------------------------------------------------------------------------
(* How soon a command takes effect, and what the node leaves behind.        *)

\* What the timer made of the last command when it last ran, phase ticks ago, if
\* the command was there by then; and it has noted a command that was stale then.
Forwarded ==
    last # "none" /\ age > phase =>
        /\ driver = IF age - phase > Timeout THEN Zero ELSE last
        /\ age - phase > Timeout => outputStale

\* While the node lives its timer has done its work; once it has ended, the last
\* command is stale for good.
TimerRan ==
    /\ last = "none" => alive /\ outputStale
    /\ alive => Forwarded
    /\ ~alive => age > Timeout

LEMMA InitTimerRan == Init => TimerRan
  BY DEF Init, TimerRan, Forwarded

LEMMA StepTimerRan ==
  ASSUME TypeOK, TimerRan, [Next]_vars
  PROVE  TimerRan'
  <1>1. age \in 0 .. AgeCap /\ phase \in 0 .. MaxLate
    BY Zenon DEF TypeOK
  <1>2. CASE RawCommandCallback
    <2>1. Head(inbox) \in Commands
      BY <1>2, HeadTailProperties DEF RawCommandCallback, TypeOK
    <2>2. last' # "none" /\ age' = 0 /\ phase' = phase /\ alive' /\ alive
      BY <1>2, <2>1 DEF RawCommandCallback, Commands, Zero
    <2>3. QED
      BY <1>1, <2>2 DEF TimerRan, Forwarded
  <1>3. CASE PublishTimerCallback
    <2>1. /\ alive /\ last' = last /\ age' = age /\ phase' = 0
          /\ outputStale' = IsStale
          /\ alive' => driver' = CommandForTime
          /\ ~alive' => IsStale /\ ~outputStale
      BY <1>3, Zenon DEF PublishTimerCallback, TimerDue, Publish, WarnRaises, BecameStale
    <2>2. ~alive' => last # "none" /\ age > Timeout
      BY <2>1 DEF IsStale, TimerRan
    <2>3. last = "none" => outputStale' /\ alive'
      BY <2>1, <2>2 DEF IsStale
    <2>4. ASSUME alive', last' # "none", age' > phase'
          PROVE  /\ driver' = IF age' - phase' > Timeout THEN Zero ELSE last'
                 /\ age' - phase' > Timeout => outputStale'
      <3>1. driver' = CommandForTime /\ (IsStale => outputStale')
        BY <2>1, <2>4, Zenon
      <3>2. (age' - phase' > Timeout) = IsStale
        BY <1>1, <2>1, <2>4 DEF IsStale
      <3>3. QED
        BY <2>1, <3>1, <3>2, Zenon DEF CommandForTime
    <2>5. QED
      BY <2>1, <2>2, <2>3, <2>4, Zenon DEF TimerRan, Forwarded
  <1>4. CASE Tick
    <2>1. UNCHANGED <<alive, driver, last, outputStale>> /\ (alive => phase' = phase + 1)
      BY <1>1, <1>4 DEF Tick
    <2>2. age' = IF age < AgeCap THEN age + 1 ELSE age
      BY <1>4 DEF Tick
    <2>3. alive => phase' <= MaxLate
      BY <1>1, <1>4 DEF Tick
    <2>4. QED
      BY <1>1, <2>1, <2>2, <2>3 DEF TimerRan, Forwarded
  <1>5. CASE UNCHANGED <<last, age, phase, driver, alive, outputStale>>
    BY <1>5 DEF TimerRan, Forwarded
  <1>6. QED
    BY <1>2, <1>3, <1>4, <1>5 DEF Next, Send, vars

\* A command that is old enough for the timer to have run since, and not stale,
\* has reached the driver.
Arrived == last # "none" /\ MaxLate < age /\ age <= Timeout => driver = last

\* A command that no other replaces is at the driver as soon as the timer must
\* have run since, and stays there until it is stale: the bound behind
\* CommandsReachDriver, for any period and jitter the timeout is longer than,
\* and for the node as written as well, which does not end before that.
THEOREM CommandsArrive == Spec => []Arrived
  <1>1. ASSUME TypeOK, TimerRan
        PROVE  Arrived
    <2>1. age \in 0 .. AgeCap /\ phase \in 0 .. MaxLate
      BY <1>1, Zenon DEF TypeOK
    <2>2. QED
      BY <1>1, <2>1 DEF TimerRan, Forwarded, Arrived
  <1>2. QED
    BY <1>1, InitTimerRan, StepTimerRan, TypeCorrect, PTL DEF Spec

\* When the warning ends the node, the timer had run since the last command and
\* forwarded it, for it runs more often than the timeout; nothing changes the
\* driver or the last command after that.
THEOREM LastCommandStays == Spec => []EndsOnLast
  <1>1. Init => EndsOnLast
    BY DEF Init, EndsOnLast
  <1>2. ASSUME TypeOK, TimerRan, EndsOnLast, [Next]_vars
        PROVE  EndsOnLast'
    <2> SUFFICES ASSUME ~alive', MaxLate <= Timeout
                 PROVE  driver' = last'
      BY DEF EndsOnLast
    <2>1. age \in 0 .. AgeCap /\ phase \in 0 .. MaxLate
      BY <1>2, Zenon DEF TypeOK
    <2>2. CASE alive
      <3>1. PublishTimerCallback /\ IsStale /\ ~outputStale /\ driver' = driver
        BY <1>2, <2>2, EndStep, Zenon
      <3>2. last' = last
        BY <3>1 DEF PublishTimerCallback
      <3>3. last # "none" /\ age > Timeout
        BY <1>2, <3>1 DEF IsStale, TimerRan
      <3>4. driver = last
        BY <1>2, <2>1, <2>2, <3>1, <3>3 DEF TimerRan, Forwarded
      <3>5. QED
        BY <3>1, <3>2, <3>4
    <2>3. CASE ~alive
      <3>1. UNCHANGED <<driver, last>>
        BY <1>2, <2>3
        DEF Next, RawCommandCallback, PublishTimerCallback, TimerDue, Tick, Send, vars
      <3>2. QED
        BY <1>2, <2>3, <3>1 DEF EndsOnLast
    <2>4. QED
      BY <2>2, <2>3
  <1>3. QED
    BY <1>1, <1>2, InitTimerRan, StepTimerRan, TypeCorrect, PTL DEF Spec
=============================================================================
