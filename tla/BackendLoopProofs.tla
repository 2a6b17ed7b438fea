------------------------- MODULE BackendLoopProofs -------------------------
(***************************************************************************)
(* The reconnect loop of a Backend, for every configuration and server     *)
(* behaviour, until an operator forces a reconnect: at most one Reconnect  *)
(* is under way, and none ends a cooldown early.  What SumFunction, which  *)
(* the property counts with, returns is proved first.                      *)
(***************************************************************************)
EXTENDS BackendProofs, FiniteSetTheorems

-----------------------------------------------------------------------------
(* The sum of a function that is one at d and zero elsewhere.              *)

One(D, d) == [x \in D |-> IF x = d THEN 1 ELSE 0]

\* How SumFunction walks over the domain: one element less every time.
Chosen(s) == CHOOSE x \in s : TRUE
Adds(f, g) ==
  g = [s \in SUBSET DOMAIN f |->
         IF s = {} THEN 0 ELSE f[Chosen(s)] + g[s \ {Chosen(s)}]]

LEMMA SumIs ==
  ASSUME NEW f
  PROVE  SumFunction(f) = (CHOOSE g : Adds(f, g))[DOMAIN f]
BY Zenon DEF SumFunction, SumFunctionOnSet, FoldFunctionOnSet, MapThenFoldSet, Adds, Chosen

\* A set with a property that all smaller subsets of D lack is the least one of
\* those that have it.
LEMMA Smallest ==
  ASSUME NEW D, IsFiniteSet(D), NEW B \in SUBSET (SUBSET D), B # {}
  PROVE  \E s \in B : \A r \in B : ~(Cardinality(r) < Cardinality(s))
<1> DEFINE N == {Cardinality(s) : s \in B}
<1>1. N \subseteq Nat /\ N # {}
  <2>1. \A s \in B : IsFiniteSet(s) /\ Cardinality(s) \in Nat
    BY FS_Subset, FS_CardinalityType
  <2> QED
    BY <2>1
<1>2. \E n \in N : \A m \in N : ~(<<m, n>> \in OpToRel(<, Nat))
  <2> HIDE DEF N
  <2> QED
    BY <1>1, NatLessThanWellFounded, WFMin
<1>3. PICK n \in N : \A m \in N : ~(m < n)
  BY <1>1, <1>2 DEF OpToRel
<1>4. PICK s \in B : n = Cardinality(s)
  OBVIOUS
<1> QED
  BY <1>3, <1>4

LEMMA SumOfOne ==
  ASSUME NEW D, IsFiniteSet(D), NEW d
  PROVE  SumFunction(One(D, d)) = IF d \in D THEN 1 ELSE 0
<1> DEFINE f == One(D, d)
           h == [s \in SUBSET D |-> IF d \in s THEN 1 ELSE 0]
           g == CHOOSE x : Adds(f, x)
<1>1. DOMAIN f = D /\ \A x \in D : f[x] = IF x = d THEN 1 ELSE 0
  BY DEF One
<1>2. \A s \in SUBSET D : s # {} => Chosen(s) \in s /\ Chosen(s) \in D
  BY DEF Chosen
<1> HIDE DEF f
<1>3. Adds(f, h)
  <2>1. ASSUME NEW s \in SUBSET D, s # {}
        PROVE  h[s] = f[Chosen(s)] + h[s \ {Chosen(s)}]
    BY <1>1, <1>2, <2>1
  <2>2. h = [s \in SUBSET D |-> IF s = {} THEN 0 ELSE f[Chosen(s)] + h[s \ {Chosen(s)}]]
    <3>1. \A s \in SUBSET D :
            h[s] = IF s = {} THEN 0 ELSE f[Chosen(s)] + h[s \ {Chosen(s)}]
      BY <2>1
    <3> QED
      BY <3>1
  <2> QED
    BY <1>1, <2>2 DEF Adds
<1>4. Adds(f, g)
  <2> HIDE DEF h
  <2> QED
    BY <1>3
<1> HIDE DEF g
<1>5. g[{}] = 0 /\ \A s \in SUBSET D : s # {} => g[s] = f[Chosen(s)] + g[s \ {Chosen(s)}]
  <2>1. g = [s \in SUBSET D |-> IF s = {} THEN 0 ELSE f[Chosen(s)] + g[s \ {Chosen(s)}]]
    BY <1>1, <1>4 DEF Adds
  <2>2. {} \in SUBSET D
    OBVIOUS
  <2> QED
    BY <2>1, <2>2
<1>6. \A s \in SUBSET D : g[s] = h[s]
  <2> DEFINE B == {s \in SUBSET D : g[s] # h[s]}
  <2>1. SUFFICES ASSUME B # {} PROVE FALSE
    OBVIOUS
  <2>2. PICK s \in B : \A r \in B : ~(Cardinality(r) < Cardinality(s))
    <3>1. B \in SUBSET (SUBSET D)
      OBVIOUS
    <3> HIDE DEF B
    <3> QED
      BY <2>1, <3>1, Smallest
  <2>3. s # {}
    BY <1>5
  <2> DEFINE r == s \ {Chosen(s)}
  <2>4. r \in SUBSET D /\ Cardinality(r) < Cardinality(s)
    <3>1. s \in SUBSET D /\ IsFiniteSet(s) /\ Cardinality(s) \in Nat
      BY FS_Subset, FS_CardinalityType
    <3>2. Cardinality(r) = Cardinality(s) - 1
      BY <1>2, <2>3, <3>1, FS_RemoveElement
    <3> QED
      BY <3>1, <3>2
  <2>5. g[r] = h[r]
    BY <2>2, <2>4
  <2>6. g[s] = f[Chosen(s)] + h[r]
    BY <1>5, <2>3, <2>5
  <2>7. h[s] = f[Chosen(s)] + h[r]
    BY <1>1, <1>2, <2>3, <2>4
  <2> QED
    BY <2>6, <2>7
<1>7. SumFunction(f) = g[D]
  BY <1>1, SumIs DEF g
<1> QED
  BY <1>6, <1>7 DEF f
-----------------------------------------------------------------------------
(* The loop.                                                               *)

NoneAsleep == timers["Reconnect"] = [x \in Delays |-> 0]
AsleepAt(d) == timers["Reconnect"] = One(Delays, d)
QueuedAt(i) == \A j \in DOMAIN mailbox : mailbox[j] = "Reconnect" <=> j = i

NoLoop == NoneAsleep /\ ~Queued("Reconnect")
OneLoop ==
  \/ (\E d \in Delays : AsleepAt(d)) /\ ~Queued("Reconnect")
  \/ NoneAsleep /\ \E i \in DOMAIN mailbox : QueuedAt(i)

\* A Reconnect is asleep, queued or being handled, and there is no other, as
\* long as the backend is not connected.
Loop ==
  /\ phase = "spawned" => NoLoop /\ state = "Disconnected"
  /\ phase = "running" => IF state = "Connected" THEN NoLoop ELSE OneLoop

\* It does not come before the end of the cooldown.
Cooled ==
  phase = "running" /\ state = "CircuitOpen" /\ IsOpen =>
    /\ \A d \in Delays : AsleepAt(d) => d + openFor >= Cooldown
    /\ Queued("Reconnect") => openFor >= Cooldown

LEMMA LoopIsSingle ==
  ASSUME TypeOK, ~forced => Loop
  PROVE  SingleReconnectLoop
<1> SUFFICES ASSUME phase = "running", ~forced
             PROVE  CountPending("Reconnect") = (IF state = "Connected" THEN 0 ELSE 1)
  BY DEF SingleReconnectLoop
<1> DEFINE Q == {i \in DOMAIN mailbox : mailbox[i] = "Reconnect"}
<1>1. IsFiniteSet(Delays)
  <2>1. 0 \in Int /\ MaxBackoff + Cooldown + HealthInterval \in Int
    BY ConfigAssumption
  <2> QED
    BY <2>1, FS_Interval DEF Delays
<1>2. NoneAsleep => SumFunction(timers["Reconnect"]) = 0
  <2>1. -1 \notin Delays
    BY DEF Delays
  <2>2. One(Delays, -1) = [x \in Delays |-> 0]
    BY <2>1 DEF One
  <2> QED
    BY <1>1, <2>1, <2>2, SumOfOne DEF NoneAsleep
<1>3. \A d \in Delays : AsleepAt(d) => SumFunction(timers["Reconnect"]) = 1
  BY <1>1, SumOfOne DEF AsleepAt
<1>4. ~Queued("Reconnect") => Cardinality(Q) = 0
  <2>1. ~Queued("Reconnect") => Q = {}
    BY DEF Queued
  <2> QED
    BY <2>1, FS_EmptySet
<1>5. (\E i \in DOMAIN mailbox : QueuedAt(i)) => Cardinality(Q) = 1
  <2>1. ASSUME NEW i \in DOMAIN mailbox, QueuedAt(i) PROVE Q = {i}
    BY <2>1 DEF QueuedAt
  <2> QED
    BY <2>1, FS_Singleton
<1>6. CountPending("Reconnect") = SumFunction(timers["Reconnect"]) + Cardinality(Q)
  BY DEF CountPending
<1> HIDE DEF Q
<1> QED
  BY <1>2, <1>3, <1>4, <1>5, <1>6 DEF Loop, NoLoop, OneLoop

\* What sleeps after a Reconnect or a health check is scheduled.
LEMMA SleepStarts ==
  ASSUME TypeOK, NEW d \in Delays
  PROVE  /\ NoneAsleep /\ SleepThenSend("Reconnect", d) => AsleepAt(d)'
         /\ SleepThenSend("PerformHealthCheck", d) => timers'["Reconnect"] = timers["Reconnect"]
BY DEF TypeOK, NoneAsleep, AsleepAt, SleepThenSend, TimerMsg, One

LEMMA ConnectLoops ==
  ASSUME TypeOK, NoneAsleep, NEW f, NEW o, ConnectOrRetry(f, o)
  PROVE  \/ state' = "Connected" /\ NoneAsleep'
         \/ state' = "Reconnecting" /\ \E d \in Delays : AsleepAt(d)'
<1>1. CASE ConnectSucceeds
  <2>1. state' = "Connected" /\ ScheduleHealthCheck
    BY <1>1 DEF ConnectSucceeds
  <2>2. timers'["Reconnect"] = timers["Reconnect"]
    BY <2>1, SleepStarts, DelaysHold DEF ScheduleHealthCheck
  <2> QED
    BY <2>1, <2>2 DEF NoneAsleep
<1>2. ASSUME NEW n, ScheduleReconnect(n)
      PROVE  state' = "Reconnecting" /\ \E d \in Delays : AsleepAt(d)'
  BY <1>2, SleepStarts, DelaysHold DEF ScheduleReconnect
<1> QED
  BY <1>1, <1>2 DEF ConnectOrRetry

\* Taking the head of the mailbox.
LEMMA ReceiveLoops ==
  ASSUME TypeOK, NEW m, Receive(m)
  PROVE  /\ ~Queued("Reconnect") => ~Queued("Reconnect")'
         /\ m # "Reconnect" /\ (\E i \in DOMAIN mailbox : QueuedAt(i))
              => (\E i \in DOMAIN mailbox : QueuedAt(i))'
         /\ m = "Reconnect" => Queued("Reconnect")
         /\ m = "Reconnect" /\ (\E i \in DOMAIN mailbox : QueuedAt(i)) => ~Queued("Reconnect")'
<1>1. mailbox \in Seq(TimerMsg \cup Requests) /\ mailbox # <<>> /\ m = mailbox[1]
  BY DEF TypeOK, Receive
<1>2. /\ Len(mailbox) \in Nat /\ DOMAIN mailbox = 1 .. Len(mailbox) /\ 1 \in DOMAIN mailbox
      /\ DOMAIN mailbox' = 1 .. Len(mailbox) - 1
      /\ \A j \in 1 .. Len(mailbox) - 1 : mailbox'[j] = mailbox[j + 1] /\ j + 1 \in DOMAIN mailbox
  BY <1>1 DEF Receive
<1>3. ~Queued("Reconnect") => ~Queued("Reconnect")'
  BY <1>2 DEF Queued
<1>4. m = "Reconnect" => Queued("Reconnect")
  BY <1>1, <1>2 DEF Queued
<1>5. ASSUME NEW i \in DOMAIN mailbox, QueuedAt(i), m # "Reconnect"
      PROVE  \E k \in DOMAIN mailbox' : QueuedAt(k)'
  <2>1. i # 1 /\ i - 1 \in DOMAIN mailbox'
    BY <1>1, <1>2, <1>5 DEF QueuedAt
  <2>2. \A j \in DOMAIN mailbox' : mailbox'[j] = "Reconnect" <=> j = i - 1
    <3> SUFFICES ASSUME NEW j \in 1 .. Len(mailbox) - 1
                 PROVE  mailbox'[j] = "Reconnect" <=> j = i - 1
      BY <1>2
    <3>1. mailbox'[j] = mailbox[j + 1] /\ j + 1 \in DOMAIN mailbox
      BY <1>2
    <3>2. mailbox[j + 1] = "Reconnect" <=> j + 1 = i
      BY <1>5, <3>1 DEF QueuedAt
    <3>3. i \in Nat /\ j \in Nat
      BY <1>2
    <3>4. j + 1 = i <=> j = i - 1
      BY <3>3
    <3> QED
      BY <3>1, <3>2, <3>4
  <2> QED
    BY <2>1, <2>2 DEF QueuedAt
<1>6. ASSUME NEW i \in DOMAIN mailbox, QueuedAt(i), m = "Reconnect"
      PROVE  ~Queued("Reconnect")'
  <2>1. i = 1
    BY <1>1, <1>2, <1>6 DEF QueuedAt
  <2> QED
    BY <1>2, <1>6, <2>1 DEF QueuedAt, Queued
<1> QED
  BY <1>3, <1>4, <1>5, <1>6

\* Adding to it.
LEMMA AppendLoops ==
  ASSUME TypeOK, NEW m \in TimerMsg \cup Requests, mailbox' = Append(mailbox, m)
  PROVE  /\ m # "Reconnect" /\ ~Queued("Reconnect") => ~Queued("Reconnect")'
         /\ m # "Reconnect" /\ (\E i \in DOMAIN mailbox : QueuedAt(i))
              => (\E i \in DOMAIN mailbox : QueuedAt(i))'
         /\ m = "Reconnect" /\ ~Queued("Reconnect") => (\E i \in DOMAIN mailbox : QueuedAt(i))'
<1>1. mailbox \in Seq(TimerMsg \cup Requests)
  BY DEF TypeOK
<1>2. /\ Len(mailbox) \in Nat /\ DOMAIN mailbox = 1 .. Len(mailbox)
      /\ DOMAIN mailbox' = 1 .. Len(mailbox) + 1
      /\ mailbox'[Len(mailbox) + 1] = m
      /\ \A j \in 1 .. Len(mailbox) : mailbox'[j] = mailbox[j]
  BY <1>1
<1>3. m # "Reconnect" /\ ~Queued("Reconnect") => ~Queued("Reconnect")'
  BY <1>2 DEF Queued
<1>4. ASSUME NEW i \in DOMAIN mailbox, QueuedAt(i), m # "Reconnect"
      PROVE  \E k \in DOMAIN mailbox' : QueuedAt(k)'
  <2>1. i \in DOMAIN mailbox' /\ \A j \in DOMAIN mailbox' : mailbox'[j] = "Reconnect" <=> j = i
    BY <1>2, <1>4 DEF QueuedAt
  <2> QED
    BY <2>1 DEF QueuedAt
<1>5. ASSUME m = "Reconnect", ~Queued("Reconnect")
      PROVE  \E k \in DOMAIN mailbox' : QueuedAt(k)'
  <2>1. /\ Len(mailbox) + 1 \in DOMAIN mailbox'
        /\ \A j \in DOMAIN mailbox' : mailbox'[j] = "Reconnect" <=> j = Len(mailbox) + 1
    BY <1>2, <1>5 DEF Queued
  <2> QED
    BY <2>1 DEF QueuedAt
<1> QED
  BY <1>3, <1>4, <1>5

\* A tick brings what sleeps nearer, and what is due stays due.
LEMMA TickLoops ==
  ASSUME TypeOK, Tick
  PROVE  /\ NoneAsleep => NoneAsleep'
         /\ \A d \in Delays : AsleepAt(d) => AsleepAt(IF d = 0 THEN 0 ELSE d - 1)'
<1> DEFINE M == MaxBackoff + Cooldown + HealthInterval
<1>1. M \in Nat /\ Delays = 0 .. M
  BY ConfigAssumption DEF Delays
<1>2. timers'["Reconnect"] =
        [d \in Delays |-> (IF d + 1 \in Delays THEN timers["Reconnect"][d + 1] ELSE 0)
                          + (IF d = 0 THEN timers["Reconnect"][0] ELSE 0)]
  BY DEF Tick, TimerMsg
<1>3. 0 \in Delays
  BY <1>1
<1>4. NoneAsleep => NoneAsleep'
  <2> SUFFICES ASSUME NoneAsleep PROVE timers'["Reconnect"] = [d \in Delays |-> 0]
    BY DEF NoneAsleep
  <2>1. \A d \in Delays : timers["Reconnect"][d] = 0
    BY DEF NoneAsleep
  <2> QED
    BY <1>2, <1>3, <2>1
<1>5. ASSUME NEW d \in Delays, AsleepAt(d)
      PROVE  AsleepAt(IF d = 0 THEN 0 ELSE d - 1)'
  <2> DEFINE e == IF d = 0 THEN 0 ELSE d - 1
  <2>1. \A x \in Delays : timers["Reconnect"][x] = IF x = d THEN 1 ELSE 0
    BY <1>5 DEF AsleepAt, One
  <2>2. \A x \in Delays : timers'["Reconnect"][x] = IF x = e THEN 1 ELSE 0
    <3> SUFFICES ASSUME NEW x \in Delays
                 PROVE  timers'["Reconnect"][x] = IF x = e THEN 1 ELSE 0
      OBVIOUS
    <3>1. timers'["Reconnect"][x] =
            (IF x + 1 \in Delays THEN timers["Reconnect"][x + 1] ELSE 0)
            + (IF x = 0 THEN timers["Reconnect"][0] ELSE 0)
      BY <1>2
    <3>2. (IF x + 1 \in Delays THEN timers["Reconnect"][x + 1] ELSE 0) = IF x + 1 = d THEN 1 ELSE 0
      BY <2>1
    <3>3. (IF x = 0 THEN timers["Reconnect"][0] ELSE 0) = IF x = 0 /\ d = 0 THEN 1 ELSE 0
      BY <1>3, <2>1
    <3> QED
      BY <1>1, <3>1, <3>2, <3>3
  <2>3. timers'["Reconnect"] = [x \in Delays |-> IF x = e THEN 1 ELSE 0]
    BY <1>2, <2>2
  <2> QED
    BY <2>3 DEF AsleepAt, One
<1> QED
  BY <1>4, <1>5

\* A Reconnect that fires moves from the timers to the mailbox.
LEMMA FireLoops ==
  ASSUME TypeOK, NEW m \in TimerMsg, TimerFires(m)
  PROVE  /\ m = "Reconnect" => /\ ~NoneAsleep
                               /\ \A d \in Delays : AsleepAt(d) => d = 0 /\ NoneAsleep'
         /\ m # "Reconnect" => timers'["Reconnect"] = timers["Reconnect"]
<1>1. 0 \in Delays /\ timers[m][0] > 0 /\ timers' = [timers EXCEPT ![m][0] = @ - 1]
  BY DelaysHold DEF TimerFires
<1>2. ASSUME m = "Reconnect", NEW d \in Delays, AsleepAt(d) PROVE d = 0 /\ NoneAsleep'
  <2>1. d = 0
    BY <1>1, <1>2 DEF AsleepAt, One
  <2>2. timers'["Reconnect"] = [One(Delays, 0) EXCEPT ![0] = @ - 1]
    <3>1. timers["Reconnect"] = One(Delays, 0)
      BY <1>2, <2>1 DEF AsleepAt
    <3>2. timers'["Reconnect"] = [timers["Reconnect"] EXCEPT ![0] = @ - 1]
      BY <1>1, <1>2 DEF TypeOK, TimerMsg
    <3> QED
      BY <3>1, <3>2
  <2>3. [One(Delays, 0) EXCEPT ![0] = @ - 1] = [x \in Delays |-> 0]
    <3> DEFINE z == [One(Delays, 0) EXCEPT ![0] = @ - 1]
    <3>1. One(Delays, 0)[0] = 1 /\ \A x \in Delays : x # 0 => One(Delays, 0)[x] = 0
      BY <1>1 DEF One
    <3>2. z = [x \in Delays |-> IF x = 0 THEN One(Delays, 0)[0] - 1 ELSE One(Delays, 0)[x]]
      BY <1>1 DEF One
    <3> QED
      BY <3>1, <3>2
  <2> QED
    BY <2>1, <2>2, <2>3 DEF NoneAsleep
<1>3. m = "Reconnect" => ~NoneAsleep
  BY <1>1 DEF NoneAsleep
<1>4. m # "Reconnect" => timers'["Reconnect"] = timers["Reconnect"]
  BY <1>1 DEF TypeOK, TimerMsg
<1> QED
  BY <1>2, <1>3, <1>4

LEMMA LoopStep ==
  ASSUME Inv, Loop, [Next]_vars, ~forced'
  PROVE  Loop'
<1>a. TypeOK /\ "Reconnect" \in TimerMsg /\ "Reconnect" \notin Requests
  BY ConfigAssumption DEF Inv, TimerMsg, RequestMsg
<1>b. ~ForceReconnect
  BY <1>a, ForcedStep
<1>c. ASSUME NEW m, Receive(m), m # "Reconnect", UNCHANGED <<phase, state>>,
             timers'["Reconnect"] = timers["Reconnect"]
      PROVE  Loop'
  <2>1. ~Queued("Reconnect") => ~Queued("Reconnect")'
    BY <1>a, <1>c, ReceiveLoops
  <2>2. (\E i \in DOMAIN mailbox : QueuedAt(i)) => (\E i \in DOMAIN mailbox : QueuedAt(i))'
    BY <1>a, <1>c, ReceiveLoops
  <2>3. (NoneAsleep => NoneAsleep') /\ \A d \in Delays : AsleepAt(d) => AsleepAt(d)'
    BY <1>c DEF NoneAsleep, AsleepAt
  <2>4. phase = "running" /\ UNCHANGED <<phase, state>>
    BY <1>c DEF Receive
  <2> QED
    BY <2>1, <2>2, <2>3, <2>4 DEF Loop, NoLoop, OneLoop
<1>1. CASE Start
  <2>1. /\ phase' = "running" /\ mailbox' = mailbox
        /\ ConnectOrRetry(failures, openFor) /\ NoLoop
    BY <1>1 DEF Start, Loop
  <2>2. ~Queued("Reconnect")'
    BY <2>1 DEF NoLoop, Queued
  <2> QED
    BY <1>a, <2>1, <2>2, ConnectLoops DEF Loop, NoLoop, OneLoop
<1>2. CASE CallRejected \/ CallSucceeds \/ Query
  <2>1. PICK m \in {"CallTool", "Query"} : Receive(m)
    BY <1>2 DEF CallRejected, CallSucceeds, Query
  <2>2. UNCHANGED <<phase, state, timers>>
    BY <1>2 DEF CallRejected, CallSucceeds, Query
  <2> QED
    BY <1>c, <2>1, <2>2
<1>3. ASSUME NEW m, Receive(m), m # "Reconnect", OpenCircuit \/ ScheduleReconnect(attempts),
             state = "Connected", phase' = phase
      PROVE  Loop'
  <2>1. NoLoop /\ phase = "running"
    BY <1>3 DEF Loop, Receive
  <2>2. ~Queued("Reconnect")'
    BY <1>a, <1>3, <2>1, ReceiveLoops DEF NoLoop
  <2>3. state' # "Connected" /\ \E d \in Delays : AsleepAt(d)'
    BY <1>a, <1>3, <2>1, SleepStarts, DelaysHold DEF NoLoop, OpenCircuit, ScheduleReconnect
  <2> QED
    BY <1>3, <2>1, <2>2, <2>3 DEF Loop, OneLoop
<1>4. CASE CallFails
  <2>1. Receive("CallTool") /\ phase' = phase
    BY <1>4 DEF CallFails
  <2>2. CASE OpensNow
    <3>1. state = "Connected"
      BY <1>4, <2>2 DEF CallFails, Admitted, OpensNow, ShouldAttemptClose
    <3> QED
      BY <1>3, <1>4, <2>1, <2>2, <3>1 DEF CallFails
  <2>3. CASE ~OpensNow
    BY <1>c, <1>4, <2>1, <2>3 DEF CallFails
  <2> QED
    BY <2>2, <2>3
<1>5. CASE HealthCheckFails
  BY <1>3, <1>5 DEF HealthCheckFails
<1>6. CASE HealthCheckPasses \/ HealthCheckSkipped
  <2>1. Receive("PerformHealthCheck") /\ UNCHANGED <<phase, state>>
    BY <1>6 DEF HealthCheckPasses, HealthCheckSkipped
  <2>2. timers'["Reconnect"] = timers["Reconnect"]
    BY <1>a, <1>6, SleepStarts, DelaysHold
       DEF HealthCheckPasses, HealthCheckSkipped, ScheduleHealthCheck
  <2> QED
    BY <1>c, <2>1, <2>2
<1>7. CASE ReconnectIgnored
  <2>1. Receive("Reconnect") /\ state = "Connected" /\ phase = "running"
    BY <1>7 DEF ReconnectIgnored, Receive
  <2> QED
    BY <1>a, <2>1, ReceiveLoops DEF Loop, NoLoop
<1>8. CASE Reconnect
  <2>1. Receive("Reconnect") /\ state # "Connected" /\ phase = "running" /\ phase' = phase
    BY <1>8 DEF Reconnect, Receive
  <2>2. NoneAsleep /\ ~Queued("Reconnect")'
    BY <1>a, <2>1, ReceiveLoops DEF Loop, OneLoop
  <2>3. PICK f, o : ConnectOrRetry(f, o)
    BY <1>8 DEF Reconnect
  <2> QED
    BY <1>a, <2>1, <2>2, <2>3, ConnectLoops DEF Loop, NoLoop, OneLoop
<1>9. CASE Stop
  BY <1>9 DEF Stop, Loop
<1>10. CASE Tick
  <2>1. UNCHANGED <<phase, state, mailbox>>
    BY <1>10 DEF Tick
  <2>2. (NoneAsleep => NoneAsleep') /\ ((\E d \in Delays : AsleepAt(d)) => \E d \in Delays : AsleepAt(d)')
    <3>1. \A d \in Delays : (IF d = 0 THEN 0 ELSE d - 1) \in Delays
      BY ConfigAssumption DEF Delays
    <3> QED
      BY <1>a, <1>10, <3>1, TickLoops
  <2> QED
    BY <2>1, <2>2 DEF Loop, NoLoop, OneLoop, Queued, QueuedAt
<1>11. ASSUME NEW m \in TimerMsg, TimerFires(m) PROVE Loop'
  <2>1. UNCHANGED <<phase, state>> /\ mailbox' = Append(mailbox, m) /\ m \in TimerMsg \cup Requests
    BY <1>11 DEF TimerFires
  <2>2. CASE m = "Reconnect"
    <3>1. ~NoneAsleep /\ \A d \in Delays : AsleepAt(d) => NoneAsleep'
      BY <1>a, <1>11, <2>2, FireLoops
    <3>2. ~Queued("Reconnect") => (\E i \in DOMAIN mailbox : QueuedAt(i))'
      BY <1>a, <2>1, <2>2, AppendLoops
    <3> QED
      BY <2>1, <3>1, <3>2 DEF Loop, NoLoop, OneLoop
  <2>3. CASE m # "Reconnect"
    <3>1. timers'["Reconnect"] = timers["Reconnect"]
      BY <1>a, <1>11, <2>3, FireLoops
    <3>2. (NoneAsleep => NoneAsleep') /\ \A d \in Delays : AsleepAt(d) => AsleepAt(d)'
      BY <3>1 DEF NoneAsleep, AsleepAt
    <3>3. /\ ~Queued("Reconnect") => ~Queued("Reconnect")'
          /\ (\E i \in DOMAIN mailbox : QueuedAt(i)) => (\E i \in DOMAIN mailbox : QueuedAt(i))'
      BY <1>a, <2>1, <2>3, AppendLoops
    <3> QED
      BY <2>1, <3>2, <3>3 DEF Loop, NoLoop, OneLoop
  <2> QED
    BY <2>2, <2>3
<1>12. ASSUME NEW m \in Requests, Send(m) PROVE Loop'
  <2>1. /\ UNCHANGED <<phase, state, timers>> /\ mailbox' = Append(mailbox, m)
        /\ m # "Reconnect" /\ m \in TimerMsg \cup Requests
    BY <1>a, <1>12 DEF Send
  <2>2. /\ ~Queued("Reconnect") => ~Queued("Reconnect")'
        /\ (\E i \in DOMAIN mailbox : QueuedAt(i)) => (\E i \in DOMAIN mailbox : QueuedAt(i))'
    BY <1>a, <2>1, AppendLoops
  <2> QED
    BY <2>1, <2>2 DEF Loop, NoLoop, OneLoop, NoneAsleep, AsleepAt
<1>13. CASE ServerChanges \/ UNCHANGED vars
  <2>1. UNCHANGED <<phase, state, timers, mailbox>>
    BY <1>13 DEF ServerChanges, vars
  <2> QED
    BY <2>1 DEF Loop, NoLoop, OneLoop, NoneAsleep, AsleepAt, Queued, QueuedAt
<1> QED
  BY <1>b, <1>1, <1>2, <1>4, <1>5, <1>6, <1>7, <1>8, <1>9, <1>10, <1>11, <1>12, <1>13
     DEF Next, Handle

LEMMA LoopInit == Init => Loop
BY DEF Init, NoTimers, TimerMsg, Loop, NoLoop, NoneAsleep, Queued

\* What forced reconnects end.
LoopHolds == ~forced => Loop
CooledHolds == ~forced => Cooled

LEMMA LoopInvariance == Spec => []LoopHolds
<1>1. Init => LoopHolds
  BY LoopInit DEF LoopHolds
<1>2. Inv /\ LoopHolds /\ [Next]_vars => LoopHolds'
  BY LoopStep, ForcedStep DEF Inv, LoopHolds
<1> QED
  BY <1>1, <1>2, SpecInv, PTL DEF Spec

\* Until an operator forces a reconnect there is one reconnect loop: exactly
\* one Reconnect is under way when the backend is not connected, none when it
\* is, whatever sleeps, fires, fails and is answered in between.
THEOREM OneReconnectLoop == Spec => []SingleReconnectLoop
<1>1. Inv /\ LoopHolds => SingleReconnectLoop
  BY LoopIsSingle DEF Inv, LoopHolds
<1> QED
  BY <1>1, LoopInvariance, SpecInv, PTL
-----------------------------------------------------------------------------
(* The cooldown.                                                           *)

\* While the circuit is open only a Reconnect ends it, and the one under way
\* was put to sleep for the cooldown when it opened.
LEMMA CooledStep ==
  ASSUME Inv, Loop, Cooled, [Next]_vars, ~forced'
  PROVE  Cooled'
<1> SUFFICES ASSUME phase' = "running", state' = "CircuitOpen", IsOpen'
             PROVE  /\ \A d \in Delays : AsleepAt(d)' => d + openFor' >= Cooldown
                    /\ Queued("Reconnect")' => openFor' >= Cooldown
  BY DEF Cooled
<1>a. /\ TypeOK /\ Cooldown \in Nat /\ openFor \in {NotOpen} \cup 0 .. Cooldown
      /\ "Reconnect" \in TimerMsg /\ "Reconnect" \notin Requests
  BY ConfigAssumption DEF Inv, TypeOK, TimerMsg, RequestMsg
<1>b. ~ForceReconnect
  BY <1>a, ForcedStep
<1>c. ASSUME timers'["Reconnect"] = timers["Reconnect"], openFor' = openFor,
             phase = "running", state = "CircuitOpen",
             Queued("Reconnect")' => Queued("Reconnect")
      PROVE  /\ \A d \in Delays : AsleepAt(d)' => d + openFor' >= Cooldown
             /\ Queued("Reconnect")' => openFor' >= Cooldown
  BY <1>c DEF Cooled, AsleepAt, IsOpen
<1>1. ~Start /\ ~Reconnect /\ ~Stop
  BY DEF Start, Reconnect, Stop, ConnectOrRetry, ConnectSucceeds, ScheduleReconnect
<1>2. CASE CallRejected \/ Query \/ ReconnectIgnored \/ HealthCheckSkipped
  <2>1. PICK m : Receive(m) /\ UNCHANGED <<phase, state, timers, openFor>>
    BY <1>2 DEF CallRejected, Query, ReconnectIgnored, HealthCheckSkipped, breaker
  <2>2. Queued("Reconnect")' => Queued("Reconnect")
    BY <1>a, <2>1, ReceiveLoops
  <2>3. phase = "running" /\ state = "CircuitOpen"
    BY <2>1
  <2> QED
    BY <1>c, <2>1, <2>2, <2>3
<1>3. ~CallSucceeds /\ ~HealthCheckPasses
  BY DEF CallSucceeds, ResetBreaker, HealthCheckPasses, IsOpen
<1>4. CASE CallFails \/ HealthCheckFails
  <2>1. PICK m : Receive(m) /\ m \in {"CallTool", "PerformHealthCheck"}
    BY <1>4 DEF CallFails, HealthCheckFails
  <2>2. Queued("Reconnect")' => Queued("Reconnect")
    BY <1>a, <2>1, ReceiveLoops
  <2>3. phase = "running"
    BY <2>1 DEF Receive
  <2>4. CASE OpenCircuit /\ state = "Connected"
    <3>1. NoLoop
      BY <2>3, <2>4 DEF Loop
    <3>2. AsleepAt(Cooldown)' /\ openFor' = 0
      BY <1>a, <2>4, <3>1, SleepStarts, DelaysHold DEF NoLoop, OpenCircuit
    <3>3. \A d \in Delays : AsleepAt(d)' => d = Cooldown
      BY <3>2, DelaysHold DEF AsleepAt, One
    <3> QED
      BY <1>a, <2>2, <3>1, <3>2, <3>3 DEF NoLoop
  <2>5. CASE ~(OpenCircuit /\ state = "Connected")
    <3>1. ~HealthCheckFails
      BY <2>5 DEF HealthCheckFails, ScheduleReconnect
    <3>2. CallFails
      BY <1>4, <3>1
    <3>3. ~OpensNow
      BY <2>5, <3>2 DEF CallFails, OpensNow, Admitted, ShouldAttemptClose
    <3>4. UNCHANGED <<state, openFor, timers>>
      BY <3>2, <3>3 DEF CallFails
    <3> QED
      BY <1>c, <2>2, <2>3, <3>4
  <2> QED
    BY <2>4, <2>5
<1>5. CASE Tick
  <2>1. /\ UNCHANGED <<phase, state, mailbox>> /\ IsOpen
        /\ openFor' = IF openFor < Cooldown THEN openFor + 1 ELSE openFor
    BY <1>a, <1>5 DEF Tick, IsOpen
  <2>2. openFor \in Nat /\ openFor' \in Nat
    BY <1>a, <2>1 DEF IsOpen
  <2>3. ASSUME NEW d \in Delays, AsleepAt(d)' PROVE d + openFor' >= Cooldown
    <3>1. ~NoneAsleep'
      BY <2>3 DEF AsleepAt, NoneAsleep, One
    <3>2. ~NoneAsleep
      BY <1>a, <1>5, <3>1, TickLoops
    <3>3. OneLoop
      BY <2>1 DEF Loop
    <3>4. PICK e \in Delays : AsleepAt(e)
      BY <3>2, <3>3 DEF OneLoop
    <3>5. AsleepAt(IF e = 0 THEN 0 ELSE e - 1)'
      BY <1>a, <1>5, <3>4, TickLoops
    <3>6. d = IF e = 0 THEN 0 ELSE e - 1
      BY <2>3, <3>5 DEF AsleepAt, One
    <3>7. e + openFor >= Cooldown
      BY <2>1, <3>4 DEF Cooled
    <3>8. e \in Nat
      BY <1>a DEF Delays
    <3> QED
      BY <1>a, <2>1, <2>2, <3>6, <3>7, <3>8
  <2>4. Queued("Reconnect")' => openFor' >= Cooldown
    BY <1>a, <2>1, <2>2 DEF Cooled, Queued
  <2> QED
    BY <2>3, <2>4
<1>6. ASSUME NEW m \in TimerMsg, TimerFires(m)
      PROVE  /\ \A d \in Delays : AsleepAt(d)' => d + openFor' >= Cooldown
             /\ Queued("Reconnect")' => openFor' >= Cooldown
  <2>1. /\ UNCHANGED <<phase, state, openFor>> /\ mailbox' = Append(mailbox, m)
        /\ m \in TimerMsg \cup Requests /\ IsOpen
    BY <1>6 DEF TimerFires, breaker, IsOpen
  <2>2. CASE m # "Reconnect"
    <3>1. timers'["Reconnect"] = timers["Reconnect"]
      BY <1>a, <1>6, <2>2, FireLoops
    <3>2. Queued("Reconnect")' => Queued("Reconnect")
      BY <1>a, <2>1, <2>2, AppendLoops
    <3> QED
      BY <1>c, <2>1, <3>1, <3>2
  <2>3. CASE m = "Reconnect"
    <3>1. OneLoop /\ ~NoneAsleep
      BY <1>a, <1>6, <2>1, <2>3, FireLoops DEF Loop
    <3>2. PICK d \in Delays : AsleepAt(d)
      BY <3>1 DEF OneLoop
    <3>3. d = 0 /\ NoneAsleep'
      BY <1>a, <1>6, <2>3, <3>2, FireLoops
    <3>4. 0 + openFor >= Cooldown
      BY <2>1, <3>2, <3>3 DEF Cooled
    <3>5. \A e \in Delays : ~AsleepAt(e)'
      BY <3>3 DEF AsleepAt, NoneAsleep, One
    <3>6. openFor \in Nat
      BY <1>a, <2>1 DEF IsOpen
    <3> QED
      BY <1>a, <2>1, <3>4, <3>5, <3>6
  <2> QED
    BY <2>2, <2>3
<1>7. ASSUME NEW m \in Requests, Send(m)
      PROVE  /\ \A d \in Delays : AsleepAt(d)' => d + openFor' >= Cooldown
             /\ Queued("Reconnect")' => openFor' >= Cooldown
  <2>1. /\ UNCHANGED <<phase, state, timers, openFor>> /\ mailbox' = Append(mailbox, m)
        /\ m # "Reconnect" /\ m \in TimerMsg \cup Requests
    BY <1>a, <1>7 DEF Send, breaker
  <2>2. Queued("Reconnect")' => Queued("Reconnect")
    BY <1>a, <2>1, AppendLoops
  <2> QED
    BY <1>c, <2>1, <2>2
<1>8. CASE ServerChanges \/ UNCHANGED vars
  <2>1. UNCHANGED <<phase, state, timers, openFor, mailbox>>
    BY <1>8 DEF ServerChanges, vars, breaker
  <2> QED
    BY <1>c, <2>1 DEF Queued
<1> QED
  BY <1>b, <1>1, <1>2, <1>3, <1>4, <1>5, <1>6, <1>7, <1>8 DEF Next, Handle

LEMMA CooledInit == Init => Cooled
BY DEF Init, Cooled

\* A step that ends CircuitOpen is the Reconnect under way.
LEMMA CooledLeaves ==
  ASSUME Inv, Loop, Cooled, [Next]_vars, ~forced',
         state = "CircuitOpen", state' # "CircuitOpen",
         Head(mailbox) # "Stop", IsOpen
  PROVE  openFor >= Cooldown
<1>1. ~Start
  BY DEF Start, Loop
<1>2. ~ForceReconnect /\ ~Stop
  BY ForcedStep DEF Inv, Stop, Receive
<1>3. ~(CallRejected \/ CallSucceeds \/ Query \/ ReconnectIgnored \/ HealthCheckSkipped
        \/ HealthCheckPasses \/ HealthCheckFails)
  BY DEF CallRejected, CallSucceeds, Query, ReconnectIgnored, HealthCheckSkipped,
         HealthCheckPasses, HealthCheckFails
<1>4. ~CallFails
  BY DEF CallFails, OpensNow, OpenCircuit
<1>5. ~(Tick \/ ServerChanges \/ (\E m \in TimerMsg : TimerFires(m)) \/ (\E m \in Requests : Send(m)))
  BY DEF Tick, ServerChanges, TimerFires, Send
<1>6. ~UNCHANGED vars
  BY DEF vars
<1>7. Reconnect
  BY <1>1, <1>2, <1>3, <1>4, <1>5, <1>6 DEF Next, Handle
<1>8. phase = "running" /\ Queued("Reconnect")
  BY <1>7, ReceiveLoops DEF Reconnect, Receive, Inv
<1> QED
  BY <1>8 DEF Cooled

\* Until an operator forces a reconnect, nothing but stopping the backend ends
\* an open circuit before the cooldown has passed.
THEOREM CooldownAlwaysRespected == Spec => CooldownRespected
<1> DEFINE A == /\ state = "CircuitOpen" /\ state' # "CircuitOpen"
                /\ Head(mailbox) # "Stop" /\ ~forced'
                /\ IsOpen
                => openFor >= Cooldown
<1>1. Init => CooledHolds
  BY CooledInit DEF CooledHolds
<1>2. Inv /\ LoopHolds /\ CooledHolds /\ [Next]_vars => CooledHolds'
  BY CooledStep, ForcedStep DEF Inv, LoopHolds, CooledHolds
<1>3. Inv /\ LoopHolds /\ CooledHolds /\ [Next]_vars => [A]_vars
  BY CooledLeaves, ForcedStep DEF Inv, LoopHolds, CooledHolds
<1>4. Spec => [][A]_vars
  BY <1>1, <1>2, <1>3, LoopInvariance, SpecInv, PTL DEF Spec
<1> QED
  BY <1>4 DEF CooldownRespected
-----------------------------------------------------------------------------
(* After on_stop, with or without operator requests.                       *)

Quiet == phase = "stopped" => timers = NoTimers /\ ~client

\* A stopped backend has no task asleep and no client, and never gets one
\* again: the part of StopTakesEffect that says what a stop leaves.
THEOREM StoppedStaysQuiet == Spec => []Quiet
<1>1. Init => Quiet
  BY DEF Init, Quiet
<1>2. Inv /\ Quiet /\ [Next]_vars => Quiet'
  <2> SUFFICES ASSUME Inv, Quiet, [Next]_vars, phase' = "stopped"
               PROVE  timers' = NoTimers /\ ~client'
    BY DEF Quiet
  <2>1. CASE Stop
    BY <2>1 DEF Stop
  <2>2. CASE Tick
    <3>1. timers = NoTimers /\ ~client /\ client' = client
      BY <2>2 DEF Tick, Quiet
    <3>2. \A m \in TimerMsg, d \in Delays : timers[m][d] = 0
      BY <3>1 DEF NoTimers
    <3>3. 0 \in Delays
      BY DelaysHold
    <3> QED
      BY <2>2, <3>1, <3>2, <3>3 DEF Tick, NoTimers
  <2>3. ASSUME NEW m \in TimerMsg, TimerFires(m) PROVE FALSE
    BY <2>3, DelaysHold DEF TimerFires, Quiet, NoTimers
  <2>4. CASE ServerChanges \/ UNCHANGED vars
    BY <2>4 DEF ServerChanges, vars, Quiet
  <2>5. \A m \in Requests : ~Send(m)
    BY DEF Send
  <2>6. ~Start
    BY DEF Start
  <2>7. ~(Handle /\ ~Stop)
    BY DEF Handle, CallRejected, CallSucceeds, CallFails, Query, ReconnectIgnored, Reconnect,
           HealthCheckPasses, HealthCheckFails, HealthCheckSkipped, ForceReconnect, Receive
  <2> QED
    BY <2>1, <2>2, <2>3, <2>4, <2>5, <2>6, <2>7 DEF Next
<1> QED
  BY <1>1, <1>2, SpecInv, PTL DEF Spec
=============================================================================
