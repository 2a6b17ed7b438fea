--------------------------- MODULE BackendProofs ---------------------------
(***************************************************************************)
(* Theorems about Backend for every configuration, every set of gateway    *)
(* requests and every server behaviour.                                    *)
(***************************************************************************)
EXTENDS Backend, TLAPS

TimersOK(t) == t \in [TimerMsg -> [Delays -> Nat]]

(* The delays the code sleeps for are all in Delays.                       *)
LEMMA DelaysHold ==
  /\ 0 \in Delays /\ Cooldown \in Delays /\ HealthInterval \in Delays
  /\ \A n : Backoff(n) \in Delays
BY ConfigAssumption DEF Delays, Backoff

(* Spawning a sleeping task keeps the timers well-formed, loses no other   *)
(* task, and leaves the new one asleep.                                    *)
LEMMA SleepAdds ==
  ASSUME TimersOK(timers), NEW m \in TimerMsg, NEW d \in Delays,
         SleepThenSend(m, d)
  PROVE  /\ TimersOK(timers')
         /\ Sleeping(m)'
         /\ \A k \in TimerMsg : Sleeping(k) => Sleeping(k)'
BY DEF TimersOK, SleepThenSend, Sleeping

(* A tick keeps every task asleep or due.                                  *)
LEMMA TickKeeps ==
  ASSUME TimersOK(timers), Tick
  PROVE  /\ TimersOK(timers')
         /\ \A k \in TimerMsg : Sleeping(k) => Sleeping(k)'
<1> DEFINE D == MaxBackoff + Cooldown + HealthInterval
<1>1. D \in Nat
  BY ConfigAssumption
<1>2. Delays = 0 .. D
  BY DEF Delays
<1>3. \A k \in TimerMsg, d \in Delays :
        timers'[k][d] = (IF d + 1 \in Delays THEN timers[k][d + 1] ELSE 0)
                        + (IF d = 0 THEN timers[k][0] ELSE 0)
  BY DEF Tick
<1>4. TimersOK(timers')
  <2>1. ASSUME NEW k \in TimerMsg, NEW d \in Delays
        PROVE  /\ (IF d + 1 \in Delays THEN timers[k][d + 1] ELSE 0) \in Nat
               /\ (IF d = 0 THEN timers[k][0] ELSE 0) \in Nat
    BY DEF TimersOK
  <2>2. \A k \in TimerMsg, d \in Delays : timers'[k][d] \in Nat
    BY <1>3, <2>1
  <2>3. timers' = [k \in TimerMsg |-> [d \in Delays |-> timers'[k][d]]]
    BY DEF Tick
  <2> QED
    BY <2>2, <2>3 DEF TimersOK
<1>5. ASSUME NEW k \in TimerMsg, Sleeping(k)
      PROVE  Sleeping(k)'
  <2>1. PICK d \in Delays : timers[k][d] > 0
    BY <1>5 DEF Sleeping
  <2>2. CASE d = 0
    <3>1. timers'[k][0] > 0
      BY <1>1, <1>2, <1>3, <2>1, <2>2 DEF TimersOK
    <3> QED
      BY <3>1, <2>1, <2>2 DEF Sleeping, Delays
  <2>3. CASE d # 0
    <3>1. d - 1 \in Delays /\ (d - 1) + 1 = d
      BY <1>1, <1>2, <2>3
    <3>2. timers'[k][d - 1] > 0
      BY <1>1, <1>2, <1>3, <2>1, <3>1 DEF TimersOK
    <3> QED
      BY <3>1, <3>2 DEF Sleeping, Delays
  <2> QED
    BY <2>2, <2>3
<1> QED
  BY <1>4, <1>5

(* Taking the head of a mailbox loses no other message.                    *)
LEMMA TailKeeps ==
  ASSUME NEW S, NEW s \in Seq(S), s # <<>>, NEW m, Head(s) # m,
         \E i \in DOMAIN s : s[i] = m
  PROVE  \E i \in DOMAIN Tail(s) : Tail(s)[i] = m
<1>1. PICK i \in DOMAIN s : s[i] = m
  OBVIOUS
<1>2. i # 1 /\ i \in 1 .. Len(s)
  BY <1>1
<1>3. i - 1 \in DOMAIN Tail(s) /\ Tail(s)[i - 1] = s[i]
  BY <1>2
<1> QED
  BY <1>1, <1>3

(* Appending to a mailbox loses nothing and adds the message.              *)
LEMMA AppendKeeps ==
  ASSUME NEW S, NEW s \in Seq(S), NEW x \in S
  PROVE  /\ Append(s, x) \in Seq(S)
         /\ \E i \in DOMAIN Append(s, x) : Append(s, x)[i] = x
         /\ \A m : (\E i \in DOMAIN s : s[i] = m)
                    => \E i \in DOMAIN Append(s, x) : Append(s, x)[i] = m
<1>1. Append(s, x) \in Seq(S) /\ Len(Append(s, x)) = Len(s) + 1
  OBVIOUS
<1>2. Append(s, x)[Len(s) + 1] = x /\ Len(s) + 1 \in DOMAIN Append(s, x)
  BY <1>1
<1>3. \A i \in DOMAIN s : i \in DOMAIN Append(s, x) /\ Append(s, x)[i] = s[i]
  BY <1>1
<1> QED
  BY <1>1, <1>2, <1>3
-----------------------------------------------------------------------------
(* The fields a handler writes, and the types they must keep.              *)
ActorTyped ==
  /\ state \in States /\ client \in BOOLEAN
  /\ attempts \in 0 .. MaxAttempts /\ failures \in 0 .. FailureBound
  /\ openFor \in {NotOpen} \cup 0 .. Cooldown
  /\ TimersOK(timers)
  /\ told \in [state : States, tools : BOOLEAN]

(* What connect() and its error path leave, whatever the server does: a    *)
(* fresh connection, or a retry asleep and announced.                      *)
LEMMA RetryOutcome ==
  ASSUME TypeOK, NEW n \in 0 .. MaxAttempts, ScheduleReconnect(n)
  PROVE  /\ state' = "Reconnecting" /\ Sleeping("Reconnect")'
         /\ attempts' \in 0 .. MaxAttempts
         /\ TimersOK(timers')
         /\ told' = [state |-> "Reconnecting", tools |-> FALSE]
<1>1. TimersOK(timers') /\ Sleeping("Reconnect")'
  BY SleepAdds, DelaysHold DEF TypeOK, TimersOK, ScheduleReconnect, TimerMsg
<1>2. attempts' \in 0 .. MaxAttempts
  BY ConfigAssumption DEF ScheduleReconnect
<1> QED
  BY <1>1, <1>2 DEF ScheduleReconnect, Tell

LEMMA ConnectOutcome ==
  ASSUME TypeOK, ConnectSucceeds
  PROVE  /\ ActorTyped'
         /\ state' = "Connected" /\ client' = TRUE
         /\ failures' = 0 /\ openFor' = NotOpen
         /\ told' = [state |-> "Connected", tools |-> TRUE]
<1>1. TimersOK(timers')
  <2>1. CASE HealthInterval = 0
    BY <2>1 DEF TypeOK, TimersOK, ConnectSucceeds, ScheduleHealthCheck
  <2>2. CASE HealthInterval # 0
    BY <2>2, SleepAdds, DelaysHold
       DEF TypeOK, TimersOK, ConnectSucceeds, ScheduleHealthCheck, TimerMsg
  <2> QED
    BY <2>1, <2>2
<1>2. /\ state' = "Connected" /\ client' = TRUE /\ attempts' = 0
      /\ failures' = 0 /\ openFor' = NotOpen
      /\ told' = [state |-> "Connected", tools |-> TRUE]
  BY DEF ConnectSucceeds, ResetBreaker, Tell
<1> QED
  BY <1>1, <1>2, ConfigAssumption, BoundAssumption DEF ActorTyped, States

LEMMA ConnectOrRetryOutcome ==
  ASSUME TypeOK, NEW f \in 0 .. FailureBound,
         NEW o \in {NotOpen} \cup 0 .. Cooldown, ConnectOrRetry(f, o)
  PROVE  /\ ActorTyped'
         /\ \/ /\ state' = "Connected" /\ client' = TRUE
               /\ failures' = 0 /\ openFor' = NotOpen
               /\ told' = [state |-> "Connected", tools |-> TRUE]
            \/ /\ state' = "Reconnecting" /\ Sleeping("Reconnect")'
               /\ told' = [state |-> "Reconnecting", tools |-> FALSE]
<1>1. CASE ConnectSucceeds
  BY <1>1, ConnectOutcome
<1>2. ASSUME server = "partial", client' = TRUE, ResetBreaker, ScheduleReconnect(0)
      PROVE  ActorTyped' /\ state' = "Reconnecting" /\ Sleeping("Reconnect")'
             /\ told' = [state |-> "Reconnecting", tools |-> FALSE]
  <2>1. 0 \in 0 .. MaxAttempts /\ 0 \in 0 .. FailureBound
    BY ConfigAssumption, BoundAssumption
  <2>2. /\ state' = "Reconnecting" /\ Sleeping("Reconnect")'
        /\ attempts' \in 0 .. MaxAttempts /\ TimersOK(timers')
        /\ told' = [state |-> "Reconnecting", tools |-> FALSE]
    BY <1>2, <2>1, RetryOutcome
  <2> QED
    BY <1>2, <2>1, <2>2 DEF ActorTyped, ResetBreaker, States
<1>3. ASSUME server = "down", client' = FALSE, failures' = f, openFor' = o,
             ScheduleReconnect(attempts)
      PROVE  ActorTyped' /\ state' = "Reconnecting" /\ Sleeping("Reconnect")'
             /\ told' = [state |-> "Reconnecting", tools |-> FALSE]
  <2>1. attempts \in 0 .. MaxAttempts
    BY DEF TypeOK
  <2>2. /\ state' = "Reconnecting" /\ Sleeping("Reconnect")'
        /\ attempts' \in 0 .. MaxAttempts /\ TimersOK(timers')
        /\ told' = [state |-> "Reconnecting", tools |-> FALSE]
    BY <1>3, <2>1, RetryOutcome
  <2> QED
    BY <1>3, <2>2 DEF ActorTyped, States
<1> QED
  BY <1>1, <1>2, <1>3 DEF ConnectOrRetry

LEMMA OpenCircuitOutcome ==
  ASSUME TypeOK, OpenCircuit
  PROVE  /\ failures' \in 0 .. FailureBound /\ openFor' \in 0 .. Cooldown
         /\ TimersOK(timers')
         /\ state' = "CircuitOpen" /\ Sleeping("Reconnect")'
         /\ told' = [state |-> "CircuitOpen", tools |-> FALSE]
<1>1. TimersOK(timers') /\ Sleeping("Reconnect")'
  BY SleepAdds, DelaysHold DEF TypeOK, TimersOK, OpenCircuit, TimerMsg
<1>2. failures' \in 0 .. FailureBound /\ openFor' \in 0 .. Cooldown
  BY ConfigAssumption, BoundAssumption DEF TypeOK, OpenCircuit, CountFailure
<1> QED
  BY <1>1, <1>2 DEF OpenCircuit, Tell

(* Receiving a message keeps the mailbox well-formed and keeps every other *)
(* message queued.                                                         *)
LEMMA ReceiveKeeps ==
  ASSUME TypeOK, NEW m, Receive(m)
  PROVE  /\ mailbox' \in Seq(TimerMsg \cup Requests)
         /\ m \in TimerMsg \cup Requests
         /\ \A k : m # k /\ Queued(k) => Queued(k)'
<1>1. mailbox \in Seq(TimerMsg \cup Requests) /\ mailbox # <<>>
  BY DEF TypeOK, Receive
<1>2. mailbox' = Tail(mailbox) /\ Head(mailbox) = m
  BY DEF Receive
<1>3. mailbox' \in Seq(TimerMsg \cup Requests) /\ m \in TimerMsg \cup Requests
  BY <1>1, <1>2
<1>4. ASSUME NEW k, m # k, Queued(k)
      PROVE  Queued(k)'
  BY <1>1, <1>2, <1>4, TailKeeps DEF Queued
<1> QED
  BY <1>3, <1>4

(* A task asleep or queued survives every step of time and of the others.  *)
LEMMA EnvironmentKeeps ==
  ASSUME TypeOK, NEW k \in TimerMsg,
         Tick \/ ServerChanges \/ (\E m \in TimerMsg : TimerFires(m))
              \/ (\E m \in Requests : Send(m))
  PROVE  /\ TimersOK(timers') /\ mailbox' \in Seq(TimerMsg \cup Requests)
         /\ Pending(k) => Pending(k)'
         /\ UNCHANGED <<phase, state, client, attempts, failures, told, forced>>
<1> USE DEF TimersOK
<1>1. CASE Tick
  <2>1. TimersOK(timers') /\ (Sleeping(k) => Sleeping(k)')
    BY <1>1, TickKeeps DEF TypeOK, TimerMsg
  <2>2. mailbox' = mailbox
    BY <1>1 DEF Tick
  <2> QED
    BY <1>1, <2>1, <2>2 DEF Tick, Pending, Queued, TypeOK
<1>2. CASE ServerChanges
  BY <1>2 DEF ServerChanges, TypeOK, Pending, Sleeping, Queued, breaker
<1>3. ASSUME NEW m \in TimerMsg, TimerFires(m)
      PROVE  /\ TimersOK(timers') /\ mailbox' \in Seq(TimerMsg \cup Requests)
             /\ Pending(k) => Pending(k)'
             /\ UNCHANGED <<phase, state, client, attempts, failures, told, forced>>
  <2>1. /\ mailbox' \in Seq(TimerMsg \cup Requests)
        /\ \E i \in DOMAIN mailbox' : mailbox'[i] = m
        /\ Queued(k) => Queued(k)'
    <3>1. mailbox \in Seq(TimerMsg \cup Requests) /\ m \in TimerMsg \cup Requests
      BY DEF TypeOK
    <3>2. mailbox' = Append(mailbox, m)
      BY <1>3 DEF TimerFires
    <3> QED
      BY <3>1, <3>2, AppendKeeps DEF Queued
  <2>2. 0 \in Delays
    BY DelaysHold
  <2>3. TimersOK(timers')
    BY <1>3, <2>2 DEF TypeOK, TimerFires
  <2>4. Sleeping(k) => Pending(k)'
    <3>1. CASE m = k
      BY <2>1, <3>1 DEF Pending, Queued
    <3>2. CASE m # k
      BY <1>3, <3>2 DEF TypeOK, TimerFires, Pending, Sleeping, TimerMsg
    <3> QED
      BY <3>1, <3>2
  <2> QED
    BY <1>3, <2>1, <2>3, <2>4 DEF TimerFires, Pending, breaker
<1>4. ASSUME NEW m \in Requests, Send(m)
      PROVE  /\ TimersOK(timers') /\ mailbox' \in Seq(TimerMsg \cup Requests)
             /\ Pending(k) => Pending(k)'
             /\ UNCHANGED <<phase, state, client, attempts, failures, told, forced>>
  <2>1. /\ mailbox' \in Seq(TimerMsg \cup Requests)
        /\ Queued(k) => Queued(k)'
    <3>1. mailbox \in Seq(TimerMsg \cup Requests) /\ m \in TimerMsg \cup Requests
      BY DEF TypeOK
    <3>2. mailbox' = Append(mailbox, m)
      BY <1>4 DEF Send
    <3> QED
      BY <3>1, <3>2, AppendKeeps DEF Queued
  <2>2. timers' = timers
    BY <1>4 DEF Send
  <2> QED
    BY <1>4, <2>1, <2>2 DEF Send, Pending, Sleeping, breaker, TypeOK
<1> QED
  BY <1>1, <1>2, <1>3, <1>4
-----------------------------------------------------------------------------
(* Only ForceReconnect sets forced, and nothing clears it.                 *)
LEMMA ForcedStep ==
  ASSUME TypeOK, [Next]_vars
  PROVE  /\ forced' \in BOOLEAN
         /\ ~forced' => ~forced /\ ~ForceReconnect
<1>1. ASSUME NEW m, Receive(m)
      PROVE  /\ forced' = (forced \/ m = "ForceReconnect")
             /\ forced' \in BOOLEAN
  BY <1>1 DEF Receive
<1>2. CASE ForceReconnect
  BY <1>1, <1>2 DEF ForceReconnect
<1>3. CASE Handle /\ ~ForceReconnect
  <2>1. PICK m : Receive(m)
    BY <1>3 DEF Handle, CallRejected, CallSucceeds, CallFails, Query, ReconnectIgnored,
                Reconnect, HealthCheckPasses, HealthCheckFails, HealthCheckSkipped, Stop
  <2> QED
    BY <1>1, <1>3, <2>1
<1>4. CASE ~Handle
  <2>1. forced' = forced
    BY <1>4 DEF Next, Start, Tick, ServerChanges, TimerFires, Send, vars
  <2>2. ~ForceReconnect
    BY <1>4 DEF Handle
  <2> QED
    BY <2>1, <2>2 DEF TypeOK
<1> QED
  BY <1>2, <1>3, <1>4

(* The invariant is inductive as one conjunction: ConnectedSane says why a *)
(* failed call in Connected opens the breaker exactly at the limit, and    *)
(* NotStranded needs the mailbox and the timers to be well-formed.         *)
Inv == TypeOK /\ ConnectedSane /\ NotStranded /\ AdvertisedServed

LEMMA InitInv == Init => Inv
<1> SUFFICES ASSUME Init PROVE Inv
  OBVIOUS
<1>1. TimersOK(timers)
  BY DEF Init, NoTimers, TimersOK
<1>2. mailbox \in Seq(TimerMsg \cup Requests)
  BY DEF Init
<1>3. attempts \in 0 .. MaxAttempts /\ failures \in 0 .. FailureBound
  BY ConfigAssumption, BoundAssumption DEF Init
<1>4. told \in [state : States, tools : BOOLEAN]
  BY DEF Init, States
<1>5. TypeOK
  BY <1>1, <1>2, <1>3, <1>4 DEF Init, TypeOK, States, TimersOK
<1> QED
  BY <1>5 DEF Init, Inv, ConnectedSane, NotStranded, AdvertisedServed

(* One step of the actor or of its environment preserves the invariant.    *)
LEMMA NextInv == Inv /\ [Next]_vars => Inv'
<1> SUFFICES ASSUME Inv, [Next]_vars PROVE Inv'
  OBVIOUS
<1>a. TypeOK /\ ConnectedSane /\ NotStranded /\ AdvertisedServed
  BY DEF Inv
<1>b. /\ state \in States /\ client \in BOOLEAN /\ phase \in {"spawned", "running", "stopped"}
      /\ attempts \in 0 .. MaxAttempts /\ failures \in 0 .. FailureBound
      /\ openFor \in {NotOpen} \cup 0 .. Cooldown
      /\ TimersOK(timers) /\ mailbox \in Seq(TimerMsg \cup Requests)
      /\ told \in [state : States, tools : BOOLEAN] /\ server \in ServerModes
  BY <1>a DEF TypeOK, TimersOK
<1>e. forced' \in BOOLEAN
  BY <1>a, ForcedStep
<1>c. ActorTyped' /\ phase' \in {"spawned", "running", "stopped"}
      /\ mailbox' \in Seq(TimerMsg \cup Requests) /\ server' \in ServerModes
      => TypeOK'
  BY <1>e DEF ActorTyped, TypeOK, TimersOK
<1>d. 0 \in 0 .. MaxAttempts /\ 0 \in 0 .. FailureBound
  BY ConfigAssumption, BoundAssumption
<1>1. CASE Start
  <2>1. ConnectOrRetry(failures, openFor) /\ UNCHANGED <<mailbox, server>> /\ phase' = "running"
    BY <1>1 DEF Start
  <2>2. /\ ActorTyped'
        /\ \/ /\ state' = "Connected" /\ client' = TRUE
              /\ failures' = 0 /\ openFor' = NotOpen
              /\ told' = [state |-> "Connected", tools |-> TRUE]
           \/ /\ state' = "Reconnecting" /\ Sleeping("Reconnect")'
              /\ told' = [state |-> "Reconnecting", tools |-> FALSE]
    BY <1>a, <1>b, <2>1, ConnectOrRetryOutcome
  <2>3. TypeOK'
    BY <1>b, <1>c, <2>1, <2>2
  <2> QED
    BY <2>2, <2>3 DEF Inv, ConnectedSane, NotStranded, AdvertisedServed, Pending, IsOpen
<1>2. ASSUME Receive("CallTool"), CallRejected \/ CallSucceeds \/ CallFails
      PROVE  Inv'
  <2>1. mailbox' \in Seq(TimerMsg \cup Requests) /\ (Queued("Reconnect") => Queued("Reconnect")')
    BY <1>a, <1>2, ReceiveKeeps
  <2>2. phase' = phase /\ server' = server /\ phase = "running"
    BY <1>2 DEF Receive, CallRejected, CallSucceeds, CallFails
  <2>3. CASE CallRejected
    <3>1. UNCHANGED <<state, client, attempts, failures, openFor, timers, told>>
      BY <2>3 DEF CallRejected, breaker
    <3>2. TypeOK'
      BY <1>b, <1>c, <2>1, <2>2, <3>1 DEF ActorTyped
    <3> QED
      BY <1>a, <2>1, <2>2, <3>1, <3>2
         DEF Inv, ConnectedSane, NotStranded, AdvertisedServed, Pending, Sleeping, IsOpen
  <2>4. CASE CallSucceeds
    <3>1. /\ UNCHANGED <<state, client, attempts, timers, told>>
          /\ failures' = 0 /\ openFor' = NotOpen
      BY <2>4 DEF CallSucceeds, ResetBreaker
    <3>2. TypeOK'
      BY <1>b, <1>c, <1>d, <2>1, <2>2, <3>1 DEF ActorTyped
    <3> QED
      BY <1>a, <2>1, <2>2, <3>1, <3>2
         DEF Inv, ConnectedSane, NotStranded, AdvertisedServed, Pending, Sleeping, IsOpen
  <2>5. CASE CallFails /\ OpensNow
    <3>1. OpenCircuit /\ client' = client /\ attempts' = attempts
      BY <2>5 DEF CallFails
    <3>2. /\ failures' \in 0 .. FailureBound /\ openFor' \in 0 .. Cooldown
          /\ TimersOK(timers') /\ state' = "CircuitOpen" /\ Sleeping("Reconnect")'
          /\ told' = [state |-> "CircuitOpen", tools |-> FALSE]
      BY <1>a, <3>1, OpenCircuitOutcome
    <3>3. TypeOK'
      BY <1>b, <1>c, <2>1, <2>2, <3>1, <3>2 DEF ActorTyped, States
    <3> QED
      BY <3>2, <3>3 DEF Inv, ConnectedSane, NotStranded, AdvertisedServed, Pending
  <2>6. CASE CallFails /\ ~OpensNow
    <3>1. /\ CountFailure
          /\ UNCHANGED <<state, client, attempts, openFor, timers, told>>
      BY <2>6 DEF CallFails
    <3>2. failures' \in 0 .. FailureBound
      BY <1>b, <3>1, BoundAssumption DEF CountFailure
    <3>3. TypeOK'
      BY <1>b, <1>c, <2>1, <2>2, <3>1, <3>2 DEF ActorTyped
    <3>4. ConnectedSane'
      <4> SUFFICES ASSUME state = "Connected"
                   PROVE  client /\ openFor = NotOpen
                          /\ (failures' = 0 \/ failures' < MaxFailures)
        BY <3>1 DEF ConnectedSane, IsOpen
      <4>1. client /\ openFor = NotOpen
        BY <1>a DEF ConnectedSane, IsOpen
      <4>2. ~(failures + 1 >= MaxFailures)
        BY <2>6, <4>1 DEF OpensNow, IsOpen
      <4> QED
        BY <1>b, <3>1, <4>1, <4>2, ConfigAssumption, BoundAssumption DEF CountFailure
    <3> QED
      BY <1>a, <2>1, <2>2, <3>1, <3>3, <3>4
         DEF Inv, NotStranded, AdvertisedServed, Pending, Sleeping
  <2> QED
    BY <1>2, <2>3, <2>4, <2>5, <2>6
<1>3. CASE Query \/ ReconnectIgnored \/ HealthCheckSkipped
  <2>1. UNCHANGED <<phase, state, client, attempts, failures, openFor, timers, told, server>>
    BY <1>3 DEF Query, ReconnectIgnored, HealthCheckSkipped, Receive, breaker
  <2>2. mailbox' \in Seq(TimerMsg \cup Requests)
    BY <1>3, <1>a, ReceiveKeeps DEF Query, ReconnectIgnored, HealthCheckSkipped
  <2>3. state # "Connected" => (Queued("Reconnect") => Queued("Reconnect")')
    BY <1>3, <1>a, ReceiveKeeps DEF Query, ReconnectIgnored, HealthCheckSkipped
  <2>4. TypeOK'
    BY <1>b, <1>c, <2>1, <2>2 DEF ActorTyped
  <2> QED
    BY <1>a, <2>1, <2>3, <2>4
       DEF Inv, ConnectedSane, NotStranded, AdvertisedServed, Pending, Sleeping, IsOpen
<1>4. CASE Reconnect
  <2>1. /\ mailbox' \in Seq(TimerMsg \cup Requests) /\ phase' = phase /\ server' = server
        /\ phase = "running"
    BY <1>4, <1>a, ReceiveKeeps DEF Reconnect, Receive
  <2>2. PICK f \in 0 .. FailureBound, o \in {NotOpen} \cup 0 .. Cooldown : ConnectOrRetry(f, o)
    BY <1>4, <1>b, <1>d DEF Reconnect
  <2>3. /\ ActorTyped'
        /\ \/ /\ state' = "Connected" /\ client' = TRUE
              /\ failures' = 0 /\ openFor' = NotOpen
              /\ told' = [state |-> "Connected", tools |-> TRUE]
           \/ /\ state' = "Reconnecting" /\ Sleeping("Reconnect")'
              /\ told' = [state |-> "Reconnecting", tools |-> FALSE]
    BY <1>a, <2>2, ConnectOrRetryOutcome
  <2>4. TypeOK'
    BY <1>b, <1>c, <2>1, <2>3
  <2> QED
    BY <2>3, <2>4 DEF Inv, ConnectedSane, NotStranded, AdvertisedServed, Pending, IsOpen
<1>5. CASE HealthCheckPasses
  <2>1. /\ mailbox' \in Seq(TimerMsg \cup Requests)
        /\ UNCHANGED <<phase, state, client, attempts, failures, openFor, told, server>>
        /\ state = "Connected"
    BY <1>5, <1>a, ReceiveKeeps DEF HealthCheckPasses, Receive, breaker
  <2>2. TimersOK(timers')
    BY <1>5, <1>b, SleepAdds, DelaysHold DEF HealthCheckPasses, ScheduleHealthCheck, TimerMsg
  <2>3. TypeOK'
    BY <1>b, <1>c, <2>1, <2>2 DEF ActorTyped
  <2> QED
    BY <1>a, <2>1, <2>3 DEF Inv, ConnectedSane, NotStranded, AdvertisedServed, IsOpen
<1>6. CASE HealthCheckFails
  <2>1. /\ mailbox' \in Seq(TimerMsg \cup Requests) /\ phase' = phase /\ server' = server
    BY <1>6, <1>a, ReceiveKeeps DEF HealthCheckFails, Receive
  <2>2. CASE OpensNow
    <3>1. OpenCircuit /\ UNCHANGED <<client, attempts>>
      BY <1>6, <2>2 DEF HealthCheckFails
    <3>2. /\ failures' \in 0 .. FailureBound /\ openFor' \in 0 .. Cooldown
          /\ TimersOK(timers') /\ state' = "CircuitOpen" /\ Sleeping("Reconnect")'
          /\ told' = [state |-> "CircuitOpen", tools |-> FALSE]
      BY <1>a, <3>1, OpenCircuitOutcome
    <3>3. TypeOK'
      BY <1>b, <1>c, <2>1, <3>1, <3>2 DEF ActorTyped, States
    <3> QED
      BY <3>2, <3>3 DEF Inv, ConnectedSane, NotStranded, AdvertisedServed, Pending
  <2>3. CASE ~OpensNow
    <3>1. CountFailure /\ client' = FALSE /\ ScheduleReconnect(attempts) /\ openFor' = openFor
      BY <1>6, <2>3 DEF HealthCheckFails
    <3>2. failures' \in 0 .. FailureBound
      BY <1>b, <3>1, BoundAssumption DEF CountFailure
    <3>3. /\ state' = "Reconnecting" /\ Sleeping("Reconnect")'
          /\ attempts' \in 0 .. MaxAttempts /\ TimersOK(timers')
          /\ told' = [state |-> "Reconnecting", tools |-> FALSE]
      BY <1>a, <1>b, <3>1, RetryOutcome
    <3>4. TypeOK'
      BY <1>b, <1>c, <2>1, <3>1, <3>2, <3>3 DEF ActorTyped, States
    <3> QED
      BY <3>3, <3>4 DEF Inv, ConnectedSane, NotStranded, AdvertisedServed, Pending
  <2> QED
    BY <2>2, <2>3
<1>7. CASE ForceReconnect
  <2>1. /\ mailbox' \in Seq(TimerMsg \cup Requests) /\ phase' = phase /\ server' = server
        /\ phase = "running"
    BY <1>7, <1>a, ReceiveKeeps DEF ForceReconnect, Receive
  <2>2. CASE ConnectSucceeds
    <3>1. /\ ActorTyped' /\ state' = "Connected" /\ client' = TRUE
          /\ failures' = 0 /\ openFor' = NotOpen
          /\ told' = [state |-> "Connected", tools |-> TRUE]
      BY <1>a, <2>2, ConnectOutcome
    <3>2. TypeOK'
      BY <1>b, <1>c, <2>1, <3>1
    <3> QED
      BY <3>1, <3>2 DEF Inv, ConnectedSane, NotStranded, AdvertisedServed, IsOpen
  <2>3. CASE ~ConnectSucceeds
    <3>1. /\ client' = (server = "partial")
          /\ state' = IF server = "partial" THEN "Connected" ELSE "Connecting"
          /\ attempts' = 0 /\ UNCHANGED <<timers, told>>
          /\ failures' = 0 /\ openFor' = NotOpen
      BY <1>7, <2>3 DEF ForceReconnect, ResetBreaker
    <3>2. TypeOK'
      BY <1>b, <1>c, <1>d, <2>1, <3>1 DEF ActorTyped, States
    <3> QED
      BY <3>1, <3>2 DEF Inv, ConnectedSane, NotStranded, AdvertisedServed, IsOpen
  <2> QED
    BY <2>2, <2>3
<1>8. CASE Stop
  <2>1. mailbox' \in Seq(TimerMsg \cup Requests)
    BY <1>8, <1>a, ReceiveKeeps DEF Stop
  <2>2. /\ phase' = "stopped" /\ timers' = NoTimers /\ client' = FALSE
        /\ state' = "Disconnected" /\ server' = server
        /\ UNCHANGED <<attempts, failures, openFor, told>>
    BY <1>8 DEF Stop, Receive, breaker
  <2>3. TimersOK(timers')
    BY <2>2 DEF NoTimers, TimersOK
  <2>4. TypeOK'
    BY <1>b, <1>c, <2>1, <2>2, <2>3 DEF ActorTyped, States
  <2> QED
    BY <2>2, <2>4 DEF Inv, ConnectedSane, NotStranded, AdvertisedServed
<1>9. CASE Tick \/ ServerChanges \/ (\E m \in TimerMsg : TimerFires(m))
                \/ (\E m \in Requests : Send(m))
  <2>1. /\ TimersOK(timers') /\ mailbox' \in Seq(TimerMsg \cup Requests)
        /\ Pending("Reconnect") => Pending("Reconnect")'
        /\ UNCHANGED <<phase, state, client, attempts, failures, told, forced>>
    BY <1>a, <1>9, EnvironmentKeeps DEF TimerMsg
  <2>2. /\ server' \in ServerModes
        /\ openFor' \in {NotOpen} \cup 0 .. Cooldown
        /\ openFor = NotOpen => openFor' = NotOpen
    BY <1>9, <1>b, ConfigAssumption
       DEF Tick, ServerChanges, TimerFires, Send, IsOpen, NotOpen, breaker
  <2>3. TypeOK'
    BY <1>b, <1>c, <2>1, <2>2 DEF ActorTyped
  <2> QED
    BY <1>a, <2>1, <2>2, <2>3
       DEF Inv, ConnectedSane, NotStranded, AdvertisedServed, IsOpen
<1>10. CASE UNCHANGED vars
  <2>1. UNCHANGED <<phase, state, client, attempts, failures, openFor, timers, mailbox,
                    told, server>>
    BY <1>10 DEF vars
  <2>2. TypeOK'
    BY <1>b, <1>c, <2>1 DEF ActorTyped
  <2> QED
    BY <1>a, <2>1, <2>2 DEF Inv, ConnectedSane, NotStranded, AdvertisedServed, Pending,
                            Sleeping, Queued, IsOpen
<1>11. CASE CallRejected \/ CallSucceeds \/ CallFails
  BY <1>2, <1>11 DEF CallRejected, CallSucceeds, CallFails
<1> QED
  BY <1>1, <1>3, <1>4, <1>5, <1>6, <1>7, <1>8, <1>9, <1>10, <1>11 DEF Next, Handle

LEMMA SpecInv == Spec => []Inv
BY InitInv, NextInv, PTL DEF Spec

(* Every variable keeps its type; in particular the backoff exponent, the  *)
(* failure count and every delay stay in their ranges.                     *)
THEOREM TypeCorrect == Spec => []TypeOK
<1>1. Inv => TypeOK
  BY DEF Inv
<1> QED
  BY <1>1, SpecInv, PTL

(* A backend in state Connected has a client and a closed breaker.         *)
THEOREM ConnectedIsSane == Spec => []ConnectedSane
<1>1. Inv => ConnectedSane
  BY DEF Inv
<1> QED
  BY <1>1, SpecInv, PTL

(* No order of messages, timers and failures loses a backend that waits to *)
(* reconnect or for its breaker to cool down.                              *)
THEOREM NeverStranded == Spec => []NotStranded
<1>1. Inv => NotStranded
  BY DEF Inv
<1> QED
  BY <1>1, SpecInv, PTL

(* Tools are advertised only while connected or being force-reconnected.   *)
THEOREM AdvertisedAreServed == Spec => []AdvertisedServed
<1>1. Inv => AdvertisedServed
  BY DEF Inv
<1> QED
  BY <1>1, SpecInv, PTL
-----------------------------------------------------------------------------
(* As long as no operator has forced a reconnect.  A step that keeps forced *)
(* FALSE is not ForceReconnect, so a backend is never left in Connecting,   *)
(* and every change of state is told to the registry.                       *)

(* Until an operator forces a reconnect the registry's view is the actor's *)
(* state after every handler.                                              *)
THEOREM RegistryAlwaysAgrees == Spec => []RegistryAgrees
<1>1. Init => RegistryAgrees
  BY DEF Init, RegistryAgrees
<1>2. Inv /\ RegistryAgrees /\ [Next]_vars => RegistryAgrees'
  <2> SUFFICES ASSUME Inv, RegistryAgrees, [Next]_vars, ~forced' PROVE RegistryAgrees'
    BY DEF RegistryAgrees
  <2>a. TypeOK
    BY DEF Inv
  <2>b. /\ attempts \in 0 .. MaxAttempts /\ failures \in 0 .. FailureBound
        /\ openFor \in {NotOpen} \cup 0 .. Cooldown
        /\ 0 \in 0 .. FailureBound
    BY <2>a, BoundAssumption DEF TypeOK
  <2>c. ~forced /\ ~ForceReconnect
    BY <2>a, ForcedStep
  <2>1. CASE Start \/ Reconnect
    <3>1. PICK f \in 0 .. FailureBound, o \in {NotOpen} \cup 0 .. Cooldown : ConnectOrRetry(f, o)
      BY <2>1, <2>b DEF Start, Reconnect
    <3> QED
      BY <2>a, <3>1, ConnectOrRetryOutcome DEF RegistryAgrees
  <2>2. CASE CallFails
    <3>1. CASE OpensNow
      BY <2>a, <2>2, <3>1, OpenCircuitOutcome DEF CallFails, RegistryAgrees
    <3>2. CASE ~OpensNow
      BY <2>c, <2>2, <3>2 DEF CallFails, RegistryAgrees
    <3> QED
      BY <3>1, <3>2
  <2>3. CASE HealthCheckFails
    <3>1. CASE OpensNow
      BY <2>a, <2>3, <3>1, OpenCircuitOutcome DEF HealthCheckFails, RegistryAgrees
    <3>2. CASE ~OpensNow
      BY <2>a, <2>b, <2>3, <3>2, RetryOutcome DEF HealthCheckFails, RegistryAgrees
    <3> QED
      BY <3>1, <3>2
  <2>4. CASE CallRejected \/ CallSucceeds \/ Query \/ ReconnectIgnored
               \/ HealthCheckPasses \/ HealthCheckSkipped
    BY <2>c, <2>4 DEF CallRejected, CallSucceeds, Query, ReconnectIgnored, HealthCheckPasses,
                HealthCheckSkipped, RegistryAgrees
  <2>5. CASE Stop
    BY <2>5 DEF Stop, RegistryAgrees
  <2>6. CASE Tick \/ ServerChanges \/ (\E m \in TimerMsg : TimerFires(m))
                  \/ (\E m \in Requests : Send(m))
    BY <2>a, <2>c, <2>6, EnvironmentKeeps DEF RegistryAgrees, TimerMsg
  <2>7. CASE UNCHANGED vars
    BY <2>7 DEF vars, RegistryAgrees
  <2> QED
    BY <2>c, <2>1, <2>2, <2>3, <2>4, <2>5, <2>6, <2>7 DEF Next, Handle
<1> QED
  BY <1>1, <1>2, SpecInv, PTL DEF Spec

(* Until an operator forces a reconnect the actor never rests in           *)
(* Connecting, so whenever it is not connected a Reconnect is pending.     *)
NoConnecting == ~forced => state # "Connecting"

THEOREM RecoveryAlwaysPending == Spec => []RecoveryPending
<1>1. Init => NoConnecting
  BY DEF Init, NoConnecting
<1>2. Inv /\ NoConnecting /\ [Next]_vars => NoConnecting'
  <2> SUFFICES ASSUME Inv, NoConnecting, [Next]_vars, ~forced' PROVE state' # "Connecting"
    BY DEF NoConnecting
  <2>1. ~forced /\ ~ForceReconnect
    BY ForcedStep DEF Inv
  <2>2. CASE Start \/ Reconnect
    BY <2>2 DEF Start, Reconnect, ConnectOrRetry, ConnectSucceeds, ScheduleReconnect
  <2>3. CASE CallFails \/ HealthCheckFails
    BY <2>1, <2>3 DEF CallFails, HealthCheckFails, OpenCircuit, ScheduleReconnect, NoConnecting
  <2>4. CASE CallRejected \/ CallSucceeds \/ Query \/ ReconnectIgnored
               \/ HealthCheckPasses \/ HealthCheckSkipped \/ Stop
    BY <2>1, <2>4 DEF CallRejected, CallSucceeds, Query, ReconnectIgnored,
                HealthCheckPasses, HealthCheckSkipped, Stop, NoConnecting
  <2>5. CASE Tick \/ ServerChanges \/ (\E m \in TimerMsg : TimerFires(m))
                  \/ (\E m \in Requests : Send(m))
    BY <2>1, <2>5 DEF Tick, ServerChanges, TimerFires, Send, NoConnecting
  <2>6. CASE UNCHANGED vars
    BY <2>1, <2>6 DEF vars, NoConnecting
  <2> QED
    BY <2>1, <2>2, <2>3, <2>4, <2>5, <2>6 DEF Next, Handle
<1>3. Inv /\ NoConnecting => RecoveryPending
  BY DEF Inv, TypeOK, States, NoConnecting, NotStranded, RecoveryPending, AlwaysRetries
<1> QED
  BY <1>1, <1>2, <1>3, SpecInv, PTL DEF Spec

(* A connection starts its health checks.                                  *)
LEMMA ConnectWatches ==
  ASSUME TypeOK, ConnectSucceeds, HealthInterval > 0
  PROVE  Sleeping("PerformHealthCheck")'
BY SleepAdds, DelaysHold DEF TypeOK, TimersOK, ConnectSucceeds, ScheduleHealthCheck, TimerMsg

(* Until an operator forces a reconnect, a connected backend always has    *)
(* its next health check asleep or queued.                                 *)
THEOREM HealthAlwaysWatched == Spec => []HealthWatched
<1>1. Init => HealthWatched
  BY DEF Init, HealthWatched
<1>2. Inv /\ HealthWatched /\ [Next]_vars => HealthWatched'
  <2> SUFFICES ASSUME Inv, HealthWatched, [Next]_vars, HealthInterval > 0,
                      phase' = "running", state' = "Connected", ~forced'
               PROVE  Pending("PerformHealthCheck")'
    BY DEF HealthWatched
  <2>a. TypeOK /\ "PerformHealthCheck" \in TimerMsg
    BY DEF Inv, TimerMsg
  <2>7. ~forced /\ ~ForceReconnect
    BY <2>a, ForcedStep
  <2>1. CASE Start \/ Reconnect
    <3>1. ConnectSucceeds
      BY <2>1 DEF Start, Reconnect, ConnectOrRetry, ScheduleReconnect
    <3> QED
      BY <2>a, <3>1, ConnectWatches DEF Pending
  <2>2. ASSUME NEW m, Receive(m), m # "PerformHealthCheck",
               UNCHANGED <<phase, state, timers>>
        PROVE  Pending("PerformHealthCheck")'
    <3>1. Queued("PerformHealthCheck") => Queued("PerformHealthCheck")'
      BY <2>a, <2>2, ReceiveKeeps
    <3> QED
      BY <2>2, <2>7, <3>1 DEF HealthWatched, Pending, Sleeping
  <2>3. CASE CallRejected \/ CallSucceeds \/ CallFails
    BY <2>2, <2>3 DEF CallRejected, CallSucceeds, CallFails, OpenCircuit
  <2>4. CASE Query \/ ReconnectIgnored
    BY <2>2, <2>4 DEF Query, ReconnectIgnored
  <2>5. CASE HealthCheckPasses
    BY <2>a, <2>5, SleepAdds, DelaysHold
       DEF HealthCheckPasses, ScheduleHealthCheck, TypeOK, TimersOK, Pending
  <2>6. ~HealthCheckFails /\ ~HealthCheckSkipped /\ ~Stop
    BY DEF HealthCheckFails, OpenCircuit, ScheduleReconnect, HealthCheckSkipped, Stop
  <2>8. CASE Tick \/ ServerChanges \/ (\E m \in TimerMsg : TimerFires(m))
                  \/ (\E m \in Requests : Send(m))
    BY <2>a, <2>7, <2>8, EnvironmentKeeps DEF HealthWatched
  <2>9. CASE UNCHANGED vars
    BY <2>7, <2>9 DEF vars, HealthWatched, Pending, Sleeping, Queued
  <2> QED
    BY <2>1, <2>3, <2>4, <2>5, <2>6, <2>7, <2>8, <2>9 DEF Next, Handle
<1> QED
  BY <1>1, <1>2, SpecInv, PTL DEF Spec
=============================================================================
