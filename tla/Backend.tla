------------------------------ MODULE Backend ------------------------------
(***************************************************************************)
(* One backend actor (src/src/backend.rs): the connection to one MCP       *)
(* server, its circuit breaker, its reconnect and health-check timers, and *)
(* what it last told the registry about itself.                            *)
(*                                                                         *)
(* The actor runtime hands the actor one mailbox message at a time and     *)
(* runs its handler to completion, so a handler is one action.  The awaits *)
(* inside a handler do not expose the actor's fields; what other tasks do  *)
(* meanwhile (send a message, let a timer fire, take the server down) is   *)
(* behind the current message in the mailbox or reaches the handler as its *)
(* outcome.  No handler reads the clock both before and after an await     *)
(* with different effect, so a handler needs no duration.                  *)
(*                                                                         *)
(* Time is counted in ticks.  A sleeping task that is due may be delayed   *)
(* for any number of ticks, as a loaded runtime may do.                    *)
(***************************************************************************)
EXTENDS Integers, Sequences, FiniteSets, Functions

CONSTANTS
  MaxFailures,     \* max_consecutive_failures
  Cooldown,        \* circuit_breaker_cooldown_secs, in ticks
  HealthInterval,  \* health_check_interval_secs, in ticks; 0 disables checks
  MaxBackoff,      \* MAX_BACKOFF_SECS, in ticks
  MaxAttempts,     \* where reconnect_attempts saturates (u32::MAX)
  ServerModes,     \* the conditions the remote server can be in
  Requests,        \* the messages the gateway sends to the actor
  MaxPending,      \* bound: the environment acts only below this backlog
  FailureBound     \* bound: consecutive_failures is counted up to this

States == {"Disconnected", "Connecting", "Connected", "Reconnecting",
           "CircuitOpen", "Failed"}
TimerMsg == {"Reconnect", "PerformHealthCheck"}
RequestMsg == {"CallTool", "Query", "ForceReconnect", "Stop"}
NotOpen == -1      \* opened_at = None

ASSUME ConfigAssumption ==
  /\ MaxFailures \in Nat /\ Cooldown \in Nat /\ HealthInterval \in Nat
  /\ MaxBackoff \in Nat \ {0} /\ MaxAttempts \in Nat
  /\ 2^MaxAttempts >= MaxBackoff
  /\ ServerModes \subseteq {"up", "partial", "down"}
  /\ Requests \subseteq RequestMsg

\* A count above MaxFailures behaves like MaxFailures.
ASSUME BoundAssumption ==
  MaxPending \in Nat /\ FailureBound \in Nat /\ FailureBound > MaxFailures

VARIABLES
  phase,      \* "spawned" until on_start ran, "running", "stopped" after on_stop
  state,      \* BackendActor.state
  client,     \* BackendActor.client.is_some()
  attempts,   \* BackendActor.reconnect_attempts
  failures,   \* circuit_breaker.consecutive_failures
  openFor,    \* ticks since circuit_breaker.opened_at, or NotOpen
  timers,     \* timers[m][d]: sleeping tasks that send m in d ticks
  mailbox,    \* messages waiting for the actor
  told,       \* the last UpdateBackend (or registration) sent to the registry
  server,     \* external: up; partial (connects, cannot list tools); down
  forced      \* history: an operator's ForceReconnect has been handled

breaker == <<failures, openFor>>
vars == <<phase, state, client, attempts, failures, openFor, timers, mailbox,
          told, server, forced>>

Delays == 0 .. (MaxBackoff + Cooldown + HealthInterval)

TypeOK ==
  /\ phase \in {"spawned", "running", "stopped"}
  /\ state \in States
  /\ client \in BOOLEAN
  /\ attempts \in 0 .. MaxAttempts
  /\ failures \in 0 .. FailureBound
  /\ openFor \in {NotOpen} \cup 0 .. Cooldown
  /\ timers \in [TimerMsg -> [Delays -> Nat]]
  /\ mailbox \in Seq(TimerMsg \cup Requests)
  /\ told \in [state : States, tools : BOOLEAN]
  /\ server \in ServerModes
  /\ forced \in BOOLEAN

NoTimers == [m \in TimerMsg |-> [d \in Delays |-> 0]]

\* The gateway registers the backend (Disconnected, no tools), then spawns it.
Init ==
  /\ phase = "spawned" /\ state = "Disconnected" /\ client = FALSE
  /\ attempts = 0 /\ failures = 0 /\ openFor = NotOpen
  /\ timers = NoTimers /\ mailbox = <<>>
  /\ told = [state |-> "Disconnected", tools |-> FALSE]
  /\ server \in ServerModes
  /\ forced = FALSE
-----------------------------------------------------------------------------
(* Helpers shared by the handlers.                                         *)

IsOpen == openFor # NotOpen
ShouldAttemptClose == IsOpen /\ openFor >= Cooldown

\* CircuitBreaker::reset and record_success have the same effect.
ResetBreaker == failures' = 0 /\ openFor' = NotOpen

\* min(2^n, MaxBackoff); the code's power saturates above MaxBackoff.
Backoff(n) == IF 2^n \in 1 .. MaxBackoff THEN 2^n ELSE MaxBackoff

\* Spawn a task that sleeps d ticks and then sends m to the actor.
SleepThenSend(m, d) == timers' = [timers EXCEPT ![m][d] = @ + 1]

ScheduleHealthCheck ==
  IF HealthInterval = 0 THEN UNCHANGED timers
  ELSE SleepThenSend("PerformHealthCheck", HealthInterval)

Tell(s, hasTools) == told' = [state |-> s, tools |-> hasTools]

\* Wrong on purpose: the retry is not announced to the registry.
ScheduleReconnectSilent(n) ==
  /\ state' = "Reconnecting"
  /\ attempts' = IF n < MaxAttempts THEN n + 1 ELSE MaxAttempts
  /\ SleepThenSend("Reconnect", Backoff(n))
  /\ UNCHANGED told

\* Wrong on purpose: the attempts do not saturate.
ScheduleReconnectUnsaturated(n) ==
  /\ state' = "Reconnecting"
  /\ attempts' = n + 1
  /\ Tell("Reconnecting", FALSE)
  /\ SleepThenSend("Reconnect", Backoff(n))

\* schedule_reconnect, called with reconnect_attempts = n.  The Failed state
\* (and update) its callers set first is overwritten within the same handler.
ScheduleReconnect(n) ==
  /\ state' = "Reconnecting"
  /\ attempts' = IF n < MaxAttempts THEN n + 1 ELSE MaxAttempts
  /\ Tell("Reconnecting", FALSE)
  /\ SleepThenSend("Reconnect", Backoff(n))

\* Wrong on purpose: a new connection keeps the old breaker.
ConnectKeepsBreaker ==
  /\ server = "up"
  /\ client' = TRUE /\ state' = "Connected" /\ attempts' = 0
  /\ UNCHANGED breaker
  /\ Tell("Connected", TRUE)
  /\ ScheduleHealthCheck

\* connect() to a server that answers both the handshake and list_all_tools.
ConnectSucceeds ==
  /\ server = "up"
  /\ client' = TRUE /\ state' = "Connected" /\ attempts' = 0
  /\ ResetBreaker
  /\ Tell("Connected", TRUE)
  /\ ScheduleHealthCheck

\* connect(), and what on_start and Reconnect do when it fails.  fails and open
\* are the breaker a failed handshake leaves; once the handshake succeeded the
\* attempts and the breaker are already reset when listing the tools fails.
ConnectOrRetry(fails, open) ==
  \/ ConnectSucceeds
  \/ /\ server = "partial"
     /\ client' = TRUE
     /\ ResetBreaker
     /\ ScheduleReconnect(0)
  \/ /\ server = "down"
     /\ client' = FALSE
     /\ failures' = fails /\ openFor' = open
     /\ ScheduleReconnect(attempts)

\* record_failure: it returns OpensNow.
CountFailure == failures' = IF failures < FailureBound THEN failures + 1 ELSE failures
OpensNow == failures + 1 >= MaxFailures /\ ~IsOpen

\* Wrong on purpose: nothing wakes the backend after the cooldown; the
\* reconnect does not wait for the cooldown; the registry is not told.
OpenCircuitForever ==
  /\ CountFailure /\ openFor' = 0 /\ state' = "CircuitOpen"
  /\ Tell("CircuitOpen", FALSE)
  /\ UNCHANGED timers
OpenCircuitBackoff ==
  /\ CountFailure /\ openFor' = 0 /\ state' = "CircuitOpen"
  /\ Tell("CircuitOpen", FALSE)
  /\ SleepThenSend("Reconnect", Backoff(attempts))
OpenCircuitSilent ==
  /\ CountFailure /\ openFor' = 0 /\ state' = "CircuitOpen"
  /\ SleepThenSend("Reconnect", Cooldown)
  /\ UNCHANGED told

\* handle_call_failure when record_failure returned true.
OpenCircuit ==
  /\ CountFailure /\ openFor' = 0
  /\ state' = "CircuitOpen"
  /\ Tell("CircuitOpen", FALSE)
  /\ SleepThenSend("Reconnect", Cooldown)
-----------------------------------------------------------------------------
(* The actor.                                                              *)

Start ==
  /\ phase = "spawned"
  /\ phase' = "running"
  /\ ConnectOrRetry(failures, openFor)
  /\ UNCHANGED <<mailbox, server, forced>>

Receive(m) ==
  /\ phase = "running"
  /\ mailbox # <<>> /\ Head(mailbox) = m
  /\ mailbox' = Tail(mailbox)
  /\ forced' = (forced \/ m = "ForceReconnect")
  /\ UNCHANGED server

\* CallTool, ReadResource and GetPrompt share their control: the state decides,
\* then call_tool asks the breaker again, then for the client.
Admitted ==
  /\ state = "Connected" \/ (state = "CircuitOpen" /\ ShouldAttemptClose)
  /\ IsOpen => ShouldAttemptClose
  /\ client

CallRejected ==
  /\ Receive("CallTool") /\ ~Admitted
  /\ UNCHANGED <<phase, state, client, attempts, breaker, timers, told>>

CallSucceeds ==
  /\ Receive("CallTool") /\ Admitted
  /\ server # "down"
  /\ ResetBreaker
  /\ UNCHANGED <<phase, state, client, attempts, timers, told>>

\* A server that is up may still answer a call with an error.
CallFails ==
  /\ Receive("CallTool") /\ Admitted
  /\ IF OpensNow
     THEN OpenCircuit
     ELSE CountFailure /\ UNCHANGED <<state, openFor, timers, told>>
  /\ UNCHANGED <<phase, client, attempts>>

\* ListResources, ListPrompts, HealthCheck and GetBackendInfo change nothing.
Query ==
  /\ Receive("Query")
  /\ UNCHANGED <<phase, state, client, attempts, breaker, timers, told>>

ReconnectIgnored ==
  /\ Receive("Reconnect") /\ state = "Connected"
  /\ UNCHANGED <<phase, state, client, attempts, breaker, timers, told>>

Reconnect ==
  /\ Receive("Reconnect") /\ state # "Connected"
  /\ IF ShouldAttemptClose
     THEN ConnectOrRetry(0, NotOpen)
     ELSE ConnectOrRetry(failures, openFor)
  /\ UNCHANGED phase

\* Wrong on purpose: a check that passes is not renewed.
HealthCheckOnce ==
  /\ Receive("PerformHealthCheck")
  /\ state = "Connected" /\ client /\ server = "up"
  /\ UNCHANGED <<phase, state, client, attempts, breaker, timers, told>>

HealthCheckPasses ==
  /\ Receive("PerformHealthCheck")
  /\ state = "Connected" /\ client /\ server = "up"
  /\ ScheduleHealthCheck
  /\ UNCHANGED <<phase, state, client, attempts, breaker, told>>

\* Wrong on purpose: a check whose failure opens the circuit reconnects as
\* well, without asking whether the state is still Connected.
HealthCheckFailsTwice ==
  /\ Receive("PerformHealthCheck")
  /\ state = "Connected" /\ ~(client /\ server = "up")
  /\ CountFailure /\ client' = FALSE
  /\ state' = "Reconnecting" /\ attempts' = attempts /\ Tell("Reconnecting", FALSE)
  /\ openFor' = IF OpensNow THEN 0 ELSE openFor
  /\ timers' = [timers EXCEPT !["Reconnect"][Backoff(attempts)] = @ + 1,
                              !["Reconnect"][Cooldown] = @ + (IF OpensNow THEN 1 ELSE 0)]
  /\ UNCHANGED phase

HealthCheckFails ==
  /\ Receive("PerformHealthCheck")
  /\ state = "Connected" /\ ~(client /\ server = "up")
  /\ IF OpensNow
     THEN OpenCircuit /\ UNCHANGED <<client, attempts>>
     ELSE /\ CountFailure
          /\ client' = FALSE
          /\ ScheduleReconnect(attempts)
          /\ UNCHANGED openFor
  /\ UNCHANGED phase

\* A check that finds the backend not connected passes and is not renewed.
HealthCheckSkipped ==
  /\ Receive("PerformHealthCheck") /\ state # "Connected"
  /\ UNCHANGED <<phase, state, client, attempts, breaker, timers, told>>

\* The operator's reconnect: no retry and no word to the registry on failure.
ForceReconnect ==
  /\ Receive("ForceReconnect")
  /\ ResetBreaker
  /\ \/ ConnectSucceeds
     \/ /\ server \in {"partial", "down"}
        /\ client' = (server = "partial")
        /\ state' = IF server = "partial" THEN "Connected" ELSE "Connecting"
        /\ attempts' = 0
        /\ UNCHANGED <<timers, told>>
  /\ UNCHANGED phase

\* Wrong on purpose: the sleeping tasks outlive the actor.
StopKeepsTimers ==
  /\ Receive("Stop")
  /\ phase' = "stopped"
  /\ client' = FALSE /\ state' = "Disconnected"
  /\ UNCHANGED <<attempts, breaker, timers, told>>

\* on_stop: cancel every sleeping task and drop the client.  Messages left in
\* the mailbox are dropped by the runtime.
Stop ==
  /\ Receive("Stop")
  /\ phase' = "stopped"
  /\ timers' = NoTimers
  /\ client' = FALSE /\ state' = "Disconnected"
  /\ UNCHANGED <<attempts, breaker, told>>
-----------------------------------------------------------------------------
(* Time and the environment.                                               *)

TimerFires(m) ==
  /\ timers[m][0] > 0
  /\ timers' = [timers EXCEPT ![m][0] = @ - 1]
  /\ mailbox' = Append(mailbox, m)
  /\ UNCHANGED <<phase, state, client, attempts, breaker, told, server, forced>>

Tick ==
  /\ timers' = [m \in TimerMsg |-> [d \in Delays |->
                  (IF d + 1 \in Delays THEN timers[m][d + 1] ELSE 0)
                  + (IF d = 0 THEN timers[m][0] ELSE 0)]]
  /\ openFor' = IF IsOpen /\ openFor < Cooldown THEN openFor + 1 ELSE openFor
  /\ UNCHANGED <<phase, state, client, attempts, failures, mailbox, told, server, forced>>

Backlog ==
  Len(mailbox) + SumFunction(timers["Reconnect"])
               + SumFunction(timers["PerformHealthCheck"])

\* A message reaches the mailbox as soon as the actor is spawned.
Send(m) ==
  /\ phase # "stopped" /\ Backlog < MaxPending
  /\ mailbox' = Append(mailbox, m)
  /\ UNCHANGED <<phase, state, client, attempts, breaker, timers, told, server, forced>>

ServerChanges ==
  /\ server' \in ServerModes \ {server}
  /\ server' # "up" => Backlog < MaxPending
  /\ UNCHANGED <<phase, state, client, attempts, breaker, timers, mailbox, told, forced>>

Handle ==
  \/ CallRejected \/ CallSucceeds \/ CallFails \/ Query
  \/ ReconnectIgnored \/ Reconnect
  \/ HealthCheckPasses \/ HealthCheckFails \/ HealthCheckSkipped
  \/ ForceReconnect \/ Stop

Next ==
  \/ Start \/ Handle \/ Tick \/ ServerChanges
  \/ \E m \in TimerMsg : TimerFires(m)
  \/ \E m \in Requests : Send(m)

Spec == Init /\ [][Next]_vars

(* The runtime eventually starts the actor, delivers the head of its       *)
(* mailbox and wakes a due task, and time passes.  Nothing is assumed of   *)
(* clients, of operators or of the server.  That a handler ends follows    *)
(* from the timeouts of its connects, calls and listings; disconnect's     *)
(* cancel().await (backend.rs 622-628) has none and is assumed to end.     *)
Fairness ==
  /\ WF_vars(Start) /\ WF_vars(Handle) /\ WF_vars(Tick)
  /\ \A m \in TimerMsg : WF_vars(TimerFires(m))

FairSpec == Spec /\ Fairness
-----------------------------------------------------------------------------
Sleeping(m) == \E d \in Delays : timers[m][d] > 0
Queued(m) == \E i \in DOMAIN mailbox : mailbox[i] = m
Pending(m) == Sleeping(m) \/ Queued(m)

(* A backend that reports itself connected has a client, a closed breaker  *)
(* and fewer failures than would open it: nothing stands between a call    *)
(* and the server (call_tool's two early returns, backend.rs:415-438).     *)
ConnectedSane ==
  state = "Connected" =>
    client /\ ~IsOpen /\ (failures = 0 \/ failures < MaxFailures)

(* A running backend never rests in Disconnected or Failed, and one that   *)
(* waits to reconnect, or for its breaker to cool down, always has a       *)
(* Reconnect asleep or queued: no order of calls, checks, timers and       *)
(* operator requests loses it (Reconnect, 975-1019).                       *)
NotStranded ==
  phase = "running" =>
    /\ state \notin {"Disconnected", "Failed"}
    /\ state \in {"Reconnecting", "CircuitOpen"} => Pending("Reconnect")

(* "Maintains the connection (reconnects on failure with exponential       *)
(* backoff)", backend.rs:4: whenever a running backend is not connected, a *)
(* Reconnect is on its way.  ForceReconnect does not keep this.            *)
AlwaysRetries ==
  phase = "running" /\ state # "Connected" => Pending("Reconnect")

(* As long as no operator has forced a reconnect, the code does keep it.   *)
RecoveryPending == ~forced => AlwaysRetries

(* There is one reconnect loop at most: exactly one Reconnect is asleep or *)
(* queued while the backend is not connected and none while it is, so      *)
(* attempts and backoff count one sequence of retries, until an operator   *)
(* forces a reconnect while a timer sleeps.                                *)
CountPending(m) ==
  SumFunction(timers[m]) + Cardinality({i \in DOMAIN mailbox : mailbox[i] = m})
SingleReconnectLoop ==
  phase = "running" /\ ~forced =>
    CountPending("Reconnect") = (IF state = "Connected" THEN 0 ELSE 1)

(* What the registry was last told is what the actor is, until an operator *)
(* forces a reconnect: the tools are advertised exactly while it is        *)
(* connected.                                                              *)
RegistryAgrees ==
  phase = "running" /\ ~forced =>
    told = [state |-> state, tools |-> state = "Connected"]

(* With or without forced reconnects, tools are advertised only for a      *)
(* backend that is connected or that an operator just tried to reconnect:  *)
(* never for one with an open circuit or waiting to retry.                 *)
AdvertisedServed ==
  phase = "running" /\ told.tools => state \in {"Connected", "Connecting"}

(* "Performs periodic health checks", backend.rs:7: while the backend is   *)
(* connected, and no reconnect was ever forced, the next check is asleep   *)
(* or queued.                                                              *)
HealthWatched ==
  phase = "running" /\ state = "Connected" /\ HealthInterval > 0 /\ ~forced =>
    Pending("PerformHealthCheck")

(* "Circuit breaker is open due to repeated failures", types.rs: a backend *)
(* that reports CircuitOpen has an open breaker.                           *)
OpenStateMeansOpen == state = "CircuitOpen" => IsOpen

(* "Cooldown period before attempting to close the circuit",               *)
(* backend.rs:71: until an operator forces a reconnect, only stopping the  *)
(* backend takes it out of CircuitOpen before the cooldown has passed.     *)
CooldownRespected ==
  [][/\ state = "CircuitOpen" /\ state' # "CircuitOpen"
     /\ Head(mailbox) # "Stop" /\ ~forced'
     /\ IsOpen
     => openFor >= Cooldown]_vars

(* Once the server stays up, and unless it is stopped or an operator       *)
(* forces a reconnect, the backend is connected again and again: failed    *)
(* calls may open the circuit, but it never stays open.                    *)
Recovers ==
  (<>[](server = "up") /\ [](phase # "stopped" /\ ~forced)) => []<>(state = "Connected")

(* A stop request takes effect behind whatever is queued before it, and    *)
(* from then on no task is asleep and no client is open: no timer, call or *)
(* reconnect that was under way starts one again (on_stop, 808-817).       *)
StopTakesEffect ==
  /\ Queued("Stop") ~> phase = "stopped"
  /\ [](phase = "stopped" => timers = NoTimers /\ ~client)

(* A server that goes down for good is noticed without any client calling  *)
(* it, unless an operator forces a reconnect: the registry stops           *)
(* advertising its tools.                                                  *)
OutageNoticed ==
  HealthInterval > 0 =>
    (<>[](server = "down") /\ []~forced => <>[](phase = "stopped" \/ ~told.tools))
=============================================================================
