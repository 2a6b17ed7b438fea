------------------------------ MODULE Gateway ------------------------------
(***************************************************************************)
(* The gateway actor (src/src/gateway.rs) starting and stopping backend    *)
(* actors, and the registry hearing about it from both: the gateway tells  *)
(* the registry what it did, and every backend actor tells it what became  *)
(* of its connection, on one first-in-first-out mailbox.                   *)
(*                                                                         *)
(* stop_gracefully only queues a stop behind the actor's other messages,   *)
(* and an actor first finishes on_start, so an actor that was asked to     *)
(* stop lives on for a while and still speaks for its name.  Backend.tla   *)
(* has the detail of an actor; here it is what it last told the registry.  *)
(***************************************************************************)
EXTENDS Naturals, SequencesExt

CONSTANTS
  Backends,  \* backend names, finitely many; a configuration has each at most once
  Actors,    \* identities of backend actors; one that has stopped is reused
  Configs,   \* the configurations that may be loaded
  NoActor,
  MaxBox     \* bound: the registry backlog below which operators act and
             \* running actors report

ASSUME GatewayAssumption ==
  /\ Configs \subseteq [Backends -> {"absent", "disabled", "enabled"}]
  /\ Backends # {} /\ IsFiniteSet(Backends) /\ NoActor \notin Actors
  /\ MaxBox \in Nat

VARIABLES
  booted,   \* on_start has run
  config,   \* GatewayActor.config: whether and how a backend is configured
  router,   \* GatewayActor.backends
  actors,   \* every backend actor: its name, phase, pending stop, last word
  box,      \* the registry's mailbox
  table,    \* the registry's entry: absent, down or connected
  overlap   \* history: the names whose present actor was started while an
            \* earlier actor of the same name had not stopped

vars == <<booted, config, router, actors, box, table, overlap>>

Word == {"none", "down", "connected"}
Message == [kind : {"register", "remove"}, name : Backends]
           \cup [kind : {"update"}, name : Backends, state : {"down", "connected"}]

\* on_start tells the registry how it ended, so who runs has said something.
TypeOK ==
  /\ booted \in BOOLEAN
  /\ config \in Configs
  /\ router \in [Backends -> Actors \cup {NoActor}]
  /\ actors \in [Actors -> [phase : {"free", "starting", "running"}, name : Backends,
                            stop : BOOLEAN, told : Word]]
  /\ \A a \in Actors : actors[a].told = "none" <=> actors[a].phase # "running"
  /\ box \in Seq(Message)
  /\ table \in [Backends -> {"absent", "down", "connected"}]
  /\ overlap \in SUBSET Backends

Register(b) == [kind |-> "register", name |-> b]
Forget(b) == [kind |-> "remove", name |-> b]
Update(b, s) == [kind |-> "update", name |-> b, state |-> s]

Free == {a \in Actors : actors[a].phase = "free"}
Lives(b) == \E a \in Actors : actors[a].phase # "free" /\ actors[a].name = b

Init ==
  /\ booted = FALSE
  /\ config \in Configs
  /\ router = [b \in Backends |-> NoActor]
  /\ actors = [a \in Actors |-> [phase |-> "free", name |-> CHOOSE b \in Backends : TRUE,
                                  stop |-> FALSE, told |-> "none"]]
  /\ box = <<>>
  /\ table = [b \in Backends |-> "absent"]
  /\ overlap = {}
-----------------------------------------------------------------------------
(* The gateway.  Each handler runs to completion; the registry hears of it *)
(* in the order of its tells.                                              *)

Starting(b) == [phase |-> "starting", name |-> b, stop |-> FALSE, told |-> "none"]

\* Which actors the backends in B become, all different and free.
Assignments(B) == {f \in [B -> Free] : \A b, c \in B : f[b] = f[c] => b = c}

\* The state after stopping the backends in R and starting those in B as f.
Route(R, B, f) ==
  router' = [b \in Backends |-> IF b \in B THEN f[b]
                                ELSE IF b \in R THEN NoActor ELSE router[b]]
Staff(R, B, f) ==
  /\ actors' = [a \in Actors |->
                  IF \E b \in B : f[b] = a THEN Starting(CHOOSE b \in B : f[b] = a)
                  ELSE IF \E b \in R : router[b] = a THEN [actors[a] EXCEPT !.stop = TRUE]
                  ELSE actors[a]]
  /\ overlap' = (overlap \ B) \cup {b \in B : Lives(b)}
TellAll(R, B) ==
  box' = box \o SetToSeq({Forget(b) : b \in R}) \o SetToSeq({Register(b) : b \in B})

\* A request reaches the gateway after on_start.
Serving == booted /\ Len(box) < MaxBox

InitBackends ==
  LET B == {b \in Backends : config[b] = "enabled"} IN
  /\ ~booted /\ booted' = TRUE
  /\ \E f \in Assignments(B) : Route({}, B, f) /\ Staff({}, B, f)
  /\ TellAll({}, B)
  /\ UNCHANGED <<config, table>>

\* Wrong on purpose: backends missing from the new configuration keep running.
ReloadOnlyAdds(c) ==
  LET B == {b \in Backends : c[b] = "enabled" /\ router[b] = NoActor} IN
  /\ Serving
  /\ \E f \in Assignments(B) : Route({}, B, f) /\ Staff({}, B, f)
  /\ TellAll({}, B)
  /\ config' = c
  /\ UNCHANGED <<booted, table>>

\* ReloadConfig: stop what is not enabled any more, start what is new.  Running
\* backends whose entry changed keep their actor and its old configuration.
ReloadConfig(c) ==
  LET R == {b \in Backends : c[b] # "enabled" /\ router[b] # NoActor}
      B == {b \in Backends : c[b] = "enabled" /\ router[b] = NoActor} IN
  /\ Serving
  /\ \E f \in Assignments(B) : Route(R, B, f) /\ Staff(R, B, f)
  /\ TellAll(R, B)
  /\ config' = c
  /\ UNCHANGED <<booted, table>>

Disable(b) ==
  /\ Serving /\ router[b] # NoActor
  /\ Route({b}, {}, <<>>) /\ Staff({b}, {}, <<>>)
  /\ box' = Append(box, Update(b, "down"))
  /\ UNCHANGED <<booted, config, table>>

\* Wrong on purpose: a backend that already runs is started once more.
EnableAgain(b) ==
  /\ Serving /\ config[b] # "absent"
  /\ \E f \in Assignments({b}) : Route({}, {b}, f) /\ Staff({}, {b}, f)
  /\ TellAll({}, {b})
  /\ UNCHANGED <<booted, config, table>>

\* Any configured backend, also one the configuration disables.
Enable(b) ==
  /\ Serving /\ router[b] = NoActor /\ config[b] # "absent"
  /\ \E f \in Assignments({b}) : Route({}, {b}, f) /\ Staff({}, {b}, f)
  /\ TellAll({}, {b})
  /\ UNCHANGED <<booted, config, table>>
-----------------------------------------------------------------------------
(* A backend actor: on_start ends in one outcome; later its handlers tell  *)
(* the registry, not always something new; a queued stop takes effect once *)
(* what is before it in its mailbox is handled.                            *)

\* Wrong on purpose: a report to a busy registry is dropped.
SaysIfIdle(a, s) ==
  /\ box' = IF Len(box) < MaxBox THEN Append(box, Update(actors[a].name, s)) ELSE box
  /\ actors' = [actors EXCEPT ![a].phase = "running", ![a].told = s]
  /\ UNCHANGED <<booted, config, router, table, overlap>>

Says(a, s) ==
  /\ box' = Append(box, Update(actors[a].name, s))
  /\ actors' = [actors EXCEPT ![a].phase = "running", ![a].told = s]
  /\ UNCHANGED <<booted, config, router, table, overlap>>

\* Wrong on purpose: a connection made in on_start is not announced.
StartedSilently(a) ==
  /\ actors[a].phase = "starting"
  /\ \/ Says(a, "down")
     \/ /\ actors' = [actors EXCEPT ![a].phase = "running"]
        /\ UNCHANGED <<booted, config, router, box, table, overlap>>

Started(a) ==
  actors[a].phase = "starting" /\ \E s \in {"down", "connected"} : Says(a, s)

Reports(a) ==
  /\ actors[a].phase = "running" /\ Len(box) < MaxBox
  /\ \E s \in {"down", "connected"} : Says(a, s)

\* Wrong on purpose: a stop is obeyed only while the backend is connected.
StopsConnected(a) ==
  /\ actors[a].phase = "running" /\ actors[a].stop /\ actors[a].told = "connected"
  /\ actors' = [actors EXCEPT ![a].phase = "free", ![a].stop = FALSE, ![a].told = "none"]
  /\ UNCHANGED <<booted, config, router, box, table, overlap>>

Stops(a) ==
  /\ actors[a].phase = "running" /\ actors[a].stop
  /\ actors' = [actors EXCEPT ![a].phase = "free", ![a].stop = FALSE, ![a].told = "none"]
  /\ UNCHANGED <<booted, config, router, box, table, overlap>>
-----------------------------------------------------------------------------
\* Registry.tla has the detail; here only the entry's state.
RegistryHandles ==
  /\ box # <<>> /\ box' = Tail(box)
  /\ LET m == Head(box) IN
       table' = [table EXCEPT ![m.name] =
                   CASE m.kind = "register" -> "down"
                     [] m.kind = "remove" -> "absent"
                     [] m.kind = "update" -> m.state]
  /\ UNCHANGED <<booted, config, router, actors, overlap>>

Next ==
  \/ InitBackends \/ RegistryHandles
  \/ \E c \in Configs : ReloadConfig(c)
  \/ \E b \in Backends : Disable(b) \/ Enable(b)
  \/ \E a \in Actors : Started(a) \/ Reports(a) \/ Stops(a)

Spec == Init /\ [][Next]_vars

(* The runtime finishes on_start, delivers a queued stop and runs the      *)
(* registry; on_start's connect has a timeout.  Nothing is assumed of      *)
(* operators and of what becomes of a connection.                          *)
Fairness ==
  /\ WF_vars(RegistryHandles)
  /\ \A a \in Actors : WF_vars(Started(a)) /\ WF_vars(Stops(a))
FairSpec == Spec /\ Fairness
-----------------------------------------------------------------------------
(* The gateway and its actors agree: an actor not asked to stop is the one *)
(* the router holds for its name, and the router holds no other.  No       *)
(* reload, disable or enable leaks an actor or routes to a stopped one.    *)
RouterSound ==
  /\ \A a \in Actors : actors[a].phase # "free" /\ ~actors[a].stop
                         => router[actors[a].name] = a
  /\ \A b \in Backends : router[b] # NoActor =>
       LET r == actors[router[b]] IN r.name = b /\ r.phase # "free" /\ ~r.stop

(* What runs is configured: no history of reloads and operator actions     *)
(* leaves an actor running for a name the configuration does not have.     *)
RunningIsConfigured ==
  \A b \in Backends : router[b] # NoActor => config[b] # "absent"

AboutName(b) == {i \in DOMAIN box : box[i].name = b}

(* The registry is right about every backend that runs: once it has        *)
(* handled the messages about it, its entry is what the actor last said,   *)
(* unless the actor was started before its predecessor had stopped.        *)
TableRight ==
  \A b \in Backends :
    router[b] # NoActor /\ b \notin overlap /\ AboutName(b) = {} /\ actors[router[b]].told # "none"
      => table[b] = actors[router[b]].told

(* "Update registry to mark as disconnected", gateway.rs: once the actor   *)
(* of a disabled or removed backend has stopped and the registry has       *)
(* handled the messages about it, the backend is not listed as connected.  *)
NoGhost ==
  \A b \in Backends : ~Lives(b) /\ AboutName(b) = {} => table[b] # "connected"

(* An actor that the gateway dropped does not stay: if a name is never     *)
(* routed again, in the end no actor lives under it.                       *)
NoLingering ==
  \A b \in Backends : <>[](router[b] = NoActor) => <>[]~Lives(b)
=============================================================================
