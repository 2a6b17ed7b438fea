------------------------------ MODULE Requests ------------------------------
(***************************************************************************)
(* One MCP request from its arrival over HTTP (src/src/server.rs) through  *)
(* the gateway actor to a task of its own (RequestRouter in                *)
(* src/src/gateway.rs) that asks the registry and the backend actors, and  *)
(* the operators' actions that change the backends meanwhile.              *)
(*                                                                         *)
(* The task works with the map of backends the gateway had when it took    *)
(* the request.  An actor in it may have been stopped since: what is       *)
(* behind a stop in a mailbox is dropped, and a stopped actor refuses.     *)
(* The registry is the abstract ToolDirectory, which Registry.tla          *)
(* implements; its content changes at any time.                            *)
(***************************************************************************)
EXTENDS Naturals, Sequences

CONSTANTS
  Backends, Actors, NoActor,
  Tools, Names, NsName,      \* NsName[b, t]: the prefixed name of a tool
  Groups, GroupNames, All,   \* All: the endpoint without a group
  Tokens,                    \* identities; one without restrictions stands
                             \* for the shared token and for no authentication
  AllowedBackends, AllowedTools,  \* per token, empty = all; AllowedTools are
                                  \* the prefixed names its patterns match
  Requests,
  Asks                       \* the requests clients send, see Ask

ForceMsg == "force"
StopMsg == "stop"

\* tools/list on /mcp or a group's endpoint, or ("nogroup") where no group of that
\* name is configured; tools/call; resources/read and prompts/get, which name a
\* backend; resources/list and prompts/list, which ask all of them; a message
\* without an id; anything else.
Ask == [method : {"list"}, group : Groups \cup {All}]
       \cup [method : {"call"}, name : Names]
       \cup [method : {"direct"}, backend : Backends]
       \cup [method : {"nogroup", "collect", "notification", "other"}]

ASSUME RequestsAssumption ==
  /\ Backends # {} /\ Tokens # {} /\ Asks # {}
  /\ NoActor \notin Actors /\ All \notin Groups
  /\ NsName \in [Backends \X Tools -> Names]
  /\ \A d, e \in Backends \X Tools : NsName[d] = NsName[e] => d = e
  /\ GroupNames \in [Groups -> SUBSET Names]
  /\ AllowedBackends \in [Tokens -> SUBSET Backends]
  /\ AllowedTools \in [Tokens -> SUBSET Names]
  /\ Asks \subseteq Ask
  /\ Requests \cap {ForceMsg, StopMsg} = {}

VARIABLES
  dir, withdrawn,  \* the registry, see ToolDirectory
  router,   \* GatewayActor.backends
  busy,     \* the actor whose reconnect the gateway awaits
  actor,    \* every backend actor: whose it is, and whether it lives
  inbox,    \* its mailbox; the head is being handled
  stopped,  \* history: the actors asked to stop that have not stopped yet
  phase,    \* of every request
  job,      \* who sent it, what it asks, and `stopped` at that time
  snap,     \* RequestRouter.backends of its task
  part,     \* what its task still has to ask and what it knows so far
  answer

registry == <<dir, withdrawn>>
gateway == <<router, busy, actor, inbox, stopped>>
task == <<phase, job, snap, part, answer>>
vars == <<registry, gateway, task>>

Directory == INSTANCE ToolDirectory WITH reply <- [op |-> "none"]

NoOne == [name |-> CHOOSE b \in Backends : TRUE, live |-> FALSE]
Phases == {"idle", "arrived", "queued", "routing", "filtering", "collecting", "calling",
           "answered"}
NoJob == [who |-> CHOOSE w \in Tokens : TRUE, ask |-> CHOOSE k \in Asks : TRUE, gone |-> {}]
NoSnap == [b \in Backends |-> NoActor]
NoPart == [todo |-> {}, got |-> {}, tools |-> {}]
Answers == [is : {"none", "error", "forbidden", "accepted", "done"}]
           \cup [is : {"tools"}, tools : SUBSET Names]
           \cup [is : {"parts"}, from : SUBSET Backends]
           \cup [is : {"result"}, from : Backends]
None == [is |-> "none"]
Error == [is |-> "error"]

TypeOK ==
  /\ dir \in [Backends -> SUBSET Tools] /\ withdrawn \in SUBSET (Backends \X Tools)
  /\ router \in [Backends -> Actors \cup {NoActor}]
  /\ busy \in Actors \cup {NoActor}
  /\ actor \in [Actors -> [name : Backends, live : BOOLEAN]]
  /\ inbox \in [Actors -> Seq(Requests \cup {ForceMsg, StopMsg})]
  /\ stopped \in SUBSET Actors
  /\ phase \in [Requests -> Phases]
  /\ job \in [Requests -> [who : Tokens, ask : Asks, gone : SUBSET Actors]]
  /\ snap \in [Requests -> [Backends -> Actors \cup {NoActor}]]
  /\ part \in [Requests -> [todo : SUBSET Backends, got : SUBSET Backends,
                            tools : SUBSET Names]]
  /\ answer \in [Requests -> Answers]

\* The gateway has finished on_start; which backends it runs is open.
Init ==
  /\ Directory!Init
  /\ actor = [a \in Actors |-> NoOne]
  /\ router = NoSnap /\ busy = NoActor /\ stopped = {}
  /\ inbox = [a \in Actors |-> <<>>]
  /\ phase = [r \in Requests |-> "idle"]
  /\ job = [r \in Requests |-> NoJob]
  /\ snap = [r \in Requests |-> NoSnap]
  /\ part = [r \in Requests |-> NoPart]
  /\ answer = [r \in Requests |-> None]
-----------------------------------------------------------------------------
(* Access control, auth.rs.                                                *)

BackendOK(w, b) == AllowedBackends[w] = {} \/ b \in AllowedBackends[w]
ToolOK(w, n) == AllowedTools[w] = {} \/ n \in AllowedTools[w]
Restricted(w) == AllowedBackends[w] # {} \/ AllowedTools[w] # {}

\* Wrong on purpose: a token that may call the tool sees it, whoever has it.
PermittedByTool(w, b, n) == ToolOK(w, n)

\* tool_permitted
Permitted(w, b, n) == BackendOK(w, b) /\ ToolOK(w, n)
-----------------------------------------------------------------------------
(* The steps of a request.                                                 *)

Who(r) == job[r].who
AskOf(r) == job[r].ask

\* The answer is sent and the task ends.
Reply(r, x) ==
  /\ phase' = [phase EXCEPT ![r] = "answered"]
  /\ answer' = [answer EXCEPT ![r] = x]
  /\ snap' = [snap EXCEPT ![r] = NoSnap]
  /\ part' = [part EXCEPT ![r] = NoPart]
  /\ job' = [job EXCEPT ![r] = NoJob]

\* What the requests in R asked of backend b came back.
Return(R, b, ok) ==
  LET C == {r \in R : AskOf(r).method = "collect"} IN
  /\ phase' = [r \in Requests |-> IF r \in C THEN "collecting"
                                  ELSE IF r \in R THEN "answered" ELSE phase[r]]
  /\ answer' = [r \in Requests |-> IF r \notin R \ C THEN answer[r]
                                   ELSE IF ok THEN [is |-> "result", from |-> b] ELSE Error]
  /\ snap' = [r \in Requests |-> IF r \in R \ C THEN NoSnap ELSE snap[r]]
  /\ part' = [r \in Requests |->
                IF r \in C THEN [todo |-> part[r].todo \ {b}, tools |-> {},
                                 got |-> part[r].got \cup (IF ok THEN {b} ELSE {})]
                ELSE IF r \in R THEN NoPart ELSE part[r]]
  /\ job' = [r \in Requests |-> IF r \in R \ C THEN NoJob ELSE job[r]]

\* ask() on an actor of the snapshot: it refuses if it has stopped.
AskBackend(r, b) ==
  LET a == snap[r][b] IN
  \/ /\ actor[a].live
     /\ inbox' = [inbox EXCEPT ![a] = Append(@, r)]
     /\ phase' = [phase EXCEPT ![r] = "calling"]
     /\ UNCHANGED <<router, busy, actor, stopped, job, snap, part, answer>>
  \/ ~actor[a].live /\ Return({r}, b, FALSE) /\ UNCHANGED gateway

\* The handlers behind verify_auth, which found w.
Arrive(r) ==
  /\ phase[r] = "idle"
  /\ \E w \in Tokens, k \in Asks :
       job' = [job EXCEPT ![r] = [who |-> w, ask |-> k, gone |-> stopped]]
  /\ phase' = [phase EXCEPT ![r] = "arrived"]
  /\ UNCHANGED <<registry, gateway, snap, part, answer>>

\* A notification is accepted and not forwarded; a call of a tool the token may
\* not call is refused here; anything else goes to the gateway actor.
HandleHttp(r) ==
  /\ phase[r] = "arrived"
  /\ LET k == AskOf(r) IN
     \/ k.method = "notification" /\ Reply(r, [is |-> "accepted"])
     \/ k.method = "call" /\ ~ToolOK(Who(r), k.name) /\ Reply(r, [is |-> "forbidden"])
     \/ /\ k.method # "notification" /\ (k.method = "call" => ToolOK(Who(r), k.name))
        /\ phase' = [phase EXCEPT ![r] = "queued"]
        /\ UNCHANGED <<job, snap, part, answer>>
  /\ UNCHANGED <<registry, gateway>>

\* HandleRequest and HandleGroupRequest: the gateway spawns the task.
Snapshot(r) ==
  /\ phase[r] = "queued" /\ busy = NoActor
  /\ phase' = [phase EXCEPT ![r] = "routing"]
  /\ snap' = [snap EXCEPT ![r] = router]
  /\ UNCHANGED <<registry, gateway, job, part, answer>>

Routing(r, m) == phase[r] = "routing" /\ AskOf(r).method = m

\* initialize, ping, an unknown method, a name or URI without its separator.
Other(r) ==
  /\ Routing(r, "other")
  /\ Reply(r, [is |-> "done"])
  /\ UNCHANGED <<registry, gateway>>

\* tools/list of a group that is not configured: the registry's error.
ListNoGroup(r) ==
  /\ Routing(r, "nogroup")
  /\ Reply(r, Error)
  /\ UNCHANGED <<registry, gateway>>

NamesOf(E) == {NsName[e] : e \in E}

\* tools/list, the first question: ListTools or ListToolGroup.  The task has
\* no further use for its map of backends.
ListTools(r) ==
  /\ Routing(r, "list")
  /\ LET g == AskOf(r).group
         L == NamesOf(IF g = All THEN Directory!Listed
                      ELSE Directory!InGroup(g, Directory!Listed)) IN
     IF Restricted(Who(r))
     THEN /\ phase' = [phase EXCEPT ![r] = "filtering"]
          /\ part' = [part EXCEPT ![r].tools = L]
          /\ snap' = [snap EXCEPT ![r] = NoSnap]
          /\ UNCHANGED <<job, answer>>
     ELSE Reply(r, [is |-> "tools", tools |-> L])
  /\ UNCHANGED <<registry, gateway>>

\* Wrong on purpose: the tools go out under their own names.
FilterOwnNames(r) ==
  /\ phase[r] = "filtering"
  /\ Reply(r, [is |-> "tools", tools |->
       {e[2] : e \in {d \in Directory!Entries :
                        NsName[d] \in part[r].tools /\ Permitted(Who(r), d[1], NsName[d])}}])
  /\ UNCHANGED <<registry, gateway>>

\* The second question, GetBackendStatus: what the token may have of what is
\* in the table by now.
FilterTools(r) ==
  /\ phase[r] = "filtering"
  /\ Reply(r, [is |-> "tools", tools |-> part[r].tools \cap
       NamesOf({e \in Directory!Entries : Permitted(Who(r), e[1], NsName[e])})])
  /\ UNCHANGED <<registry, gateway>>

\* tools/call: resolve, check the backend, look it up in the snapshot, call.
CallTool(r) ==
  /\ Routing(r, "call")
  /\ LET route == {e \in Directory!Entries : NsName[e] = AskOf(r).name} IN
     \/ /\ \/ route = {}
           \/ \E e \in route : ~BackendOK(Who(r), e[1]) \/ snap[r][e[1]] = NoActor
        /\ Reply(r, Error) /\ UNCHANGED gateway
     \/ \E e \in route : /\ BackendOK(Who(r), e[1]) /\ snap[r][e[1]] # NoActor
                         /\ AskBackend(r, e[1])
  /\ UNCHANGED registry

\* Wrong on purpose: whoever knows the name of a backend reaches it.
DirectUnchecked(r) ==
  /\ Routing(r, "direct")
  /\ LET b == AskOf(r).backend IN
     \/ snap[r][b] = NoActor /\ Reply(r, Error) /\ UNCHANGED gateway
     \/ snap[r][b] # NoActor /\ AskBackend(r, b)
  /\ UNCHANGED registry

\* resources/read and prompts/get: the backend is the prefix of the URI or name.
Direct(r) ==
  /\ Routing(r, "direct")
  /\ LET b == AskOf(r).backend IN
     \/ /\ ~BackendOK(Who(r), b) \/ snap[r][b] = NoActor
        /\ Reply(r, Error) /\ UNCHANGED gateway
     \/ BackendOK(Who(r), b) /\ snap[r][b] # NoActor /\ AskBackend(r, b)
  /\ UNCHANGED registry

\* permitted_backends
PermittedBackends(r) == {b \in Backends : snap[r][b] # NoActor /\ BackendOK(Who(r), b)}

\* resources/list and prompts/list: the permitted backends of the snapshot, one
\* after the other; one that fails is left out.
Collect(r) ==
  /\ Routing(r, "collect")
  /\ phase' = [phase EXCEPT ![r] = "collecting"]
  /\ part' = [part EXCEPT ![r].todo = PermittedBackends(r)]
  /\ UNCHANGED <<registry, gateway, job, snap, answer>>

CollectNext(r) ==
  /\ phase[r] = "collecting"
  /\ \/ /\ part[r].todo = {}
        /\ Reply(r, [is |-> "parts", from |-> part[r].got]) /\ UNCHANGED gateway
     \/ \E b \in part[r].todo : AskBackend(r, b)
  /\ UNCHANGED registry

\* The client has its answer.
Done(r) ==
  /\ phase[r] = "answered"
  /\ phase' = [phase EXCEPT ![r] = "idle"]
  /\ answer' = [answer EXCEPT ![r] = None]
  /\ UNCHANGED <<registry, gateway, job, snap, part>>
-----------------------------------------------------------------------------
(* Backend actors, Backend.tla in one step per message.                    *)

HandleCall(a) ==
  /\ inbox[a] # <<>> /\ Head(inbox[a]) \in Requests
  /\ \E ok \in BOOLEAN : Return({Head(inbox[a])}, actor[a].name, ok)
  /\ inbox' = [inbox EXCEPT ![a] = Tail(@)]
  /\ UNCHANGED <<registry, router, busy, actor, stopped>>

\* The reconnect succeeded or failed; the gateway goes on.
HandleForce(a) ==
  /\ inbox[a] # <<>> /\ Head(inbox[a]) = ForceMsg
  /\ busy' = NoActor
  /\ inbox' = [inbox EXCEPT ![a] = Tail(@)]
  /\ UNCHANGED <<registry, router, actor, stopped, task>>

\* Wrong on purpose: the callers still waiting are not told.
StopSilently(a) ==
  /\ inbox[a] # <<>> /\ Head(inbox[a]) = StopMsg
  /\ actor' = [actor EXCEPT ![a] = NoOne]
  /\ stopped' = stopped \ {a}
  /\ inbox' = [inbox EXCEPT ![a] = <<>>]
  /\ UNCHANGED <<registry, router, busy, task>>

\* The stop is reached: what is behind it is dropped, its senders get errors.
HandleStop(a) ==
  /\ inbox[a] # <<>> /\ Head(inbox[a]) = StopMsg
  /\ actor' = [actor EXCEPT ![a] = NoOne]
  /\ stopped' = stopped \ {a}
  /\ Return({r \in Requests : \E i \in DOMAIN inbox[a] : inbox[a][i] = r}, actor[a].name, FALSE)
  /\ inbox' = [inbox EXCEPT ![a] = <<>>]
  /\ UNCHANGED <<registry, router, busy>>
-----------------------------------------------------------------------------
(* Operators and reloads, Gateway.tla, and the registry.                   *)

\* An identity is given out again when nobody refers to the actor that had it;
\* which one a new actor gets makes no difference.
Free(a) ==
  /\ ~actor[a].live
  /\ \A r \in Requests : a \notin job[r].gone /\ \A b \in Backends : snap[r][b] # a

Enable(b) ==
  /\ busy = NoActor /\ router[b] = NoActor /\ \E a \in Actors : Free(a)
  /\ LET a == CHOOSE a \in Actors : Free(a) IN
       /\ router' = [router EXCEPT ![b] = a]
       /\ actor' = [actor EXCEPT ![a] = [name |-> b, live |-> TRUE]]
  /\ UNCHANGED <<registry, busy, inbox, stopped, task>>

\* Wrong on purpose: the stopped actor stays in the map.
DisableButKeep(b) ==
  LET a == router[b] IN
  /\ busy = NoActor /\ a # NoActor /\ a \notin stopped
  /\ inbox' = [inbox EXCEPT ![a] = Append(@, StopMsg)]
  /\ stopped' = stopped \cup {a}
  /\ UNCHANGED <<registry, router, busy, actor, task>>

Disable(b) ==
  LET a == router[b] IN
  /\ busy = NoActor /\ a # NoActor
  /\ router' = [router EXCEPT ![b] = NoActor]
  /\ inbox' = [inbox EXCEPT ![a] = Append(@, StopMsg)]
  /\ stopped' = stopped \cup {a}
  /\ UNCHANGED <<registry, busy, actor, task>>

\* ForceBackendReconnect is awaited inside the gateway's handler.
ForceReconnect(b) ==
  LET a == router[b] IN
  /\ busy = NoActor /\ a # NoActor
  /\ busy' = a
  /\ inbox' = [inbox EXCEPT ![a] = Append(@, ForceMsg)]
  /\ UNCHANGED <<registry, router, actor, stopped, task>>

RegistryChanges ==
  /\ \/ \E b \in Backends, T \in SUBSET Tools : Directory!Publish(b, T)
     \/ \E b \in Backends : Directory!Register(b)
     \/ Directory!Forget
  /\ UNCHANGED <<gateway, task>>

Task(r) ==
  \/ HandleHttp(r) \/ Other(r) \/ ListNoGroup(r) \/ ListTools(r) \/ FilterTools(r)
  \/ CallTool(r) \/ Direct(r) \/ Collect(r) \/ CollectNext(r)
Handle(a) == HandleCall(a) \/ HandleForce(a) \/ HandleStop(a)

Next ==
  \/ \E r \in Requests : Arrive(r) \/ Snapshot(r) \/ Task(r) \/ Done(r)
  \/ \E a \in Actors : Handle(a)
  \/ \E b \in Backends : Enable(b) \/ Disable(b) \/ ForceReconnect(b)
  \/ RegistryChanges

Spec == Init /\ [][Next]_vars

(* Tasks run; a backend handles every message, each call and each connect  *)
(* having a timeout (a disconnect has none and is assumed to end); the     *)
(* gateway's mailbox is first in first out, so that a request in it is     *)
(* reached however many operators keep the gateway busy.                   *)
Fairness ==
  /\ \A r \in Requests : WF_vars(Task(r)) /\ SF_vars(Snapshot(r))
  /\ \A a \in Actors : WF_vars(Handle(a))
FairSpec == Spec /\ Fairness
-----------------------------------------------------------------------------
ToolOf(b, n) == \E t \in Tools : NsName[<<b, t>>] = n
Waits(r, a) == \E i \in DOMAIN inbox[a] : inbox[a][i] = r

(* Access control, with the name resolved, the permission checked and the  *)
(* actor looked up in three different places: no backend ever receives a   *)
(* request of a token that may not use that backend, and a tool call only  *)
(* reaches the backend whose tool it is, if the token may call it.         *)
NeverForbidden ==
  \A r \in Requests, a \in Actors : Waits(r, a) =>
    LET b == actor[a].name k == AskOf(r) IN
    /\ BackendOK(Who(r), b)
    /\ k.method = "call" => ToolOK(Who(r), k.name) /\ ToolOf(b, k.name)

(* A request that arrives after an operator disabled a backend, or a       *)
(* reload removed it, does not reach the actor that was told to stop, even *)
(* if that actor still works off its mailbox and the registry still lists  *)
(* its tools.                                                              *)
DisabledStaysUncalled ==
  \A r \in Requests, a \in Actors : Waits(r, a) => a \notin job[r].gone

(* "Resolved token identity", HandleRequest: what the answers to a request *)
(* may hold.                                                               *)
AllowedAnswers(w, k) ==
  CASE k.method = "notification" -> {[is |-> "accepted"]}
    [] k.method = "other" -> {[is |-> "done"]}
    [] k.method = "nogroup" -> {Error}
    [] k.method = "list" ->
         {[is |-> "tools", tools |-> T] : T \in SUBSET
           {n \in Names : /\ \E b \in Backends : ToolOf(b, n) /\ BackendOK(w, b)
                          /\ ToolOK(w, n) /\ (k.group # All => n \in GroupNames[k.group])}}
    [] k.method = "call" ->
         IF ~ToolOK(w, k.name) THEN {[is |-> "forbidden"]}
         ELSE {Error} \cup {[is |-> "result", from |-> b] :
                 b \in {c \in Backends : BackendOK(w, c) /\ ToolOf(c, k.name)}}
    [] k.method = "direct" ->
         {Error} \cup {[is |-> "result", from |-> b] :
                         b \in {c \in Backends : BackendOK(w, c) /\ c = k.backend}}
    [] k.method = "collect" ->
         {[is |-> "parts", from |-> B] : B \in SUBSET {c \in Backends : BackendOK(w, c)}}

\* What the clients see of their requests.
Seen == [r \in Requests |->
  IF phase[r] = "idle" THEN [is |-> "idle"]
  ELSE IF phase[r] = "answered" THEN [is |-> "answered", answer |-> answer[r]]
  ELSE [is |-> "pending", who |-> Who(r), ask |-> AskOf(r)]]

Service == INSTANCE RequestService WITH Allowed <- AllowedAnswers, state <- Seen

(* Each request gets one answer, and only what its token may have: a       *)
(* listing shows no tool that the token could not call, although the       *)
(* registry changes between the two questions it takes.                    *)
ImplementsService == Service!Spec

(* Every request is answered, whatever is stopped, replaced or reconnected *)
(* while it is under way: the gateway, which awaits a reconnect inside its *)
(* handler, always goes on, and the callers behind a stop are told.        *)
Answered == \A r \in Requests : phase[r] = "arrived" ~> phase[r] = "answered"
=============================================================================
