--------------------------- MODULE RequestsProofs ---------------------------
(***************************************************************************)
(* Theorems about Requests: its types, what reaches a backend, and that it *)
(* implements RequestService, for all backends, tools, tokens, numbers of  *)
(* actors and requests.                                                    *)
(***************************************************************************)
EXTENDS Requests, TLAPS

-----------------------------------------------------------------------------
(* Types.                                                                  *)

Message == Requests \cup {ForceMsg, StopMsg}
Jobs == [who : Tokens, ask : Asks, gone : SUBSET Actors]
Snaps == [Backends -> Actors \cup {NoActor}]
Parts == [todo : SUBSET Backends, got : SUBSET Backends, tools : SUBSET Names]

LEMMA Blanks ==
  /\ NoOne \in [name : Backends, live : BOOLEAN]
  /\ NoJob \in Jobs /\ NoSnap \in Snaps /\ NoPart \in Parts
<1>1. (CHOOSE b \in Backends : TRUE) \in Backends /\ (CHOOSE w \in Tokens : TRUE) \in Tokens
      /\ (CHOOSE k \in Asks : TRUE) \in Asks
  BY RequestsAssumption
<1> QED
  BY <1>1 DEF NoOne, NoJob, NoSnap, NoPart, Jobs, Snaps, Parts

\* What the registry holds and what a listing shows.
LEMMA TableTyped ==
  ASSUME TypeOK
  PROVE  /\ Directory!Entries \subseteq Backends \X Tools
         /\ \A E \in SUBSET (Backends \X Tools) : NamesOf(E) \in SUBSET Names
  BY RequestsAssumption DEF Directory!Entries, TypeOK, NamesOf

\* The four variables of a task after it ends.
LEMMA ReplyTyped ==
  ASSUME TypeOK, NEW r \in Requests, NEW x \in Answers, Reply(r, x)
  PROVE  /\ phase' \in [Requests -> Phases] /\ answer' \in [Requests -> Answers]
         /\ job' \in [Requests -> Jobs] /\ snap' \in [Requests -> Snaps]
         /\ part' \in [Requests -> Parts]
  BY Blanks DEF TypeOK, Reply, Phases, Jobs, Snaps, Parts

LEMMA ReturnTyped ==
  ASSUME TypeOK, NEW R \in SUBSET Requests, NEW b \in Backends, NEW ok \in BOOLEAN,
         Return(R, b, ok)
  PROVE  /\ phase' \in [Requests -> Phases] /\ answer' \in [Requests -> Answers]
         /\ job' \in [Requests -> Jobs] /\ snap' \in [Requests -> Snaps]
         /\ part' \in [Requests -> Parts]
<1> DEFINE C == {r \in R : AskOf(r).method = "collect"}
<1>1. phase' \in [Requests -> Phases]
  BY DEF TypeOK, Return, Phases
<1>2. Error \in Answers /\ [is |-> "result", from |-> b] \in Answers
  BY DEF Error, Answers
<1>3. answer' \in [Requests -> Answers]
  BY <1>2 DEF TypeOK, Return
<1>4. job' \in [Requests -> Jobs]
  BY Blanks DEF TypeOK, Return, Jobs
<1>5. snap' \in [Requests -> Snaps]
  BY Blanks DEF TypeOK, Return, Snaps
<1>6. \A r \in Requests : part[r].todo \in SUBSET Backends /\ part[r].got \in SUBSET Backends
                          /\ part[r] \in Parts
  BY DEF TypeOK, Parts
<1>7. \A r \in Requests : [todo |-> part[r].todo \ {b}, tools |-> {},
         got |-> part[r].got \cup (IF ok THEN {b} ELSE {})] \in Parts
  BY <1>6 DEF Parts
<1>8. part' \in [Requests -> Parts]
  BY <1>6, <1>7, Blanks DEF Return
<1> QED
  BY <1>1, <1>3, <1>4, <1>5, <1>8

LEMMA AppendTyped ==
  ASSUME TypeOK, NEW a \in Actors, NEW m \in Message, inbox' = [inbox EXCEPT ![a] = Append(@, m)]
  PROVE  inbox' \in [Actors -> Seq(Message)]
<1>1. inbox \in [Actors -> Seq(Message)]
  BY DEF TypeOK, Message
<1>2. Append(inbox[a], m) \in Seq(Message)
  BY <1>1
<1> QED
  BY <1>1, <1>2

LEMMA AskTyped ==
  ASSUME TypeOK, NEW r \in Requests, NEW b \in Backends, snap[r][b] # NoActor, AskBackend(r, b)
  PROVE  /\ phase' \in [Requests -> Phases] /\ answer' \in [Requests -> Answers]
         /\ job' \in [Requests -> Jobs] /\ snap' \in [Requests -> Snaps]
         /\ part' \in [Requests -> Parts]
         /\ inbox' \in [Actors -> Seq(Message)]
         /\ UNCHANGED <<router, busy, actor, stopped>>
<1>1. snap[r][b] \in Actors /\ r \in Message
  BY DEF TypeOK, Message
<1>2. CASE actor[snap[r][b]].live
  <2>1. inbox' = [inbox EXCEPT ![snap[r][b]] = Append(@, r)]
    BY <1>2 DEF AskBackend
  <2>3. inbox' \in [Actors -> Seq(Message)]
    BY <1>1, <2>1, AppendTyped
  <2>2. phase' \in [Requests -> Phases]
    BY <1>2 DEF TypeOK, AskBackend, Phases
  <2> QED
    BY <1>2, <2>3, <2>2 DEF TypeOK, AskBackend, Jobs, Snaps, Parts
<1>3. CASE ~actor[snap[r][b]].live
  <2>1. Return({r}, b, FALSE) /\ UNCHANGED gateway
    BY <1>3 DEF AskBackend
  <2> QED
    BY <2>1, ReturnTyped DEF TypeOK, gateway, Message
<1> QED
  BY <1>2, <1>3

LEMMA AskFields ==
  ASSUME TypeOK, NEW r \in Requests
  PROVE  /\ AskOf(r).method = "direct" => AskOf(r).backend \in Backends
         /\ AskOf(r).method = "call" => AskOf(r).name \in Names
<1>1. AskOf(r) \in Ask
  BY RequestsAssumption DEF TypeOK, AskOf
<1> QED
  BY <1>1 DEF Ask

\* A task that asks several backends has backends of its snapshot, and permitted
\* ones, before it; a tool call in the gateway is one the token may make.
CheckedFor(r) ==
  /\ phase[r] \in {"queued", "routing"} /\ AskOf(r).method = "call"
       => ToolOK(Who(r), AskOf(r).name)
  /\ phase[r] = "collecting" => AskOf(r).method = "collect"
  /\ phase[r] \in {"collecting", "calling"} /\ AskOf(r).method = "collect"
       => part[r].todo \subseteq PermittedBackends(r)
Checked == \A r \in Requests : CheckedFor(r)

LEMMA TypeInit == Init => TypeOK
<1> SUFFICES ASSUME Init PROVE TypeOK
  OBVIOUS
<1>1. None \in Answers
  BY DEF None, Answers
<1>2. dir \in [Backends -> SUBSET Tools] /\ withdrawn \in SUBSET (Backends \X Tools)
  BY DEF Init, Directory!Init
<1>3. \A a \in Actors : inbox[a] \in Seq(Message)
  BY DEF Init
<1>4. inbox \in [Actors -> Seq(Message)]
  BY <1>3 DEF Init
<1> QED
  BY <1>1, <1>2, <1>4, Blanks DEF Init, TypeOK, Phases, Jobs, Snaps, Parts, Message

\* What the steps of one request and of one actor leave alone or keep typed.
LEMMA TaskTyped ==
  ASSUME TypeOK, Checked, NEW r \in Requests, Arrive(r) \/ Snapshot(r) \/ Task(r) \/ Done(r)
  PROVE  TypeOK'
<1> USE DEF Jobs, Snaps, Parts, Message, registry, gateway
<1>1. CASE Arrive(r)
  BY <1>1 DEF TypeOK, Arrive, Phases
<1>2. CASE Snapshot(r)
  BY <1>2 DEF TypeOK, Snapshot, Phases
<1>3. CASE Done(r)
  <2>1. None \in Answers
    BY DEF None, Answers
  <2> QED
    BY <1>3, <2>1 DEF TypeOK, Done, Phases
<1>4. CASE HandleHttp(r)
  <2>1. CASE phase' = [phase EXCEPT ![r] = "queued"] /\ UNCHANGED <<job, snap, part, answer>>
    BY <1>4, <2>1 DEF TypeOK, HandleHttp, Phases
  <2>2. CASE \E x \in {[is |-> "accepted"], [is |-> "forbidden"]} : Reply(r, x)
    <3>1. PICK x \in Answers : Reply(r, x)
      BY <2>2 DEF Answers
    <3> QED
      BY <1>4, <3>1, ReplyTyped DEF TypeOK, HandleHttp
  <2> QED
    BY <1>4, <2>1, <2>2 DEF HandleHttp
<1>5. CASE Other(r) \/ ListNoGroup(r)
  <2>1. [is |-> "done"] \in Answers /\ Error \in Answers
    BY DEF Answers, Error
  <2> QED
    BY <1>5, <2>1, ReplyTyped DEF TypeOK, Other, ListNoGroup
<1>6. CASE ListTools(r)
  <2> DEFINE g == AskOf(r).group
             L == NamesOf(IF g = All THEN Directory!Listed
                          ELSE Directory!InGroup(g, Directory!Listed))
  <2>1. L \in SUBSET Names
    BY TableTyped DEF TypeOK, Directory!Listed, Directory!InGroup
  <2>2. CASE Restricted(Who(r))
    <3>1. /\ phase' = [phase EXCEPT ![r] = "filtering"]
          /\ part' = [part EXCEPT ![r].tools = L]
          /\ snap' = [snap EXCEPT ![r] = NoSnap]
          /\ UNCHANGED <<registry, gateway, job, answer>>
      BY <1>6, <2>2 DEF ListTools
    <3>2. part' \in [Requests -> Parts]
      <4> HIDE DEF L
      <4> QED
        BY <2>1, <3>1 DEF TypeOK
    <3> QED
      BY <3>1, <3>2, Blanks DEF TypeOK, Phases
  <2>3. CASE ~Restricted(Who(r))
    <3>1. [is |-> "tools", tools |-> L] \in Answers
      BY <2>1 DEF Answers
    <3> QED
      BY <1>6, <2>3, <3>1, ReplyTyped DEF TypeOK, ListTools
  <2> QED
    BY <2>2, <2>3
<1>7. CASE FilterTools(r)
  <2> DEFINE T == part[r].tools \cap
                  NamesOf({e \in Directory!Entries : Permitted(Who(r), e[1], NsName[e])})
  <2>1. [is |-> "tools", tools |-> T] \in Answers
    BY DEF TypeOK, Answers
  <2> QED
    BY <1>7, <2>1, ReplyTyped DEF TypeOK, FilterTools
<1>8. CASE CallTool(r)
  <2>1. Error \in Answers
    BY DEF Error, Answers
  <2>2. CASE Reply(r, Error) /\ UNCHANGED gateway
    BY <1>8, <2>1, <2>2, ReplyTyped DEF TypeOK, CallTool
  <2>3. CASE \E e \in Directory!Entries : snap[r][e[1]] # NoActor /\ AskBackend(r, e[1])
    <3>1. PICK b \in Backends : snap[r][b] # NoActor /\ AskBackend(r, b)
      BY <2>3, TableTyped
    <3> QED
      BY <1>8, <3>1, AskTyped DEF TypeOK, CallTool
  <2> QED
    BY <1>8, <2>2, <2>3 DEF CallTool
<1>9. CASE Direct(r)
  <2>1. Error \in Answers
    BY DEF Error, Answers
  <2>2. AskOf(r).backend \in Backends
    BY <1>9, AskFields DEF Direct, Routing
  <2> QED
    BY <1>9, <2>1, <2>2, ReplyTyped, AskTyped DEF TypeOK, Direct
<1>10. CASE Collect(r)
  <2>1. PermittedBackends(r) \in SUBSET Backends
    BY DEF PermittedBackends
  <2> QED
    BY <1>10, <2>1 DEF TypeOK, Collect, Phases
<1>11. CASE CollectNext(r)
  <2>1. CASE Reply(r, [is |-> "parts", from |-> part[r].got]) /\ UNCHANGED gateway
    <3>1. [is |-> "parts", from |-> part[r].got] \in Answers
      BY DEF TypeOK, Answers
    <3> QED
      BY <1>11, <2>1, <3>1, ReplyTyped DEF TypeOK, CollectNext
  <2>2. CASE \E b \in part[r].todo : AskBackend(r, b)
    <3>1. PICK b \in Backends : snap[r][b] # NoActor /\ AskBackend(r, b)
      BY <1>11, <2>2 DEF Checked, CheckedFor, CollectNext, PermittedBackends
    <3> QED
      BY <1>11, <3>1, AskTyped DEF TypeOK, CollectNext
  <2> QED
    BY <1>11, <2>1, <2>2 DEF CollectNext
<1> QED
  BY <1>1, <1>2, <1>3, <1>4, <1>5, <1>6, <1>7, <1>8, <1>9, <1>10, <1>11 DEF Task

LEMMA HandleTyped ==
  ASSUME TypeOK, NEW a \in Actors, Handle(a)
  PROVE  TypeOK'
<1> USE DEF Jobs, Snaps, Parts, Message, registry
<1>1. /\ actor[a].name \in Backends
      /\ inbox \in [Actors -> Seq(Message)]
      /\ inbox[a] # <<>> => Tail(inbox[a]) \in Seq(Message)
  BY DEF TypeOK
<1>2. CASE HandleCall(a)
  <2>1. PICK ok \in BOOLEAN : Return({Head(inbox[a])}, actor[a].name, ok)
    BY <1>2 DEF HandleCall
  <2>2. {Head(inbox[a])} \in SUBSET Requests
    BY <1>2 DEF HandleCall
  <2>3. inbox' \in [Actors -> Seq(Message)]
    BY <1>1, <1>2 DEF HandleCall
  <2>4. /\ phase' \in [Requests -> Phases] /\ answer' \in [Requests -> Answers]
        /\ job' \in [Requests -> Jobs] /\ snap' \in [Requests -> Snaps]
        /\ part' \in [Requests -> Parts]
    BY <1>1, <2>1, <2>2, ReturnTyped
  <2>5. UNCHANGED <<registry, router, busy, actor, stopped>>
    BY <1>2 DEF HandleCall
  <2> QED
    BY <2>3, <2>4, <2>5 DEF TypeOK
<1>3. CASE HandleForce(a)
  <2>1. inbox' \in [Actors -> Seq(Message)]
    BY <1>1, <1>3 DEF HandleForce
  <2> QED
    BY <1>3, <2>1 DEF TypeOK, HandleForce, task
<1>4. CASE HandleStop(a)
  <2>1. Return({r \in Requests : \E i \in DOMAIN inbox[a] : inbox[a][i] = r}, actor[a].name, FALSE)
    BY <1>4 DEF HandleStop
  <2>2. <<>> \in Seq(Message)
    OBVIOUS
  <2>3. inbox' \in [Actors -> Seq(Message)]
    BY <1>1, <1>4, <2>2 DEF HandleStop
  <2> QED
    BY <1>1, <1>4, <2>1, <2>3, ReturnTyped, Blanks DEF TypeOK, HandleStop
<1> QED
  BY <1>2, <1>3, <1>4 DEF Handle

\* Which free actor it is makes no difference.
LEMMA EnableAs ==
  ASSUME NEW b \in Backends, Enable(b)
  PROVE  \E a \in Actors :
           /\ Free(a)
           /\ router' = [router EXCEPT ![b] = a]
           /\ actor' = [actor EXCEPT ![a] = [name |-> b, live |-> TRUE]]
<1> DEFINE a == CHOOSE a \in Actors : Free(a)
<1>1. a \in Actors /\ Free(a)
  <2>1. \E x \in Actors : Free(x)
    BY DEF Enable
  <2> QED
    BY <2>1
<1>2. router' = [router EXCEPT ![b] = a] /\ actor' = [actor EXCEPT ![a] = [name |-> b, live |-> TRUE]]
  BY DEF Enable
<1> HIDE DEF a
<1> QED
  BY <1>1, <1>2

LEMMA OperatorTyped ==
  ASSUME TypeOK, NEW b \in Backends, Enable(b) \/ Disable(b) \/ ForceReconnect(b)
  PROVE  TypeOK'
<1> USE DEF registry, task
<1>1. StopMsg \in Message /\ ForceMsg \in Message
  BY DEF Message
<1>2. CASE Enable(b)
  <2>1. PICK a \in Actors : /\ Free(a)
                            /\ router' = [router EXCEPT ![b] = a]
                            /\ actor' = [actor EXCEPT ![a] = [name |-> b, live |-> TRUE]]
    BY <1>2, EnableAs
  <2>2. UNCHANGED <<registry, busy, inbox, stopped, task>>
    BY <1>2 DEF Enable
  <2>3. [name |-> b, live |-> TRUE] \in [name : Backends, live : BOOLEAN]
    OBVIOUS
  <2>4. router' \in [Backends -> Actors \cup {NoActor}] /\ actor' \in [Actors -> [name : Backends, live : BOOLEAN]]
    BY <2>1, <2>3 DEF TypeOK
  <2> QED
    BY <2>2, <2>4 DEF TypeOK
<1>3. CASE Disable(b)
  <2>1. router[b] \in Actors
    BY <1>3 DEF TypeOK, Disable
  <2>2. inbox' \in [Actors -> Seq(Message)]
    BY <1>1, <1>3, <2>1, AppendTyped DEF Disable
  <2> QED
    BY <1>3, <2>1, <2>2 DEF TypeOK, Disable, Message
<1>4. CASE ForceReconnect(b)
  <2>1. router[b] \in Actors
    BY <1>4 DEF TypeOK, ForceReconnect
  <2>2. inbox' \in [Actors -> Seq(Message)]
    BY <1>1, <1>4, <2>1, AppendTyped DEF ForceReconnect
  <2> QED
    BY <1>4, <2>1, <2>2 DEF TypeOK, ForceReconnect, Message
<1> QED
  BY <1>2, <1>3, <1>4

LEMMA TypeStep == TypeOK /\ Checked /\ [Next]_vars => TypeOK'
<1> SUFFICES ASSUME TypeOK, Checked, [Next]_vars PROVE TypeOK'
  OBVIOUS
<1>1. CASE RegistryChanges
  <2>1. dir' \in [Backends -> SUBSET Tools] /\ withdrawn' \in SUBSET (Backends \X Tools)
    <3>1. CASE \E b \in Backends, T \in SUBSET Tools : Directory!Publish(b, T)
      BY <3>1 DEF TypeOK, Directory!Publish
    <3>2. CASE \E b \in Backends : Directory!Register(b)
      <4>1. PICK b \in Backends : Directory!Register(b)
        BY <3>2
      <4>2. dir[b] \in SUBSET Tools
        BY DEF TypeOK
      <4>3. withdrawn \cup ({b} \X dir[b]) \in SUBSET (Backends \X Tools)
        BY <4>2 DEF TypeOK
      <4> QED
        BY <4>1, <4>3 DEF TypeOK, Directory!Register
    <3>3. CASE Directory!Forget
      BY <3>3 DEF TypeOK, Directory!Forget
    <3> QED
      BY <1>1, <3>1, <3>2, <3>3 DEF RegistryChanges
  <2> QED
    BY <1>1, <2>1 DEF TypeOK, RegistryChanges, gateway, task
<1>2. CASE UNCHANGED vars
  BY <1>2 DEF TypeOK, vars, registry, gateway, task
<1> QED
  BY <1>1, <1>2, TaskTyped, HandleTyped, OperatorTyped DEF Next
-----------------------------------------------------------------------------
(* What reaches a backend.                                                 *)

Early == {"idle", "arrived", "queued", "filtering", "answered"}

\* The gateway's map holds live actors under their own names that nobody told
\* to stop, and that no request under way has seen told.
Routed ==
  \A b \in Backends : LET a == router[b] IN a # NoActor =>
    /\ actor[a].live /\ actor[a].name = b /\ a \notin stopped
    /\ \A i \in DOMAIN inbox[a] : inbox[a][i] # StopMsg
    /\ \A r \in Requests : a \notin job[r].gone

DeadEmpty == \A a \in Actors : ~actor[a].live => inbox[a] = <<>>

StoppedLive == \A a \in stopped : actor[a].live

\* A request's map is right about the actors in it that live, and has none that
\* was told to stop before the request arrived.
SnapRight ==
  \A r \in Requests :
    /\ phase[r] \in Early => snap[r] = NoSnap
    /\ \A b \in Backends : LET a == snap[r][b] IN a # NoActor =>
         (actor[a].live => actor[a].name = b) /\ a \notin job[r].gone

\* A request waits in one place, while its task awaits the answer.
WaitsOnce ==
  \A r \in Requests, a \in Actors, i \in Nat :
    i \in DOMAIN inbox[a] /\ inbox[a][i] = r =>
      /\ phase[r] = "calling"
      /\ \A c \in Actors, j \in Nat : j \in DOMAIN inbox[c] /\ inbox[c][j] = r => c = a /\ j = i

Safe == Routed /\ DeadEmpty /\ StoppedLive /\ SnapRight /\ WaitsOnce /\ NeverForbidden
        /\ DisabledStaysUncalled

Inv == TypeOK /\ Checked /\ Safe

LEMMA SafeInit == Init => Checked /\ Safe
  BY DEF Init, Checked, CheckedFor, Safe, Routed, DeadEmpty, StoppedLive, SnapRight, WaitsOnce, NeverForbidden,
         DisabledStaysUncalled, Waits, NoSnap

\* A step of a request that awaits no backend, with the mailboxes as they were.
LEMMA QuietStep ==
  ASSUME Inv, TypeOK', NEW r \in Requests, phase[r] # "calling", UNCHANGED gateway,
         \A q \in Requests \ {r} : phase'[q] = phase[q] /\ job'[q] = job[q] /\ snap'[q] = snap[q],
         job'[r].gone \in {{}, job[r].gone, stopped},
         \/ snap'[r] = NoSnap
         \/ phase'[r] \notin Early /\ job'[r] = job[r] /\ snap'[r] \in {snap[r], router}
  PROVE  Safe'
<1> USE DEF gateway
<1>1. \A q \in Requests, a \in Actors : Waits(q, a)' => Waits(q, a) /\ q # r
  BY DEF Inv, Safe, WaitsOnce, Waits, TypeOK
<1>2. Routed'
  <2>1. \A q \in Requests : job'[q].gone \in {{}, job[q].gone, stopped}
    OBVIOUS
  <2>2. \A b \in Backends, q \in Requests : router[b] # NoActor => router[b] \notin job'[q].gone
    BY <2>1 DEF Inv, Safe, Routed
  <2> QED
    BY <2>2 DEF Inv, Safe, Routed
<1>3. DeadEmpty' /\ StoppedLive'
  BY DEF Inv, Safe, DeadEmpty, StoppedLive
<1>4. SnapRight'
  <2> SUFFICES ASSUME NEW q \in Requests
               PROVE  /\ phase'[q] \in Early => snap'[q] = NoSnap
                      /\ \A b \in Backends : snap'[q][b] # NoActor =>
                           /\ actor[snap'[q][b]].live => actor[snap'[q][b]].name = b
                           /\ snap'[q][b] \notin job'[q].gone
    BY DEF SnapRight
  <2>1. CASE q # r
    BY <2>1 DEF Inv, Safe, SnapRight
  <2>2. CASE snap'[q] = NoSnap
    BY <2>2 DEF NoSnap
  <2>3. CASE q = r /\ phase'[r] \notin Early /\ job'[r] = job[r] /\ snap'[r] \in {snap[r], router}
    BY <2>3 DEF Inv, Safe, SnapRight, Routed
  <2> QED
    BY <2>1, <2>2, <2>3
<1>5. WaitsOnce'
  BY <1>1 DEF Inv, Safe, WaitsOnce, Waits
<1>6. NeverForbidden'
  BY <1>1 DEF Inv, Safe, NeverForbidden, Who, AskOf
<1>7. DisabledStaysUncalled'
  BY <1>1 DEF Inv, Safe, DisabledStaysUncalled
<1> QED
  BY <1>2, <1>3, <1>4, <1>5, <1>6, <1>7 DEF Safe

\* What a task that asks a backend may ask of it.
MayAsk(r, b) ==
  /\ snap[r][b] # NoActor /\ BackendOK(Who(r), b)
  /\ AskOf(r).method = "call" =>
       ToolOK(Who(r), AskOf(r).name) /\ ToolOf(b, AskOf(r).name)

\* Return, request by request.
LEMMA ReturnFrame ==
  ASSUME TypeOK, NEW R \in SUBSET Requests, NEW b \in Backends, NEW ok \in BOOLEAN,
         Return(R, b, ok), NEW q \in Requests
  PROVE  /\ q \notin R => UNCHANGED <<phase[q], job[q], snap[q], part[q]>>
         /\ q \in R /\ AskOf(q).method # "collect" =>
              phase'[q] = "answered" /\ job'[q] = NoJob /\ snap'[q] = NoSnap
         /\ q \in R /\ AskOf(q).method = "collect" =>
              /\ phase'[q] = "collecting" /\ UNCHANGED <<job[q], snap[q]>>
              /\ part'[q].todo = part[q].todo \ {b}
  BY DEF Return

LEMMA AskStep ==
  ASSUME Inv, TypeOK', NEW r \in Requests, NEW b \in Backends, phase[r] # "calling",
         MayAsk(r, b), AskBackend(r, b)
  PROVE  Safe'
<1> DEFINE a == snap[r][b]
<1>1. a \in Actors /\ a \notin job[r].gone
  <2>1. a \in Actors
    BY DEF Inv, TypeOK, MayAsk
  <2>2. a \notin job[r].gone
    BY DEF Inv, Safe, SnapRight, MayAsk
  <2> QED
    BY <2>1, <2>2
<1>2. CASE ~actor[a].live
  <2>1. Return({r}, b, FALSE) /\ UNCHANGED gateway
    BY <1>2 DEF AskBackend
  <2>2. phase'[r] # "collecting" => job'[r].gone = {} /\ snap'[r] = NoSnap
    <3>1. {r} \in SUBSET Requests /\ r \in {r} /\ FALSE \in BOOLEAN /\ TypeOK
      BY DEF Inv
    <3>2. phase'[r] # "collecting" => job'[r] = NoJob /\ snap'[r] = NoSnap
      BY <2>1, <3>1, ReturnFrame
    <3> QED
      BY <3>2 DEF NoJob
  <2>3. phase'[r] = "collecting" => UNCHANGED <<job[r], snap[r]>>
    BY <2>1, ReturnFrame DEF Inv
  <2>4. \A q \in Requests \ {r} : UNCHANGED <<phase[q], job[q], snap[q]>>
    BY <2>1 DEF Return
  <2> QED
    BY <2>1, <2>2, <2>3, <2>4, QuietStep DEF Early
<1>3. CASE actor[a].live
  <2>1. /\ inbox' = [inbox EXCEPT ![a] = Append(@, r)]
        /\ phase' = [phase EXCEPT ![r] = "calling"]
        /\ UNCHANGED <<router, actor, stopped, job, snap>>
    BY <1>3 DEF AskBackend
  <2>2. /\ inbox[a] \in Seq(Message)
        /\ inbox' = [c \in Actors |-> IF c = a THEN Append(inbox[c], r) ELSE inbox[c]]
    <3>1. inbox \in [Actors -> Seq(Message)]
      BY DEF Inv, TypeOK, Message
    <3> QED
      BY <1>1, <2>1, <3>1
  <2>3. \A c \in Actors, i \in Nat : i \in DOMAIN inbox'[c] =>
          \/ i \in DOMAIN inbox[c] /\ inbox'[c][i] = inbox[c][i]
          \/ c = a /\ inbox'[c][i] = r /\ i = Len(inbox[a]) + 1
    BY <2>2
  <2>4. \A c \in Actors, i \in Nat : i \in DOMAIN inbox[c] => inbox[c][i] # r
    BY DEF Inv, Safe, WaitsOnce
  <2>5. r # StopMsg
    BY RequestsAssumption
  <2>6. \A q \in Requests, c \in Actors : Waits(q, c)' => Waits(q, c) \/ (q = r /\ c = a)
    BY <2>2, <2>3 DEF Waits
  <2>7. Routed'
    <3>1. \A d \in Backends : router[d] # NoActor => router[d] \in Actors
      BY DEF Inv, TypeOK
    <3>2. \A d \in Backends : router[d] # NoActor =>
            \A i \in Nat : i \in DOMAIN inbox'[router[d]] => inbox'[router[d]][i] # StopMsg
      BY <2>3, <2>5, <3>1 DEF Inv, Safe, Routed
    <3>3. \A c \in Actors : DOMAIN inbox'[c] \subseteq Nat
      BY DEF TypeOK
    <3> QED
      BY <2>1, <3>1, <3>2, <3>3 DEF Inv, Safe, Routed
  <2>8. DeadEmpty' /\ StoppedLive'
    BY <1>3, <2>1, <2>2 DEF Inv, Safe, DeadEmpty, StoppedLive
  <2>9. SnapRight'
    BY <2>1 DEF Inv, Safe, SnapRight, Early, TypeOK
  <2>10. WaitsOnce'
    BY <2>1, <2>2, <2>3, <2>4 DEF Inv, Safe, WaitsOnce, TypeOK
  <2>11. actor[a].name = b
    BY <1>3 DEF Inv, Safe, SnapRight, MayAsk
  <2>12. NeverForbidden'
    BY <2>1, <2>6, <2>11 DEF Inv, Safe, NeverForbidden, MayAsk, Who, AskOf
  <2>13. DisabledStaysUncalled'
    BY <1>1, <2>1, <2>6 DEF Inv, Safe, DisabledStaysUncalled
  <2> QED
    BY <2>7, <2>8, <2>9, <2>10, <2>12, <2>13 DEF Safe
<1> QED
  BY <1>2, <1>3

\* An actor answers or drops the requests R, which then wait nowhere.
LEMMA AnswerStep ==
  ASSUME Inv, NEW R \in SUBSET Requests, NEW b \in Backends, NEW ok \in BOOLEAN, Return(R, b, ok),
         \A r \in R : phase[r] = "calling",
         \A q \in Requests, c \in Actors : Waits(q, c)' => Waits(q, c) /\ q \notin R,
         \A c \in Actors : actor'[c].live => actor'[c] = actor[c],
         \A q \in Requests, c \in Actors : Waits(q, c)' => actor'[c] = actor[c]
  PROVE  SnapRight' /\ NeverForbidden' /\ DisabledStaysUncalled'
<1>1. \A q \in Requests, c \in Actors : Waits(q, c)' => job'[q] = job[q]
  <2>1. \A q \in Requests \ R : job'[q] = job[q]
    BY DEF Return
  <2> QED
    BY <2>1
<1>2. NeverForbidden'
  <2> SUFFICES ASSUME NEW q \in Requests, NEW c \in Actors, Waits(q, c)'
               PROVE  /\ BackendOK(Who(q)', actor'[c].name)
                      /\ AskOf(q)'.method = "call" =>
                           /\ ToolOK(Who(q)', AskOf(q)'.name)
                           /\ ToolOf(actor'[c].name, AskOf(q)'.name)
    BY DEF NeverForbidden
  <2>1. Waits(q, c) /\ Who(q)' = Who(q) /\ AskOf(q)' = AskOf(q) /\ actor'[c] = actor[c]
    BY <1>1 DEF Who, AskOf
  <2> QED
    BY <2>1 DEF Inv, Safe, NeverForbidden
<1>3. DisabledStaysUncalled'
  BY <1>1 DEF Inv, Safe, DisabledStaysUncalled
<1>4. SnapRight'
  <2> SUFFICES ASSUME NEW q \in Requests
               PROVE  /\ phase'[q] \in Early => snap'[q] = NoSnap
                      /\ \A d \in Backends : snap'[q][d] # NoActor =>
                           /\ actor'[snap'[q][d]].live => actor'[snap'[q][d]].name = d
                           /\ snap'[q][d] \notin job'[q].gone
    BY DEF SnapRight
  <2>1. CASE snap'[q] = NoSnap
    BY <2>1 DEF NoSnap
  <2>2. CASE job'[q] = job[q] /\ snap'[q] = snap[q] /\ (phase'[q] \in Early => phase'[q] = phase[q])
    BY <2>2 DEF Inv, Safe, SnapRight, TypeOK
  <2>3. q \notin R => job'[q] = job[q] /\ snap'[q] = snap[q] /\ phase'[q] = phase[q]
    BY ReturnFrame DEF Inv
  <2>4. q \in R => snap'[q] = NoSnap \/ (job'[q] = job[q] /\ snap'[q] = snap[q] /\ phase'[q] = "collecting")
    BY ReturnFrame DEF Inv
  <2> QED
    BY <2>1, <2>2, <2>3, <2>4 DEF Early
<1> QED
  BY <1>2, <1>3, <1>4

\* A step of one request leaves what is checked of the others alone.
LEMMA CheckedStep ==
  ASSUME Checked, NEW R \in SUBSET Requests, \A q \in R : CheckedFor(q)',
         \A q \in Requests \ R : UNCHANGED <<phase[q], job[q], snap[q], part[q]>>
  PROVE  Checked'
<1> SUFFICES ASSUME NEW q \in Requests, q \notin R PROVE CheckedFor(q)'
  BY DEF Checked
<1>1. UNCHANGED <<phase[q], job[q], snap[q], part[q]>>
  OBVIOUS
<1>2. Who(q)' = Who(q) /\ AskOf(q)' = AskOf(q) /\ PermittedBackends(q)' = PermittedBackends(q)
  BY <1>1 DEF Who, AskOf, PermittedBackends
<1> QED
  BY <1>1, <1>2 DEF Checked, CheckedFor

LEMMA CheckedStepOf ==
  ASSUME Checked, NEW r \in Requests, CheckedFor(r)',
         \A q \in Requests \ {r} : UNCHANGED <<phase[q], job[q], snap[q], part[q]>>
  PROVE  Checked'
<1>1. \A q \in {r} : CheckedFor(q)'
  <2> SUFFICES ASSUME NEW q \in {r} PROVE CheckedFor(q)'
    OBVIOUS
  <2>1. q = r
    OBVIOUS
  <2> QED
    BY <2>1
<1>2. {r} \in SUBSET Requests
  OBVIOUS
<1> HIDE DEF Checked, CheckedFor
<1> QED
  BY <1>1, <1>2, CheckedStep

LEMMA ReplyStep ==
  ASSUME Inv, TypeOK', NEW r \in Requests, NEW x, Reply(r, x), phase[r] # "calling",
         UNCHANGED gateway
  PROVE  Checked' /\ Safe'
<1>1. /\ phase'[r] = "answered" /\ snap'[r] = NoSnap /\ job'[r] = NoJob
      /\ \A q \in Requests \ {r} : UNCHANGED <<phase[q], job[q], snap[q], part[q]>>
  BY DEF Inv, TypeOK, Reply
<1>2. CheckedFor(r)'
  BY <1>1 DEF CheckedFor
<1>3. Checked'
  BY <1>1, <1>2, CheckedStepOf DEF Inv
<1>4. Safe'
  BY <1>1, QuietStep DEF NoJob
<1> QED
  BY <1>3, <1>4

LEMMA AskChecked ==
  ASSUME Inv, NEW r \in Requests, NEW b \in Backends, AskBackend(r, b),
         AskOf(r).method = "collect" => phase[r] = "collecting"
  PROVE  Checked'
<1>1. CASE actor[snap[r][b]].live
  <2>1. phase' = [phase EXCEPT ![r] = "calling"] /\ UNCHANGED <<job, snap, part>>
    BY <1>1 DEF AskBackend
  <2>2. \A q \in Requests \ {r} : UNCHANGED <<phase[q], job[q], snap[q], part[q]>>
    BY <2>1
  <2>3. phase'[r] = "calling"
    BY <2>1 DEF Inv, TypeOK
  <2>4. CheckedFor(r)'
    BY <2>1, <2>3 DEF Inv, Checked, CheckedFor, AskOf, Who, PermittedBackends
  <2> QED
    BY <2>2, <2>4, CheckedStepOf DEF Inv
<1>2. CASE ~actor[snap[r][b]].live
  <2>1. Return({r}, b, FALSE) /\ FALSE \in BOOLEAN /\ {r} \in SUBSET Requests /\ TypeOK
    BY <1>2 DEF AskBackend, Inv
  <2>2. \A q \in Requests \ {r} : UNCHANGED <<phase[q], job[q], snap[q], part[q]>>
    BY <2>1 DEF Return
  <2>3. AskOf(r).method # "collect" => phase'[r] = "answered"
    BY <2>1, ReturnFrame
  <2>4. AskOf(r).method = "collect" =>
          /\ phase'[r] = "collecting" /\ UNCHANGED <<job[r], snap[r]>>
          /\ part'[r].todo = part[r].todo \ {b}
    <3>1. r \in {r}
      OBVIOUS
    <3> QED
      BY <2>1, <3>1, ReturnFrame
  <2>5. CheckedFor(r)'
    <3>1. CASE AskOf(r).method # "collect"
      BY <2>3, <3>1 DEF CheckedFor
    <3>2. CASE AskOf(r).method = "collect"
      <4>1. phase[r] = "collecting" /\ part[r].todo \subseteq PermittedBackends(r)
        BY <3>2 DEF Inv, Checked, CheckedFor
      <4>2. AskOf(r)' = AskOf(r) /\ PermittedBackends(r)' = PermittedBackends(r)
        BY <2>4, <3>2 DEF AskOf, PermittedBackends, Who
      <4> QED
        BY <2>4, <3>2, <4>1, <4>2 DEF CheckedFor
    <3> QED
      BY <3>1, <3>2
  <2> QED
    BY <2>2, <2>5, CheckedStepOf DEF Inv
<1> QED
  BY <1>1, <1>2

\* A tool call asks the backend whose tool it names.
LEMMA RouteOf ==
  ASSUME TypeOK, NEW e \in Directory!Entries
  PROVE  e[1] \in Backends /\ ToolOf(e[1], NsName[e])
<1>1. e \in Backends \X Tools
  BY TableTyped
<1>2. e = <<e[1], e[2]>> /\ e[1] \in Backends /\ e[2] \in Tools
  BY <1>1
<1> QED
  BY <1>2 DEF ToolOf

LEMMA TaskStep ==
  ASSUME Inv, TypeOK', NEW r \in Requests, Arrive(r) \/ Snapshot(r) \/ Task(r) \/ Done(r)
  PROVE  Checked' /\ Safe'
<1>1. CASE Arrive(r)
  <2>1. /\ phase[r] = "idle" /\ phase'[r] = "arrived" /\ job'[r].gone = stopped
        /\ snap'[r] = snap[r] /\ UNCHANGED gateway
        /\ \A q \in Requests \ {r} : UNCHANGED <<phase[q], job[q], snap[q], part[q]>>
    BY <1>1 DEF Arrive, Inv, TypeOK
  <2>2. snap[r] = NoSnap
    BY <2>1 DEF Inv, Safe, SnapRight, Early
  <2>3. CheckedFor(r)'
    BY <2>1 DEF CheckedFor
  <2> QED
    BY <2>1, <2>2, <2>3, CheckedStepOf, QuietStep DEF Inv
<1>2. CASE Snapshot(r)
  <2>1. /\ phase[r] = "queued" /\ phase'[r] = "routing" /\ snap'[r] = router
        /\ UNCHANGED <<gateway, job>>
        /\ \A q \in Requests \ {r} : UNCHANGED <<phase[q], job[q], snap[q], part[q]>>
    BY <1>2 DEF Snapshot, Inv, TypeOK
  <2>2. CheckedFor(r)'
    BY <2>1 DEF Inv, Checked, CheckedFor, AskOf, Who
  <2> QED
    BY <2>1, <2>2, CheckedStepOf, QuietStep DEF Inv, Early
<1>3. CASE Done(r)
  <2>1. /\ phase[r] = "answered" /\ phase'[r] = "idle" /\ UNCHANGED <<gateway, job, snap>>
        /\ \A q \in Requests \ {r} : UNCHANGED <<phase[q], job[q], snap[q], part[q]>>
    BY <1>3 DEF Done, Inv, TypeOK
  <2>2. snap[r] = NoSnap
    BY <2>1 DEF Inv, Safe, SnapRight, Early
  <2>3. CheckedFor(r)'
    BY <2>1 DEF CheckedFor
  <2> QED
    BY <2>1, <2>2, <2>3, CheckedStepOf, QuietStep DEF Inv
<1>4. CASE HandleHttp(r)
  <2>1. CASE \E x : Reply(r, x)
    BY <1>4, <2>1, ReplyStep DEF HandleHttp
  <2>2. CASE /\ AskOf(r).method = "call" => ToolOK(Who(r), AskOf(r).name)
             /\ phase' = [phase EXCEPT ![r] = "queued"] /\ UNCHANGED <<job, snap, part, answer>>
    <3>1. /\ phase[r] = "arrived" /\ phase'[r] = "queued" /\ UNCHANGED <<gateway, job, snap>>
          /\ \A q \in Requests \ {r} : UNCHANGED <<phase[q], job[q], snap[q], part[q]>>
      BY <1>4, <2>2 DEF HandleHttp, Inv, TypeOK
    <3>2. snap[r] = NoSnap
      BY <3>1 DEF Inv, Safe, SnapRight, Early
    <3>3. CheckedFor(r)'
      BY <2>2, <3>1 DEF CheckedFor, AskOf, Who
    <3> QED
      BY <3>1, <3>2, <3>3, CheckedStepOf, QuietStep DEF Inv
  <2> QED
    BY <1>4, <2>1, <2>2 DEF HandleHttp
<1>5. CASE Other(r) \/ ListNoGroup(r)
  BY <1>5, ReplyStep DEF Other, ListNoGroup, Routing
<1>6. CASE ListTools(r)
  <2>1. CASE \E x : Reply(r, x)
    BY <1>6, <2>1, ReplyStep DEF ListTools, Routing
  <2>2. CASE ~ \E x : Reply(r, x)
    <3>1. /\ phase[r] = "routing" /\ phase'[r] = "filtering" /\ snap'[r] = NoSnap
          /\ UNCHANGED <<gateway, job>>
          /\ \A q \in Requests \ {r} : UNCHANGED <<phase[q], job[q], snap[q], part[q]>>
      BY <1>6, <2>2 DEF ListTools, Routing, Inv, TypeOK
    <3>2. CheckedFor(r)'
      BY <3>1 DEF CheckedFor
    <3> QED
      BY <3>1, <3>2, CheckedStepOf, QuietStep DEF Inv
  <2> QED
    BY <2>1, <2>2
<1>7. CASE FilterTools(r)
  BY <1>7, ReplyStep DEF FilterTools
<1>8. CASE CallTool(r)
  <2>1. CASE Reply(r, Error) /\ UNCHANGED gateway
    BY <1>8, <2>1, ReplyStep DEF CallTool, Routing
  <2>2. CASE \E e \in Directory!Entries :
               /\ NsName[e] = AskOf(r).name /\ BackendOK(Who(r), e[1])
               /\ snap[r][e[1]] # NoActor /\ AskBackend(r, e[1])
    <3>1. PICK e \in Directory!Entries :
               /\ NsName[e] = AskOf(r).name /\ BackendOK(Who(r), e[1])
               /\ snap[r][e[1]] # NoActor /\ AskBackend(r, e[1])
      BY <2>2
    <3>2. e[1] \in Backends /\ ToolOf(e[1], AskOf(r).name)
      BY <3>1, RouteOf DEF Inv
    <3>3. phase[r] = "routing" /\ AskOf(r).method = "call"
      BY <1>8 DEF CallTool, Routing
    <3>4. ToolOK(Who(r), AskOf(r).name)
      BY <3>3 DEF Inv, Checked, CheckedFor
    <3>5. MayAsk(r, e[1])
      BY <3>1, <3>2, <3>4 DEF MayAsk
    <3> QED
      BY <3>1, <3>2, <3>3, <3>5, AskStep, AskChecked
  <2> QED
    BY <1>8, <2>1, <2>2 DEF CallTool
<1>9. CASE Direct(r)
  <2>1. phase[r] = "routing" /\ AskOf(r).method = "direct" /\ AskOf(r).backend \in Backends
    BY <1>9, AskFields DEF Direct, Routing, Inv
  <2>2. CASE Reply(r, Error) /\ UNCHANGED gateway
    BY <2>1, <2>2, ReplyStep
  <2>3. CASE /\ BackendOK(Who(r), AskOf(r).backend) /\ snap[r][AskOf(r).backend] # NoActor
             /\ AskBackend(r, AskOf(r).backend)
    <3>1. MayAsk(r, AskOf(r).backend)
      BY <2>1, <2>3 DEF MayAsk
    <3> QED
      BY <2>1, <2>3, <3>1, AskStep, AskChecked
  <2> QED
    BY <1>9, <2>2, <2>3 DEF Direct
<1>10. CASE Collect(r)
  <2>1. /\ phase[r] = "routing" /\ phase'[r] = "collecting" /\ UNCHANGED <<gateway, job, snap>>
        /\ part'[r].todo = PermittedBackends(r) /\ AskOf(r).method = "collect"
        /\ \A q \in Requests \ {r} : UNCHANGED <<phase[q], job[q], snap[q], part[q]>>
    BY <1>10 DEF Collect, Routing, Inv, TypeOK
  <2>2. CheckedFor(r)'
    BY <2>1 DEF CheckedFor, AskOf, Who, PermittedBackends
  <2> QED
    BY <2>1, <2>2, CheckedStepOf, QuietStep DEF Inv, Early
<1>11. CASE CollectNext(r)
  <2>1. phase[r] = "collecting" /\ AskOf(r).method = "collect"
    BY <1>11 DEF CollectNext, Inv, Checked, CheckedFor
  <2>2. CASE \E x : Reply(r, x) /\ UNCHANGED gateway
    BY <2>1, <2>2, ReplyStep
  <2>3. CASE \E b \in part[r].todo : AskBackend(r, b)
    <3>1. PICK b \in part[r].todo : AskBackend(r, b)
      BY <2>3
    <3>2. b \in PermittedBackends(r)
      BY <2>1, <3>1 DEF Inv, Checked, CheckedFor
    <3>3. b \in Backends /\ MayAsk(r, b)
      BY <2>1, <3>2 DEF PermittedBackends, MayAsk
    <3> QED
      BY <2>1, <3>1, <3>3, AskStep, AskChecked
  <2> QED
    BY <1>11, <2>2, <2>3 DEF CollectNext
<1> QED
  BY <1>1, <1>2, <1>3, <1>4, <1>5, <1>6, <1>7, <1>8, <1>9, <1>10, <1>11 DEF Task

\* A mailbox loses its head, or is dropped.
LEMMA TailOf ==
  ASSUME TypeOK, NEW a \in Actors, inbox[a] # <<>>,
         inbox' = [inbox EXCEPT ![a] = Tail(@)] \/ inbox' = [inbox EXCEPT ![a] = <<>>]
  PROVE  /\ 1 \in DOMAIN inbox[a] /\ inbox[a][1] = Head(inbox[a])
         /\ \A c \in Actors : DOMAIN inbox[c] \subseteq Nat /\ DOMAIN inbox'[c] \subseteq Nat
         /\ \A c \in Actors, i \in Nat : i \in DOMAIN inbox'[c] =>
              IF c = a THEN i + 1 \in DOMAIN inbox[a] /\ inbox'[a][i] = inbox[a][i + 1]
              ELSE i \in DOMAIN inbox[c] /\ inbox'[c][i] = inbox[c][i]
<1>1. inbox \in [Actors -> Seq(Message)]
  BY DEF TypeOK, Message
<1>2. 1 \in DOMAIN inbox[a] /\ inbox[a][1] = Head(inbox[a])
  BY <1>1
<1>3. CASE inbox' = [inbox EXCEPT ![a] = <<>>]
  BY <1>1, <1>2, <1>3
<1>4. CASE inbox' = [inbox EXCEPT ![a] = Tail(@)]
  <2>1. inbox' = [c \in Actors |-> IF c = a THEN Tail(inbox[a]) ELSE inbox[c]]
    BY <1>1, <1>4
  <2>2. \A i \in Nat : i \in DOMAIN Tail(inbox[a]) =>
          i + 1 \in DOMAIN inbox[a] /\ Tail(inbox[a])[i] = inbox[a][i + 1]
    BY <1>1
  <2>3. Tail(inbox[a]) \in Seq(Message)
    BY <1>1
  <2>4. \A c \in Actors : DOMAIN inbox[c] \subseteq Nat /\ DOMAIN inbox'[c] \subseteq Nat
    BY <1>1, <2>1, <2>3
  <2> QED
    BY <1>2, <2>1, <2>2, <2>4
<1> QED
  BY <1>3, <1>4

\* An actor takes its first message, or all of them; what it answers or drops
\* then waits nowhere.
LEMMA MailStep ==
  ASSUME Inv, NEW a \in Actors, NEW R \in SUBSET Requests, inbox[a] # <<>>,
         \/ /\ inbox' = [inbox EXCEPT ![a] = Tail(@)] /\ actor' = actor /\ stopped' = stopped
            /\ R \subseteq {Head(inbox[a])}
            /\ Head(inbox[a]) \in R \cup {ForceMsg}
         \/ /\ inbox' = [inbox EXCEPT ![a] = <<>>] /\ actor' = [actor EXCEPT ![a] = NoOne]
            /\ stopped' = stopped \ {a} /\ Head(inbox[a]) = StopMsg
            /\ R = {r \in Requests : Waits(r, a)},
         UNCHANGED router,
         \A q \in Requests : job'[q].gone \in {{}, job[q].gone},
         \A q \in Requests \ R : phase'[q] = phase[q]
  PROVE  /\ Routed' /\ DeadEmpty' /\ StoppedLive' /\ WaitsOnce'
         /\ \A r \in R : phase[r] = "calling"
         /\ \A q \in Requests, c \in Actors : Waits(q, c)' => Waits(q, c) /\ q \notin R
         /\ \A c \in Actors : actor'[c].live => actor'[c] = actor[c]
         /\ \A q \in Requests, c \in Actors : Waits(q, c)' => actor'[c] = actor[c]
<1>1. /\ 1 \in DOMAIN inbox[a] /\ inbox[a][1] = Head(inbox[a])
      /\ \A c \in Actors : DOMAIN inbox[c] \subseteq Nat /\ DOMAIN inbox'[c] \subseteq Nat
      /\ \A c \in Actors, i \in Nat : i \in DOMAIN inbox'[c] =>
              IF c = a THEN i + 1 \in DOMAIN inbox[a] /\ inbox'[a][i] = inbox[a][i + 1]
              ELSE i \in DOMAIN inbox[c] /\ inbox'[c][i] = inbox[c][i]
  BY TailOf DEF Inv
<1>2. \A r \in R : \E i \in Nat : i \in DOMAIN inbox[a] /\ inbox[a][i] = r
  BY <1>1 DEF Waits
<1>3. \A r \in R : phase[r] = "calling"
  BY <1>2 DEF Inv, Safe, WaitsOnce
<1>4. inbox'[a] = <<>> \/ inbox'[a] = Tail(inbox[a])
  BY DEF Inv, TypeOK
<1>5. \A r \in R, c \in Actors, i \in Nat : i \in DOMAIN inbox'[c] => inbox'[c][i] # r
  <2> SUFFICES ASSUME NEW r \in R, NEW c \in Actors, NEW i \in Nat, i \in DOMAIN inbox'[c],
                      inbox'[c][i] = r
               PROVE  FALSE
    OBVIOUS
  <2>1. c = a
    BY <1>1, <1>2 DEF Inv, Safe, WaitsOnce
  <2>2. CASE inbox' = [inbox EXCEPT ![a] = <<>>]
    BY <2>1, <2>2 DEF Inv, TypeOK
  <2>3. CASE R \subseteq {Head(inbox[a])}
    <3>1. inbox[a][1] = r
      BY <1>1, <2>3
    <3>2. i + 1 \in DOMAIN inbox[a] /\ inbox[a][i + 1] = r /\ i + 1 \in Nat
      BY <1>1, <2>1
    <3>3. i + 1 = 1
      BY <1>1, <3>1, <3>2 DEF Inv, Safe, WaitsOnce
    <3>4. i = 0
      BY <3>3
    <3>5. 0 \notin DOMAIN inbox'[a]
      BY <1>4 DEF Inv, TypeOK
    <3> QED
      BY <2>1, <3>4, <3>5
  <2> QED
    BY <2>2, <2>3
<1>6. \A q \in Requests, c \in Actors : Waits(q, c)' => Waits(q, c) /\ q \notin R
  <2> SUFFICES ASSUME NEW q \in Requests, NEW c \in Actors, Waits(q, c)'
               PROVE  Waits(q, c) /\ q \notin R
    OBVIOUS
  <2>1. PICK i \in Nat : i \in DOMAIN inbox'[c] /\ inbox'[c][i] = q
    BY <1>1 DEF Waits
  <2> QED
    BY <1>1, <1>5, <2>1 DEF Waits
<1>7. WaitsOnce'
  <2> SUFFICES ASSUME NEW q \in Requests, NEW c \in Actors, NEW i \in Nat,
                      i \in DOMAIN inbox'[c], inbox'[c][i] = q
               PROVE  /\ phase'[q] = "calling"
                      /\ \A d \in Actors, j \in Nat :
                           j \in DOMAIN inbox'[d] /\ inbox'[d][j] = q => d = c /\ j = i
    BY DEF WaitsOnce
  <2> DEFINE At(d, j) == IF d = a THEN j + 1 ELSE j
  <2>1. \A d \in Actors, j \in Nat : j \in DOMAIN inbox'[d] /\ inbox'[d][j] = q =>
           At(d, j) \in Nat /\ At(d, j) \in DOMAIN inbox[d] /\ inbox[d][At(d, j)] = q
    BY <1>1
  <2>2. phase[q] = "calling" /\ q \notin R
    BY <1>5, <2>1 DEF Inv, Safe, WaitsOnce
  <2>3. \A d \in Actors, j \in Nat : j \in DOMAIN inbox'[d] /\ inbox'[d][j] = q
           => d = c /\ At(d, j) = At(c, i)
    <3> HIDE DEF At
    <3> QED
      BY <2>1 DEF Inv, Safe, WaitsOnce
  <2> QED
    BY <2>2, <2>3
<1>8. \A b \in Backends : router[b] # NoActor /\ Head(inbox[a]) = StopMsg => router[b] # a
  BY <1>1 DEF Inv, Safe, Routed
<1>9. Routed'
  <2>1. \A b \in Backends : router[b] # NoActor => router[b] \in Actors
    BY DEF Inv, TypeOK
  <2>2. \A b \in Backends : router[b] # NoActor =>
          \A i \in Nat : i \in DOMAIN inbox'[router[b]] => inbox'[router[b]][i] # StopMsg
    <3> SUFFICES ASSUME NEW b \in Backends, router[b] # NoActor, NEW i \in Nat,
                        i \in DOMAIN inbox'[router[b]]
                 PROVE  inbox'[router[b]][i] # StopMsg
      OBVIOUS
    <3>1. \A j \in DOMAIN inbox[router[b]] : inbox[router[b]][j] # StopMsg
      BY DEF Inv, Safe, Routed
    <3>2. PICK c \in Actors : c = router[b]
      BY <2>1
    <3>3. \E j \in DOMAIN inbox[c] : inbox'[c][i] = inbox[c][j]
      BY <1>1, <3>2
    <3> QED
      BY <3>1, <3>2, <3>3
  <2>3. \A b \in Backends : router[b] # NoActor =>
          actor'[router[b]] = actor[router[b]] /\ router[b] \notin stopped'
    <3>1. \A b \in Backends : router[b] # NoActor => router[b] \notin stopped
      BY DEF Inv, Safe, Routed
    <3>2. CASE actor' = actor /\ stopped' = stopped
      BY <3>1, <3>2
    <3>3. CASE /\ actor' = [actor EXCEPT ![a] = NoOne] /\ stopped' = stopped \ {a}
               /\ Head(inbox[a]) = StopMsg
      BY <1>8, <2>1, <3>1, <3>3 DEF Inv, TypeOK
    <3> QED
      BY <3>2, <3>3
  <2>4. \A b \in Backends, q \in Requests : router[b] # NoActor => router[b] \notin job'[q].gone
    BY DEF Inv, Safe, Routed
  <2> QED
    BY <1>1, <2>1, <2>2, <2>3, <2>4 DEF Inv, Safe, Routed
<1>10. DeadEmpty' /\ StoppedLive'
  BY DEF Inv, Safe, DeadEmpty, StoppedLive, TypeOK
<1>11. \A c \in Actors : actor'[c] = actor[c] \/ (c = a /\ actor'[c] = NoOne /\ inbox'[c] = <<>>)
  BY DEF Inv, TypeOK
<1>12. /\ \A c \in Actors : actor'[c].live => actor'[c] = actor[c]
       /\ \A q \in Requests, c \in Actors : Waits(q, c)' => actor'[c] = actor[c]
  <2>1. ~NoOne.live
    BY DEF NoOne
  <2>2. \A q \in Requests, c \in Actors : Waits(q, c)' => inbox'[c] # <<>>
    BY DEF Waits
  <2> HIDE DEF NoOne
  <2> QED
    BY <1>11, <2>1, <2>2
<1> QED
  BY <1>3, <1>6, <1>7, <1>9, <1>10, <1>12

LEMMA HandleStep ==
  ASSUME Inv, NEW a \in Actors, Handle(a)
  PROVE  Checked' /\ Safe'
<1>1. inbox[a] # <<>> /\ actor[a].name \in Backends
  BY DEF Handle, HandleCall, HandleForce, HandleStop, Inv, TypeOK
<1>2. CASE HandleForce(a)
  <2>1. /\ inbox' = [inbox EXCEPT ![a] = Tail(@)] /\ Head(inbox[a]) = ForceMsg
        /\ UNCHANGED <<router, actor, stopped, phase, job, snap, part>>
    BY <1>2 DEF HandleForce, task
  <2>2. Checked'
    BY <2>1 DEF Inv, Checked, CheckedFor, AskOf, Who, PermittedBackends
  <2>3. /\ Routed' /\ DeadEmpty' /\ StoppedLive' /\ WaitsOnce'
        /\ \A q \in Requests, c \in Actors : Waits(q, c)' => Waits(q, c)
    BY <1>1, <2>1, MailStep, {} \in SUBSET Requests
  <2>4. SnapRight' /\ NeverForbidden' /\ DisabledStaysUncalled'
    BY <2>1, <2>3 DEF Inv, Safe, SnapRight, NeverForbidden, DisabledStaysUncalled, AskOf, Who
  <2> QED
    BY <2>2, <2>3, <2>4 DEF Safe
<1>3. ASSUME NEW R \in SUBSET Requests, NEW ok \in BOOLEAN, Return(R, actor[a].name, ok),
             UNCHANGED router,
             \/ /\ inbox' = [inbox EXCEPT ![a] = Tail(@)] /\ actor' = actor /\ stopped' = stopped
                /\ R = {Head(inbox[a])}
             \/ /\ inbox' = [inbox EXCEPT ![a] = <<>>] /\ actor' = [actor EXCEPT ![a] = NoOne]
                /\ stopped' = stopped \ {a} /\ Head(inbox[a]) = StopMsg
                /\ R = {r \in Requests : Waits(r, a)}
      PROVE  Checked' /\ Safe'
  <2> TypeOK
    BY DEF Inv
  <2> R \in SUBSET Requests /\ ok \in BOOLEAN
    BY <1>3
  <2>1. PICK b \in Backends : b = actor[a].name /\ Return(R, b, ok)
    BY <1>1, <1>3
  <2>2. \A q \in Requests \ R :
          phase'[q] = phase[q] /\ job'[q] = job[q] /\ snap'[q] = snap[q] /\ part'[q] = part[q]
    BY <2>1 DEF Return
  <2>3. \A q \in R : AskOf(q).method # "collect" =>
          phase'[q] = "answered" /\ job'[q] = NoJob /\ snap'[q] = NoSnap
    BY <2>1 DEF Return
  <2>4. \A q \in R : AskOf(q).method = "collect" =>
          /\ phase'[q] = "collecting" /\ job'[q] = job[q] /\ snap'[q] = snap[q]
          /\ part'[q].todo = part[q].todo \ {b}
    BY <2>1 DEF Return
  <2>5. \A q \in Requests : job'[q].gone \in {{}, job[q].gone}
    <3>1. NoJob.gone = {}
      BY DEF NoJob
    <3> HIDE DEF NoJob
    <3>2. \A q \in Requests : job'[q] = job[q] \/ job'[q] = NoJob
      BY <2>2, <2>3, <2>4
    <3> QED
      BY <3>1, <3>2
  <2>6. /\ Routed' /\ DeadEmpty' /\ StoppedLive' /\ WaitsOnce'
        /\ \A r \in R : phase[r] = "calling"
        /\ \A q \in Requests, c \in Actors : Waits(q, c)' => Waits(q, c) /\ q \notin R
        /\ \A c \in Actors : actor'[c].live => actor'[c] = actor[c]
        /\ \A q \in Requests, c \in Actors : Waits(q, c)' => actor'[c] = actor[c]
    BY <1>1, <1>3, <2>2, <2>5, MailStep
  <2>7. SnapRight' /\ NeverForbidden' /\ DisabledStaysUncalled'
    BY <2>1, <2>6, AnswerStep
  <2>8. Checked'
    <3> SUFFICES ASSUME NEW q \in R PROVE CheckedFor(q)'
      <4>1. \A q \in Requests \ R : UNCHANGED <<phase[q], job[q], snap[q], part[q]>>
        BY <2>2
      <4> QED
        BY <4>1, CheckedStep DEF Inv
    <3>1. CASE AskOf(q).method # "collect"
      BY <2>3, <3>1 DEF CheckedFor
    <3>2. CASE AskOf(q).method = "collect"
      <4>1. part[q].todo \subseteq PermittedBackends(q)
        BY <2>6, <3>2 DEF Inv, Checked, CheckedFor
      <4>2. AskOf(q)' = AskOf(q) /\ PermittedBackends(q)' = PermittedBackends(q)
        BY <2>4, <3>2 DEF AskOf, PermittedBackends, Who
      <4> QED
        BY <2>4, <3>2, <4>1, <4>2 DEF CheckedFor
    <3> QED
      BY <3>1, <3>2
  <2> QED
    BY <2>6, <2>7, <2>8 DEF Safe
<1>4. CASE HandleCall(a)
  <2>1. PICK ok \in BOOLEAN : Return({Head(inbox[a])}, actor[a].name, ok)
    BY <1>4 DEF HandleCall
  <2>2. {Head(inbox[a])} \in SUBSET Requests
    BY <1>4 DEF HandleCall
  <2> QED
    BY <1>3, <1>4, <2>1, <2>2 DEF HandleCall
<1>5. CASE HandleStop(a)
  <2> DEFINE R == {r \in Requests : Waits(r, a)}
  <2>1. Return(R, actor[a].name, FALSE) /\ FALSE \in BOOLEAN /\ R \in SUBSET Requests
    BY <1>5 DEF HandleStop, Waits
  <2> QED
    BY <1>3, <1>5, <2>1 DEF HandleStop
<1> QED
  BY <1>2, <1>4, <1>5 DEF Handle

LEMMA OperatorStep ==
  ASSUME Inv, TypeOK', NEW b \in Backends, Enable(b) \/ Disable(b) \/ ForceReconnect(b)
  PROVE  Checked' /\ Safe'
<1>1. UNCHANGED <<phase, job, snap, part>> /\ TypeOK
  BY DEF Enable, Disable, ForceReconnect, task, Inv
<1>2. Checked'
  BY <1>1 DEF Inv, Checked, CheckedFor, AskOf, Who, PermittedBackends
<1>3. CASE Enable(b)
  <2>1. PICK a \in Actors : /\ Free(a)
                            /\ router' = [router EXCEPT ![b] = a]
                            /\ actor' = [actor EXCEPT ![a] = [name |-> b, live |-> TRUE]]
    BY <1>3, EnableAs
  <2>2. UNCHANGED <<inbox, stopped>>
    BY <1>3 DEF Enable
  <2>3. /\ inbox[a] = <<>> /\ a \notin stopped
        /\ \A q \in Requests : ~Waits(q, a)
    BY <2>1 DEF Free, Inv, Safe, DeadEmpty, StoppedLive, Waits
  <2>4. \A c \in Actors : actor'[c] = IF c = a THEN [name |-> b, live |-> TRUE] ELSE actor[c]
    BY <1>1, <2>1 DEF TypeOK
  <2>5. \A d \in Backends : router'[d] = IF d = b THEN a ELSE router[d]
    BY <1>1, <2>1 DEF TypeOK
  <2>6. Routed'
    <3> SUFFICES ASSUME NEW d \in Backends, router'[d] # NoActor
                 PROVE  /\ actor'[router'[d]].live /\ actor'[router'[d]].name = d
                        /\ router'[d] \notin stopped
                        /\ \A i \in DOMAIN inbox[router'[d]] : inbox[router'[d]][i] # StopMsg
                        /\ \A q \in Requests : router'[d] \notin job[q].gone
      BY <1>1, <2>2 DEF Routed
    <3>1. CASE d = b
      BY <2>1, <2>3, <2>4, <2>5, <3>1 DEF Free
    <3>2. CASE d # b
      <4>1. router'[d] = router[d] /\ router[d] \in Actors /\ actor[router[d]].live
        BY <1>1, <2>5, <3>2 DEF Inv, TypeOK, Safe, Routed
      <4>2. router[d] # a
        BY <2>1, <4>1 DEF Free
      <4> QED
        BY <2>4, <4>1, <4>2 DEF Inv, Safe, Routed
    <3> QED
      BY <3>1, <3>2
  <2>7. DeadEmpty' /\ StoppedLive'
    BY <1>1, <2>2, <2>3, <2>4 DEF Inv, Safe, DeadEmpty, StoppedLive, TypeOK
  <2>8. SnapRight'
    <3>1. \A q \in Requests, d \in Backends : snap[q][d] # NoActor =>
            snap[q][d] \in Actors /\ snap[q][d] # a
      BY <1>1, <2>1 DEF Free, TypeOK
    <3> QED
      BY <1>1, <2>4, <3>1 DEF Inv, Safe, SnapRight
  <2>9. WaitsOnce' /\ DisabledStaysUncalled'
    BY <1>1, <2>2 DEF Inv, Safe, WaitsOnce, DisabledStaysUncalled, Waits
  <2>10. NeverForbidden'
    <3> SUFFICES ASSUME NEW q \in Requests, NEW c \in Actors, Waits(q, c)
                 PROVE  /\ BackendOK(Who(q), actor'[c].name)
                        /\ AskOf(q).method = "call" =>
                             ToolOK(Who(q), AskOf(q).name) /\ ToolOf(actor'[c].name, AskOf(q).name)
      BY <1>1, <2>2 DEF NeverForbidden, Waits, Who, AskOf
    <3>1. actor'[c] = actor[c]
      BY <2>3, <2>4
    <3> QED
      BY <3>1 DEF Inv, Safe, NeverForbidden
  <2> QED
    BY <1>2, <2>6, <2>7, <2>8, <2>9, <2>10 DEF Safe
<1>4. ASSUME NEW a \in Actors, NEW m \in {ForceMsg, StopMsg}, router[b] = a,
             inbox' = [inbox EXCEPT ![a] = Append(@, m)], actor' = actor,
             \/ m = ForceMsg /\ UNCHANGED <<router, stopped>>
             \/ m = StopMsg /\ router' = [router EXCEPT ![b] = NoActor] /\ stopped' = stopped \cup {a}
      PROVE  Checked' /\ Safe'
  <2>1. /\ inbox[a] \in Seq(Message) /\ m \notin Requests
        /\ inbox' = [c \in Actors |-> IF c = a THEN Append(inbox[a], m) ELSE inbox[c]]
        /\ \A c \in Actors : DOMAIN inbox'[c] \subseteq Nat /\ inbox[c] \in Seq(Message)
    <3>1. inbox \in [Actors -> Seq(Message)]
      BY <1>1 DEF TypeOK, Message
    <3>2. m \notin Requests /\ m \in Message
      BY RequestsAssumption DEF Message
    <3>3. inbox' = [c \in Actors |-> IF c = a THEN Append(inbox[a], m) ELSE inbox[c]]
      BY <1>4, <3>1
    <3>4. \A c \in Actors : DOMAIN inbox'[c] \subseteq Nat
      BY <3>1, <3>2, <3>3
    <3> QED
      BY <3>1, <3>2, <3>3, <3>4
  <2>2. \A c \in Actors, i \in Nat : i \in DOMAIN inbox'[c] =>
          \/ i \in DOMAIN inbox[c] /\ inbox'[c][i] = inbox[c][i]
          \/ c = a /\ inbox'[c][i] = m
    BY <2>1
  <2>3. \A q \in Requests, c \in Actors, i \in Nat :
          i \in DOMAIN inbox'[c] /\ inbox'[c][i] = q => i \in DOMAIN inbox[c] /\ inbox[c][i] = q
    BY <2>1, <2>2
  <2>4. \A q \in Requests, c \in Actors : Waits(q, c)' => Waits(q, c)
    BY <2>1, <2>3 DEF Waits
  <2>5. \A d \in Backends : router[d] # NoActor => router[d] \in Actors
    BY <1>1 DEF TypeOK
  <2>6. ForceMsg # StopMsg
    BY DEF ForceMsg, StopMsg
  <2>7. \A d \in Backends : router'[d] # NoActor => router'[d] = router[d] /\ (m = StopMsg => d # b)
    <3>1. CASE m = ForceMsg /\ UNCHANGED <<router, stopped>>
      BY <2>6, <3>1
    <3>2. CASE router' = [router EXCEPT ![b] = NoActor]
      BY <1>1, <3>2 DEF TypeOK
    <3> QED
      BY <1>4, <3>1, <3>2
  <2>8. Routed'
    <3> SUFFICES ASSUME NEW d \in Backends, router'[d] # NoActor
                 PROVE  /\ actor[router[d]].live /\ actor[router[d]].name = d
                        /\ router[d] \notin stopped'
                        /\ \A i \in DOMAIN inbox'[router[d]] : inbox'[router[d]][i] # StopMsg
                        /\ \A q \in Requests : router[d] \notin job[q].gone
      BY <1>1, <1>4, <2>7 DEF Routed
    <3>1. router[d] # NoActor /\ router[d] \in Actors /\ (m = StopMsg => d # b)
      BY <2>5, <2>7
    <3>2. /\ actor[router[d]].live /\ actor[router[d]].name = d /\ router[d] \notin stopped
          /\ \A i \in DOMAIN inbox[router[d]] : inbox[router[d]][i] # StopMsg
          /\ \A q \in Requests : router[d] \notin job[q].gone
      BY <3>1 DEF Inv, Safe, Routed
    <3>3. m = StopMsg => router[d] # a
      <4>1. a # NoActor
        BY <1>1, RequestsAssumption
      <4>2. actor[a].name = b
        BY <1>4, <4>1 DEF Inv, Safe, Routed
      <4> QED
        BY <3>1, <3>2, <4>2
    <3>4. \A i \in DOMAIN inbox'[router[d]] : inbox'[router[d]][i] # StopMsg
      BY <1>4, <2>1, <2>2, <2>6, <3>1, <3>2, <3>3
    <3> QED
      BY <1>4, <2>6, <3>2, <3>3, <3>4
  <2>9. actor[a].live
    BY <1>4, RequestsAssumption DEF Inv, Safe, Routed
  <2>10. DeadEmpty' /\ StoppedLive'
    BY <1>4, <2>1, <2>9 DEF Inv, Safe, DeadEmpty, StoppedLive
  <2>11. WaitsOnce'
    BY <1>1, <2>3 DEF Inv, Safe, WaitsOnce
  <2>12. SnapRight' /\ NeverForbidden' /\ DisabledStaysUncalled'
    BY <1>1, <1>4, <2>4 DEF Inv, Safe, SnapRight, NeverForbidden, DisabledStaysUncalled, Who, AskOf
  <2> QED
    BY <1>2, <2>8, <2>10, <2>11, <2>12 DEF Safe
<1>5. CASE Disable(b)
  <2>1. router[b] \in Actors
    BY <1>1, <1>5 DEF TypeOK, Disable
  <2> QED
    BY <1>4, <1>5, <2>1 DEF Disable
<1>6. CASE ForceReconnect(b)
  <2>1. router[b] \in Actors
    BY <1>1, <1>6 DEF TypeOK, ForceReconnect
  <2> QED
    BY <1>4, <1>6, <2>1 DEF ForceReconnect
<1> QED
  BY <1>3, <1>5, <1>6

LEMMA InvStep == Inv /\ [Next]_vars => Inv'
<1> SUFFICES ASSUME Inv, [Next]_vars PROVE Inv'
  OBVIOUS
<1>1. TypeOK'
  BY TypeStep DEF Inv
<1>2. ASSUME UNCHANGED <<gateway, task>> PROVE Checked' /\ Safe'
  <2>1. UNCHANGED <<router, actor, inbox, stopped, phase, job, snap, part>>
    BY <1>2 DEF gateway, task
  <2>2. Checked'
    BY <2>1 DEF Inv, Checked, CheckedFor, AskOf, Who, PermittedBackends
  <2>3. Routed' /\ DeadEmpty' /\ StoppedLive' /\ SnapRight' /\ WaitsOnce'
    BY <2>1 DEF Inv, Safe, Routed, DeadEmpty, StoppedLive, SnapRight, WaitsOnce
  <2>4. NeverForbidden' /\ DisabledStaysUncalled'
    BY <2>1 DEF Inv, Safe, NeverForbidden, DisabledStaysUncalled, Waits, Who, AskOf
  <2> QED
    BY <2>2, <2>3, <2>4 DEF Safe
<1>3. RegistryChanges \/ UNCHANGED vars => UNCHANGED <<gateway, task>>
  BY DEF RegistryChanges, vars
<1>4. Checked' /\ Safe'
  BY <1>1, <1>2, <1>3, TaskStep, HandleStep, OperatorStep DEF Next
<1> QED
  BY <1>1, <1>4 DEF Inv
-----------------------------------------------------------------------------
(* The gateway serves its clients.                                         *)

\* What an actor may tell a request, and which request may tell it: its token
\* may use the backend, and a named tool or backend is that backend's.
MayGet(r, b) ==
  LET k == AskOf(r) IN
  /\ BackendOK(Who(r), b) /\ k.method \in {"call", "direct", "collect"}
  /\ k.method = "call" => ToolOK(Who(r), k.name) /\ ToolOf(b, k.name)
  /\ k.method = "direct" => b = k.backend
Addressed == \A r \in Requests, a \in Actors : Waits(r, a) => MayGet(r, actor[a].name)

\* What a task has gathered so far it may give to its client.
OwedFor(r) ==
  /\ phase[r] = "filtering" =>
       /\ AskOf(r).method = "list"
       /\ AskOf(r).group # All => part[r].tools \subseteq GroupNames[AskOf(r).group]
  /\ phase[r] \notin {"collecting", "calling"} => part[r].got = {}
  /\ \A b \in part[r].got : BackendOK(Who(r), b)
Owed == \A r \in Requests : OwedFor(r)

Ends == {"idle", "answered"}

\* The client of q sees nothing of a step.
Unnoticed(q) ==
  \/ phase'[q] = phase[q] /\ job'[q] = job[q] /\ answer'[q] = answer[q]
  \/ phase[q] \notin Ends /\ phase'[q] \notin Ends /\ job'[q] = job[q]

LEMMA SeenSame ==
  ASSUME NEW q \in Requests, Unnoticed(q)
  PROVE  Seen'[q] = Seen[q]
  BY DEF Unnoticed, Seen, Who, AskOf, Ends

LEMMA SeenAll == Seen = [q \in Requests |-> Seen[q]] /\ Seen' = [q \in Requests |-> Seen'[q]]
  BY DEF Seen

LEMMA Unseen ==
  ASSUME \A q \in Requests : Unnoticed(q)
  PROVE  Seen' = Seen
<1>1. \A q \in Requests : Seen'[q] = Seen[q]
  BY SeenSame
<1> HIDE DEF Seen
<1> QED
  BY <1>1, SeenAll

LEMMA Answering ==
  ASSUME NEW R \in SUBSET Requests,
         \A q \in R : /\ phase[q] \notin Ends /\ phase'[q] = "answered"
                      /\ answer'[q] \in AllowedAnswers(Who(q), AskOf(q)),
         \A q \in Requests \ R : Unnoticed(q)
  PROVE  Service!Next
<1> DEFINE x == [q \in R |-> answer'[q]]
<1>1. \A q \in R : /\ Seen[q] = Service!Pending(Who(q), AskOf(q))
                   /\ Seen'[q] = Service!Answered(answer'[q])
  BY DEF Seen, Service!Pending, Service!Answered, Ends, Who, AskOf
<1>2. \A q \in R : /\ Seen[q].is = "pending" /\ Seen[q].who = Who(q) /\ Seen[q].ask = AskOf(q)
  BY DEF Seen, Ends
<1>3. \A q \in R : x[q] \in AllowedAnswers(Seen[q].who, Seen[q].ask)
  <2>1. \A q \in R : x[q] = answer'[q]
    OBVIOUS
  <2> HIDE DEF x
  <2> QED
    BY <1>2, <2>1
<1>4. x \in [R -> UNION {AllowedAnswers(Seen[q].who, Seen[q].ask) : q \in R}]
  <2> HIDE DEF x
  <2>1. \A q \in R : x[q] \in UNION {AllowedAnswers(Seen[p].who, Seen[p].ask) : p \in R}
    BY <1>3
  <2>2. x = [q \in R |-> x[q]]
    BY DEF x
  <2> QED
    BY <2>1, <2>2
<1>5. \A q \in Requests :
        Seen'[q] = IF q \in R THEN Service!Answered(x[q]) ELSE Seen[q]
  BY <1>1, SeenSame
<1>6. Seen' = [q \in Requests |-> IF q \in R THEN Service!Answered(x[q]) ELSE Seen[q]]
  <2> HIDE DEF x, Seen, Service!Answered
  <2> QED
    BY <1>5, SeenAll
<1>7. Service!Answer(R)
  <2> HIDE DEF x, Seen, Service!Answered
  <2> QED
    BY <1>2, <1>3, <1>4, <1>6 DEF Service!Answer
<1> QED
  BY <1>7 DEF Service!Next

LEMMA Sending ==
  ASSUME NEW r \in Requests, Arrive(r), TypeOK
  PROVE  Service!Next
<1>1. PICK w \in Tokens, k \in Asks :
        job' = [job EXCEPT ![r] = [who |-> w, ask |-> k, gone |-> stopped]]
  BY DEF Arrive
<1>2. /\ phase[r] = "idle" /\ phase'[r] = "arrived" /\ job'[r].who = w /\ job'[r].ask = k
      /\ \A q \in Requests \ {r} : Unnoticed(q)
  BY <1>1 DEF Arrive, TypeOK, Unnoticed
<1>3. Seen[r] = Service!Idle /\ Seen'[r] = Service!Pending(w, k)
  BY <1>2 DEF Seen, Service!Idle, Service!Pending, Who, AskOf
<1>4. \A q \in Requests \ {r} : Seen'[q] = Seen[q]
  BY <1>2, SeenSame
<1>5. Seen' = [Seen EXCEPT ![r] = Service!Pending(w, k)]
  <2> HIDE DEF Seen, Service!Pending
  <2> QED
    BY <1>3, <1>4, SeenAll
<1>6. Service!Send(r)
  <2> HIDE DEF Seen
  <2> QED
    BY <1>3, <1>5 DEF Service!Send
<1> QED
  BY <1>6 DEF Service!Next

LEMMA Taking ==
  ASSUME NEW r \in Requests, Done(r), TypeOK
  PROVE  Service!Next
<1>1. phase[r] = "answered" /\ phase'[r] = "idle" /\ \A q \in Requests \ {r} : Unnoticed(q)
  BY DEF Done, TypeOK, Unnoticed
<1>2. Seen[r].is = "answered" /\ Seen'[r] = Service!Idle
  BY <1>1 DEF Seen, Service!Idle
<1>3. \A q \in Requests \ {r} : Seen'[q] = Seen[q]
  BY <1>1, SeenSame
<1>4. Seen' = [Seen EXCEPT ![r] = Service!Idle]
  <2> HIDE DEF Seen, Service!Idle
  <2> QED
    BY <1>2, <1>3, SeenAll
<1>5. Service!Take(r)
  <2> HIDE DEF Seen
  <2> QED
    BY <1>2, <1>4 DEF Service!Take
<1> QED
  BY <1>5 DEF Service!Next

\* A step of the requests R leaves what the others are owed alone.
LEMMA OwedStep ==
  ASSUME Owed, NEW R \in SUBSET Requests, \A q \in R : OwedFor(q)',
         \A q \in Requests \ R : UNCHANGED <<phase[q], job[q], part[q]>>
  PROVE  Owed'
<1> SUFFICES ASSUME NEW q \in Requests, q \notin R PROVE OwedFor(q)'
  BY DEF Owed
<1>1. UNCHANGED <<phase[q], job[q], part[q]>>
  OBVIOUS
<1>2. Who(q)' = Who(q) /\ AskOf(q)' = AskOf(q)
  BY <1>1 DEF Who, AskOf
<1> QED
  BY <1>1, <1>2 DEF Owed, OwedFor

LEMMA OwedStepOf ==
  ASSUME Owed, NEW r \in Requests, OwedFor(r)',
         \A q \in Requests \ {r} : UNCHANGED <<phase[q], job[q], part[q]>>
  PROVE  Owed'
<1>1. \A q \in {r} : OwedFor(q)'
  <2> SUFFICES ASSUME NEW q \in {r} PROVE OwedFor(q)'
    OBVIOUS
  <2>1. q = r
    OBVIOUS
  <2> QED
    BY <2>1
<1>2. {r} \in SUBSET Requests
  OBVIOUS
<1> HIDE DEF Owed, OwedFor
<1> QED
  BY <1>1, <1>2, OwedStep

\* A request in a mailbox was there before, or may get what that actor has.
LEMMA AddressedStep ==
  ASSUME Addressed,
         \A q \in Requests, c \in Actors : Waits(q, c)' =>
           \/ Waits(q, c) /\ job'[q] = job[q] /\ actor'[c] = actor[c]
           \/ MayGet(q, actor'[c].name) /\ job'[q] = job[q]
  PROVE  Addressed'
<1> SUFFICES ASSUME NEW q \in Requests, NEW c \in Actors, Waits(q, c)'
             PROVE  MayGet(q, actor[c].name)'
  BY DEF Addressed
<1>1. job'[q] = job[q] /\ MayGet(q, actor'[c].name)
  BY DEF Addressed
<1>2. Who(q)' = Who(q) /\ AskOf(q)' = AskOf(q)
  BY <1>1 DEF Who, AskOf
<1> QED
  BY <1>1, <1>2 DEF MayGet

\* A step of a request that waits nowhere, with the mailboxes as they were.
LEMMA AddressedQuiet ==
  ASSUME Inv, Addressed, NEW r \in Requests, phase[r] # "calling", UNCHANGED gateway,
         \A q \in Requests \ {r} : job'[q] = job[q]
  PROVE  Addressed'
<1>1. \A q \in Requests, c \in Actors : Waits(q, c)' => Waits(q, c) /\ q # r /\ actor'[c] = actor[c]
  BY DEF Inv, Safe, WaitsOnce, Waits, TypeOK, gateway
<1> QED
  BY <1>1, AddressedStep

\* What an actor tells a request that is not one of several is allowed.
LEMMA MayTell ==
  ASSUME NEW r \in Requests, NEW b \in Backends, MayGet(r, b), AskOf(r).method # "collect"
  PROVE  /\ Error \in AllowedAnswers(Who(r), AskOf(r))
         /\ [is |-> "result", from |-> b] \in AllowedAnswers(Who(r), AskOf(r))
<1> DEFINE k == AskOf(r)
           w == Who(r)
<1>1. CASE k.method = "call"
  <2>1. AllowedAnswers(w, k) = {Error} \cup [is : {"result"}, from :
                 {c \in Backends : BackendOK(w, c) /\ ToolOf(c, k.name)}]
    BY <1>1 DEF AllowedAnswers, MayGet
  <2>2. b \in {c \in Backends : BackendOK(w, c) /\ ToolOf(c, k.name)}
    BY <1>1 DEF MayGet
  <2> QED
    BY <2>1, <2>2
<1>2. CASE k.method = "direct"
  <2>1. AllowedAnswers(w, k) = {Error} \cup [is : {"result"}, from :
                 {c \in Backends : BackendOK(w, c) /\ c = k.backend}]
    BY <1>2 DEF AllowedAnswers
  <2>2. b \in {c \in Backends : BackendOK(w, c) /\ c = k.backend}
    BY <1>2 DEF MayGet
  <2> QED
    BY <2>1, <2>2
<1> QED
  BY <1>1, <1>2 DEF MayGet

LEMMA Returning ==
  ASSUME TypeOK, Owed, NEW R \in SUBSET Requests, NEW b \in Backends, NEW ok \in BOOLEAN,
         Return(R, b, ok), \A q \in R : phase[q] \in {"routing", "collecting", "calling"} /\ MayGet(q, b)
  PROVE  Owed' /\ Service!Next
<1> DEFINE C == {q \in R : AskOf(q).method = "collect"}
           A == R \ C
<1>1. \A q \in Requests \ R : phase'[q] = phase[q] /\ job'[q] = job[q] /\ part'[q] = part[q]
                              /\ answer'[q] = answer[q]
  BY DEF Return
<1>2. \A q \in C : /\ phase'[q] = "collecting" /\ job'[q] = job[q]
                   /\ part'[q].got \subseteq part[q].got \cup {b}
  BY DEF Return
<1>3. \A q \in A : /\ phase'[q] = "answered" /\ part'[q] = NoPart
                   /\ answer'[q] \in {Error, [is |-> "result", from |-> b]}
  BY DEF Return
<1>4. Owed'
  <2> SUFFICES ASSUME NEW q \in R PROVE OwedFor(q)'
    <3>1. \A q \in Requests \ R : UNCHANGED <<phase[q], job[q], part[q]>>
      BY <1>1
    <3> HIDE DEF C, A
    <3> QED
      BY <3>1, OwedStep
  <2>1. CASE q \in C
    <3>1. Who(q)' = Who(q)
      BY <1>2, <2>1 DEF Who
    <3>2. \A d \in part'[q].got : BackendOK(Who(q), d)
      BY <1>2, <2>1 DEF Owed, OwedFor, MayGet
    <3> QED
      BY <1>2, <2>1, <3>1, <3>2 DEF OwedFor
  <2>2. CASE q \in A
    <3>1. part'[q].got = {}
      BY <1>3, <2>2 DEF NoPart
    <3> QED
      BY <1>3, <2>2, <3>1 DEF OwedFor
  <2> QED
    BY <2>1, <2>2
<1>5. Service!Next
  <2>1. \A q \in A : /\ phase[q] \notin Ends /\ phase'[q] = "answered"
                     /\ answer'[q] \in AllowedAnswers(Who(q), AskOf(q))
    <3> SUFFICES ASSUME NEW q \in A
                 PROVE  phase[q] \notin Ends /\ answer'[q] \in AllowedAnswers(Who(q), AskOf(q))
      BY <1>3
    <3>1. q \in Requests /\ MayGet(q, b) /\ AskOf(q).method # "collect" /\ phase[q] \notin Ends
      BY DEF Ends
    <3> HIDE DEF A, C
    <3> QED
      BY <1>3, <3>1, MayTell
  <2>2. \A q \in Requests \ A : Unnoticed(q)
    BY <1>1, <1>2 DEF Unnoticed, Ends
  <2> HIDE DEF A, C
  <2>3. A \in SUBSET Requests
    BY DEF A
  <2> QED
    BY <2>1, <2>2, <2>3, Answering
<1> QED
  BY <1>4, <1>5

LEMMA Replying ==
  ASSUME Inv, Owed, Addressed, NEW r \in Requests, NEW x, Reply(r, x), UNCHANGED gateway,
         phase[r] \in {"arrived", "routing", "filtering", "collecting"},
         x \in AllowedAnswers(Who(r), AskOf(r))
  PROVE  Owed' /\ Addressed' /\ Service!Next
<1>1. /\ phase'[r] = "answered" /\ answer'[r] = x /\ part'[r] = NoPart
      /\ \A q \in Requests \ {r} : phase'[q] = phase[q] /\ job'[q] = job[q] /\ part'[q] = part[q]
                                     /\ answer'[q] = answer[q]
  BY DEF Reply, Inv, TypeOK
<1>2. Owed'
  <2>1. OwedFor(r)'
    <3>1. part'[r].got = {}
      BY <1>1 DEF NoPart
    <3> QED
      BY <1>1, <3>1 DEF OwedFor
  <2> QED
    BY <1>1, <2>1, OwedStepOf
<1>3. Addressed'
  BY <1>1, AddressedQuiet
<1>4. Service!Next
  <2>1. \A q \in {r} : /\ phase[q] \notin Ends /\ phase'[q] = "answered"
                       /\ answer'[q] \in AllowedAnswers(Who(q), AskOf(q))
    BY <1>1 DEF Ends
  <2>2. \A q \in Requests \ {r} : Unnoticed(q)
    BY <1>1 DEF Unnoticed
  <2>3. {r} \in SUBSET Requests
    OBVIOUS
  <2> QED
    BY <2>1, <2>2, <2>3, Answering
<1> QED
  BY <1>2, <1>3, <1>4

LEMMA Asking ==
  ASSUME Inv, Owed, Addressed, NEW r \in Requests, NEW b \in Backends,
         phase[r] \in {"routing", "collecting"}, MayAsk(r, b), MayGet(r, b), AskBackend(r, b)
  PROVE  Owed' /\ Addressed' /\ (Service!Next \/ Seen' = Seen)
<1> DEFINE a == snap[r][b]
<1>1. a \in Actors
  BY DEF Inv, TypeOK, MayAsk
<1>2. CASE ~actor[a].live
  <2>1. /\ Return({r}, b, FALSE) /\ UNCHANGED gateway /\ {r} \in SUBSET Requests
        /\ FALSE \in BOOLEAN /\ TypeOK
    BY <1>2 DEF AskBackend, Inv
  <2>2. \A q \in {r} : phase[q] \in {"routing", "collecting", "calling"} /\ MayGet(q, b)
    OBVIOUS
  <2>3. Owed' /\ Service!Next
    BY <2>1, <2>2, Returning
  <2>4. \A q \in Requests \ {r} : job'[q] = job[q]
    BY <2>1 DEF Return
  <2>5. Addressed'
    BY <2>1, <2>4, AddressedQuiet
  <2> QED
    BY <2>3, <2>5
<1>3. CASE actor[a].live
  <2>1. /\ inbox' = [inbox EXCEPT ![a] = Append(@, r)]
        /\ phase' = [phase EXCEPT ![r] = "calling"]
        /\ UNCHANGED <<actor, job, part, answer>>
    BY <1>3 DEF AskBackend
  <2>2. phase'[r] = "calling" /\ \A q \in Requests \ {r} : phase'[q] = phase[q]
    BY <2>1 DEF Inv, TypeOK
  <2>3. OwedFor(r)'
    BY <2>1, <2>2 DEF Owed, OwedFor, Who
  <2>4. Owed'
    BY <2>1, <2>2, <2>3, OwedStepOf
  <2>5. actor[a].name = b
    BY <1>3 DEF Inv, Safe, SnapRight, MayAsk
  <2>6. \A q \in Requests, c \in Actors : Waits(q, c)' => Waits(q, c) \/ (q = r /\ c = a)
    <3>1. inbox \in [Actors -> Seq(Message)]
      BY DEF Inv, TypeOK, Message
    <3>2. \A c \in Actors : inbox'[c] = IF c = a THEN Append(inbox[c], r) ELSE inbox[c]
      BY <1>1, <2>1, <3>1
    <3>3. inbox[a] \in Seq(Message)
      BY <1>1, <3>1
    <3>4. \A i \in DOMAIN Append(inbox[a], r) :
            Append(inbox[a], r)[i] = r \/ (i \in DOMAIN inbox[a] /\ Append(inbox[a], r)[i] = inbox[a][i])
      BY <3>3
    <3> HIDE DEF a
    <3> QED
      BY <3>2, <3>4 DEF Waits
  <2>7. Addressed'
    BY <2>1, <2>5, <2>6, AddressedStep
  <2>8. Seen' = Seen
    <3>1. \A q \in Requests : Unnoticed(q)
      BY <2>1, <2>2 DEF Unnoticed, Ends
    <3> QED
      BY <3>1, Unseen
  <2> QED
    BY <2>4, <2>7, <2>8
<1> QED
  BY <1>2, <1>3

\* What a listing may show.
LEMMA Listing ==
  ASSUME NEW w, NEW k, k.method = "list", NEW T \in SUBSET Names,
         \A n \in T : /\ \E b \in Backends : ToolOf(b, n) /\ BackendOK(w, b)
                      /\ ToolOK(w, n) /\ (k.group # All => n \in GroupNames[k.group])
  PROVE  [is |-> "tools", tools |-> T] \in AllowedAnswers(w, k)
<1> DEFINE L == {n \in Names : /\ \E b \in Backends : ToolOf(b, n) /\ BackendOK(w, b)
                               /\ ToolOK(w, n) /\ (k.group # All => n \in GroupNames[k.group])}
<1>1. AllowedAnswers(w, k) = {[is |-> "tools", tools |-> S] : S \in SUBSET L}
  BY DEF AllowedAnswers
<1>2. T \in SUBSET L
  OBVIOUS
<1> HIDE DEF L
<1> QED
  BY <1>1, <1>2

\* The tools of the registry's answer to a listing of group g.
LEMMA Named ==
  ASSUME TypeOK, NEW E, E \subseteq Directory!Listed, NEW n \in NamesOf(E)
  PROVE  \E e \in E : /\ e[1] \in Backends /\ NsName[e] = n
                      /\ ToolOf(e[1], n) /\ n \in Names
<1>1. PICK e \in E : NsName[e] = n
  BY DEF NamesOf
<1>2. e \in Backends \X Tools
  BY TableTyped DEF TypeOK, Directory!Listed
<1>3. e = <<e[1], e[2]>> /\ e[1] \in Backends /\ e[2] \in Tools
  BY <1>2
<1> QED
  BY <1>1, <1>2, <1>3, RequestsAssumption DEF ToolOf

LEMMA TaskServes ==
  ASSUME Inv, Owed, Addressed, NEW r \in Requests, Arrive(r) \/ Snapshot(r) \/ Task(r) \/ Done(r)
  PROVE  Owed' /\ Addressed' /\ (Service!Next \/ Seen' = Seen)
<1> TypeOK
  BY DEF Inv
<1> DEFINE k == AskOf(r)
           w == Who(r)
<1>1. CASE Arrive(r)
  <2>1. /\ phase[r] = "idle" /\ phase'[r] = "arrived" /\ part' = part /\ UNCHANGED gateway
        /\ \A q \in Requests \ {r} : phase'[q] = phase[q] /\ job'[q] = job[q]
    BY <1>1 DEF Arrive, TypeOK
  <2>2. OwedFor(r)'
    BY <2>1 DEF Owed, OwedFor
  <2>3. Owed' /\ Addressed'
    BY <2>1, <2>2, OwedStepOf, AddressedQuiet
  <2> QED
    BY <1>1, <2>3, Sending
<1>2. CASE Done(r)
  <2>1. /\ phase[r] = "answered" /\ phase'[r] = "idle" /\ UNCHANGED <<part, job, gateway>>
        /\ \A q \in Requests \ {r} : phase'[q] = phase[q]
    BY <1>2 DEF Done, TypeOK
  <2>2. OwedFor(r)'
    BY <2>1 DEF Owed, OwedFor
  <2>3. Owed' /\ Addressed'
    BY <2>1, <2>2, OwedStepOf, AddressedQuiet
  <2> QED
    BY <1>2, <2>3, Taking
<1>3. ASSUME phase[r] \in {"arrived", "queued", "routing"},
             phase'[r] \in {"queued", "routing", "collecting"},
             job' = job, answer' = answer, UNCHANGED gateway, part'[r].got = part[r].got,
             \A q \in Requests \ {r} : phase'[q] = phase[q] /\ part'[q] = part[q]
      PROVE  Owed' /\ Addressed' /\ Seen' = Seen
  <2>1. OwedFor(r)'
    BY <1>3 DEF Owed, OwedFor
  <2>2. Owed'
    BY <1>3, <2>1, OwedStepOf
  <2>3. Addressed'
    BY <1>3, AddressedQuiet
  <2>4. \A q \in Requests : Unnoticed(q)
    BY <1>3 DEF Unnoticed, Ends
  <2> QED
    BY <2>2, <2>3, <2>4, Unseen
<1>4. CASE Snapshot(r)
  <2>1. /\ phase[r] = "queued" /\ phase'[r] = "routing" /\ UNCHANGED <<part, job, answer, gateway>>
        /\ \A q \in Requests \ {r} : phase'[q] = phase[q]
    BY <1>4 DEF Snapshot, TypeOK
  <2> QED
    BY <1>3, <2>1
<1>5. CASE HandleHttp(r)
  <2>1. phase[r] = "arrived" /\ UNCHANGED gateway
    BY <1>5 DEF HandleHttp
  <2>2. CASE k.method = "notification" /\ Reply(r, [is |-> "accepted"])
    <3>1. [is |-> "accepted"] \in AllowedAnswers(w, k)
      BY <2>2 DEF AllowedAnswers
    <3> QED
      BY <2>1, <2>2, <3>1, Replying
  <2>3. CASE k.method = "call" /\ ~ToolOK(w, k.name) /\ Reply(r, [is |-> "forbidden"])
    <3>1. [is |-> "forbidden"] \in AllowedAnswers(w, k)
      BY <2>3 DEF AllowedAnswers
    <3> QED
      BY <2>1, <2>3, <3>1, Replying
  <2>4. CASE phase' = [phase EXCEPT ![r] = "queued"] /\ UNCHANGED <<job, snap, part, answer>>
    <3>1. phase'[r] = "queued" /\ \A q \in Requests \ {r} : phase'[q] = phase[q]
      BY <2>4 DEF TypeOK
    <3> QED
      BY <1>3, <2>1, <2>4, <3>1
  <2> QED
    BY <1>5, <2>2, <2>3, <2>4 DEF HandleHttp
<1>6. CASE Other(r) \/ ListNoGroup(r)
  <2>1. PICK x : /\ phase[r] = "routing" /\ Reply(r, x) /\ UNCHANGED gateway
                 /\ \/ k.method = "other" /\ x = [is |-> "done"]
                    \/ k.method = "nogroup" /\ x = Error
    BY <1>6 DEF Other, ListNoGroup, Routing
  <2>2. x \in AllowedAnswers(w, k)
    BY <2>1 DEF AllowedAnswers
  <2> QED
    BY <2>1, <2>2, Replying
<1>7. CASE ListTools(r)
  <2> DEFINE E == IF k.group = All THEN Directory!Listed
                  ELSE Directory!InGroup(k.group, Directory!Listed)
             L == NamesOf(E)
  <2>1. phase[r] = "routing" /\ k.method = "list" /\ UNCHANGED gateway
    BY <1>7 DEF ListTools, Routing
  <2>2. E \subseteq Directory!Listed
    BY DEF Directory!InGroup
  <2>3. \A e \in E : k.group # All => NsName[e] \in GroupNames[k.group]
    BY DEF Directory!InGroup
  <2>4. \A n \in L : /\ n \in Names /\ \E b \in Backends : ToolOf(b, n)
                     /\ k.group # All => n \in GroupNames[k.group]
    <3> SUFFICES ASSUME NEW n \in L
                 PROVE  /\ n \in Names /\ \E b \in Backends : ToolOf(b, n)
                        /\ k.group # All => n \in GroupNames[k.group]
      OBVIOUS
    <3> HIDE DEF E
    <3>1. \E e \in E : /\ e[1] \in Backends /\ NsName[e] = n
                      /\ ToolOf(e[1], n) /\ n \in Names
      BY <2>2, Named
    <3> QED
      BY <2>3, <3>1
  <2>5. CASE Restricted(w)
    <3>1. /\ phase' = [phase EXCEPT ![r] = "filtering"] /\ part' = [part EXCEPT ![r].tools = L]
          /\ UNCHANGED <<job, answer>>
      BY <1>7, <2>5 DEF ListTools
    <3> HIDE DEF E, L
    <3>2. /\ phase'[r] = "filtering" /\ part'[r].tools = L /\ part'[r].got = part[r].got
          /\ \A q \in Requests \ {r} : phase'[q] = phase[q] /\ part'[q] = part[q]
      BY <3>1 DEF TypeOK
    <3>3. k.group # All => L \subseteq GroupNames[k.group]
      BY <2>4
    <3>4. k' = k
      BY <3>1 DEF AskOf
    <3>5. part'[r].got = {}
      BY <2>1, <3>2 DEF Owed, OwedFor
    <3>6. OwedFor(r)'
      BY <2>1, <3>2, <3>3, <3>4, <3>5 DEF OwedFor
    <3>7. Owed'
      BY <3>1, <3>2, <3>6, OwedStepOf
    <3>8. Addressed'
      BY <2>1, <3>1, AddressedQuiet
    <3>9. \A q \in Requests : Unnoticed(q)
      BY <2>1, <3>1, <3>2 DEF Unnoticed, Ends
    <3> QED
      BY <3>7, <3>8, <3>9, Unseen
  <2>6. CASE ~Restricted(w)
    <3>1. Reply(r, [is |-> "tools", tools |-> L])
      BY <1>7, <2>6 DEF ListTools
    <3> HIDE DEF E, L
    <3>2. \A b, n : BackendOK(w, b) /\ ToolOK(w, n)
      BY <2>6 DEF Restricted, BackendOK, ToolOK
    <3>3. L \in SUBSET Names
      BY <2>4
    <3>4. [is |-> "tools", tools |-> L] \in AllowedAnswers(w, k)
      BY <2>1, <2>4, <3>2, <3>3, Listing
    <3> QED
      BY <2>1, <3>1, <3>4, Replying
  <2> QED
    BY <2>5, <2>6
<1>8. CASE FilterTools(r)
  <2> DEFINE E == {e \in Directory!Entries : Permitted(w, e[1], NsName[e])}
             T == part[r].tools \cap NamesOf(E)
  <2>1. /\ phase[r] = "filtering" /\ UNCHANGED gateway /\ Reply(r, [is |-> "tools", tools |-> T])
        /\ k.method = "list"
    BY <1>8 DEF FilterTools, Owed, OwedFor
  <2>2. E \subseteq Directory!Listed
    BY DEF Directory!Listed
  <2>3. \A e \in E : BackendOK(w, e[1]) /\ ToolOK(w, NsName[e])
    BY DEF Permitted
  <2>4. \A n \in T : /\ \E b \in Backends : ToolOf(b, n) /\ BackendOK(w, b)
                     /\ ToolOK(w, n) /\ (k.group # All => n \in GroupNames[k.group])
    <3> SUFFICES ASSUME NEW n \in T
                 PROVE  /\ \E b \in Backends : ToolOf(b, n) /\ BackendOK(w, b)
                        /\ ToolOK(w, n) /\ (k.group # All => n \in GroupNames[k.group])
      OBVIOUS
    <3> HIDE DEF E
    <3>1. \E e \in E : /\ e[1] \in Backends /\ NsName[e] = n
                      /\ ToolOf(e[1], n) /\ n \in Names
      BY <2>2, Named
    <3>2. k.group # All => n \in GroupNames[k.group]
      BY <2>1 DEF Owed, OwedFor
    <3> QED
      BY <2>3, <3>1, <3>2
  <2>5. T \in SUBSET Names
    BY DEF TypeOK
  <2> HIDE DEF T
  <2>6. [is |-> "tools", tools |-> T] \in AllowedAnswers(w, k)
    BY <2>1, <2>4, <2>5, Listing
  <2> QED
    BY <2>1, <2>6, Replying
<1>9. CASE CallTool(r)
  <2>1. phase[r] = "routing" /\ k.method = "call"
    BY <1>9 DEF CallTool, Routing
  <2>2. ToolOK(w, k.name)
    BY <2>1 DEF Inv, Checked, CheckedFor
  <2>3. CASE Reply(r, Error) /\ UNCHANGED gateway
    <3>1. Error \in AllowedAnswers(w, k)
      BY <2>1, <2>2 DEF AllowedAnswers
    <3> QED
      BY <2>1, <2>3, <3>1, Replying
  <2>4. CASE \E e \in Directory!Entries :
               /\ NsName[e] = k.name /\ BackendOK(w, e[1])
               /\ snap[r][e[1]] # NoActor /\ AskBackend(r, e[1])
    <3>1. PICK e \in Directory!Entries :
               /\ NsName[e] = k.name /\ BackendOK(w, e[1])
               /\ snap[r][e[1]] # NoActor /\ AskBackend(r, e[1])
      BY <2>4
    <3>2. e[1] \in Backends /\ ToolOf(e[1], k.name)
      BY <3>1, RouteOf
    <3>3. MayAsk(r, e[1]) /\ MayGet(r, e[1])
      BY <2>1, <2>2, <3>1, <3>2 DEF MayAsk, MayGet
    <3> QED
      BY <2>1, <3>1, <3>2, <3>3, Asking
  <2> QED
    BY <1>9, <2>3, <2>4 DEF CallTool
<1>10. CASE Direct(r)
  <2>1. phase[r] = "routing" /\ k.method = "direct" /\ k.backend \in Backends
    BY <1>10, AskFields DEF Direct, Routing
  <2>2. CASE Reply(r, Error) /\ UNCHANGED gateway
    <3>1. Error \in AllowedAnswers(w, k)
      BY <2>1 DEF AllowedAnswers
    <3> QED
      BY <2>1, <2>2, <3>1, Replying
  <2>3. CASE /\ BackendOK(w, k.backend) /\ snap[r][k.backend] # NoActor
             /\ AskBackend(r, k.backend)
    <3>1. MayAsk(r, k.backend) /\ MayGet(r, k.backend)
      BY <2>1, <2>3 DEF MayAsk, MayGet
    <3> QED
      BY <2>1, <2>3, <3>1, Asking
  <2> QED
    BY <1>10, <2>2, <2>3 DEF Direct
<1>11. CASE Collect(r)
  <2>1. /\ phase[r] = "routing" /\ phase'[r] = "collecting" /\ UNCHANGED <<gateway, job, answer>>
        /\ part'[r].got = part[r].got
        /\ \A q \in Requests \ {r} : phase'[q] = phase[q] /\ part'[q] = part[q]
    BY <1>11 DEF Collect, Routing, TypeOK
  <2> QED
    BY <1>3, <2>1
<1>12. CASE CollectNext(r)
  <2>1. phase[r] = "collecting" /\ k.method = "collect"
    BY <1>12 DEF CollectNext, Inv, Checked, CheckedFor
  <2>2. CASE Reply(r, [is |-> "parts", from |-> part[r].got]) /\ UNCHANGED gateway
    <3>1. part[r].got \in SUBSET {c \in Backends : BackendOK(w, c)}
      BY DEF Owed, OwedFor, TypeOK
    <3>2. AllowedAnswers(w, k) = {[is |-> "parts", from |-> B] :
                                    B \in SUBSET {c \in Backends : BackendOK(w, c)}}
      BY <2>1 DEF AllowedAnswers
    <3>3. [is |-> "parts", from |-> part[r].got] \in AllowedAnswers(w, k)
      BY <3>1, <3>2
    <3> QED
      BY <2>1, <2>2, <3>3, Replying
  <2>3. CASE \E b \in part[r].todo : AskBackend(r, b)
    <3>1. PICK b \in part[r].todo : AskBackend(r, b)
      BY <2>3
    <3>2. b \in PermittedBackends(r)
      BY <2>1, <3>1 DEF Inv, Checked, CheckedFor
    <3>3. b \in Backends /\ MayAsk(r, b) /\ MayGet(r, b)
      BY <2>1, <3>2 DEF PermittedBackends, MayAsk, MayGet
    <3> QED
      BY <2>1, <3>1, <3>3, Asking
  <2> QED
    BY <1>12, <2>2, <2>3 DEF CollectNext
<1> QED
  BY <1>1, <1>2, <1>4, <1>5, <1>6, <1>7, <1>8, <1>9, <1>10, <1>11, <1>12 DEF Task

LEMMA HandleServes ==
  ASSUME Inv, Owed, Addressed, NEW a \in Actors, Handle(a)
  PROVE  Owed' /\ Addressed' /\ (Service!Next \/ Seen' = Seen)
<1>1. inbox[a] # <<>> /\ actor[a].name \in Backends /\ TypeOK
  BY DEF Handle, HandleCall, HandleForce, HandleStop, Inv, TypeOK
<1>2. CASE HandleForce(a)
  <2>1. /\ inbox' = [inbox EXCEPT ![a] = Tail(@)] /\ Head(inbox[a]) = ForceMsg
        /\ UNCHANGED <<router, actor, stopped, phase, job, part, answer>>
    BY <1>2 DEF HandleForce, task
  <2>2. \A q \in Requests, c \in Actors : Waits(q, c)' => Waits(q, c)
    BY <1>1, <2>1, MailStep, {} \in SUBSET Requests
  <2>3. Addressed'
    BY <2>1, <2>2, AddressedStep
  <2>4. Owed'
    BY <2>1 DEF Owed, OwedFor, Who, AskOf
  <2>5. \A q \in Requests : Unnoticed(q)
    BY <2>1 DEF Unnoticed
  <2> QED
    BY <2>3, <2>4, <2>5, Unseen
<1>3. ASSUME NEW R \in SUBSET Requests, NEW ok \in BOOLEAN, Return(R, actor[a].name, ok),
             UNCHANGED router, \A q \in R : Waits(q, a),
             \/ /\ inbox' = [inbox EXCEPT ![a] = Tail(@)] /\ actor' = actor /\ stopped' = stopped
                /\ R = {Head(inbox[a])}
             \/ /\ inbox' = [inbox EXCEPT ![a] = <<>>] /\ actor' = [actor EXCEPT ![a] = NoOne]
                /\ stopped' = stopped \ {a} /\ Head(inbox[a]) = StopMsg
                /\ R = {r \in Requests : Waits(r, a)}
      PROVE  Owed' /\ Addressed' /\ Service!Next
  <2> R \in SUBSET Requests /\ ok \in BOOLEAN
    BY <1>3
  <2>1. PICK b \in Backends : b = actor[a].name /\ Return(R, b, ok)
    BY <1>1, <1>3
  <2>2. /\ \A q \in Requests \ R : phase'[q] = phase[q] /\ job'[q] = job[q]
        /\ \A q \in R : job'[q] \in {job[q], NoJob}
    BY <2>1 DEF Return
  <2>3. \A q \in Requests : job'[q].gone \in {{}, job[q].gone}
    <3>1. NoJob.gone = {}
      BY DEF NoJob
    <3> HIDE DEF NoJob
    <3> QED
      BY <2>2, <3>1
  <2>4. /\ \A r \in R : phase[r] = "calling"
        /\ \A q \in Requests, c \in Actors : Waits(q, c)' => Waits(q, c) /\ q \notin R
        /\ \A q \in Requests, c \in Actors : Waits(q, c)' => actor'[c] = actor[c]
    BY <1>1, <1>3, <2>2, <2>3, MailStep
  <2>5. \A q \in R : phase[q] \in {"routing", "collecting", "calling"} /\ MayGet(q, b)
    BY <1>3, <2>1, <2>4 DEF Addressed
  <2>6. Owed' /\ Service!Next
    BY <1>1, <2>1, <2>5, Returning
  <2>7. Addressed'
    BY <2>2, <2>4, AddressedStep
  <2> QED
    BY <2>6, <2>7
<1>4. CASE HandleCall(a)
  <2>1. PICK ok \in BOOLEAN : Return({Head(inbox[a])}, actor[a].name, ok)
    BY <1>4 DEF HandleCall
  <2>2. {Head(inbox[a])} \in SUBSET Requests
    BY <1>4 DEF HandleCall
  <2>3. \A q \in {Head(inbox[a])} : Waits(q, a)
    <3>1. inbox[a] \in Seq(Message)
      BY <1>1 DEF TypeOK, Message
    <3>2. 1 \in DOMAIN inbox[a] /\ inbox[a][1] = Head(inbox[a])
      BY <1>1, <3>1
    <3> QED
      BY <3>2 DEF Waits
  <2> QED
    BY <1>3, <1>4, <2>1, <2>2, <2>3 DEF HandleCall
<1>5. CASE HandleStop(a)
  <2> DEFINE R == {r \in Requests : Waits(r, a)}
  <2>1. Return(R, actor[a].name, FALSE) /\ FALSE \in BOOLEAN /\ R \in SUBSET Requests
    BY <1>5 DEF HandleStop, Waits
  <2> QED
    BY <1>3, <1>5, <2>1 DEF HandleStop
<1> QED
  BY <1>2, <1>3, <1>4, <1>5 DEF Handle

LEMMA OperatorServes ==
  ASSUME Inv, Owed, Addressed, NEW b \in Backends, Enable(b) \/ Disable(b) \/ ForceReconnect(b)
  PROVE  Owed' /\ Addressed' /\ Seen' = Seen
<1>1. UNCHANGED <<phase, job, part, answer>> /\ TypeOK
  BY DEF Enable, Disable, ForceReconnect, task, Inv
<1>2. Owed'
  BY <1>1 DEF Owed, OwedFor, Who, AskOf
<1>3. Seen' = Seen
  <2>1. \A q \in Requests : Unnoticed(q)
    BY <1>1 DEF Unnoticed
  <2> QED
    BY <2>1, Unseen
<1>4. CASE Enable(b)
  <2>1. PICK a \in Actors : Free(a) /\ actor' = [actor EXCEPT ![a] = [name |-> b, live |-> TRUE]]
    BY <1>4, EnableAs
  <2>2. inbox' = inbox /\ \A q \in Requests : ~Waits(q, a)
    BY <1>4, <2>1 DEF Enable, Free, Inv, Safe, DeadEmpty, Waits
  <2>3. \A c \in Actors \ {a} : actor'[c] = actor[c]
    BY <2>1
  <2>4. \A q \in Requests, c \in Actors : Waits(q, c)' => Waits(q, c) /\ actor'[c] = actor[c]
    BY <2>2, <2>3 DEF Waits
  <2> QED
    BY <1>1, <1>2, <1>3, <2>4, AddressedStep
<1>5. CASE Disable(b) \/ ForceReconnect(b)
  <2>1. PICK a \in Actors, m \in {ForceMsg, StopMsg} : inbox' = [inbox EXCEPT ![a] = Append(@, m)]
    BY <1>1, <1>5 DEF Disable, ForceReconnect, TypeOK
  <2>2. m \in Message /\ m \notin Requests /\ actor' = actor
    BY <1>5, RequestsAssumption DEF Disable, ForceReconnect, Message
  <2>3. \A q \in Requests, c \in Actors : Waits(q, c)' => Waits(q, c)
    <3>1. inbox \in [Actors -> Seq(Message)]
      BY <1>1 DEF TypeOK, Message
    <3>2. \A c \in Actors : inbox'[c] = IF c = a THEN Append(inbox[c], m) ELSE inbox[c]
      BY <2>1, <3>1
    <3>3. inbox[a] \in Seq(Message)
      BY <3>1
    <3>4. \A i \in DOMAIN Append(inbox[a], m) :
            Append(inbox[a], m)[i] = m \/ (i \in DOMAIN inbox[a] /\ Append(inbox[a], m)[i] = inbox[a][i])
      BY <2>2, <3>3
    <3> QED
      BY <2>2, <3>2, <3>4 DEF Waits
  <2> QED
    BY <1>1, <1>2, <1>3, <2>2, <2>3, AddressedStep
<1> QED
  BY <1>4, <1>5

LEMMA ServeStep ==
  Inv /\ Owed /\ Addressed /\ [Next]_vars
    => Owed' /\ Addressed' /\ [Service!Next]_Seen
<1> SUFFICES ASSUME Inv, Owed, Addressed, [Next]_vars
             PROVE  Owed' /\ Addressed' /\ (Service!Next \/ Seen' = Seen)
  OBVIOUS
<1>1. CASE RegistryChanges \/ UNCHANGED vars
  <2>1. UNCHANGED <<phase, job, part, answer, inbox, actor>>
    BY <1>1 DEF RegistryChanges, vars, gateway, task
  <2>2. Owed' /\ Addressed'
    BY <2>1 DEF Owed, OwedFor, Addressed, MayGet, Waits, Who, AskOf
  <2>3. \A q \in Requests : Unnoticed(q)
    BY <2>1 DEF Unnoticed
  <2> QED
    BY <2>2, <2>3, Unseen
<1> QED
  BY <1>1, TaskServes, HandleServes, OperatorServes DEF Next
-----------------------------------------------------------------------------
(* Theorems.                                                               *)

\* The invariant, with Inv as its inductive strengthening: routing tables,
\* mailboxes and the maps of the requests under way agree.
THEOREM Invariance == Spec => []Inv
<1>1. Init => Inv
  BY TypeInit, SafeInit DEF Inv
<1> QED
  BY <1>1, InvStep, PTL DEF Spec

\* Every variable holds a value of its type.
THEOREM TypeCorrect == Spec => []TypeOK
<1>1. Inv => TypeOK
  BY DEF Inv
<1> QED
  BY <1>1, Invariance, PTL

\* No backend receives a request of a token that may not use it, and a tool
\* call reaches only the backend whose tool it names, however backends are
\* disabled, enabled and replaced and the registry changes on the way from the
\* check in server.rs to the mailbox.
THEOREM AccessControlled == Spec => []NeverForbidden
<1>1. Inv => NeverForbidden
  BY DEF Inv, Safe
<1> QED
  BY <1>1, Invariance, PTL

\* A request that arrives after a backend was disabled never reaches the actor
\* that was told to stop.
THEOREM DisabledUnreached == Spec => []DisabledStaysUncalled
<1>1. Inv => DisabledStaysUncalled
  BY DEF Inv, Safe
<1> QED
  BY <1>1, Invariance, PTL

\* The gateway implements RequestService, with Owed and Addressed beside Inv:
\* every request gets one answer, from its task, from the actor it waits for or
\* from the one that stops, and the answer holds only what its token may have,
\* for any number of requests under way at once.
THEOREM RequestsImplementService == Spec => ImplementsService
<1>1. Init => Owed /\ Addressed /\ Service!Init
  <2> SUFFICES ASSUME Init PROVE Owed /\ Addressed /\ Service!Init
    OBVIOUS
  <2>1. Owed /\ Addressed
    BY DEF Init, Owed, OwedFor, Addressed, Waits, NoPart
  <2>2. Service!Init
    BY DEF Init, Service!Init, Service!Idle, Seen
  <2> QED
    BY <2>1, <2>2
<1> QED
  BY <1>1, ServeStep, Invariance, PTL DEF Spec, ImplementsService, Service!Spec
=============================================================================
