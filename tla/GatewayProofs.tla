--------------------------- MODULE GatewayProofs ---------------------------
(***************************************************************************)
(* What holds of the gateway for any set of backends, actors and           *)
(* configurations: its router and its actors agree, and only configured    *)
(* backends run.  Every handler of the gateway stops some backends and     *)
(* starts others, so one lemma about Route and Staff carries the argument. *)
(***************************************************************************)
EXTENDS Gateway, FiniteSetTheorems, TLAPS

\* The part of the type invariant the router needs.
Roster ==
  /\ config \in Configs
  /\ router \in [Backends -> Actors \cup {NoActor}]
  /\ actors \in [Actors -> [phase : {"free", "starting", "running"}, name : Backends,
                            stop : BOOLEAN, told : Word]]

RosterInv ==
  /\ Roster /\ RouterSound
  /\ ~booted => \A b \in Backends : router[b] = NoActor

(* Stopping the routed backends in R and starting the unrouted ones in B,  *)
(* as free actors that differ, keeps the router and the actors in step.    *)
LEMMA StaffKeepsRoster ==
  ASSUME RosterInv, config' \in Configs, booted',
         NEW R \in SUBSET Backends, NEW B \in SUBSET Backends, NEW f,
         \A b \in B : f[b] \in Free,
         \A b, c \in B : f[b] = f[c] => b = c,
         \A b \in B : router[b] = NoActor,
         \A b \in R : router[b] # NoActor,
         Route(R, B, f), Staff(R, B, f)
  PROVE  RosterInv'
<1>1. \A b \in B : f[b] \in Actors /\ actors[f[b]].phase = "free"
  BY DEF Free
<1>2. router' \in [Backends -> Actors \cup {NoActor}]
  <2>1. \A b \in Backends : router[b] \in Actors \cup {NoActor}
    BY DEF RosterInv, Roster
  <2> QED BY <1>1, <2>1 DEF Route
<1>3. \A b \in Backends : router'[b] = IF b \in B THEN f[b]
                                       ELSE IF b \in R THEN NoActor ELSE router[b]
  BY DEF Route
<1>4. \A b \in B : actors'[f[b]] = Starting(b)
  <2>1. \A b \in B : (CHOOSE c \in B : f[c] = f[b]) = b
    OBVIOUS
  <2> QED BY <1>1, <2>1 DEF Staff
<1>5. \A a \in Actors : (\A b \in B : f[b] # a) =>
        actors'[a] = IF \E b \in R : router[b] = a THEN [actors[a] EXCEPT !.stop = TRUE]
                     ELSE actors[a]
  BY DEF Staff
<1>6. ASSUME NEW a \in Actors, \A b \in B : f[b] # a
      PROVE  /\ actors'[a].phase = actors[a].phase
             /\ actors'[a].name = actors[a].name
             /\ ~actors'[a].stop <=> ~actors[a].stop /\ \A b \in R : router[b] # a
             /\ actors'[a] \in [phase : {"free", "starting", "running"}, name : Backends,
                                stop : BOOLEAN, told : Word]
  <2>1. actors[a] \in [phase : {"free", "starting", "running"}, name : Backends,
                       stop : BOOLEAN, told : Word]
    BY DEF RosterInv, Roster
  <2>2. CASE \E b \in R : router[b] = a
    <3>1. actors'[a] = [actors[a] EXCEPT !.stop = TRUE]
      BY <1>5, <1>6, <2>2
    <3> QED BY <2>1, <2>2, <3>1
  <2>3. CASE \A b \in R : router[b] # a
    <3>1. actors'[a] = actors[a]
      BY <1>5, <1>6, <2>3
    <3> QED BY <2>1, <2>3, <3>1
  <2> QED BY <2>2, <2>3
<1>7. actors' \in [Actors -> [phase : {"free", "starting", "running"}, name : Backends,
                              stop : BOOLEAN, told : Word]]
  <2>1. actors' = [a \in Actors |-> actors'[a]]
    BY DEF Staff
  <2>2. ASSUME NEW a \in Actors
        PROVE  actors'[a] \in [phase : {"free", "starting", "running"}, name : Backends,
                               stop : BOOLEAN, told : Word]
    <3>1. CASE \E b \in B : f[b] = a
      <4>1. PICK b \in B : f[b] = a
        BY <3>1
      <4>2. actors'[a] = Starting(b)
        BY <1>4, <4>1
      <4> QED BY <4>2 DEF Starting, Word
    <3>2. CASE \A b \in B : f[b] # a
      BY <1>6, <3>2
    <3> QED BY <3>1, <3>2
  <2> QED BY <2>1, <2>2
<1>8. ASSUME NEW a \in Actors, actors'[a].phase # "free", ~actors'[a].stop
      PROVE  router'[actors'[a].name] = a
  <2>1. CASE \E b \in B : f[b] = a
    <3>1. PICK b \in B : f[b] = a
      BY <2>1
    <3>2. actors'[a] = Starting(b)
      BY <1>4, <3>1
    <3>3. actors'[a].name = b
      BY <3>2 DEF Starting
    <3> QED BY <1>3, <3>1, <3>3
  <2>2. CASE \A b \in B : f[b] # a
    <3>1. actors[a].phase # "free" /\ ~actors[a].stop /\ \A b \in R : router[b] # a
      BY <1>6, <1>8, <2>2
    <3>2. router[actors[a].name] = a /\ actors[a].name \in Backends
      BY <3>1 DEF RosterInv, RouterSound, Roster
    <3>3. a # NoActor
      BY GatewayAssumption
    <3>4. actors[a].name \notin R /\ actors[a].name \notin B
      BY <3>1, <3>2, <3>3
    <3> QED BY <1>3, <1>6, <2>2, <3>2, <3>4
  <2> QED BY <2>1, <2>2
<1>9. ASSUME NEW b \in Backends, router'[b] # NoActor
      PROVE  LET r == actors'[router'[b]] IN r.name = b /\ r.phase # "free" /\ ~r.stop
  <2>1. CASE b \in B
    <3>1. actors'[router'[b]] = Starting(b)
      BY <1>3, <1>4, <2>1
    <3> QED BY <3>1 DEF Starting
  <2>2. CASE b \notin B
    <3>1. router'[b] = router[b] /\ b \notin R /\ router[b] # NoActor /\ router[b] \in Actors
      BY <1>3, <1>9, <2>2 DEF RosterInv, Roster
    <3>2. /\ actors[router[b]].name = b /\ actors[router[b]].phase # "free"
          /\ ~actors[router[b]].stop
      BY <3>1 DEF RosterInv, RouterSound
    <3>3. \A c \in B : f[c] # router[b]
      BY <1>1, <3>2
    <3>4. \A c \in R : router[c] # router[b]
      <4> SUFFICES ASSUME NEW c \in R, router[c] = router[b]
                   PROVE  FALSE
        OBVIOUS
      <4>1. actors[router[c]].name = c
        BY <3>1 DEF RosterInv, RouterSound
      <4> QED BY <3>1, <3>2, <4>1
    <3> QED BY <1>6, <3>1, <3>2, <3>3, <3>4
  <2> QED BY <2>1, <2>2
<1> QED BY <1>2, <1>7, <1>8, <1>9 DEF RosterInv, Roster, RouterSound
-----------------------------------------------------------------------------
LEMMA RosterInit == Init => RosterInv
<1> SUFFICES ASSUME Init PROVE RosterInv
  OBVIOUS
<1>1. (CHOOSE b \in Backends : TRUE) \in Backends
  BY GatewayAssumption
<1> QED BY <1>1 DEF Init, RosterInv, Roster, RouterSound, Word

\* An actor's own steps: it starts, reports or stops; the router stays.
LEMMA ActorStepKeepsRoster ==
  ASSUME RosterInv, NEW a \in Actors, Started(a) \/ Reports(a) \/ Stops(a)
  PROVE  RosterInv'
<1>1. UNCHANGED <<booted, config, router>> /\ actors[a].phase # "free"
  BY DEF Started, Reports, Stops, Says
<1>2. \A c \in Actors : actors[c] \in [phase : {"free", "starting", "running"},
                                       name : Backends, stop : BOOLEAN, told : Word]
  BY DEF RosterInv, Roster
<1>3. CASE Stops(a)
  <2>1. actors' = [actors EXCEPT ![a].phase = "free", ![a].stop = FALSE, ![a].told = "none"]
    BY <1>3 DEF Stops
  <2>2. actors[a].stop
    BY <1>3 DEF Stops
  <2>3. \A c \in Actors : c # a => actors'[c] = actors[c]
    BY <2>1 DEF RosterInv, Roster
  <2>4. actors'[a].phase = "free" /\ actors'[a] \in [phase : {"free", "starting", "running"},
                                       name : Backends, stop : BOOLEAN, told : Word]
    BY <1>2, <2>1 DEF Word, RosterInv, Roster
  <2>5. actors' \in [Actors -> [phase : {"free", "starting", "running"},
                                name : Backends, stop : BOOLEAN, told : Word]]
    BY <1>2, <2>1, <2>3, <2>4 DEF RosterInv, Roster
  <2>6. \A b \in Backends : router[b] # a
    BY <2>2, GatewayAssumption DEF RosterInv, RouterSound
  <2>7. \A b \in Backends : router[b] # NoActor => router[b] \in Actors
    BY DEF RosterInv, Roster
  <2> QED BY <1>1, <2>3, <2>4, <2>5, <2>6, <2>7 DEF RosterInv, Roster, RouterSound
<1>4. CASE Started(a) \/ Reports(a)
  <2>1. PICK s \in {"down", "connected"} :
          actors' = [actors EXCEPT ![a].phase = "running", ![a].told = s]
    BY <1>4 DEF Started, Reports, Says
  <2>2. \A c \in Actors : c # a => actors'[c] = actors[c]
    BY <2>1 DEF RosterInv, Roster
  <2>3. /\ actors'[a].phase = "running" /\ actors'[a].name = actors[a].name
        /\ actors'[a].stop = actors[a].stop
        /\ actors'[a] \in [phase : {"free", "starting", "running"},
                           name : Backends, stop : BOOLEAN, told : Word]
    BY <1>2, <2>1 DEF Word, RosterInv, Roster
  <2>4. actors' \in [Actors -> [phase : {"free", "starting", "running"},
                                name : Backends, stop : BOOLEAN, told : Word]]
    BY <1>2, <2>1, <2>2, <2>3 DEF RosterInv, Roster
  <2>5. \A c \in Actors : /\ actors'[c].phase # "free" <=> actors[c].phase # "free"
                          /\ actors'[c].name = actors[c].name
                          /\ actors'[c].stop = actors[c].stop
    BY <1>1, <2>2, <2>3
  <2>6. \A b \in Backends : router[b] # NoActor => router[b] \in Actors
    BY DEF RosterInv, Roster
  <2> QED BY <1>1, <2>4, <2>5, <2>6 DEF RosterInv, Roster, RouterSound
<1> QED BY <1>3, <1>4

\* Every step keeps the router and the actors in step.
LEMMA RosterNext == ASSUME RosterInv, [Next]_vars PROVE RosterInv'
<1>a. config \in Configs
  BY DEF RosterInv, Roster
<1>1. CASE InitBackends
  <2> DEFINE B == {b \in Backends : config[b] = "enabled"}
  <2>1. PICK f \in Assignments(B) : Route({}, B, f) /\ Staff({}, B, f)
    BY <1>1 DEF InitBackends
  <2>2. (\A b \in B : f[b] \in Free) /\ \A b, c \in B : f[b] = f[c] => b = c
    BY DEF Assignments
  <2>3. \A b \in B : router[b] = NoActor
    BY <1>1 DEF InitBackends, RosterInv
  <2>4. config' \in Configs /\ booted' /\ B \in SUBSET Backends
    BY <1>1, <1>a DEF InitBackends
  <2> HIDE DEF B
  <2> QED BY <2>1, <2>2, <2>3, <2>4, StaffKeepsRoster
<1>2. ASSUME NEW c \in Configs, ReloadConfig(c)
      PROVE  RosterInv'
  <2> DEFINE R == {b \in Backends : c[b] # "enabled" /\ router[b] # NoActor}
             B == {b \in Backends : c[b] = "enabled" /\ router[b] = NoActor}
  <2>1. PICK f \in Assignments(B) : Route(R, B, f) /\ Staff(R, B, f)
    BY <1>2 DEF ReloadConfig
  <2>2. (\A b \in B : f[b] \in Free) /\ \A b, d \in B : f[b] = f[d] => b = d
    BY DEF Assignments
  <2>3. (\A b \in B : router[b] = NoActor) /\ \A b \in R : router[b] # NoActor
    OBVIOUS
  <2>4. config' \in Configs /\ booted' /\ B \in SUBSET Backends /\ R \in SUBSET Backends
    BY <1>2 DEF ReloadConfig, Serving
  <2> HIDE DEF B, R
  <2> QED BY <2>1, <2>2, <2>3, <2>4, StaffKeepsRoster
<1>3. ASSUME NEW b \in Backends, Disable(b)
      PROVE  RosterInv'
  <2>1. Route({b}, {}, <<>>) /\ Staff({b}, {}, <<>>) /\ router[b] # NoActor
    BY <1>3 DEF Disable
  <2>2. config' \in Configs /\ booted'
    BY <1>3, <1>a DEF Disable, Serving
  <2>3. {} \in SUBSET Backends /\ {b} \in SUBSET Backends
    OBVIOUS
  <2> QED BY <2>1, <2>2, <2>3, StaffKeepsRoster
<1>4. ASSUME NEW b \in Backends, Enable(b)
      PROVE  RosterInv'
  <2>1. PICK f \in Assignments({b}) : Route({}, {b}, f) /\ Staff({}, {b}, f)
    BY <1>4 DEF Enable
  <2>2. f[b] \in Free
    BY DEF Assignments
  <2>3. config' \in Configs /\ booted' /\ router[b] = NoActor
    BY <1>4, <1>a DEF Enable, Serving
  <2>4. {} \in SUBSET Backends /\ {b} \in SUBSET Backends
    OBVIOUS
  <2> QED BY <2>1, <2>2, <2>3, <2>4, StaffKeepsRoster
<1>5. ASSUME NEW a \in Actors, Started(a) \/ Reports(a) \/ Stops(a)
      PROVE  RosterInv'
  BY <1>5, ActorStepKeepsRoster
<1>6. CASE RegistryHandles
  BY <1>6 DEF RegistryHandles, RosterInv, Roster, RouterSound
<1>7. CASE UNCHANGED vars
  BY <1>7 DEF vars, RosterInv, Roster, RouterSound
<1> QED BY <1>1, <1>2, <1>3, <1>4, <1>5, <1>6, <1>7 DEF Next

(* The router and the actors agree, for any sets of backends, actors and   *)
(* configurations: no history of reloads, disables and enables leaks an    *)
(* actor or routes to a stopped one (gateway.rs 799-973).                  *)
THEOREM RouterAlwaysSound == Spec => []RouterSound
<1>1. RosterInv /\ [Next]_vars => RosterInv'
  BY RosterNext
<1>2. RosterInv => RouterSound
  BY DEF RosterInv
<1> QED BY RosterInit, <1>1, <1>2, PTL DEF Spec

ConfiguredInv == RosterInv /\ RunningIsConfigured

(* Only configured backends run: none that a reload took out of the        *)
(* configuration, none that was never in it (ReloadConfig, 889-973).       *)
THEOREM RunningIsAlwaysConfigured == Spec => []RunningIsConfigured
<1>1. Init => ConfiguredInv
  BY RosterInit DEF Init, ConfiguredInv, RunningIsConfigured
<1>2. ASSUME ConfiguredInv, [Next]_vars
      PROVE  ConfiguredInv'
  <2>1. RosterInv'
    BY <1>2, RosterNext DEF ConfiguredInv
  <2> SUFFICES RunningIsConfigured'
    BY <2>1 DEF ConfiguredInv
  <2>2. CASE UNCHANGED <<config, router>>
    BY <1>2, <2>2 DEF ConfiguredInv, RunningIsConfigured
  <2>3. CASE InitBackends
    BY <1>2, <2>3 DEF InitBackends, Route, ConfiguredInv, RunningIsConfigured
  <2>4. CASE \E c \in Configs : ReloadConfig(c)
    BY <1>2, <2>4 DEF ReloadConfig, Route, ConfiguredInv, RunningIsConfigured
  <2>5. CASE \E b \in Backends : Disable(b) \/ Enable(b)
    BY <1>2, <2>5 DEF Disable, Enable, Route, ConfiguredInv, RunningIsConfigured
  <2>6. (RegistryHandles \/ \E a \in Actors : Started(a) \/ Reports(a) \/ Stops(a))
          => UNCHANGED <<config, router>>
    BY DEF RegistryHandles, Started, Reports, Stops, Says
  <2> QED BY <1>2, <2>2, <2>3, <2>4, <2>5, <2>6 DEF Next, vars
<1>3. ConfiguredInv /\ [Next]_vars => ConfiguredInv'
  BY <1>2
<1>4. ConfiguredInv => RunningIsConfigured
  BY DEF ConfiguredInv
<1> QED BY <1>1, <1>3, <1>4, PTL DEF Spec
-----------------------------------------------------------------------------
(* What the gateway tells the registry: a sequence of a set of messages.   *)

LEMMA SequenceOfSet ==
  ASSUME NEW S, IsFiniteSet(S)
  PROVE  SetToSeq(S) \in Seq(S)
<1>1. Cardinality(S) \in Nat /\ ExistsBijection(1 .. Cardinality(S), S)
  BY FS_CardinalityType
<1>2. \E f \in [1 .. Cardinality(S) -> S] : IsInjective(f)
  BY <1>1 DEF ExistsBijection, Bijection, Injection
<1>3. SetToSeq(S) \in [1 .. Cardinality(S) -> S]
  BY <1>2 DEF SetToSeq
<1> QED BY <1>1, <1>3

LEMMA MessagesAbout ==
  ASSUME NEW R \in SUBSET Backends
  PROVE  /\ IsFiniteSet({Forget(b) : b \in R})
         /\ IsFiniteSet({Register(b) : b \in R})
<1>1. IsFiniteSet(R)
  BY GatewayAssumption, FS_Subset
<1>2. [b \in R |-> Forget(b)] \in Bijection(R, {Forget(b) : b \in R})
  BY DEF Bijection, Injection, Surjection, IsInjective, Forget
<1>3. [b \in R |-> Register(b)] \in Bijection(R, {Register(b) : b \in R})
  BY DEF Bijection, Injection, Surjection, IsInjective, Register
<1>4. ExistsBijection(R, {Forget(b) : b \in R}) /\ ExistsBijection(R, {Register(b) : b \in R})
  BY <1>2, <1>3 DEF ExistsBijection
<1> QED BY <1>1, <1>4, FS_Bijection

\* TellAll appends messages, and only about the backends it is about.
LEMMA TellAllAppends ==
  ASSUME NEW R \in SUBSET Backends, NEW B \in SUBSET Backends, TellAll(R, B)
  PROVE  \E q \in Seq(Message) : /\ box' = box \o q
                                 /\ \A i \in DOMAIN q : q[i].name \in R \cup B
<1> DEFINE F == {Forget(b) : b \in R}
           G == {Register(b) : b \in B}
           q == SetToSeq(F) \o SetToSeq(G)
<1>1. SetToSeq(F) \in Seq(F) /\ SetToSeq(G) \in Seq(G)
  BY MessagesAbout, SequenceOfSet
<1>2. F \subseteq {m \in Message : m.name \in R \cup B}
  BY DEF Forget, Message
<1>3. G \subseteq {m \in Message : m.name \in R \cup B}
  BY DEF Register, Message
<1>4. q \in Seq({m \in Message : m.name \in R \cup B})
  BY <1>1, <1>2, <1>3
<1>5. box' = box \o q
  BY <1>1 DEF TellAll
<1>6. q \in Seq(Message) /\ \A i \in DOMAIN q : q[i].name \in R \cup B
  <2> HIDE DEF q
  <2> QED BY <1>4
<1> QED BY <1>5, <1>6
-----------------------------------------------------------------------------
(* The registry is right about a backend when it has handled the messages  *)
(* about it and its entry says s, or the last of them still to handle does.*)
Known(b, s) ==
  /\ AboutName(b) = {} => table[b] = s
  /\ \A i \in AboutName(b) : (\A j \in AboutName(b) : j <= i) => box[i] = Update(b, s)

\* No other actor speaks in the name of b.
Sole(b) ==
  \A a \in Actors : actors[a].phase # "free" /\ actors[a].name = b => a = router[b]

Reported(b) ==
  router[b] # NoActor /\ b \notin overlap =>
    /\ Sole(b)
    /\ actors[router[b]].told # "none" => Known(b, actors[router[b]].told)

ReportInv == RosterInv /\ TypeOK /\ \A b \in Backends : Reported(b)

\* Messages about other backends do not disturb what is known of b.
LEMMA OthersKeepKnown ==
  ASSUME box \in Seq(Message), NEW b \in Backends, NEW q \in Seq(Message),
         \A i \in DOMAIN q : q[i].name # b, box' = box \o q, table'[b] = table[b],
         NEW s, Known(b, s)
  PROVE  Known(b, s)'
<1>1. \A i \in DOMAIN box : i \in DOMAIN box' /\ box'[i] = box[i]
  OBVIOUS
<1>2. \A i \in DOMAIN box' : i \notin DOMAIN box => i - Len(box) \in DOMAIN q /\ box'[i] = q[i - Len(box)]
  OBVIOUS
<1>3. \A i : i \in AboutName(b)' <=> i \in AboutName(b)
  BY <1>1, <1>2 DEF AboutName
<1> QED BY <1>1, <1>3 DEF Known, AboutName

\* A report makes its word the one that is known.
LEMMA ReportIsKnown ==
  ASSUME box \in Seq(Message), NEW b \in Backends, NEW s \in {"down", "connected"},
         box' = Append(box, Update(b, s))
  PROVE  Known(b, s)'
<1>1. Update(b, s) \in Message /\ Update(b, s).name = b
  BY DEF Update, Message
<1>2. /\ DOMAIN box' = 1 .. Len(box) + 1 /\ box'[Len(box) + 1] = Update(b, s)
      /\ Len(box) \in Nat
  BY <1>1
<1>3. Len(box) + 1 \in AboutName(b)'
  BY <1>1, <1>2 DEF AboutName
<1>4. \A i \in AboutName(b)' : i \in 1 .. Len(box) + 1
  BY <1>2 DEF AboutName
<1>5. \A i \in AboutName(b)' : (\A j \in AboutName(b)' : j <= i) => i = Len(box) + 1
  BY <1>2, <1>3, <1>4
<1> QED BY <1>2, <1>3, <1>5 DEF Known

\* Handling a message only moves what is known into the table.
LEMMA HandlingKeepsKnown ==
  ASSUME box \in Seq(Message), table \in [Backends -> {"absent", "down", "connected"}],
         RegistryHandles, NEW b \in Backends, NEW s, Known(b, s)
  PROVE  Known(b, s)'
<1>1. box # <<>> /\ box' = Tail(box) /\ Head(box) = box[1] /\ Len(box) \in Nat \ {0}
  BY DEF RegistryHandles
<1>2. \A i \in DOMAIN box' : i + 1 \in DOMAIN box /\ box'[i] = box[i + 1]
  BY <1>1
<1>3. \A i \in DOMAIN box : i = 1 \/ (i - 1 \in DOMAIN box' /\ box'[i - 1] = box[i])
  BY <1>1
<1>4. \A i \in AboutName(b)' : i + 1 \in AboutName(b) /\ i \in Nat
  BY <1>1, <1>2 DEF AboutName
<1>5. \A i \in AboutName(b) : i \in Nat \ {0} /\ (i = 1 \/ i - 1 \in AboutName(b)')
  BY <1>3 DEF AboutName
<1>6. ASSUME NEW i \in AboutName(b)', \A j \in AboutName(b)' : j <= i
      PROVE  box'[i] = Update(b, s)
  <2>1. \A j \in AboutName(b) : j <= i + 1
    BY <1>4, <1>5, <1>6
  <2>2. i + 1 \in AboutName(b) /\ i \in DOMAIN box'
    BY <1>4, <1>6 DEF AboutName
  <2> QED BY <1>2, <2>1, <2>2 DEF Known
<1>7. ASSUME AboutName(b)' = {}
      PROVE  table'[b] = s
  <2>1. \A i \in AboutName(b) : i = 1
    BY <1>5, <1>7
  <2>2. CASE 1 \in AboutName(b)
    <3>1. box[1] = Update(b, s)
      BY <2>1, <2>2 DEF Known
    <3>2. Head(box).kind = "update" /\ Head(box).name = b /\ Head(box).state = s
      BY <1>1, <3>1 DEF Update
    <3> QED BY <3>2 DEF RegistryHandles
  <2>3. CASE 1 \notin AboutName(b)
    <3>1. AboutName(b) = {} /\ box[1].name # b
      BY <1>1, <2>1, <2>3 DEF AboutName
    <3>2. table'[b] = table[b]
      BY <1>1, <3>1 DEF RegistryHandles
    <3> QED BY <3>1, <3>2 DEF Known
  <2> QED BY <2>2, <2>3
<1> QED BY <1>6, <1>7 DEF Known
-----------------------------------------------------------------------------
\* on_start tells the registry how it ended, so who runs has said something.
Spoken == \A a \in Actors : actors[a].told = "none" <=> actors[a].phase # "running"

LEMMA StaffKeepsSpoken ==
  ASSUME Roster, Spoken, NEW R, NEW B, NEW f, Staff(R, B, f)
  PROVE  Spoken'
<1> SUFFICES ASSUME NEW a \in Actors
             PROVE  actors'[a].told = "none" <=> actors'[a].phase # "running"
  BY DEF Spoken
<1>1. CASE \E b \in B : f[b] = a
  BY <1>1 DEF Staff, Starting
<1>2. CASE ~\E b \in B : f[b] = a
  <2>1. actors'[a] = IF \E b \in R : router[b] = a THEN [actors[a] EXCEPT !.stop = TRUE]
                     ELSE actors[a]
    BY <1>2 DEF Staff
  <2>2. actors'[a].told = actors[a].told /\ actors'[a].phase = actors[a].phase
    BY <2>1 DEF Roster
  <2> QED BY <2>2 DEF Spoken
<1> QED BY <1>1, <1>2

LEMMA SpokenNext == ASSUME Roster, Spoken, [Next]_vars PROVE Spoken'
<1>1. ASSUME NEW R, NEW B, NEW f, Staff(R, B, f)
      PROVE  Spoken'
  BY <1>1, StaffKeepsSpoken
<1>2. CASE InitBackends
  BY <1>1, <1>2 DEF InitBackends
<1>3. ASSUME NEW c \in Configs, ReloadConfig(c)
      PROVE  Spoken'
  BY <1>1, <1>3 DEF ReloadConfig
<1>4. ASSUME NEW b \in Backends, Disable(b) \/ Enable(b)
      PROVE  Spoken'
  BY <1>1, <1>4 DEF Disable, Enable
<1>5. ASSUME NEW a \in Actors, Started(a) \/ Reports(a) \/ Stops(a)
      PROVE  Spoken'
  <2>1. \A c \in Actors : c # a => actors'[c] = actors[c]
    BY <1>5 DEF Started, Reports, Says, Stops, Roster
  <2>2. actors'[a].told = "none" <=> actors'[a].phase # "running"
    <3>1. CASE Stops(a)
      BY <3>1 DEF Stops, Roster
    <3>2. CASE Started(a) \/ Reports(a)
      <4>1. PICK s \in {"down", "connected"} : Says(a, s)
        BY <3>2 DEF Started, Reports
      <4>2. actors'[a].told = s /\ actors'[a].phase = "running"
        BY <4>1 DEF Says, Roster
      <4> QED BY <4>2
    <3> QED BY <1>5, <3>1, <3>2
  <2> QED BY <2>1, <2>2 DEF Spoken
<1>6. CASE RegistryHandles \/ UNCHANGED vars
  BY <1>6 DEF RegistryHandles, vars, Spoken
<1> QED BY <1>2, <1>3, <1>4, <1>5, <1>6 DEF Next

LEMMA TypeInit == Init => TypeOK
<1> SUFFICES ASSUME Init PROVE TypeOK
  OBVIOUS
<1>1. Roster
  BY RosterInit DEF RosterInv
<1>2. box \in Seq(Message)
  <2>1. box = <<>>
    BY DEF Init
  <2> QED BY <2>1
<1>3. /\ table \in [Backends -> {"absent", "down", "connected"}]
      /\ booted \in BOOLEAN /\ overlap \in SUBSET Backends
  BY DEF Init
<1>4. Spoken
  BY DEF Init, Spoken
<1> QED BY <1>1, <1>2, <1>3, <1>4 DEF Roster, Spoken, TypeOK

LEMMA TypeNext == ASSUME RosterInv, TypeOK, [Next]_vars PROVE TypeOK'
<1>1. Roster'
  BY RosterNext DEF RosterInv
<1>s. Spoken'
  BY SpokenNext DEF RosterInv, TypeOK, Spoken
<1> SUFFICES /\ booted' \in BOOLEAN /\ box' \in Seq(Message) /\ overlap' \in SUBSET Backends
             /\ table' \in [Backends -> {"absent", "down", "connected"}]
  BY <1>1, <1>s DEF TypeOK, Roster, Spoken
<1>2. ASSUME NEW R \in SUBSET Backends, NEW B \in SUBSET Backends, NEW f,
             Staff(R, B, f)
      PROVE  overlap' \in SUBSET Backends
  BY <1>2 DEF Staff, TypeOK
<1>3. ASSUME NEW R \in SUBSET Backends, NEW B \in SUBSET Backends, TellAll(R, B)
      PROVE  box' \in Seq(Message)
  <2>1. PICK q \in Seq(Message) : box' = box \o q
    BY <1>3, TellAllAppends
  <2> QED BY <2>1 DEF TypeOK
<1>4. CASE InitBackends
  <2> DEFINE B == {b \in Backends : config[b] = "enabled"}
  <2>1. PICK f : Staff({}, B, f)
    BY <1>4 DEF InitBackends
  <2>2. TellAll({}, B) /\ booted' /\ table' = table /\ B \in SUBSET Backends
    BY <1>4 DEF InitBackends
  <2> HIDE DEF B
  <2>3. overlap' \in SUBSET Backends /\ box' \in Seq(Message)
    BY <2>1, <2>2, <1>2, <1>3
  <2> QED BY <2>2, <2>3 DEF TypeOK
<1>5. ASSUME NEW c \in Configs, ReloadConfig(c)
      PROVE  /\ booted' \in BOOLEAN /\ box' \in Seq(Message) /\ overlap' \in SUBSET Backends
             /\ table' = table
  <2> DEFINE R == {b \in Backends : c[b] # "enabled" /\ router[b] # NoActor}
             B == {b \in Backends : c[b] = "enabled" /\ router[b] = NoActor}
  <2>1. PICK f : Staff(R, B, f)
    BY <1>5 DEF ReloadConfig
  <2>2. /\ TellAll(R, B) /\ booted' = booted /\ table' = table
        /\ B \in SUBSET Backends /\ R \in SUBSET Backends
    BY <1>5 DEF ReloadConfig
  <2> HIDE DEF B, R
  <2>3. overlap' \in SUBSET Backends /\ box' \in Seq(Message)
    BY <2>1, <2>2, <1>2, <1>3
  <2> QED BY <2>2, <2>3 DEF TypeOK
<1>6. ASSUME NEW b \in Backends, Disable(b)
      PROVE  /\ booted' \in BOOLEAN /\ box' \in Seq(Message) /\ overlap' \in SUBSET Backends
             /\ table' = table
  <2>1. Staff({b}, {}, <<>>) /\ {b} \in SUBSET Backends /\ {} \in SUBSET Backends
    BY <1>6 DEF Disable
  <2>2. overlap' \in SUBSET Backends
    BY <2>1, <1>2
  <2>3. Update(b, "down") \in Message
    BY DEF Update, Message
  <2> QED BY <1>6, <2>2, <2>3 DEF Disable, TypeOK
<1>7. ASSUME NEW b \in Backends, Enable(b)
      PROVE  /\ booted' \in BOOLEAN /\ box' \in Seq(Message) /\ overlap' \in SUBSET Backends
             /\ table' = table
  <2>1. PICK f : Staff({}, {b}, f)
    BY <1>7 DEF Enable
  <2>2. {b} \in SUBSET Backends /\ {} \in SUBSET Backends /\ TellAll({}, {b})
    BY <1>7 DEF Enable
  <2>3. overlap' \in SUBSET Backends /\ box' \in Seq(Message)
    BY <2>1, <2>2, <1>2, <1>3
  <2> QED BY <1>7, <2>3 DEF Enable, TypeOK
<1>8. ASSUME NEW a \in Actors, Started(a) \/ Reports(a)
      PROVE  box' \in Seq(Message) /\ UNCHANGED <<booted, table, overlap>>
  <2>1. PICK s \in {"down", "connected"} : Says(a, s)
    BY <1>8 DEF Started, Reports
  <2>2. Update(actors[a].name, s) \in Message
    BY DEF Update, Message, TypeOK
  <2> QED BY <2>1, <2>2 DEF Says, TypeOK
<1>9. ASSUME NEW a \in Actors, Stops(a)
      PROVE  UNCHANGED <<booted, box, table, overlap>>
  BY <1>9 DEF Stops
<1>10. CASE RegistryHandles
  <2>1. box # <<>> /\ box' = Tail(box) /\ Head(box) \in Message
    BY <1>10 DEF RegistryHandles, TypeOK
  <2>2. Head(box).kind = "update" => Head(box).state \in {"down", "connected"}
    BY <2>1 DEF Message
  <2>3. table' \in [Backends -> {"absent", "down", "connected"}]
    <3>1. Head(box).kind \in {"register", "remove", "update"}
      BY <2>1 DEF Message
    <3> QED BY <1>10, <2>2, <3>1 DEF RegistryHandles, TypeOK
  <2>4. box' \in Seq(Message)
    BY <2>1 DEF TypeOK
  <2>5. booted' = booted /\ overlap' = overlap
    BY <1>10 DEF RegistryHandles
  <2> QED BY <2>3, <2>4, <2>5 DEF TypeOK
<1>11. CASE UNCHANGED vars
  BY <1>11 DEF vars, TypeOK
<1> QED BY <1>4, <1>5, <1>6, <1>7, <1>8, <1>9, <1>10, <1>11 DEF Next, TypeOK

(* What the gateway and its actors hold has its type, the registry's       *)
(* mailbox included: its messages come from sets put in some order.        *)
THEOREM TypeCorrect == Spec => []TypeOK
<1> DEFINE I == RosterInv /\ TypeOK
<1>1. Init => I
  BY RosterInit, TypeInit
<1>2. I /\ [Next]_vars => I'
  BY RosterNext, TypeNext
<1>3. I => TypeOK
  OBVIOUS
<1> HIDE DEF I
<1> QED BY <1>1, <1>2, <1>3, PTL DEF Spec
-----------------------------------------------------------------------------
\* What stopping the backends in R and starting those in B as f does to b.
LEMMA StaffKeepsReported ==
  ASSUME RosterInv, TypeOK, NEW b \in Backends, Reported(b),
         NEW R \in SUBSET Backends, NEW B \in SUBSET Backends, NEW f,
         \A c \in B : f[c] \in Free,
         \A c, d \in B : f[c] = f[d] => c = d,
         \A c \in R : router[c] # NoActor,
         Route(R, B, f), Staff(R, B, f), table' = table,
         \E q \in Seq(Message) : /\ box' = box \o q
                                 /\ \A i \in DOMAIN q : q[i].name \in R \cup B
  PROVE  Reported(b)'
<1> SUFFICES ASSUME router'[b] # NoActor, b \notin overlap'
             PROVE  /\ Sole(b)'
                    /\ actors'[router'[b]].told # "none" =>
                         Known(b, actors[router[b]].told)'
  BY DEF Reported
<1>1. router'[b] = IF b \in B THEN f[b] ELSE IF b \in R THEN NoActor ELSE router[b]
  BY DEF Route
<1>2. \A c \in B : actors'[f[c]].name = c /\ actors'[f[c]].told = "none"
  <2>1. \A c \in B : (CHOOSE d \in B : f[d] = f[c]) = c /\ f[c] \in Actors
    BY DEF Free
  <2>2. \A c \in B : actors'[f[c]] = Starting(c)
    BY <2>1 DEF Staff
  <2>3. \A c \in B : Starting(c).name = c /\ Starting(c).told = "none"
    BY DEF Starting
  <2> QED BY <2>2, <2>3
<1>3. \A a \in Actors : (\A c \in B : f[c] # a) =>
        /\ actors'[a].phase = actors[a].phase /\ actors'[a].name = actors[a].name
        /\ actors'[a].told = actors[a].told
  <2> SUFFICES ASSUME NEW a \in Actors, \A c \in B : f[c] # a
               PROVE  /\ actors'[a].phase = actors[a].phase
                      /\ actors'[a].name = actors[a].name
                      /\ actors'[a].told = actors[a].told
    OBVIOUS
  <2>1. actors'[a] = IF \E c \in R : router[c] = a THEN [actors[a] EXCEPT !.stop = TRUE]
                     ELSE actors[a]
    BY DEF Staff
  <2>2. actors[a] \in [phase : {"free", "starting", "running"}, name : Backends,
                       stop : BOOLEAN, told : Word]
    BY DEF TypeOK
  <2> QED BY <2>1, <2>2
<1>4. CASE b \in B
  <2>1. ~Lives(b)
    BY <1>4 DEF Staff
  <2>2. ASSUME NEW a \in Actors, actors'[a].phase # "free", actors'[a].name = b
        PROVE  a = router'[b]
    <3>1. CASE \E c \in B : f[c] = a
      <4>1. PICK c \in B : f[c] = a
        BY <3>1
      <4>2. c = b
        BY <1>2, <2>2, <4>1
      <4> QED BY <1>1, <1>4, <4>1, <4>2
    <3>2. CASE \A c \in B : f[c] # a
      BY <1>3, <2>1, <2>2, <3>2 DEF Lives
    <3> QED BY <3>1, <3>2
  <2>3. actors'[router'[b]].told = "none"
    BY <1>1, <1>2, <1>4
  <2> QED BY <2>2, <2>3 DEF Sole
<1>5. CASE b \notin B
  <2>1. router'[b] = router[b] /\ b \notin R /\ router[b] # NoActor /\ b \notin overlap
    BY <1>1, <1>5 DEF Staff
  <2>2. router[b] \in Actors /\ actors[router[b]].phase # "free"
    BY <2>1 DEF RosterInv, RouterSound, TypeOK
  <2>3. \A c \in B : f[c] # router[b]
    BY <2>2 DEF Free
  <2>4. ASSUME NEW a \in Actors, actors'[a].phase # "free", actors'[a].name = b
        PROVE  a = router[b]
    <3>1. \A c \in B : f[c] # a
      BY <1>2, <1>5, <2>4
    <3> QED BY <1>3, <2>1, <2>4, <3>1 DEF Reported, Sole
  <2>5. actors'[router[b]].told = actors[router[b]].told
    BY <1>3, <2>2, <2>3
  <2>6. PICK q \in Seq(Message) : /\ box' = box \o q
                                  /\ \A i \in DOMAIN q : q[i].name \in R \cup B
    OBVIOUS
  <2>7. \A i \in DOMAIN q : q[i].name # b
    BY <1>5, <2>1, <2>6
  <2>8. \A s : Known(b, s) => Known(b, s)'
    BY <2>6, <2>7, OthersKeepKnown DEF TypeOK
  <2>9. Sole(b)'
    BY <2>1, <2>4 DEF Sole
  <2>10. actors[router[b]].told # "none" => Known(b, actors[router[b]].told)
    BY <2>1 DEF Reported
  <2> QED BY <2>1, <2>5, <2>8, <2>9, <2>10 DEF Known
<1> QED BY <1>4, <1>5

LEMMA ActorKeepsReported ==
  ASSUME RosterInv, TypeOK, NEW b \in Backends, Reported(b),
         NEW a \in Actors, Started(a) \/ Reports(a) \/ Stops(a)
  PROVE  Reported(b)'
<1> SUFFICES ASSUME router[b] # NoActor, b \notin overlap
             PROVE  /\ Sole(b)'
                    /\ actors'[router[b]].told # "none" => Known(b, actors[router[b]].told)'
  BY DEF Reported, Started, Reports, Stops, Says
<1>1. /\ actors[a].phase # "free" /\ router' = router
      /\ \A c \in Actors : c # a => actors'[c] = actors[c]
  BY DEF Started, Reports, Stops, Says, TypeOK
<1>2. Sole(b) /\ (actors[router[b]].told # "none" => Known(b, actors[router[b]].told))
  BY DEF Reported
<1>3. router[b] \in Actors /\ actors[router[b]].name = b /\ ~actors[router[b]].stop
  BY DEF RosterInv, RouterSound, TypeOK
<1>4. CASE Stops(a)
  <2>1. a # router[b] /\ actors'[a].phase = "free"
    BY <1>3, <1>4 DEF Stops, TypeOK
  <2>2. actors'[router[b]] = actors[router[b]] /\ box' = box /\ table' = table
    BY <1>1, <1>3, <1>4, <2>1 DEF Stops
  <2>3. Sole(b)'
    BY <1>1, <1>2, <2>1 DEF Sole
  <2> QED BY <1>1, <1>2, <2>2, <2>3 DEF Known, AboutName
<1>5. CASE Started(a) \/ Reports(a)
  <2>1. PICK s \in {"down", "connected"} : Says(a, s)
    BY <1>5 DEF Started, Reports
  <2>2. /\ actors'[a].name = actors[a].name /\ actors'[a].told = s
        /\ actors[a].name \in Backends
    BY <2>1 DEF Says, TypeOK
  <2>3. Sole(b)'
    BY <1>1, <1>2, <2>2 DEF Sole
  <2>4. box' = Append(box, Update(actors[a].name, s)) /\ table' = table
    BY <2>1 DEF Says
  <2>5. CASE actors[a].name = b
    <3>1. a = router[b]
      BY <1>1, <1>2, <2>5 DEF Sole
    <3>2. Known(b, s)'
      BY <2>4, <2>5, ReportIsKnown DEF TypeOK
    <3> QED BY <1>1, <2>2, <2>3, <3>1, <3>2 DEF Known
  <2>6. CASE actors[a].name # b
    <3>1. actors'[router[b]] = actors[router[b]]
      BY <1>1, <1>3, <2>6
    <3> DEFINE q == <<Update(actors[a].name, s)>>
    <3>2. q \in Seq(Message) /\ \A i \in DOMAIN q : q[i].name # b
      BY <2>2, <2>6 DEF Update, Message
    <3>3. box' = box \o q
      BY <2>4 DEF TypeOK
    <3> HIDE DEF q
    <3>4. \A t : Known(b, t) => Known(b, t)'
      BY <2>4, <3>2, <3>3, OthersKeepKnown DEF TypeOK
    <3> QED BY <1>1, <1>2, <2>3, <3>1, <3>4 DEF Known
  <2> QED BY <2>5, <2>6
<1> QED BY <1>4, <1>5

LEMMA ReportedNext ==
  ASSUME RosterInv, TypeOK, NEW b \in Backends, Reported(b), [Next]_vars
  PROVE  Reported(b)'
<1>1. CASE InitBackends
  <2> DEFINE B == {c \in Backends : config[c] = "enabled"}
  <2>1. PICK f \in Assignments(B) : Route({}, B, f) /\ Staff({}, B, f)
    BY <1>1 DEF InitBackends
  <2>2. (\A c \in B : f[c] \in Free) /\ \A c, d \in B : f[c] = f[d] => c = d
    BY DEF Assignments
  <2>3. TellAll({}, B) /\ table' = table /\ B \in SUBSET Backends /\ {} \in SUBSET Backends
    BY <1>1 DEF InitBackends
  <2> HIDE DEF B
  <2>4. \E q \in Seq(Message) : /\ box' = box \o q
                                /\ \A i \in DOMAIN q : q[i].name \in {} \cup B
    BY <2>3, TellAllAppends
  <2> QED BY <2>1, <2>2, <2>3, <2>4, StaffKeepsReported
<1>2. ASSUME NEW c \in Configs, ReloadConfig(c)
      PROVE  Reported(b)'
  <2> DEFINE R == {d \in Backends : c[d] # "enabled" /\ router[d] # NoActor}
             B == {d \in Backends : c[d] = "enabled" /\ router[d] = NoActor}
  <2>1. PICK f \in Assignments(B) : Route(R, B, f) /\ Staff(R, B, f)
    BY <1>2 DEF ReloadConfig
  <2>2. (\A d \in B : f[d] \in Free) /\ \A d, e \in B : f[d] = f[e] => d = e
    BY DEF Assignments
  <2>3. /\ TellAll(R, B) /\ table' = table /\ B \in SUBSET Backends /\ R \in SUBSET Backends
        /\ \A d \in R : router[d] # NoActor
    BY <1>2 DEF ReloadConfig
  <2> HIDE DEF B, R
  <2>4. \E q \in Seq(Message) : /\ box' = box \o q
                                /\ \A i \in DOMAIN q : q[i].name \in R \cup B
    BY <2>3, TellAllAppends
  <2> QED BY <2>1, <2>2, <2>3, <2>4, StaffKeepsReported
<1>3. ASSUME NEW c \in Backends, Disable(c)
      PROVE  Reported(b)'
  <2>1. Route({c}, {}, <<>>) /\ Staff({c}, {}, <<>>) /\ router[c] # NoActor /\ table' = table
    BY <1>3 DEF Disable
  <2> DEFINE q == <<Update(c, "down")>>
  <2>2. q \in Seq(Message) /\ \A i \in DOMAIN q : q[i].name \in {c} \cup {}
    BY DEF Update, Message
  <2>3. box' = box \o q
    BY <1>3 DEF Disable, TypeOK
  <2>4. {} \in SUBSET Backends /\ {c} \in SUBSET Backends
    OBVIOUS
  <2> HIDE DEF q
  <2> QED BY <2>1, <2>2, <2>3, <2>4, StaffKeepsReported
<1>4. ASSUME NEW c \in Backends, Enable(c)
      PROVE  Reported(b)'
  <2>1. PICK f \in Assignments({c}) : Route({}, {c}, f) /\ Staff({}, {c}, f)
    BY <1>4 DEF Enable
  <2>2. f[c] \in Free
    BY DEF Assignments
  <2>3. TellAll({}, {c}) /\ table' = table /\ {} \in SUBSET Backends /\ {c} \in SUBSET Backends
    BY <1>4 DEF Enable
  <2>4. \E q \in Seq(Message) : /\ box' = box \o q
                                /\ \A i \in DOMAIN q : q[i].name \in {} \cup {c}
    BY <2>3, TellAllAppends
  <2> QED BY <2>1, <2>2, <2>3, <2>4, StaffKeepsReported
<1>5. ASSUME NEW a \in Actors, Started(a) \/ Reports(a) \/ Stops(a)
      PROVE  Reported(b)'
  BY <1>5, ActorKeepsReported
<1>6. CASE RegistryHandles
  <2>1. \A s : Known(b, s) => Known(b, s)'
    BY <1>6, HandlingKeepsKnown DEF TypeOK
  <2>2. UNCHANGED <<router, actors, overlap>>
    BY <1>6 DEF RegistryHandles
  <2> QED BY <2>1, <2>2 DEF Reported, Sole, Known
<1>7. CASE UNCHANGED vars
  BY <1>7 DEF vars, Reported, Sole, Known, AboutName
<1> QED BY <1>1, <1>2, <1>3, <1>4, <1>5, <1>6, <1>7 DEF Next

(* The registry is right about every backend that runs, for any sets of    *)
(* backends, actors and configurations, unless its actor was started       *)
(* beside its predecessor.  The reason is in Reported: no other actor      *)
(* speaks in its name, and of the messages about it the last one, in the   *)
(* mailbox or handled, is what its actor last said (gateway.rs 799-973).   *)
THEOREM TableAlwaysRight == Spec => []TableRight
<1>1. Init => ReportInv
  BY RosterInit, TypeInit DEF Init, ReportInv, Reported
<1>2. ReportInv /\ [Next]_vars => ReportInv'
  <2> SUFFICES ASSUME ReportInv, [Next]_vars PROVE ReportInv'
    OBVIOUS
  <2>1. RosterInv' /\ TypeOK'
    BY RosterNext, TypeNext DEF ReportInv
  <2>2. \A b \in Backends : Reported(b)'
    BY ReportedNext DEF ReportInv
  <2> QED BY <2>1, <2>2 DEF ReportInv
<1>3. ReportInv => TableRight
  BY DEF ReportInv, Reported, Known, TableRight
<1> QED BY <1>1, <1>2, <1>3, PTL DEF Spec
=============================================================================
