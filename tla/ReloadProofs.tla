---------------------------- MODULE ReloadProofs ----------------------------
(***************************************************************************)
(* Reloads, for any number of buttons and configurations.  InStep speaks   *)
(* of states in which no reload is half done; the invariant says what a    *)
(* reload that is half done, and was not crossed, has already achieved.    *)
(***************************************************************************)
EXTENDS Reload, AuthProofs

\* A reload that was not crossed is the only one between authentication and
\* gateway, and what it brings is what the authentication already has.
HalfDone ==
  ~crossed => \A l \in Loaders : Telling(l) =>
    load[l].conf = manager /\ \A k \in Loaders : Telling(k) => k = l

LoadOK ==
  /\ manager \in Configs /\ gateway \in Configs
  /\ file \in Configs \cup {Broken}
  /\ load \in [Loaders -> {NoLoad, Reading, [pc |-> "settling"]}
                          \cup {Held(p, c) : p \in {"loaded", "telling"}, c \in Configs}]

ReloadInv == LoadOK /\ HalfDone /\ InStep

-----------------------------------------------------------------------------
LEMMA ReloadInit == Init => ReloadInv
  BY DEF Init, AuthInit, ReloadInv, LoadOK, HalfDone, InStep, Telling, NoLoad

\* What the file gives a loader, and where a loader is when it applies it.
LEMMA LoaderPhases ==
  ASSUME LoadOK, NEW l \in Loaders
  PROVE  /\ load[l].pc \in {"loaded", "telling"} => load[l].conf \in Configs
         /\ load[l] \in {NoLoad, Reading, [pc |-> "settling"]} => ~Telling(l)
  BY DEF LoadOK, Telling, Held, NoLoad, Reading

\* A step of one loader to a phase before "telling" disturbs nothing.
LEMMA BeforeTelling ==
  ASSUME ReloadInv, NEW l \in Loaders, NEW q,
         load' = [load EXCEPT ![l] = q],
         q \in {NoLoad, Reading, [pc |-> "settling"]} \cup {Held("loaded", c) : c \in Configs},
         ~Telling(l), UNCHANGED <<manager, gateway, crossed>>, file' \in Configs \cup {Broken}
  PROVE  ReloadInv'
<1>1. q \in {NoLoad, Reading, [pc |-> "settling"]}
            \cup {Held(p, c) : p \in {"loaded", "telling"}, c \in Configs}
  OBVIOUS
<1>2. LoadOK'
  BY <1>1 DEF ReloadInv, LoadOK
<1>3. q.pc # "telling"
  BY DEF Held, NoLoad, Reading
<1>4. \A k \in Loaders : load'[k] = IF k = l THEN q ELSE load[k]
  BY DEF ReloadInv, LoadOK
<1>5. \A k \in Loaders : /\ Telling(k)' <=> Telling(k)
                         /\ Telling(k) => load'[k] = load[k]
  BY <1>3, <1>4 DEF Telling
<1> QED
  BY <1>2, <1>5 DEF ReloadInv, HalfDone, InStep

LEMMA ReloadStep == ReloadInv /\ [Next]_vars => ReloadInv'
<1> SUFFICES ASSUME ReloadInv, [Next]_vars PROVE ReloadInv'
  OBVIOUS
<1>0. LoadOK /\ HalfDone /\ InStep
  BY DEF ReloadInv
<1>1. ASSUME NEW f \in Configs \cup {Broken}, Edit(f) PROVE ReloadInv'
  BY <1>0, <1>1 DEF Edit, authVars, ReloadInv, LoadOK, HalfDone, InStep, Telling
<1>2. CASE Notify
  BY <1>0, <1>2 DEF Notify, authVars, ReloadInv, LoadOK, HalfDone, InStep, Telling
<1>3. CASE Wake
  <2>1. Watcher \in Loaders /\ ~Telling(Watcher)
    BY <1>3 DEF Wake, Loaders, Telling, NoLoad
  <2>2. load' = [load EXCEPT ![Watcher] = [pc |-> "settling"]]
    BY <1>3 DEF Wake
  <2>3. UNCHANGED <<manager, gateway, crossed>> /\ file' \in Configs \cup {Broken}
    BY <1>0, <1>3 DEF Wake, authVars, LoadOK
  <2> QED
    BY <2>1, <2>2, <2>3, BeforeTelling
<1>4. CASE Settle
  <2>1. Watcher \in Loaders /\ ~Telling(Watcher)
    BY <1>4 DEF Settle, Loaders, Telling
  <2>2. load' = [load EXCEPT ![Watcher] = Reading]
    BY <1>4 DEF Settle
  <2>3. UNCHANGED <<manager, gateway, crossed>> /\ file' \in Configs \cup {Broken}
    BY <1>0, <1>4 DEF Settle, authVars, LoadOK
  <2> QED
    BY <2>1, <2>2, <2>3, BeforeTelling
<1>5. ASSUME NEW b \in Buttons, Press(b) PROVE ReloadInv'
  <2>1. b \in Loaders /\ ~Telling(b)
    BY <1>5 DEF Press, Loaders, Telling, NoLoad
  <2>2. load' = [load EXCEPT ![b] = Reading]
    BY <1>5 DEF Press
  <2>3. UNCHANGED <<manager, gateway, crossed>> /\ file' \in Configs \cup {Broken}
    BY <1>0, <1>5 DEF Press, authVars, LoadOK
  <2> QED
    BY <2>1, <2>2, <2>3, BeforeTelling
<1>6. ASSUME NEW l \in Loaders, Read(l) PROVE ReloadInv'
  <2> DEFINE q == IF file = Broken THEN NoLoad ELSE Held("loaded", file)
  <2>1. ~Telling(l) /\ load' = [load EXCEPT ![l] = q]
    BY <1>6 DEF Read, Telling, Reading
  <2>2. q \in {NoLoad} \cup {Held("loaded", c) : c \in Configs}
    BY <1>0 DEF LoadOK
  <2>3. UNCHANGED <<manager, gateway, crossed>> /\ file' \in Configs \cup {Broken}
    BY <1>0, <1>6 DEF Read, authVars, LoadOK
  <2> HIDE DEF q
  <2> QED
    BY <2>1, <2>2, <2>3, BeforeTelling
<1>7. ASSUME NEW l \in Loaders, ReloadAuth(l) PROVE ReloadInv'
  <2> DEFINE c == load[l].conf
  <2>1. c \in Configs
    BY <1>0, <1>7, LoaderPhases DEF ReloadAuth
  <2>2. /\ manager' = c /\ load' = [load EXCEPT ![l] = Held("telling", c)]
        /\ crossed' = (\E k \in Loaders : Telling(k)) /\ UNCHANGED <<gateway, file>>
    BY <1>7 DEF ReloadAuth, Replace
  <2> HIDE DEF c
  <2>3. \A k \in Loaders : load'[k] = IF k = l THEN Held("telling", c) ELSE load[k]
    BY <1>0, <2>2 DEF LoadOK
  <2>4. LoadOK'
    BY <1>0, <2>1, <2>2 DEF LoadOK
  <2>5. Telling(l)' /\ load'[l].conf = c
    BY <2>3 DEF Telling, Held
  <2>6. ~crossed' => \A k \in Loaders : Telling(k)' => k = l
    BY <2>2, <2>3 DEF Telling
  <2>7. HalfDone'
    BY <2>2, <2>5, <2>6 DEF HalfDone
  <2>8. InStep'
    BY <2>5 DEF InStep
  <2> QED
    BY <2>4, <2>7, <2>8 DEF ReloadInv
<1>8. ASSUME NEW l \in Loaders, ReloadGateway(l) PROVE ReloadInv'
  <2> DEFINE c == load[l].conf
  <2>1. c \in Configs /\ Telling(l)
    BY <1>0, <1>8, LoaderPhases DEF ReloadGateway, Telling
  <2>2. /\ gateway' = c /\ load' = [load EXCEPT ![l] = NoLoad]
        /\ UNCHANGED <<manager, crossed, file>>
    BY <1>8 DEF ReloadGateway, authVars
  <2>3. ~crossed => c = manager /\ \A k \in Loaders : Telling(k) => k = l
    BY <1>0, <2>1 DEF HalfDone
  <2> HIDE DEF c
  <2>4. \A k \in Loaders : load'[k] = IF k = l THEN NoLoad ELSE load[k]
    BY <1>0, <2>2 DEF LoadOK
  <2>5. LoadOK'
    BY <1>0, <2>1, <2>2 DEF LoadOK
  <2>6. ~crossed => \A k \in Loaders : ~Telling(k)'
    BY <2>3, <2>4 DEF Telling, NoLoad
  <2> QED
    BY <2>2, <2>3, <2>5, <2>6 DEF ReloadInv, HalfDone, InStep
<1>9. ASSUME Serve \/ Tick, UNCHANGED reloadVars PROVE ReloadInv'
  <2>1. UNCHANGED <<manager, load, gateway, crossed, file>>
    BY <1>9 DEF reloadVars, Serve, Tick, Arrive, ReadClock, Count
  <2> QED
    BY <1>0, <2>1 DEF ReloadInv, LoadOK, HalfDone, InStep, Telling
<1>10. CASE UNCHANGED vars
  BY <1>0, <1>10 DEF vars, reloadVars, authVars, ReloadInv, LoadOK, HalfDone, InStep, Telling
<1> QED
  BY <1>1, <1>2, <1>3, <1>4, <1>5, <1>6, <1>7, <1>8, <1>9, <1>10 DEF Next

LEMMA ReloadInvariance == Spec => []ReloadInv
  BY ReloadInit, ReloadStep, PTL DEF Spec

(* Reloads that do not cross leave authentication and gateway with the     *)
(* same configuration, whoever started them and however many there are.    *)
THEOREM SameConfiguration == Spec => []InStep
  BY ReloadInvariance, PTL DEF ReloadInv

(* Reload implements the authentication component: every step of watcher,  *)
(* buttons and file is a replacement of the manager or leaves it alone.    *)
THEOREM ReloadRefinesAuth == Spec => ImplementsAuth
<1>1. Init => AuthInit
  BY DEF Init
<1>2. ReloadInv /\ [Next]_vars => [AuthNext]_authVars
  <2> SUFFICES ASSUME ReloadInv, [Next]_vars PROVE [AuthNext]_authVars
    OBVIOUS
  <2>1. ASSUME NEW l \in Loaders, ReloadAuth(l) PROVE AuthNext
    BY <2>1, LoaderPhases DEF ReloadAuth, ReloadInv, AuthNext
  <2>2. ASSUME Serve \/ Tick PROVE AuthNext
    BY <2>2 DEF AuthNext
  <2> QED
    BY <2>1, <2>2 DEF Next, Edit, Notify, Wake, Settle, Press, Read, ReloadGateway, vars
<1> QED
  BY <1>1, <1>2, ReloadInvariance, PTL DEF Spec, AuthSpec, ImplementsAuth

\* The flags of the watcher and of the histories.
FlagsOK ==
  /\ unheard \in BOOLEAN /\ channel \in BOOLEAN
  /\ crossed \in BOOLEAN /\ late \subseteq Parts

LEMMA LateTyped ==
  ASSUME late \subseteq Parts, NEW l, NEW part \in Parts, IsLate(l, part)
  PROVE  late' \subseteq Parts
BY DEF IsLate

LEMMA FlagsStep == FlagsOK /\ [Next]_vars => FlagsOK'
<1> SUFFICES ASSUME FlagsOK, [Next]_vars PROVE FlagsOK'
  OBVIOUS
<1>1. ASSUME NEW f \in Configs \cup {Broken}, Edit(f) PROVE FlagsOK'
  BY <1>1 DEF Edit, FlagsOK
<1>2. CASE Notify \/ Wake \/ Settle \/ \E b \in Buttons : Press(b)
  BY <1>2 DEF Notify, Wake, Settle, Press, FlagsOK
<1>3. ASSUME NEW l \in Loaders, Read(l) \/ ReloadAuth(l) \/ ReloadGateway(l)
      PROVE  FlagsOK'
  <2>1. CASE Read(l)
    BY <2>1 DEF Read, FlagsOK
  <2>2. CASE ReloadAuth(l)
    <3>1. crossed' \in BOOLEAN /\ UNCHANGED <<unheard, channel>>
      BY Zenon, <2>2 DEF ReloadAuth
    <3>2. late' \subseteq Parts
      BY <2>2, LateTyped DEF ReloadAuth, Parts, FlagsOK
    <3> QED
      BY <3>1, <3>2 DEF FlagsOK
  <2>3. CASE ReloadGateway(l)
    <3>1. UNCHANGED <<unheard, channel, crossed>>
      BY <2>3 DEF ReloadGateway
    <3>2. late' \subseteq Parts
      BY <2>3, LateTyped DEF ReloadGateway, Parts, FlagsOK
    <3> QED
      BY <3>1, <3>2 DEF FlagsOK
  <2> QED
    BY <1>3, <2>1, <2>2, <2>3
<1>4. CASE UNCHANGED reloadVars \/ UNCHANGED vars
  BY <1>4 DEF reloadVars, vars, FlagsOK
<1> QED
  BY <1>1, <1>2, <1>3, <1>4 DEF Next

(* Every variable of the reload and of the authentication keeps its type;  *)
(* in particular nothing but a configuration that loads is ever applied.   *)
THEOREM TypeCorrect == Spec => []TypeOK
<1>1. Init => FlagsOK
  BY DEF Init, FlagsOK
<1>2. Spec => []AuthTypeOK
  BY ReloadRefinesAuth, AuthTyped, PTL DEF ImplementsAuth
<1>3. AuthTypeOK /\ ReloadInv /\ FlagsOK => TypeOK
  BY DEF ReloadInv, LoadOK, FlagsOK, TypeOK
<1> QED
  BY <1>1, <1>2, <1>3, FlagsStep, ReloadInvariance, PTL DEF Spec

(* So the limit holds in the presence of the actual reloads.               *)
COROLLARY LimitHoldsAcrossReloads == Spec => []WithinLimit
  BY ReloadRefinesAuth, LimitHolds, PTL DEF ImplementsAuth
=============================================================================
