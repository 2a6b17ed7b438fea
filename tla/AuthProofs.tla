----------------------------- MODULE AuthProofs -----------------------------
(***************************************************************************)
(* Rate limiting, for any number of tokens, names, requests and reloads.   *)
(* What a name was granted cannot be read off the windows, which count     *)
(* refused requests too; the invariant ties both to the number of requests *)
(* in the minute.                                                          *)
(***************************************************************************)
EXTENDS Auth, TLAPS

\* The window of a name and the history agree about its minute.
Tied == \A n \in Names :
  /\ tally[n].seen = windows[n].count
  /\ tally[n].since = windows[n].start

GrantedWereSeen == \A n \in Names : tally[n].granted <= tally[n].seen

\* Every name gets what the least limit of its minute allows it, whoever asks.
DueGranted == \A n \in Names : tally[n].granted >= Due(tally[n])

Inv == AuthTypeOK /\ Tied /\ GrantedWereSeen /\ WithinLimit /\ DueGranted

-----------------------------------------------------------------------------
(* A lookup that finds a limited name yields a request Count can handle.   *)
LEMMA LookupTyped ==
  ASSUME AuthAssumption, AuthTypeOK, NEW s \in Secrets,
         NameOf(manager, s) # NoName, LimitOf(manager, s) > 0
  PROVE  NameOf(manager, s) \in Names /\ LimitOf(manager, s) \in Nat \ {0}
<1>1. manager \in Config
  BY DEF AuthAssumption, AuthTypeOK
<1>2. /\ manager.named[s] \in Names \cup {NoName}
      /\ manager.limit[s] \in Nat /\ manager.global \in Nat
  BY <1>1 DEF Config
<1>3. NameOf(manager, s) \in Names
  BY <1>2 DEF NameOf, AuthAssumption
<1>4. LimitOf(manager, s) \in Nat
  BY <1>2 DEF LimitOf
<1> QED
  BY <1>3, <1>4

(* What one more request makes of a window and of the history.             *)
LEMMA CountedTyped ==
  ASSUME AuthAssumption, NEW w \in [count : Nat, start : Nat], NEW now \in Nat
  PROVE  /\ Counted(w, now) \in [count : Nat, start : Nat]
         /\ \/ Counted(w, now).start = w.start /\ Counted(w, now).count = w.count + 1
            \/ w.count = 0
            \/ Counted(w, now).start >= w.start + Window
  BY DEF AuthAssumption, Counted, Expired

LEMMA BookedSound ==
  ASSUME AuthAssumption,
         NEW w \in [count : Nat, start : Nat], NEW now \in Nat, NEW l \in Nat \ {0},
         NEW s \in Secrets,
         NEW b \in Tally,
         b.seen = w.count, b.since = w.start,
         b.granted <= b.seen, b.granted <= b.top,
         b.granted >= Due(b),
         NEW v, v = Counted(w, now),
         NEW c, c = Booked(b, s, now, l, Granted(v, l))
  PROVE  /\ c \in Tally
         /\ c.seen = v.count /\ c.since = v.start
         /\ c.granted <= c.seen /\ c.granted <= c.top
         /\ c.granted >= Due(c)
<1>0. Window \in Nat \ {0}
  BY DEF AuthAssumption
<1>1. CASE b.seen = 0 \/ now - b.since >= Window
  <2>1. v = [count |-> 1, start |-> now]
    BY <1>0, <1>1 DEF Counted, Expired
  <2>2. Granted(v, l)
    BY <2>1 DEF Granted
  <2>3. c = [users |-> b.users \cup {s}, since |-> now, seen |-> 1, granted |-> 1,
             low |-> l, top |-> l]
    BY <1>1, <2>2 DEF Booked
  <2>4. b.users \cup {s} \in SUBSET Secrets
    BY DEF Tally
  <2>5. c \in Tally
    BY <2>3, <2>4 DEF Tally
  <2> QED
    BY <2>1, <2>3, <2>5 DEF Due
<1>2. CASE ~(b.seen = 0 \/ now - b.since >= Window)
  <2> DEFINE g == IF Granted(v, l) THEN 1 ELSE 0
             low == IF l < b.low THEN l ELSE b.low
             top == IF l > b.top THEN l ELSE b.top
  <2>1. v = [count |-> w.count + 1, start |-> w.start]
    BY <1>0, <1>2 DEF Counted, Expired
  <2>2. g \in {0, 1} /\ (g = 1 <=> w.count + 1 <= l)
    BY <2>1 DEF Granted
  <2>3. c = [users |-> b.users \cup {s}, since |-> b.since, seen |-> b.seen + 1,
             granted |-> b.granted + g, low |-> low, top |-> top]
    BY <1>2 DEF Booked
  <2>4. low \in Nat /\ top \in Nat /\ low <= l /\ low <= b.low /\ l <= top /\ b.top <= top
    BY DEF Tally
  <2> HIDE DEF g, low, top
  <2>5. c \in Tally
    <3>1. b.users \cup {s} \in SUBSET Secrets
      BY DEF Tally
    <3>2. b.since \in Nat /\ b.seen + 1 \in Nat /\ b.granted + g \in Nat
      BY <2>2 DEF Tally
    <3> QED
      BY <2>3, <2>4, <3>1, <3>2 DEF Tally
  <2>6. b.granted + g <= b.seen + 1 /\ b.granted + g <= top
    BY <2>2, <2>4 DEF Tally
  <2>7. b.granted + g >= IF b.seen + 1 <= low THEN b.seen + 1 ELSE low
    BY <2>2, <2>4 DEF Tally, Due
  <2> QED
    BY <2>1, <2>3, <2>5, <2>6, <2>7 DEF Due
<1> QED
  BY <1>1, <1>2

-----------------------------------------------------------------------------
LEMMA InitInv == AuthAssumption /\ AuthInit => Inv
  BY DEF AuthAssumption, AuthInit, Inv, AuthTypeOK, Tied, GrantedWereSeen,
         WithinLimit, DueGranted, Due, Tally, NoTally

LEMMA StepInv == AuthAssumption /\ Inv /\ [AuthNext]_authVars => Inv'
<1> SUFFICES ASSUME AuthAssumption, Inv, [AuthNext]_authVars PROVE Inv'
  OBVIOUS
<1> USE DEF Inv
<1>1. ASSUME NEW r \in Requests, NEW s \in Secrets, Arrive(r, s) PROVE Inv'
  <2>1. /\ NameOf(manager, s) \in Names /\ LimitOf(manager, s) \in Nat \ {0}
        /\ UNCHANGED <<manager, windows, clock, tally>>
    BY <1>1, LookupTyped DEF Arrive
  <2> DEFINE q == [phase |-> "checking", token |-> s, name |-> NameOf(manager, s),
                   limit |-> LimitOf(manager, s)]
  <2>2. q \in Ticket /\ request' = [request EXCEPT ![r] = q]
    BY <1>1, <2>1 DEF Arrive, Ticket
  <2>3. request' \in [Requests -> {Idle} \cup Ticket]
    BY <2>2 DEF AuthTypeOK
  <2> QED
    BY <2>1, <2>3 DEF AuthTypeOK, Tied, GrantedWereSeen, WithinLimit, DueGranted
<1>2. ASSUME NEW r \in Requests, ReadClock(r) PROVE Inv'
  <2>1. request[r] \in Ticket /\ clock \in Nat
    BY <1>2 DEF ReadClock, AuthTypeOK, Idle
  <2> DEFINE q == [phase |-> "timed", token |-> request[r].token, name |-> request[r].name,
                   limit |-> request[r].limit, now |-> clock]
  <2>2. q \in Ticket
    BY <2>1 DEF Ticket
  <2>3. request' \in [Requests -> {Idle} \cup Ticket]
    BY <1>2, <2>2 DEF ReadClock, AuthTypeOK
  <2> QED
    BY <1>2, <2>3 DEF ReadClock, AuthTypeOK, Tied, GrantedWereSeen, WithinLimit, DueGranted
<1>3. ASSUME NEW r \in Requests, Count(r) PROVE Inv'
  <2> DEFINE n == request[r].name
             v == Counted(windows[n], request[r].now)
             c == Booked(tally[n], request[r].token, request[r].now, request[r].limit,
                         Granted(v, request[r].limit))
  <2>1. n \in Names /\ request[r].token \in Secrets /\ request[r].limit \in Nat \ {0} /\ request[r].now \in Nat
    BY <1>3 DEF Count, AuthTypeOK, Idle, Ticket
  <2>2. /\ windows[n] \in [count : Nat, start : Nat]
        /\ tally[n] \in Tally
    BY <2>1 DEF AuthTypeOK
  <2>3. /\ windows' = [windows EXCEPT ![n] = v] /\ tally' = [tally EXCEPT ![n] = c]
        /\ request' = [request EXCEPT ![r] = Idle] /\ UNCHANGED <<manager, clock>>
    BY <1>3 DEF Count
  <2>4. v \in [count : Nat, start : Nat]
    BY <2>1, <2>2, CountedTyped
  <2>5. /\ c \in Tally
        /\ c.seen = v.count /\ c.since = v.start
        /\ c.granted <= c.seen /\ c.granted <= c.top
        /\ c.granted >= Due(c)
    BY <2>1, <2>2, BookedSound DEF Tied, GrantedWereSeen, WithinLimit, DueGranted
  <2> HIDE DEF n, v, c
  <2>6. \A m \in Names : /\ windows'[m] = IF m = n THEN v ELSE windows[m]
                         /\ tally'[m] = IF m = n THEN c ELSE tally[m]
    BY <2>3 DEF AuthTypeOK
  <2>7. AuthTypeOK'
    BY <2>1, <2>3, <2>4, <2>5 DEF AuthTypeOK
  <2>8. Tied'
    BY <2>5, <2>6 DEF Tied
  <2>9. GrantedWereSeen'
    BY <2>5, <2>6 DEF GrantedWereSeen
  <2>10. WithinLimit'
    BY <2>5, <2>6 DEF WithinLimit
  <2>11. DueGranted'
    BY <2>5, <2>6 DEF DueGranted
  <2> QED
    BY <2>7, <2>8, <2>9, <2>10, <2>11
<1>4. CASE Tick
  BY <1>4 DEF Tick, AuthTypeOK, Tied, GrantedWereSeen, WithinLimit, DueGranted
<1>5. ASSUME NEW c \in Configs, Replace(c) PROVE Inv'
  BY <1>5 DEF Replace, AuthTypeOK, Tied, GrantedWereSeen, WithinLimit, DueGranted
<1>6. CASE UNCHANGED authVars
  BY <1>6 DEF authVars, AuthTypeOK, Tied, GrantedWereSeen, WithinLimit, DueGranted
<1> QED
  BY <1>1, <1>2, <1>3, <1>4, <1>5, <1>6 DEF AuthNext, Serve

LEMMA Invariance == AuthSpec => []Inv
  BY AuthAssumption, InitInv, StepInv, PTL DEF AuthSpec

(* Requests, windows and the manager stay well typed: in particular no     *)
(* request without a limit, and no unknown token, is ever counted.         *)
THEOREM AuthTyped == AuthSpec => []AuthTypeOK
  BY Invariance, PTL DEF Inv

(* For all tokens, reloads and overlaps: no name is granted more in its    *)
(* minute than the greatest limit its requests had (check_rate_limit).     *)
THEOREM LimitHolds == AuthSpec => []WithinLimit
  BY Invariance, PTL DEF Inv

(* Nor is a token that has its name to itself refused what the least of    *)
(* its limits allows it (README.md:264).                                   *)
THEOREM LimitIsGranted == AuthSpec => []NoUndueRefusal
<1>1. Inv => NoUndueRefusal
  BY DEF Inv, DueGranted, NoUndueRefusal
<1> QED
  BY <1>1, Invariance, PTL

(* A window is only counted up or replaced by one at least a minute later, *)
(* also by a reload and by requests with an old clock reading.             *)
THEOREM WindowsAreKept == AuthSpec => WindowsOnlyExpire
<1> DEFINE A(n) == windows[n].count > 0 /\ windows'[n] # windows[n] =>
             \/ windows'[n].start = windows[n].start /\ windows'[n].count = windows[n].count + 1
             \/ windows'[n].start >= windows[n].start + Window
<1>1. AuthAssumption /\ Inv /\ [AuthNext]_authVars => [\A n \in Names : A(n)]_authVars
  <2> SUFFICES ASSUME AuthAssumption, Inv, AuthNext, NEW n \in Names PROVE A(n)
    OBVIOUS
  <2>1. ASSUME NEW r \in Requests, Count(r) PROVE A(n)
    <3> DEFINE m == request[r].name
    <3>1. m \in Names /\ request[r].now \in Nat
      BY <2>1 DEF Count, Inv, AuthTypeOK, Idle, Ticket
    <3>2. windows' = [windows EXCEPT ![m] = Counted(windows[m], request[r].now)]
      BY <2>1 DEF Count
    <3>3. windows \in [Names -> [count : Nat, start : Nat]]
      BY DEF Inv, AuthTypeOK
    <3> DEFINE v == Counted(windows[n], request[r].now)
    <3>4. m = n => \/ v.start = windows[n].start /\ v.count = windows[n].count + 1
                   \/ windows[n].count = 0
                   \/ v.start >= windows[n].start + Window
      BY <3>1, <3>3, CountedTyped
    <3>5. windows'[n] = IF m = n THEN v ELSE windows[n]
      BY <3>2, <3>3
    <3> HIDE DEF v, m
    <3> QED
      BY <3>4, <3>5
  <2>2. ASSUME UNCHANGED windows PROVE A(n)
    BY <2>2
  <2> QED
    BY <2>1, <2>2 DEF AuthNext, Serve, Arrive, ReadClock, Tick, Replace
<1> QED
  BY <1>1, Invariance, AuthAssumption, PTL DEF AuthSpec, WindowsOnlyExpire
=============================================================================
