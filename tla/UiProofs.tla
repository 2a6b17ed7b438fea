------------------------------ MODULE UiProofs ------------------------------
(***************************************************************************)
(* Theorems about Ui for any number of browsers and operators, any set of  *)
(* statuses and any capacity of the broadcast channel.                     *)
(***************************************************************************)
EXTENDS Ui, TLAPS

\* The types of the parts, for the proofs below.
Queues == [Browsers -> Seq(Events)]
Short(q) == \A c \in Browsers : Len(q[c]) <= Capacity

\* A receiver holds at most Capacity events, the new one last.  The others keep
\* their distance from the end, and only the oldest is ever lost.
LEMMA PushKeeps ==
  ASSUME NEW q \in Seq(Events), Len(q) <= Capacity, NEW e \in Events
  PROVE  /\ Push(q, e) \in Seq(Events) /\ Len(Push(q, e)) \in 1 .. Capacity
         /\ Push(q, e)[Len(Push(q, e))] = e
         /\ Len(Push(q, e)) <= Len(q) + 1
         /\ \A i \in 1 .. Len(q) : Len(q) - i < Capacity - 1 =>
              LET k == Len(Push(q, e)) - Len(q) + i - 1 IN
              k \in 1 .. Len(Push(q, e)) - 1 /\ Push(q, e)[k] = q[i]
         /\ \A k \in 1 .. Len(Push(q, e)) - 1 :
              LET i == k + Len(q) + 1 - Len(Push(q, e)) IN
              i \in 1 .. Len(q) /\ Push(q, e)[k] = q[i]
<1>1. Capacity \in Nat \ {0} /\ Len(q) \in Nat
  BY UiAssumption
<1>2. CASE Len(q) < Capacity
  <2>1. Push(q, e) = Append(q, e)
    BY <1>2 DEF Push
  <2>2. /\ Append(q, e) \in Seq(Events) /\ Len(Append(q, e)) = Len(q) + 1
        /\ Append(q, e)[Len(q) + 1] = e
        /\ \A i \in 1 .. Len(q) : Append(q, e)[i] = q[i]
    OBVIOUS
  <2> QED
    BY <1>1, <1>2, <2>1, <2>2
<1>3. CASE Len(q) = Capacity
  <2>1. Push(q, e) = Append(Tail(q), e)
    BY <1>1, <1>3 DEF Push
  <2>2. q # <<>>
    BY <1>1, <1>3
  <2>3. /\ Tail(q) \in Seq(Events) /\ Len(Tail(q)) = Len(q) - 1
        /\ \A k \in 1 .. Len(q) - 1 : Tail(q)[k] = q[k + 1]
    BY <2>2
  <2>4. /\ Append(Tail(q), e) \in Seq(Events) /\ Len(Append(Tail(q), e)) = Len(q)
        /\ Append(Tail(q), e)[Len(q)] = e
        /\ \A k \in 1 .. Len(q) - 1 : Append(Tail(q), e)[k] = q[k + 1]
    BY <1>1, <2>3
  <2> QED
    BY <1>1, <1>3, <2>1, <2>4
<1> QED
  BY <1>1, <1>2, <1>3

\* An action's snapshot is a status.
LEMMA Snapshots ==
  ASSUME TypeOK
  PROVE  /\ polled # NoStatus => polled \in Statuses
         /\ \A o \in Operators : act[o].at = "answered" => act[o].status \in Statuses
         /\ Flash \in Events /\ Statuses \subseteq Events /\ Flash \notin Statuses
         /\ NoStatus \notin Statuses
<1>1. \A o \in Operators : act[o] \in Acts
  BY DEF TypeOK
<1>2. \A x \in Acts : x.at = "answered" => x.status \in Statuses
  BY DEF Acts
<1> QED
  BY <1>1, <1>2, UiAssumption DEF TypeOK, MaybeStatus, Events

-----------------------------------------------------------------------------
(* Types.                                                                  *)

LEMMA PublishTyped ==
  ASSUME TypeOK, NEW e \in Events, Publish(e)
  PROVE  /\ rx' \in Queues /\ Short(rx)' /\ lagged' \in [Browsers -> BOOLEAN]
         /\ last' \in MaybeStatus /\ since' \in 0 .. Capacity
         /\ news' \in [Browsers -> {"none", "missed", "heard"}]
<1>1. \A c \in Browsers : rx[c] \in Seq(Events) /\ Len(rx[c]) <= Capacity
  BY DEF TypeOK
<1>2. \A c \in Browsers : rx'[c] \in Seq(Events) /\ Len(rx'[c]) <= Capacity
  <2> SUFFICES ASSUME NEW c \in Browsers
               PROVE  rx'[c] \in Seq(Events) /\ Len(rx'[c]) <= Capacity
    OBVIOUS
  <2>1. rx'[c] = IF conn[c] = "live" THEN Push(rx[c], e) ELSE rx[c]
    BY DEF Publish
  <2>2. Push(rx[c], e) \in Seq(Events) /\ Len(Push(rx[c], e)) \in 1 .. Capacity
    BY <1>1, PushKeeps
  <2> QED
    BY <1>1, <2>1, <2>2, UiAssumption
<1>3. rx' \in Queues
  BY <1>2 DEF Publish, Queues
<1>4. lagged' \in [Browsers -> BOOLEAN]
  BY DEF Publish, TypeOK
<1>5. last' \in MaybeStatus /\ since' \in 0 .. Capacity
  BY UiAssumption DEF Publish, TypeOK, Events, MaybeStatus
<1>6. \A c \in Browsers : conn[c] \in {"away", "asked", "live"}
  BY DEF TypeOK
<1>7. news' \in [Browsers -> {"none", "missed", "heard"}]
  BY <1>6 DEF Publish, TypeOK
<1> QED
  BY <1>2, <1>3, <1>4, <1>5, <1>7 DEF Short

LEMMA TypeInit == Init => TypeOK
<1> SUFFICES ASSUME Init PROVE TypeOK
  OBVIOUS
<1>1. <<>> \in Seq(Events) /\ Len(<<>>) <= Capacity
  BY UiAssumption
<1>2. rx \in [Browsers -> Seq(Events)] /\ \A c \in Browsers : Len(rx[c]) <= Capacity
  BY <1>1 DEF Init
<1>3. Idle \in Acts
  BY DEF Idle, Acts
<1> QED
  BY <1>2, <1>3, UiAssumption DEF Init, TypeOK, MaybeStatus

LEMMA TypeStep == TypeOK /\ [Next]_vars => TypeOK'
<1> SUFFICES ASSUME TypeOK, [Next]_vars PROVE TypeOK'
  OBVIOUS
<1> USE DEF poller, browser, channel, MaybeStatus
<1>1. ASSUME NEW e \in Events, Publish(e), UNCHANGED <<status, browser>>,
             act' \in [Operators -> Acts],
             polled' \in MaybeStatus, previous' \in MaybeStatus, told' \in MaybeStatus
      PROVE  TypeOK'
  <2>1. /\ rx' \in Queues /\ Short(rx)' /\ lagged' \in [Browsers -> BOOLEAN]
        /\ last' \in MaybeStatus /\ since' \in 0 .. Capacity
        /\ news' \in [Browsers -> {"none", "missed", "heard"}]
    BY <1>1, PublishTyped
  <2> QED
    BY <1>1, <2>1 DEF TypeOK, Queues, Short
<1>2. CASE StatusChanges
  BY <1>2 DEF TypeOK, StatusChanges
<1>3. CASE PollAsk
  BY <1>3 DEF TypeOK, PollAsk
<1>4. CASE PollPublish
  <2>1. CASE polled = previous
    BY <1>4, <2>1 DEF TypeOK, PollPublish
  <2>2. CASE polled # previous
    <3>1. polled \in Events /\ Publish(polled)
      BY <1>4, <2>2, Snapshots DEF PollPublish
    <3> QED
      BY <1>1, <1>4, <2>2, <3>1 DEF TypeOK, PollPublish
  <2> QED
    BY <2>1, <2>2
<1>5. ASSUME NEW o \in Operators, Act(o) \/ Refresh(o) \/ Abandon(o)
      PROVE  TypeOK'
  <2>1. Idle \in Acts /\ [at |-> "reloaded"] \in Acts /\ [at |-> "done"] \in Acts
        /\ [at |-> "answered", status |-> status] \in Acts
    BY DEF TypeOK, Acts, Idle
  <2>2. act \in [Operators -> Acts]
    BY DEF TypeOK
  <2>3. CASE Act(o) \/ ReloadFlash(o)
    <3>1. Publish(Flash) /\ Flash \in Events /\ UNCHANGED <<status, poller, browser>>
      BY <2>3, Snapshots DEF Act, ReloadFlash
    <3>2. act' \in [Operators -> Acts]
      BY <2>1, <2>2, <2>3 DEF Act, ReloadFlash
    <3> QED
      BY <1>1, <3>1, <3>2 DEF TypeOK
  <2>4. CASE RefreshPublish(o)
    <3>1. Publish(act[o].status) /\ act[o].status \in Events /\ UNCHANGED <<status, poller, browser>>
      BY <2>4, Snapshots DEF RefreshPublish
    <3>2. act' \in [Operators -> Acts]
      BY <2>1, <2>2, <2>4 DEF RefreshPublish
    <3> QED
      BY <1>1, <3>1, <3>2 DEF TypeOK
  <2>5. CASE RefreshAsk(o) \/ Abandon(o)
    <3>1. act' \in [Operators -> Acts] /\ UNCHANGED <<status, poller, browser, channel>>
      BY <2>1, <2>2, <2>5 DEF RefreshAsk, Abandon
    <3> QED
      BY <3>1 DEF TypeOK
  <2> QED
    BY <1>5, <2>3, <2>4, <2>5 DEF Refresh
<1>6. ASSUME NEW c \in Browsers, Connect(c) \/ Stream(c) \/ Leave(c)
      PROVE  TypeOK'
  <2>1. CASE Connect(c)
    BY <2>1 DEF TypeOK, Connect
  <2>2. CASE Subscribe(c)
    BY <2>2 DEF TypeOK, Subscribe
  <2>3. CASE ShowFirst(c)
    BY <2>3 DEF TypeOK, ShowFirst
  <2>4. CASE ShowLagged(c)
    BY <2>4 DEF TypeOK, ShowLagged
  <2>5. CASE ShowNext(c)
    <3>1. rx[c] \in Seq(Events) /\ rx[c] # <<>> /\ Len(rx[c]) <= Capacity
      BY <2>5 DEF TypeOK, ShowNext
    <3>2. Head(rx[c]) \in Events /\ Tail(rx[c]) \in Seq(Events) /\ Len(Tail(rx[c])) <= Capacity
      BY <3>1, UiAssumption
    <3>3. rx' \in Queues /\ Short(rx)'
      BY <2>5, <3>2 DEF TypeOK, ShowNext, Queues, Short
    <3>4. view' \in [Browsers -> MaybeStatus]
      BY <2>5, <3>2 DEF TypeOK, ShowNext, Events
    <3> QED
      BY <2>5, <3>3, <3>4 DEF TypeOK, ShowNext, Queues, Short
  <2>6. CASE Leave(c)
    <3>1. <<>> \in Seq(Events) /\ Len(<<>>) <= Capacity
      BY UiAssumption
    <3>2. rx' \in Queues /\ Short(rx)'
      BY <2>6, <3>1 DEF TypeOK, Leave, Queues, Short
    <3> QED
      BY <2>6, <3>2 DEF TypeOK, Leave, Queues, Short
  <2> QED
    BY <1>6, <2>1, <2>2, <2>3, <2>4, <2>5, <2>6 DEF Stream
<1>7. CASE UNCHANGED vars
  BY <1>7 DEF TypeOK, vars
<1> QED
  BY <1>2, <1>3, <1>4, <1>5, <1>6, <1>7 DEF Next, Poller

(* Every variable keeps its type; in particular no receiver holds more     *)
(* events than the channel has room for.                                   *)
THEOREM TypeCorrect == Spec => []TypeOK
BY TypeInit, TypeStep, PTL DEF Spec
-----------------------------------------------------------------------------
(* The newest snapshot.                                                    *)

\* The newest snapshot of q is the one after which there are only others.
LEMMA NewestIs ==
  ASSUME NEW q, DOMAIN q \subseteq Nat, NEW i \in DOMAIN q, q[i] \in Statuses,
         \A j \in DOMAIN q : j > i => q[j] \notin Statuses
  PROVE  Newest(q) = q[i]
<1> DEFINE P(k) == k \in DOMAIN q /\ q[k] \in Statuses
                   /\ \A j \in DOMAIN q : q[j] \in Statuses => j <= k
<1>1. P(i)
  OBVIOUS
<1>2. \A k : P(k) => k = i
  OBVIOUS
<1>3. (CHOOSE k : P(k)) = i
  BY <1>1, <1>2
<1>4. (CHOOSE k \in DOMAIN q : q[k] \in Statuses /\ \A j \in DOMAIN q : q[j] \in Statuses => j <= k) = i
  BY <1>1, <1>2
<1> QED
  BY <1>4 DEF Newest

\* Where the newest snapshot is: unread, with nothing but flashes after it, of
\* which there are at most `since`; or read last, all unread events being such
\* flashes.  Only a live stream has heard of one.
Unread(c) ==
  \E i \in 1 .. Len(rx[c]) :
    /\ rx[c][i] = last /\ Len(rx[c]) - i <= since
    /\ \A j \in i + 1 .. Len(rx[c]) : rx[c][j] = Flash
Shown(c) ==
  /\ first[c] = NoStatus /\ view[c] = last /\ Len(rx[c]) <= since
  /\ \A j \in 1 .. Len(rx[c]) : rx[c][j] = Flash
Kept(c) ==
  news[c] = "heard" =>
    /\ conn[c] = "live" /\ last \in Statuses
    /\ since < Capacity => Unread(c) \/ Shown(c)
AllKept == \A c \in Browsers : Kept(c)

LEMMA KeptSuffices ==
  ASSUME TypeOK, AllKept
  PROVE  LatestKept
<1> SUFFICES ASSUME NEW c \in Browsers, news[c] = "heard", since < Capacity
             PROVE  Newest(Coming(c)) = last
  BY DEF LatestKept
<1> DEFINE q == Coming(c)
<1>1. /\ rx[c] \in Seq(Events) /\ last \in Statuses /\ Flash \notin Statuses
      /\ NoStatus \notin Statuses
  BY Snapshots DEF TypeOK, AllKept, Kept
<1>2. /\ DOMAIN q = 1 .. Len(rx[c]) + 2 /\ q[1] = view[c] /\ q[2] = first[c]
      /\ \A j \in 1 .. Len(rx[c]) : q[j + 2] = rx[c][j]
  <2>1. <<view[c], first[c]>> \in Seq(MaybeStatus \cup Events) /\ rx[c] \in Seq(MaybeStatus \cup Events)
    BY <1>1 DEF TypeOK
  <2>2. Len(<<view[c], first[c]>>) = 2
    OBVIOUS
  <2> QED
    BY <2>1, <2>2 DEF Coming
<1> HIDE DEF q
<1>3. CASE Unread(c)
  <2>1. PICK i \in 1 .. Len(rx[c]) :
          rx[c][i] = last /\ \A j \in i + 1 .. Len(rx[c]) : rx[c][j] = Flash
    BY <1>3 DEF Unread
  <2>2. i + 2 \in DOMAIN q /\ q[i + 2] = last
    BY <1>1, <1>2, <2>1
  <2>3. \A j \in DOMAIN q : j > i + 2 => q[j] \notin Statuses
    <3> SUFFICES ASSUME NEW j \in DOMAIN q, j > i + 2 PROVE q[j] \notin Statuses
      OBVIOUS
    <3>1. j - 2 \in i + 1 .. Len(rx[c]) /\ j - 2 \in 1 .. Len(rx[c]) /\ (j - 2) + 2 = j
      BY <1>1, <1>2
    <3> QED
      BY <1>1, <1>2, <2>1, <3>1
  <2>4. DOMAIN q \subseteq Nat
    BY <1>1, <1>2
  <2>5. Newest(q) = q[i + 2]
    BY <1>1, <2>2, <2>3, <2>4, NewestIs
  <2> QED
    BY <2>2, <2>5 DEF q
<1>4. CASE Shown(c)
  <2>1. 1 \in DOMAIN q /\ q[1] = last /\ q[2] = NoStatus /\ DOMAIN q \subseteq Nat
    BY <1>1, <1>2, <1>4 DEF Shown
  <2>2. \A j \in DOMAIN q : j > 1 => q[j] \notin Statuses
    <3> SUFFICES ASSUME NEW j \in DOMAIN q, j > 1 PROVE q[j] \notin Statuses
      OBVIOUS
    <3>1. CASE j = 2
      BY <1>1, <2>1, <3>1
    <3>2. CASE j # 2
      <4>1. j - 2 \in 1 .. Len(rx[c]) /\ (j - 2) + 2 = j
        BY <1>1, <1>2, <3>2
      <4> QED
        BY <1>1, <1>2, <1>4, <4>1 DEF Shown
    <3> QED
      BY <3>1, <3>2
  <2>3. Newest(q) = q[1]
    BY <1>1, <2>1, <2>2, NewestIs
  <2> QED
    BY <2>1, <2>3 DEF q
<1> QED
  BY <1>3, <1>4 DEF AllKept, Kept

\* The distance to the end grows by one at most.
LEMMA Nearer ==
  \A n, m, s, i \in Nat :
    /\ m - i <= s => n - (n - m + i - 1) <= s + 1
    /\ \A x \in 1 .. n - 1 : x \in 1 .. n
OBVIOUS

\* Publishing a snapshot puts it last everywhere; a flash goes behind it and
\* costs at most one event at the front, which is not it before Capacity
\* flashes followed.
LEMMA PublishKeeps ==
  ASSUME TypeOK, AllKept, NEW e \in Events, Publish(e), UNCHANGED browser
  PROVE  AllKept'
<1> SUFFICES ASSUME NEW c \in Browsers, news'[c] = "heard"
             PROVE  Kept(c)'
  BY DEF AllKept, Kept
<1> DEFINE q == rx[c]
           p == Push(q, e)
<1>1. /\ q \in Seq(Events) /\ Len(q) <= Capacity /\ Len(q) \in Nat
      /\ since \in 0 .. Capacity /\ Capacity \in Nat \ {0}
      /\ conn[c] \in {"away", "asked", "live"}
  BY UiAssumption DEF TypeOK
<1>2. conn' = conn /\ first' = first /\ view' = view
  BY DEF browser
<1>3. CASE e # Flash
  <2>1. last' = e /\ since' = 0 /\ e \in Statuses
    BY <1>3 DEF Publish, Events
  <2>2. conn[c] = "live"
    BY <1>1, <1>3 DEF Publish
  <2>3. rx'[c] = p
    BY <2>2 DEF Publish
  <2>4. Len(p) \in 1 .. Capacity /\ p[Len(p)] = e /\ p \in Seq(Events)
    BY <1>1, PushKeeps
  <2> HIDE DEF p
  <2>5. Unread(c)'
    <3>1. Len(p) - Len(p) <= 0 /\ Len(p) \in 1 .. Len(p)
          /\ \A j \in Len(p) + 1 .. Len(p) : p[j] = Flash
      BY <1>1, <2>4
    <3>2. \E i \in 1 .. Len(p) : p[i] = e /\ Len(p) - i <= 0 /\ \A j \in i + 1 .. Len(p) : p[j] = Flash
      BY <2>4, <3>1
    <3> QED
      BY <2>1, <2>3, <3>2 DEF Unread
  <2> QED
    BY <1>2, <2>1, <2>2, <2>5 DEF Kept
<1>4. CASE e = Flash
  <2>1. news[c] = "heard" /\ last' = last
    BY <1>4 DEF Publish
  <2>2. conn[c] = "live" /\ last \in Statuses
    BY <2>1 DEF AllKept, Kept
  <2>3. rx'[c] = p
    BY <2>2 DEF Publish
  <2>4. SUFFICES ASSUME since' < Capacity PROVE Unread(c)' \/ Shown(c)'
    BY <1>2, <2>1, <2>2 DEF Kept
  <2>5. since' = since + 1 /\ since + 1 < Capacity
    BY <1>1, <1>4, <2>4 DEF Publish
  <2>6. /\ p \in Seq(Events) /\ Len(p) \in 1 .. Capacity /\ p[Len(p)] = e
        /\ Len(p) <= Len(q) + 1
        /\ \A i \in 1 .. Len(q) : Len(q) - i < Capacity - 1 =>
             LET k == Len(p) - Len(q) + i - 1 IN k \in 1 .. Len(p) - 1 /\ p[k] = q[i]
        /\ \A k \in 1 .. Len(p) - 1 :
             LET i == k + Len(q) + 1 - Len(p) IN i \in 1 .. Len(q) /\ p[k] = q[i]
    BY <1>1, PushKeeps
  <2> HIDE DEF p
  <2>7. CASE Unread(c)
    <3>1. PICK i \in 1 .. Len(q) : q[i] = last /\ Len(q) - i <= since
                                   /\ \A j \in i + 1 .. Len(q) : q[j] = Flash
      BY <2>7 DEF Unread
    <3> DEFINE k == Len(p) - Len(q) + i - 1
    <3>a. Len(q) - i < Capacity - 1
      BY <1>1, <2>5, <3>1
    <3>2. k \in 1 .. Len(p) - 1 /\ p[k] = last
      BY <2>6, <3>1, <3>a
    <3>b. Len(p) \in Nat /\ i \in Nat /\ since \in Nat
      BY <1>1, <2>6
    <3>3. Len(p) - k <= since + 1 /\ k \in 1 .. Len(p)
      <4>1. Len(q) \in Nat /\ Len(q) - i <= since
        BY <1>1, <3>1
      <4> QED
        BY <3>2, <3>b, <4>1, Nearer
    <3>4. \A j \in k + 1 .. Len(p) : p[j] = Flash
      <4> SUFFICES ASSUME NEW j \in k + 1 .. Len(p), j # Len(p) PROVE p[j] = Flash
        BY <1>4, <2>6
      <4> DEFINE m == j + Len(q) + 1 - Len(p)
      <4>1. j \in 1 .. Len(p) - 1
        BY <2>6, <3>2
      <4>2. m \in 1 .. Len(q) /\ p[j] = q[m]
        BY <2>6, <4>1
      <4>3. m \in i + 1 .. Len(q)
        BY <1>1, <2>6, <4>1, <4>2
      <4> QED
        BY <3>1, <4>2, <4>3
    <3> HIDE DEF k
    <3>5. \E i1 \in 1 .. Len(p) : p[i1] = last /\ Len(p) - i1 <= since + 1
                                  /\ \A j \in i1 + 1 .. Len(p) : p[j] = Flash
      BY <3>2, <3>3, <3>4
    <3> QED
      BY <2>1, <2>3, <2>5, <3>5 DEF Unread
  <2>8. CASE Shown(c)
    <3>1. Len(q) <= since /\ \A j \in 1 .. Len(q) : q[j] = Flash
      BY <2>8 DEF Shown
    <3>2. Len(p) <= since + 1
      BY <1>1, <2>6, <3>1
    <3>3. \A j \in 1 .. Len(p) : p[j] = Flash
      <4> SUFFICES ASSUME NEW j \in 1 .. Len(p), j # Len(p) PROVE p[j] = Flash
        BY <1>4, <2>6
      <4>1. j \in 1 .. Len(p) - 1
        BY <2>6
      <4> QED
        BY <2>6, <3>1, <4>1
    <3> QED
      BY <1>2, <2>1, <2>3, <2>5, <2>8, <3>2, <3>3 DEF Shown
  <2>9. since < Capacity
    BY <1>1, <2>5
  <2> QED
    BY <2>1, <2>7, <2>8, <2>9 DEF AllKept, Kept
<1> QED
  BY <1>3, <1>4

LEMMA KeptStep == TypeOK /\ AllKept /\ [Next]_vars => AllKept'
<1> SUFFICES ASSUME TypeOK, AllKept, [Next]_vars PROVE AllKept'
  OBVIOUS
<1>1. ASSUME UNCHANGED <<browser, rx, last, since, news>> PROVE AllKept'
  BY <1>1 DEF browser, AllKept, Kept, Unread, Shown
<1>2. CASE StatusChanges \/ PollAsk \/ UNCHANGED vars
  BY <1>1, <1>2 DEF StatusChanges, PollAsk, vars, channel
<1>3. CASE PollPublish
  <2>1. CASE polled = previous
    BY <1>1, <1>3, <2>1 DEF PollPublish, channel
  <2>2. CASE polled # previous
    BY <1>3, <2>2, Snapshots, PublishKeeps DEF PollPublish
  <2> QED
    BY <2>1, <2>2
<1>4. ASSUME NEW o \in Operators, Act(o) \/ Refresh(o) \/ Abandon(o)
      PROVE  AllKept'
  <2>1. CASE Act(o) \/ ReloadFlash(o)
    BY <2>1, Snapshots, PublishKeeps DEF Act, ReloadFlash
  <2>2. CASE RefreshPublish(o)
    BY <2>2, Snapshots, PublishKeeps DEF RefreshPublish
  <2>3. CASE RefreshAsk(o) \/ Abandon(o)
    BY <1>1, <2>3 DEF RefreshAsk, Abandon, channel
  <2> QED
    BY <1>4, <2>1, <2>2, <2>3 DEF Refresh
<1>5. ASSUME NEW c \in Browsers, Connect(c) \/ Stream(c) \/ Leave(c)
      PROVE  AllKept'
  <2>1. ASSUME NEW d \in Browsers, d # c PROVE Kept(d)'
    <3>1. /\ conn'[d] = conn[d] /\ first'[d] = first[d] /\ view'[d] = view[d]
          /\ rx'[d] = rx[d] /\ news'[d] = news[d] /\ last' = last /\ since' = since
      BY <1>5, <2>1 DEF TypeOK, Connect, Stream, Subscribe, ShowFirst, ShowLagged, ShowNext,
                        Leave, browser, channel
    <3>2. Unread(d)' = Unread(d) /\ Shown(d)' = Shown(d)
      BY <3>1 DEF Unread, Shown
    <3> QED
      BY <3>1, <3>2 DEF AllKept, Kept
  <2>2. Kept(c)'
    <3> SUFFICES ASSUME news'[c] = "heard" PROVE Kept(c)'
      BY DEF Kept
    <3>1. ~Leave(c)
      BY DEF Leave, TypeOK
    <3>2. news[c] = "heard" /\ last' = last /\ since' = since
      BY <1>5, <3>1 DEF Connect, Stream, Subscribe, ShowFirst, ShowLagged, ShowNext, channel
    <3>3. conn[c] = "live" /\ last \in Statuses /\ (since < Capacity => Unread(c) \/ Shown(c))
      BY <3>2 DEF AllKept, Kept
    <3>4. ~Connect(c) /\ ~Subscribe(c)
      BY <3>3 DEF Connect, Subscribe
    <3>5. CASE ShowLagged(c)
      BY <3>2, <3>3, <3>5 DEF ShowLagged, browser, Kept, Unread, Shown
    <3>6. CASE ShowFirst(c)
      <4>1. UNCHANGED <<conn, rx, last, since, news>> /\ ~Shown(c)
        BY <3>6 DEF ShowFirst, channel, Shown
      <4> QED
        BY <3>3, <4>1 DEF Kept, Unread
    <3>7. CASE ShowNext(c)
      <4> DEFINE q == rx[c]
      <4>1. /\ q \in Seq(Events) /\ q # <<>> /\ Len(q) \in Nat
            /\ Flash \notin Statuses /\ since \in Nat
        BY <3>7, Snapshots, UiAssumption DEF ShowNext, TypeOK
      <4>2. /\ rx'[c] = Tail(q) /\ conn'[c] = conn[c] /\ first'[c] = NoStatus
            /\ view'[c] = IF q[1] = Flash THEN view[c] ELSE q[1]
        BY <3>7, <4>1 DEF ShowNext, TypeOK
      <4>3. /\ Len(Tail(q)) = Len(q) - 1
            /\ \A j \in 1 .. Len(q) - 1 : Tail(q)[j] = q[j + 1]
        BY <4>1
      <4>4. SUFFICES ASSUME since < Capacity PROVE Unread(c)' \/ Shown(c)'
        BY <3>2, <3>3, <4>2 DEF Kept
      <4>5. CASE Unread(c)
        <5>1. PICK i \in 1 .. Len(q) : q[i] = last /\ Len(q) - i <= since
                                       /\ \A j \in i + 1 .. Len(q) : q[j] = Flash
          BY <4>5 DEF Unread
        <5>2. CASE i = 1
          <6>1. view'[c] = last
            BY <3>3, <4>1, <4>2, <5>1, <5>2
          <6>2. Len(Tail(q)) <= since /\ \A j \in 1 .. Len(Tail(q)) : Tail(q)[j] = Flash
            BY <4>1, <4>3, <5>1, <5>2
          <6> QED
            BY <3>2, <4>2, <6>1, <6>2 DEF Shown
        <5>3. CASE i # 1
          <6>1. i - 1 \in 1 .. Len(Tail(q)) /\ Tail(q)[i - 1] = last
                /\ Len(Tail(q)) - (i - 1) <= since
            BY <4>1, <4>3, <5>1, <5>3
          <6>2. \A j \in (i - 1) + 1 .. Len(Tail(q)) : Tail(q)[j] = Flash
            BY <4>1, <4>3, <5>1, <5>3
          <6>3. \E k \in 1 .. Len(Tail(q)) : Tail(q)[k] = last /\ Len(Tail(q)) - k <= since
                  /\ \A j \in k + 1 .. Len(Tail(q)) : Tail(q)[j] = Flash
            BY <6>1, <6>2
          <6> QED
            BY <3>2, <4>2, <6>3 DEF Unread
        <5> QED
          BY <5>2, <5>3
      <4>6. CASE Shown(c)
        <5>1. view[c] = last /\ Len(q) <= since /\ \A j \in 1 .. Len(q) : q[j] = Flash
          BY <4>6 DEF Shown
        <5>2. 1 \in 1 .. Len(q) /\ view'[c] = last
          BY <4>1, <4>2, <5>1
        <5>3. Len(Tail(q)) <= since /\ \A j \in 1 .. Len(Tail(q)) : Tail(q)[j] = Flash
          BY <4>1, <4>3, <5>1
        <5> QED
          BY <3>2, <4>2, <5>2, <5>3 DEF Shown
      <4> QED
        BY <3>3, <4>4, <4>5, <4>6
    <3> QED
      BY <1>5, <3>1, <3>4, <3>5, <3>6, <3>7 DEF Stream
  <2> QED
    BY <2>1, <2>2 DEF AllKept
<1> QED
  BY <1>2, <1>3, <1>4, <1>5 DEF Next, Poller

(* However far a browser lags behind the channel, it shows or has still to *)
(* read the newest snapshot published since it subscribed, unless as many  *)
(* flashes followed as the channel holds.                                  *)
THEOREM LatestAlwaysKept == Spec => []LatestKept
<1>1. Init => AllKept
  BY DEF Init, AllKept, Kept
<1>2. TypeOK /\ AllKept => LatestKept
  BY KeptSuffices
<1> QED
  BY <1>1, <1>2, TypeCorrect, KeptStep, PTL DEF Spec
=============================================================================
