--------------------------------- MODULE Ui ---------------------------------
(***************************************************************************)
(* The dashboard's live updates, src/src/server.rs.  A browser gets a      *)
(* snapshot of the backends and then the events of a broadcast channel     *)
(* that keeps the last Capacity events for each receiver.  A poller        *)
(* publishes a snapshot when it differs from the last one it published     *)
(* itself; the handler of an operator's action publishes a flash and then  *)
(* a snapshot.  Whoever asks the gateway for a snapshot publishes the      *)
(* answer later, and others read and publish in between.                   *)
(***************************************************************************)
EXTENDS Naturals, Sequences

CONSTANTS
  Statuses,   \* what GetDetailedStatus may answer
  NoStatus, Flash,
  Browsers, Operators,
  Capacity    \* of the broadcast channel, 256 in main.rs

ASSUME UiAssumption ==
  /\ NoStatus \notin Statuses /\ Flash \notin Statuses
  /\ Capacity \in Nat \ {0}

Events == Statuses \cup {Flash}  \* Flash: also ConfigReloaded, which no widget shows
MaybeStatus == Statuses \cup {NoStatus}

VARIABLES
  status,    \* what the gateway and the registry would answer now
  polled,    \* the answer the poller has in hand
  previous,  \* previous_snapshot of the poller
  act,       \* of every operator: where the handler of the action is
  conn,      \* of every browser: where the handler of /ui/events is
  first,     \* the snapshot it starts with, until it is sent
  rx,        \* the events its receiver has not read
  lagged,    \* whether some of them were dropped
  view,      \* the status its panel shows
  told,      \* history: the snapshot the poller published last
  last,      \* history: the snapshot anyone published last
  since,     \* history: how many events were published after it, to Capacity
  news       \* history: whether a snapshot was published after the browser's first

poller == <<polled, previous, told>>
browser == <<conn, first, view>>
channel == <<rx, lagged, last, since, news>>
vars == <<status, poller, act, browser, channel>>

Acts == [at : {"idle", "reloaded", "done"}] \cup [at : {"answered"}, status : Statuses]
Idle == [at |-> "idle"]

TypeOK ==
  /\ status \in Statuses /\ polled \in MaybeStatus /\ previous \in MaybeStatus
  /\ act \in [Operators -> Acts]
  /\ conn \in [Browsers -> {"away", "asked", "live"}]
  /\ first \in [Browsers -> MaybeStatus] /\ view \in [Browsers -> MaybeStatus]
  /\ rx \in [Browsers -> Seq(Events)] /\ \A c \in Browsers : Len(rx[c]) <= Capacity
  /\ lagged \in [Browsers -> BOOLEAN]
  /\ told \in MaybeStatus /\ last \in MaybeStatus /\ since \in 0 .. Capacity
  /\ news \in [Browsers -> {"none", "missed", "heard"}]

Init ==
  /\ status \in Statuses /\ polled = NoStatus /\ previous = NoStatus
  /\ act = [o \in Operators |-> Idle]
  /\ conn = [c \in Browsers |-> "away"]
  /\ first = [c \in Browsers |-> NoStatus] /\ view = [c \in Browsers |-> NoStatus]
  /\ rx = [c \in Browsers |-> <<>>] /\ lagged = [c \in Browsers |-> FALSE]
  /\ told = NoStatus /\ last = NoStatus /\ since = 0
  /\ news = [c \in Browsers |-> "none"]
-----------------------------------------------------------------------------
(* The broadcast channel.                                                  *)

\* Wrong on purpose: a full receiver takes no more.
PushOrDrop(q, e) == IF Len(q) < Capacity THEN Append(q, e) ELSE q

\* Wrong on purpose: every receiver is kept in full.
PushAll(q, e) == Append(q, e)

\* A receiver that is Capacity events behind loses the oldest.
Push(q, e) == IF Len(q) < Capacity THEN Append(q, e) ELSE Append(Tail(q), e)

\* publish_ui_event
Publish(e) ==
  /\ rx' = [c \in Browsers |-> IF conn[c] = "live" THEN Push(rx[c], e) ELSE rx[c]]
  /\ lagged' = [c \in Browsers |->
                  lagged[c] \/ (conn[c] = "live" /\ Len(rx[c]) = Capacity)]
  /\ IF e = Flash
     THEN since' = (IF since < Capacity THEN since + 1 ELSE since) /\ UNCHANGED <<last, news>>
     ELSE /\ last' = e /\ since' = 0
          /\ news' = [c \in Browsers |-> CASE conn[c] = "asked" -> "missed"
                                           [] conn[c] = "live" -> "heard"
                                           [] conn[c] = "away" -> "none"]
-----------------------------------------------------------------------------
(* The poller, every three seconds.                                        *)


PollAsk ==
  /\ polled = NoStatus
  /\ polled' = status
  /\ UNCHANGED <<status, previous, told, act, browser, channel>>

PollPublish ==
  /\ polled # NoStatus
  /\ polled' = NoStatus
  /\ previous' = polled
  /\ \/ polled = previous /\ UNCHANGED <<told, channel>>
     \/ polled # previous /\ told' = polled /\ Publish(polled)
  /\ UNCHANGED <<status, act, browser>>
-----------------------------------------------------------------------------
(* An operator's action: reconnect, disable, enable or reload.             *)

\* The gateway has answered; a reload publishes its result before the flash.
Act(o) ==
  /\ act[o] = Idle
  /\ \E at \in {"reloaded", "done"} : act' = [act EXCEPT ![o] = [at |-> at]]
  /\ Publish(Flash)
  /\ UNCHANGED <<status, poller, browser>>

ReloadFlash(o) ==
  /\ act[o].at = "reloaded"
  /\ act' = [act EXCEPT ![o] = [at |-> "done"]]
  /\ Publish(Flash)
  /\ UNCHANGED <<status, poller, browser>>

\* refresh_ui_backend_snapshot: the question and what is made of the answer.
RefreshAsk(o) ==
  /\ act[o].at = "done"
  /\ act' = [act EXCEPT ![o] = [at |-> "answered", status |-> status]]
  /\ UNCHANGED <<status, poller, browser, channel>>

RefreshPublish(o) ==
  /\ act[o].at = "answered"
  /\ act' = [act EXCEPT ![o] = Idle]
  /\ Publish(act[o].status)
  /\ UNCHANGED <<status, poller, browser>>

\* The operator's browser goes away, and the handler with it, while it waits.
Abandon(o) ==
  /\ act[o].at = "done"
  /\ act' = [act EXCEPT ![o] = Idle]
  /\ UNCHANGED <<status, poller, browser, channel>>
-----------------------------------------------------------------------------
(* A browser.                                                              *)

Connect(c) ==
  /\ conn[c] = "away"
  /\ conn' = [conn EXCEPT ![c] = "asked"]
  /\ first' = [first EXCEPT ![c] = status]
  /\ UNCHANGED <<status, poller, act, view, channel>>

Subscribe(c) ==
  /\ conn[c] = "asked"
  /\ conn' = [conn EXCEPT ![c] = "live"]
  /\ UNCHANGED <<status, poller, act, first, view, channel>>

ShowFirst(c) ==
  /\ conn[c] = "live" /\ first[c] # NoStatus
  /\ view' = [view EXCEPT ![c] = first[c]]
  /\ first' = [first EXCEPT ![c] = NoStatus]
  /\ UNCHANGED <<status, poller, act, conn, channel>>

\* RecvError::Lagged is shown as a flash; the next event is the oldest kept.
ShowLagged(c) ==
  /\ conn[c] = "live" /\ first[c] = NoStatus /\ lagged[c]
  /\ lagged' = [lagged EXCEPT ![c] = FALSE]
  /\ UNCHANGED <<status, poller, act, browser, rx, last, since, news>>

ShowNext(c) ==
  /\ conn[c] = "live" /\ first[c] = NoStatus /\ ~lagged[c] /\ rx[c] # <<>>
  /\ rx' = [rx EXCEPT ![c] = Tail(@)]
  /\ view' = [view EXCEPT ![c] = IF Head(rx[c]) = Flash THEN @ ELSE Head(rx[c])]
  /\ UNCHANGED <<status, poller, act, conn, first, lagged, last, since, news>>

\* The connection ends; the receiver is dropped with its stream.
Leave(c) ==
  /\ conn[c] # "away"
  /\ conn' = [conn EXCEPT ![c] = "away"]
  /\ first' = [first EXCEPT ![c] = NoStatus] /\ view' = [view EXCEPT ![c] = NoStatus]
  /\ rx' = [rx EXCEPT ![c] = <<>>] /\ lagged' = [lagged EXCEPT ![c] = FALSE]
  /\ news' = [news EXCEPT ![c] = "none"]
  /\ UNCHANGED <<status, poller, act, last, since>>
-----------------------------------------------------------------------------
\* Backends come and go, and operators' actions have their effect.
StatusChanges ==
  /\ \E s \in Statuses \ {status} : status' = s
  /\ UNCHANGED <<poller, act, browser, channel>>

Poller == PollAsk \/ PollPublish
Refresh(o) == ReloadFlash(o) \/ RefreshAsk(o) \/ RefreshPublish(o)
Stream(c) == Subscribe(c) \/ ShowFirst(c) \/ ShowLagged(c) \/ ShowNext(c)

Next ==
  \/ StatusChanges \/ Poller
  \/ \E o \in Operators : Act(o) \/ Refresh(o) \/ Abandon(o)
  \/ \E c \in Browsers : Connect(c) \/ Stream(c) \/ Leave(c)

Spec == Init /\ [][Next]_vars

\* The poller ticks, handlers run on, and a connected browser reads.
Fairness ==
  /\ WF_vars(Poller)
  /\ \A o \in Operators : WF_vars(Refresh(o))
  /\ \A c \in Browsers : WF_vars(Stream(c))
FairSpec == Spec /\ Fairness
-----------------------------------------------------------------------------
\* The snapshots the browser shows, is about to show or has not read.
Coming(c) == <<view[c], first[c]>> \o rx[c]
Newest(q) == q[CHOOSE i \in DOMAIN q : /\ q[i] \in Statuses
                                       /\ \A j \in DOMAIN q : q[j] \in Statuses => j <= i]

(* "Dashboard will continue with latest state", handle_ui_events: however  *)
(* far a browser lags, the newest snapshot published since it subscribed   *)
(* is the newest one it shows or has still to read, unless Capacity other  *)
(* events followed it.                                                     *)
LatestKept ==
  \A c \in Browsers :
    news[c] = "heard" /\ since < Capacity => Newest(Coming(c)) = last

\* The poller, which compares with its own last snapshot, is silent when s comes
\* back, although nothing was published since the browser's first snapshot, or
\* an operator's handler published another one since.
Silenced(c, s) == told = s /\ (news[c] # "heard" \/ last # s)

=============================================================================
