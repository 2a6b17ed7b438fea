-------------------------------- MODULE Auth --------------------------------
(***************************************************************************)
(* Tokens and rate limits (src/src/auth.rs, verify_auth in server.rs).     *)
(*                                                                         *)
(* A request takes the manager that is current (SharedAuth::load), looks   *)
(* its token up in it, reads the clock, and then counts itself in the      *)
(* window of the token's name under that entry's lock.  Between these      *)
(* steps other requests count, time passes, and a reload may replace the   *)
(* manager; the windows belong to names and outlive every manager.         *)
(***************************************************************************)
EXTENDS Integers

CONSTANTS
  Secrets,   \* token values a client may present
  Names,     \* names of tokens; several tokens may have one name
  Shared,    \* the name under which the shared token is counted
  NoName, NoSecret,
  Configs,   \* the [gateway] and [[tokens]] part of configurations
  Requests,  \* requests that may be in flight at the same time
  Window,    \* a minute, in ticks
  MaxClock,  \* bound: time stops here
  MaxCount   \* bound: requests arrive for a name below this count

Config == [named  : [Secrets -> Names \cup {NoName}],  \* [[tokens]]: value to name
           limit  : [Secrets -> Nat],                  \* its rate_limit_per_minute
           shared : Secrets \cup {NoSecret},           \* [gateway] auth_token
           global : Nat]                               \* [gateway] rate_limit_per_minute

ASSUME AuthAssumption ==
  /\ Shared \in Names /\ NoName \notin Names /\ NoSecret \notin Secrets
  /\ Configs \subseteq Config /\ Configs # {}
  /\ Window \in Nat \ {0} /\ MaxClock \in Nat /\ MaxCount \in Nat

VARIABLES
  manager,   \* SharedAuth: the current AuthManager
  windows,   \* AuthManager.rate_limits: count 0 if the name has no entry
  request,   \* a request between validate_token and the end of check_rate_limit
  clock,
  tally      \* history: the tokens ever counted under a name, and of its present
             \* minute what was granted, and the least and greatest limit

authVars == <<manager, windows, request, clock, tally>>

Idle == [phase |-> "idle"]
Ticket == [phase : {"checking"}, token : Secrets, name : Names, limit : Nat \ {0}]
          \cup [phase : {"timed"}, token : Secrets, name : Names, limit : Nat \ {0}, now : Nat]

\* What the history keeps of a name, or of a token.
Tally == [users : SUBSET Secrets, since : Nat, seen : Nat, granted : Nat, low : Nat, top : Nat]
NoTally == [users |-> {}, since |-> 0, seen |-> 0, granted |-> 0, low |-> 0, top |-> 0]

AuthTypeOK ==
  /\ manager \in Configs
  /\ windows \in [Names -> [count : Nat, start : Nat]]
  /\ request \in [Requests -> {Idle} \cup Ticket]
  /\ clock \in Nat
  /\ tally \in [Names -> Tally]

AuthInit ==
  /\ manager \in Configs
  /\ windows = [n \in Names |-> [count |-> 0, start |-> 0]]
  /\ request = [r \in Requests |-> Idle]
  /\ clock = 0
  /\ tally = [n \in Names |-> NoTally]
-----------------------------------------------------------------------------
\* The name a token is counted under: named tokens come before the shared one.
NameOf(m, s) == IF m.named[s] # NoName THEN m.named[s]
                ELSE IF s = m.shared THEN Shared ELSE NoName

\* A token's own limit overrides the global one; 0 is unlimited.  The shared
\* token has no limit of its own.
LimitOf(m, s) == IF m.named[s] # NoName /\ m.limit[s] > 0 THEN m.limit[s] ELSE m.global

\* Wrong on purpose: a token without a limit is counted against the limit 0.
ArriveUnlimited(r, s) ==
  LET n == NameOf(manager, s) IN
  /\ request[r] = Idle
  /\ n # NoName
  /\ windows[n].count < MaxCount
  /\ request' = [request EXCEPT ![r] =
                   [phase |-> "checking", token |-> s, name |-> n,
                    limit |-> LimitOf(manager, s)]]
  /\ UNCHANGED <<manager, windows, clock, tally>>

\* A request with token s takes the current manager and looks s up in it.  An
\* unknown token is refused here, a token without a limit is let through, and
\* without any token in the configuration every request is: none of these
\* changes anything.
Arrive(r, s) ==
  LET n == NameOf(manager, s) IN
  /\ request[r] = Idle
  /\ n # NoName /\ LimitOf(manager, s) > 0
  /\ windows[n].count < MaxCount
  /\ request' = [request EXCEPT ![r] =
                   [phase |-> "checking", token |-> s, name |-> n,
                    limit |-> LimitOf(manager, s)]]
  /\ UNCHANGED <<manager, windows, clock, tally>>

\* let now = Instant::now(): before the entry of the name is locked.
ReadClock(r) ==
  /\ request[r].phase = "checking"
  /\ request' = [request EXCEPT ![r] =
                   [phase |-> "timed", token |-> request[r].token, name |-> request[r].name,
                    limit |-> request[r].limit, now |-> clock]]
  /\ UNCHANGED <<manager, windows, clock, tally>>

\* Wrong on purpose: the minute has to be exceeded.
ExpiredLate(w, now) == now > w.start + Window

\* duration_since is zero for a clock reading older than the window.
Expired(w, now) == now >= w.start + Window

\* Wrong on purpose: a reading from before the window starts another one.
CountedAnyReset(w, now) ==
  IF w.count = 0 \/ now >= w.start + Window \/ now < w.start
  THEN [count |-> 1, start |-> now]
  ELSE [w EXCEPT !.count = w.count + 1]

\* The entry after one more request, refused ones included.
Counted(w, now) ==
  IF w.count = 0 \/ Expired(w, now)
  THEN [count |-> 1, start |-> now]
  ELSE [w EXCEPT !.count = w.count + 1]

\* Wrong on purpose: compared with the count before this request.
GrantedOneMore(w, l) == w.count <= l + 1

Granted(w, l) == w.count <= l

\* The history after a request of token s with limit l, read at time now, was
\* granted or not.  A minute begins with the first request, or with the first
\* one a full minute later ("the counter resets once a full minute has elapsed",
\* README.md:264).
Booked(b, s, now, l, ok) ==
  LET g == IF ok THEN 1 ELSE 0 IN
  IF b.seen = 0 \/ now - b.since >= Window
  THEN [users |-> b.users \cup {s}, since |-> now, seen |-> 1,
        granted |-> g, low |-> l, top |-> l]
  ELSE [users |-> b.users \cup {s}, since |-> b.since, seen |-> b.seen + 1,
        granted |-> b.granted + g,
        low |-> IF l < b.low THEN l ELSE b.low, top |-> IF l > b.top THEN l ELSE b.top]

\* The rest of check_rate_limit, under the lock of the entry.
Count(r) ==
  /\ request[r].phase = "timed"
  /\ LET n == request[r].name
         w == Counted(windows[n], request[r].now) IN
       /\ windows' = [windows EXCEPT ![n] = w]
       /\ tally' = [tally EXCEPT ![n] =
                      Booked(tally[n], request[r].token, request[r].now,
                             request[r].limit, Granted(w, request[r].limit))]
  /\ request' = [request EXCEPT ![r] = Idle]
  /\ UNCHANGED <<manager, clock>>

\* Wrong on purpose: the new manager starts with empty windows.
ReplaceAndForget(c) ==
  /\ manager' = c
  /\ windows' = [n \in Names |-> [count |-> 0, start |-> 0]]
  /\ UNCHANGED <<request, clock, tally>>

\* SharedAuth::reload: a new manager with the windows of the old one.
Replace(c) ==
  /\ manager' = c
  /\ UNCHANGED <<windows, request, clock, tally>>

Tick ==
  /\ clock < MaxClock /\ clock' = clock + 1
  /\ UNCHANGED <<manager, windows, request, tally>>

Serve == \E r \in Requests :
  \/ \E s \in Secrets : Arrive(r, s)
  \/ ReadClock(r)
  \/ Count(r)

AuthNext == Serve \/ Tick \/ \E c \in Configs : Replace(c)

AuthSpec == AuthInit /\ [][AuthNext]_authVars
-----------------------------------------------------------------------------
(* "Requests are rate-limited per token using a fixed 1-minute window":    *)
(* whatever the reloads and however requests overlap, a name is granted no *)
(* more in its minute than the greatest limit its requests had.            *)
WithinLimit == \A n \in Names : tally[n].granted <= tally[n].top

(* "Fixed 1-minute window per token", README.md:264: a token that has its  *)
(* name to itself is refused nothing it is due.  As long as it has sent no *)
(* more requests in its minute than the least limit it had, each was       *)
(* granted, and beyond that at least that limit was.                       *)
Due(b) == IF b.seen <= b.low THEN b.seen ELSE b.low
NoUndueRefusal ==
  \A n \in Names \ {Shared}, s \in Secrets :
    tally[n].users = {s} => tally[n].granted >= Due(tally[n])

(* "a reload swaps in a new manager and carries the rate-limit windows     *)
(* over", auth.rs:204: a window is only ever counted up, or replaced by    *)
(* one that begins at least a minute later; neither a reload nor a request *)
(* that read the clock long ago refills it.                                *)
WindowsOnlyExpire ==
  [][\A n \in Names : LET w == windows[n] v == windows'[n] IN
       w.count > 0 /\ v # w =>
         \/ v.start = w.start /\ v.count = w.count + 1
         \/ v.start >= w.start + Window]_authVars
=============================================================================
