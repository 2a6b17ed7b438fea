----------------------------- MODULE AuthClaims -----------------------------
(***************************************************************************)
(* What README.md says about rate limits and auth.rs does not do, on the   *)
(* actions of Auth.tla with one more history: the minute each named token  *)
(* would have if the windows were its own and not its name's.              *)
(***************************************************************************)
EXTENDS Auth

VARIABLE own   \* history: the tally of each token's requests under its name

claimVars == <<authVars, own>>

ClaimInit == AuthInit /\ own = [s \in Secrets |-> NoTally]

\* The request r, counted in this step, also counts for its token alone.
CountOwn(r) ==
  /\ Count(r)
  /\ LET t == request[r] IN
       own' = IF t.name = Shared THEN own
              ELSE [own EXCEPT ![t.token] =
                      Booked(own[t.token], t.token, t.now, t.limit,
                             Granted(windows'[t.name], t.limit))]

ClaimNext ==
  \/ \E r \in Requests : CountOwn(r)
  \/ /\ \/ \E r \in Requests : ReadClock(r) \/ \E s \in Secrets : Arrive(r, s)
        \/ Tick
        \/ \E c \in Configs : Replace(c)
     /\ UNCHANGED own

ClaimSpec == ClaimInit /\ [][ClaimNext]_claimVars
-----------------------------------------------------------------------------
(* "Requests are rate-limited per token using a fixed 1-minute window",    *)
(* README.md:239: no token is refused for what another one asked.  The     *)
(* windows of check_rate_limit are of names, and names need not differ.    *)
PerToken == \A s \in Secrets : own[s].granted >= Due(own[s])

(* "Simple shared-token auth (auth_token, no named [[tokens]]) is not      *)
(* rate-limited", README.md:266: validate_token passes it the limit 0,     *)
(* which check_rate_limit takes for the global one.                        *)
SharedUnlimited == tally[Shared].granted = tally[Shared].seen

(* README.md says both of the above.  Not even one of them is kept: the    *)
(* run looks for a history that breaks the two of them within a minute.    *)
AClaimIsKept == PerToken \/ SharedUnlimited
=============================================================================
