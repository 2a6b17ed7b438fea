--------------------------- MODULE RequestService ---------------------------
(***************************************************************************)
(* What the gateway promises an MCP client: each request is answered       *)
(* exactly once, and no answer holds anything the client's token may not   *)
(* have.                                                                   *)
(***************************************************************************)
CONSTANTS Requests, Tokens, Asks,
          Allowed(_, _)  \* the answers a request of a token may get

VARIABLE state  \* of every request: idle, pending or answered

Idle == [is |-> "idle"]
Pending(w, k) == [is |-> "pending", who |-> w, ask |-> k]
Answered(x) == [is |-> "answered", answer |-> x]

Init == state = [r \in Requests |-> Idle]

Send(r) ==
  /\ state[r] = Idle
  /\ \E w \in Tokens, k \in Asks : state' = [state EXCEPT ![r] = Pending(w, k)]

\* Several at once: an actor that stops tells all who wait for it.
Answer(R) ==
  /\ \A r \in R : state[r].is = "pending"
  /\ \E x \in [R -> UNION {Allowed(state[r].who, state[r].ask) : r \in R}] :
       /\ \A r \in R : x[r] \in Allowed(state[r].who, state[r].ask)
       /\ state' = [r \in Requests |-> IF r \in R THEN Answered(x[r]) ELSE state[r]]

Take(r) ==
  /\ state[r].is = "answered"
  /\ state' = [state EXCEPT ![r] = Idle]

Next ==
  \/ \E r \in Requests : Send(r) \/ Take(r)
  \/ \E R \in SUBSET Requests : Answer(R)

Spec == Init /\ [][Next]_state
=============================================================================
