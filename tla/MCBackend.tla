----------------------------- MODULE MCBackend -----------------------------
(***************************************************************************)
(* Instances of Backend for TLC.  Both servers and bounds are chosen so    *)
(* that a circuit opens, cools down and is tested, backoff reaches its     *)
(* maximum, and a health check is asleep while the circuit is open.        *)
(***************************************************************************)
EXTENDS Backend

AllModes == {"up", "partial", "down"}

\* Clients call tools and list resources, the operators' page sends
\* ForceReconnect, and disabling the backend sends Stop.
AllRequests == RequestMsg

\* The smaller mixes that the two known disagreements with the documents need.
ClientRequests == {"CallTool", "Query"}
OperatorRequests == {"CallTool", "ForceReconnect"}
=============================================================================
