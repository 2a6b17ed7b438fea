----------------------------- MODULE MCRequests -----------------------------
(***************************************************************************)
(* An instance of Requests for TLC: two backends with one tool each, a     *)
(* group with the first tool, and three tokens: without restrictions, for  *)
(* the first backend only, and for the second tool only.                   *)
(***************************************************************************)
EXTENDS Requests, TLC
CONSTANTS b1, b2, t1, n1, n2, g1, Anyone, OnlyBackend, OnlyTool

Prefixed == <<b1, t1>> :> n1 @@ <<b2, t1>> :> n2
Grouped == g1 :> {n1}
PerBackend == OnlyBackend :> {b1} @@ OnlyTool :> {} @@ Anyone :> {}
PerTool == OnlyBackend :> {} @@ OnlyTool :> {n2} @@ Anyone :> {}
SomeAsks == [method : {"list"}, group : {g1, All}]
           \cup [method : {"call"}, name : Names]
           \cup [method : {"direct"}, backend : {b2}]
           \cup [method : {"nogroup", "collect", "notification", "other"}]
=============================================================================
