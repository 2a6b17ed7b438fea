---------------------------- MODULE MCAuthClaims ----------------------------
(***************************************************************************)
(* Strict has two tokens of one name; Simple is the configuration README   *)
(* speaks of: an auth_token, no named token, and a global limit.           *)
(***************************************************************************)
EXTENDS AuthClaims, MCAuth

Simple == [named |-> (s1 :> NoName @@ s2 :> NoName), limit |-> (s1 :> 0 @@ s2 :> 0),
           shared |-> s2, global |-> 1]
SameNameOrSimple == {Strict, Simple}
=============================================================================
