------------------------------- MODULE MCAuth -------------------------------
(***************************************************************************)
(* Configurations for Auth and Reload.  All have a token named Alice with  *)
(* a limit of its own; Strict has a second one under the same name that    *)
(* takes the global limit, Loose makes it the shared token instead, with   *)
(* or without a limit.                                                     *)
(***************************************************************************)
EXTENDS Auth, TLC
CONSTANTS s1, s2, Alice

Strict == [named |-> (s1 :> Alice @@ s2 :> Alice), limit |-> (s1 :> 1 @@ s2 :> 0),
           shared |-> NoSecret, global |-> 2]
Loose(global) == [named |-> (s1 :> Alice @@ s2 :> NoName), limit |-> (s1 :> 3 @@ s2 :> 0),
                  shared |-> s2, global |-> global]
SharedLimitedOrFree == {Strict, Loose(1), Loose(0)}
SharedFree == {Strict, Loose(0)}
Symmetry == Permutations(Requests)
=============================================================================
