------------------------------ MODULE MCReload ------------------------------
(* An instance of Reload for TLC, with the configurations of MCAuth.       *)
EXTENDS Reload, MCAuth
=============================================================================
