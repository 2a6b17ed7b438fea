----------------------------- MODULE MCGateway -----------------------------
(***************************************************************************)
(* Instances of Gateway for TLC.  Any configuration of the backends may be *)
(* loaded at any time: reloads add, remove, disable and swap.  With two    *)
(* actors either both backends run, or one has a successor while its       *)
(* predecessor has not stopped.  With AlwaysEnabled only operators stop    *)
(* backends.                                                               *)
(***************************************************************************)
EXTENDS Gateway

AllConfigs == [Backends -> {"absent", "disabled", "enabled"}]
AlwaysEnabled == {[b \in Backends |-> "enabled"]}
=============================================================================
