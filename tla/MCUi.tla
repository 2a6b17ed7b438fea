-------------------------------- MODULE MCUi --------------------------------
(* Ui for TLC: all constants are model values or numbers, see ui.cfg.      *)
EXTENDS Ui
=============================================================================
