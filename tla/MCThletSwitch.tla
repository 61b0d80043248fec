---------------------------- MODULE MCThletSwitch ---------------------------
(* Model-checking instance of ThletSwitch. *)
EXTENDS ThletSwitch
=============================================================================
