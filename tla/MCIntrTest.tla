---------------------------- MODULE MCIntrTest -----------------------------
(* Model-checking instance of IntrTest. *)
EXTENDS IntrTest
=============================================================================
