------------------------------ MODULE MCKvRpc -------------------------------
(* Model-checking instance of KvRpc. *)
EXTENDS KvRpc
=============================================================================
