------------------------------ MODULE MCKvTcp ------------------------------
(* Model-checking instance of KvTcp: all keys fall into one bucket. *)
EXTENDS KvTcp

OneBucket == [k \in Keys |-> CHOOSE b \in Buckets : TRUE]
=============================================================================
