----------------------------- MODULE MCMempool -----------------------------
(* Model-checking instances of Mempool: the pools are model values and     *)
(* interchangeable.                                                        *)
EXTENDS Mempool, TLC

Symmetry == Permutations(Pools)
=============================================================================
