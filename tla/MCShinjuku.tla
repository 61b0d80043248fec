----------------------------- MODULE MCShinjuku -----------------------------
(* Model-checking instances of Shinjuku.  Contexts and packets are model   *)
(* values; contexts are interchangeable, packets are too where they ask    *)
(* for the same number of spins.                                           *)
EXTENDS Shinjuku, TLC

Symmetry == Permutations(Contexts) \union Permutations(Packets)
OneSpin == [p \in Packets |-> 1]
TwoSpins == [p \in Packets |-> 2]
=============================================================================
