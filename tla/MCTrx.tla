------------------------------- MODULE MCTrx -------------------------------
(* TrxCheck for TLC. *)
EXTENDS TrxCheck, TLC

Symmetry == Permutations(Thread) \cup Permutations(Record)
=============================================================================
