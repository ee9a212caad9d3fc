----------------------------- MODULE MCMistClient -----------------------------
(* Model-checking instance of MistClient: callers are interchangeable.       *)
EXTENDS MistClient, TLC

Symmetry == Permutations(Callers)
=============================================================================
