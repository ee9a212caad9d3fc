----------------------------- MODULE MCChangeSet -----------------------------
(* Model-checking instance of ChangeSet: the constants TLC cannot read from a *)
(* cfg file, and the symmetries of the model.                                *)
EXTENDS ChangeSet, TLC

\* Every existing object belongs to one of the organizations.
MCHomeOrg == [d \in Existing |-> CHOOSE o \in Orgs : TRUE]

Symmetry == Permutations(Calls) \cup Permutations(ChangeSets) \cup Permutations(Values)
=============================================================================
