----------------------------- MODULE MCSedaPool -----------------------------
(* Small instances of SedaPool for TLC. *)
EXTENDS SedaPool, TLC

Symmetry == Permutations(Workers) \cup Permutations(Events) \cup Permutations(Stages)
=============================================================================
