------------------------------- MODULE MCTrx --------------------------------
(* Small instances of Trx for TLC. *)
EXTENDS Trx, TLC

CONSTANTS a, b, s1, s2

MCKeys == {a, b}
MCSessions == {s1, s2}
OneSession == {s1}

\* Slots are ordered by the scan; keys and sessions are interchangeable.
Symmetric == Permutations(MCKeys) \cup Permutations(MCSessions)
=============================================================================
