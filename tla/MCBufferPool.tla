---------------------------- MODULE MCBufferPool ----------------------------
(* BufferPool on two files, a few frames and interchangeable handles.      *)
EXTENDS BufferPool, TLC

Symmetry == Permutations(Handles) \cup Permutations(Files)
=============================================================================
