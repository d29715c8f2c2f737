---------------------------- MODULE MCByteTracker ----------------------------
(* Classes are interchangeable: the tracker only compares them.             *)
EXTENDS ByteTracker, TLC

Symmetry == Permutations(Labels)
=============================================================================
