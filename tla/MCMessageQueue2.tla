-------------------------- MODULE MCMessageQueue2 --------------------------
(* MessageQueue2 for TLC: localIds are interchangeable, and so are modes.  *)
EXTENDS MessageQueue2

Symmetry == Permutations(Ids) \cup Permutations(Hashes)
===========================================================================
