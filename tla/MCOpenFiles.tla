---------------------------- MODULE MCOpenFiles ----------------------------
(* Instances of OpenFiles for TLC. *)
EXTENDS OpenFiles, TLC

CONSTANTS t1, t2, f1, f2, f3

Symmetry == Permutations(Thread) \cup Permutations(File)
=============================================================================
