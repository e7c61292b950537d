----------------------------- MODULE MCSyscalls -----------------------------
(* Instances of Syscalls for TLC. *)
EXTENDS Syscalls, TLC

CONSTANTS t1, t2

(* A semaphore may start at -1, which SemCreate does not refuse. *)
MCValues == {-1, 0}

Symmetry == Permutations(Thread)
=============================================================================
