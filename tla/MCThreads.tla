----------------------------- MODULE MCThreads -----------------------------
(* An instance of Threads for TLC. *)
EXTENDS Threads

CONSTANTS t1, t2, t3, mutex, device, a

(* One binary semaphore, and one that a device signals. *)
MCInitialValue == [s \in Sem |-> IF s \in DeviceSem THEN 0 ELSE 1]
=============================================================================
