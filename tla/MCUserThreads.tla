--------------------------- MODULE MCUserThreads ---------------------------
(* Instances of UserThreads for TLC. *)
EXTENDS UserThreads

(* They satisfy what ExitIsLastProved assumes. *)
ASSUME InstanceSafe == ~MainExits /\ CountersSafe
=============================================================================
