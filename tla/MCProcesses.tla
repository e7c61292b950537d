---------------------------- MODULE MCProcesses ----------------------------
(* Instances of Processes for TLC. *)
EXTENDS Processes

(* Every program takes one page. *)
OnePage == [p \in 1..MaxProcesses |-> 1]
=============================================================================
