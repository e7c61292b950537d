---------------------------- MODULE MCPostOffice ----------------------------
(* Instances of PostOffice for TLC. *)
EXTENDS PostOffice
=============================================================================
