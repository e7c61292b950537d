----------------------------- MODULE MCDevices -----------------------------
(* Instances of Devices for TLC. *)
EXTENDS Devices

CONSTANTS t1, t2

MCInput == <<"char", "char", "newline">>
=============================================================================
