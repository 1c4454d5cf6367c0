---------------------------- MODULE MCVirtualMachine -----------------------------
(* Instances of VirtualMachine for TLC. *)
EXTENDS VirtualMachine

CONSTANTS v1
===================================================================================
