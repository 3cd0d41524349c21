------------------------------ MODULE MCProc ------------------------------
(* Instances of Proc for TLC. *)
EXTENDS ProcInv

AllCalls == {"fork", "exit", "wait", "kill", "sleep"}
===========================================================================
