------------------------------ MODULE ThreadMC ------------------------------
(***************************************************************************)
(* Instances of Thread for TLC.                                            *)
(***************************************************************************)
EXTENDS Thread
=============================================================================
