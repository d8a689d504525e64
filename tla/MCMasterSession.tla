---------------------------- MODULE MCMasterSession ----------------------------
(* A small instance of MasterSession for TLC. *)
EXTENDS MasterSession
=============================================================================
