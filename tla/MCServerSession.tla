---------------------------- MODULE MCServerSession ----------------------------
(* A small instance of ServerSession for TLC. *)
EXTENDS ServerSession
=============================================================================
