--------------------------------- MODULE MCNode ---------------------------------
(* A small instance of Node for TLC. *)
EXTENDS Node
=============================================================================
