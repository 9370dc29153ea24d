------------------------------- MODULE MCNode -------------------------------
(***************************************************************************)
(* Constants of Node for TLC: two requests, two shards, a member and a     *)
(* device that is none.                                                    *)
(***************************************************************************)
EXTENDS Node
=============================================================================
