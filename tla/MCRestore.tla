------------------------------ MODULE MCRestore ------------------------------
(***************************************************************************)
(* Constants of Restore for TLC: a file of two chunks in 2 + 1 shards, at  *)
(* two peers of which one has two shards of each chunk.                    *)
(***************************************************************************)
EXTENDS Restore, TLC

CONSTANTS q1, q2, p1, p2

TwoPeers == <<p1, p2, p1>>

Mishaps == {"io", "kill"}
=============================================================================
