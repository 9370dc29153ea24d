------------------------------ MODULE MCWatcher ------------------------------
(***************************************************************************)
(* Watcher for TLC: two files, so that one can disturb the other.          *)
(***************************************************************************)
EXTENDS Watcher
=============================================================================
