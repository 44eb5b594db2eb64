------------------------------ MODULE MCWatcher ------------------------------
(* Watcher for TLC: the tasks are model values.                            *)
EXTENDS Watcher
=============================================================================
