---------------------------- MODULE MCTaskMonitors ----------------------------
(* TaskMonitors for TLC: the tasks are model values.                       *)
EXTENDS TaskMonitors
=============================================================================
