------------------------------ MODULE MCApply ------------------------------
(* Apply for TLC: the services are model values.                           *)
EXTENDS Apply
=============================================================================
