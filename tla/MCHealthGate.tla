----------------------------- MODULE MCHealthGate -----------------------------
(* HealthGate for TLC: the services are model values.                      *)
EXTENDS HealthGate
=============================================================================
