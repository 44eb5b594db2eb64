----------------------------- MODULE MCDeployer -----------------------------
\* Deployer for TLC: two services, the name of one begins with that of the other.
EXTENDS Deployer

CONSTANTS s1, s2

TwoServices == {s1, s2}

OneBeginsOther == [s \in TwoServices |-> IF s = s1 THEN {s2} ELSE {}]
=============================================================================
