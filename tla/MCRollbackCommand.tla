------------------------- MODULE MCRollbackCommand -------------------------
\* RollbackCommand for TLC: services and commands are interchangeable, and no
\* property of the run is about liveness.
EXTENDS RollbackCommand, TLC

Symmetry == Permutations(Services) \cup Permutations(Commands)
=============================================================================
