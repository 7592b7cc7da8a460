------------------------- MODULE MCBootstrapTasks -------------------------
EXTENDS BootstrapController, TLC
Symmetry == Permutations(Task)
=============================================================================
