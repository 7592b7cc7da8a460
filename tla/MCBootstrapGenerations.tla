---------------------- MODULE MCBootstrapGenerations ----------------------
EXTENDS BootstrapController, TLC
Symmetry == Permutations(Image)
=============================================================================
