----------------------- MODULE MCResidentReplacement -----------------------
\* Instances of ResidentReplacement: two hosts that may be swapped, one target,
\* two images, three operations, two failures and one killed script.
EXTENDS ResidentReplacement, TLC

Symmetry == Permutations(Host)
=============================================================================
