------------------------- MODULE MCDirectGpuCommand -------------------------
EXTENDS DirectGpuCommand, TLC
CONSTANTS r1, r2
\* One runner wants one GPU, the other two: each can be in the other's way.
OneAndTwo == r1 :> 1 @@ r2 :> 2
=============================================================================
