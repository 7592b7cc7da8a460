--------------------------- MODULE MCSpoolArchive ---------------------------
(* Small instances of SpoolArchive.                                        *)
EXTENDS SpoolArchive, TLC

\* Hosts, events and projection files are interchangeable in the invariants
\* and the action property; the run of the liveness property takes no quotient.
Symmetry == Permutations(Host) \cup Permutations(Event) \cup Permutations(Projection)
=============================================================================
