------------------------- MODULE MCEventPublication -------------------------
(* Small instances of EventPublication.                                    *)
EXTENDS EventPublication
=============================================================================
