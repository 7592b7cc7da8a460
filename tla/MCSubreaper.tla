---------------------------- MODULE MCSubreaper ----------------------------
(* Small instances of SubreaperQuiescence.                                 *)
EXTENDS SubreaperQuiescence
=============================================================================
