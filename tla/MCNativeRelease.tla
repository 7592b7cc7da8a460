--------------------------- MODULE MCNativeRelease ---------------------------
(* Small instances of NativeRelease.                                       *)
EXTENDS NativeRelease
=============================================================================
