----------------------------- MODULE MCIssueSync -----------------------------
(* Small instances of IssueSync.                                           *)
EXTENDS IssueSync
=============================================================================
