------------------------------ MODULE EventLog ------------------------------
(***************************************************************************)
(* What the archive promises of the events that hooks write: each is kept  *)
(* until it is published, is published once and for all, and is forgotten  *)
(* only then.                                                              *)
(***************************************************************************)
CONSTANT Event

VARIABLES
  spooled,   \* the events that some host keeps
  published  \* the events that everyone can read

vars == <<spooled, published>>

Write(e) ==
  /\ e \notin spooled \cup published
  /\ spooled' = spooled \cup {e}
  /\ UNCHANGED published

\* Several events may be published at once.
Deliver(S) ==
  /\ S \subseteq spooled \ published
  /\ published' = published \cup S
  /\ UNCHANGED spooled

Forget(S) ==
  /\ S \subseteq spooled \cap published
  /\ spooled' = spooled \ S
  /\ UNCHANGED published

Init == spooled = {} /\ published = {}

Next ==
  \/ \E e \in Event : Write(e)
  \/ \E S \in SUBSET Event : Deliver(S) \/ Forget(S)

Spec == Init /\ [][Next]_vars
=============================================================================
