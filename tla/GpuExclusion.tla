---------------------------- MODULE GpuExclusion ----------------------------
(***************************************************************************)
(* What GPU admission promises: a command gets all the GPUs it asked for   *)
(* at once, and no GPU that another live command has.                      *)
(***************************************************************************)
EXTENDS Integers, FiniteSets

CONSTANTS Runner, Gpu, Wanted

VARIABLE user   \* user[r]: the GPUs of r's live command

Start(r, S) ==
  /\ user[r] = {}
  /\ Cardinality(S) = Wanted[r]
  /\ \A q \in Runner : user[q] \cap S = {}
  /\ user' = [user EXCEPT ![r] = S]

Stop(r) == user' = [user EXCEPT ![r] = {}]

Init == user = [r \in Runner |-> {}]

Next == \E r \in Runner : Stop(r) \/ \E S \in SUBSET Gpu : Start(r, S)

Spec == Init /\ [][Next]_user
=============================================================================
