-------------------------- MODULE DirectGpuCommand --------------------------
(***************************************************************************)
(* DirectGpuCommandRunner.run and the executor it uses                     *)
(* (src/tools/experiments/execution/gpu_command_admission.py), on top of   *)
(* the reservation: observe the GPUs, reserve, observe again, launch the   *)
(* command, wait until every process of it is gone, release.  The command  *)
(* does not inherit the locks: it outlives them when its runner dies.  That *)
(* the wait recognises quiescence is taken for granted here;               *)
(* SubreaperQuiescence looks into it.                                      *)
(***************************************************************************)
EXTENDS GpuReservation

CONSTANTS
  Foreign      \* GPUs that processes of other users come to and leave

ASSUME CommandAssumption == Foreign \subseteq Gpu

VARIABLES
  stage,    \* stage[r]: where run() is
  work,     \* work[r]: the GPUs that live processes of r's command may use
  seen,     \* seen[r]: nvidia-smi shows those processes on their GPUs
  foreign   \* the GPUs that other users' processes are on

cvars == <<stage, work, seen, foreign>>
vars  == <<rvars, cvars>>

Stage == {"idle", "reserving", "admitted", "running", "aborted", "done"}

\* What an observation reports as not FREE.
Occupied == foreign \cup UNION {work[r] : r \in {q \in Runner : seen[q]}}

----------------------------------------------------------------------------
\* The first observation: what is FREE is eligible, if there is enough of it.
Observe(r) ==
  /\ stage[r] = "idle"
  /\ Cardinality(Gpu \ Occupied) >= Wanted[r]
  /\ TryReserve(r, Gpu \ Occupied)
  /\ stage' = [stage EXCEPT ![r] = "reserving"]
  /\ UNCHANGED <<work, seen, foreign>>

\* The observation with the locks held.
Admit(r) ==
  /\ stage[r] = "reserving" /\ phase[r] = "held"
  /\ HeldBy(r) \cap Occupied = {}
  /\ stage' = [stage EXCEPT ![r] = "admitted"]
  /\ UNCHANGED <<rvars, work, seen, foreign>>

\* The second observation finds a selected GPU taken, or a later step before
\* the launch fails: the locks are released.
GiveUp(r) ==
  /\ \/ stage[r] = "reserving" /\ HeldBy(r) \cap Occupied # {}
     \/ stage[r] = "admitted"
  /\ Close(r)
  /\ stage' = [stage EXCEPT ![r] = "done"]
  /\ UNCHANGED <<work, seen, foreign>>

Launch(r) ==
  /\ stage[r] = "admitted" /\ phase[r] = "held"
  /\ stage' = [stage EXCEPT ![r] = "running"]
  /\ work' = [work EXCEPT ![r] = HeldBy(r)]
  /\ UNCHANGED <<rvars, seen, foreign>>

\* Mutant: a quiescent command is recognised and its locks are kept.
QuiesceIdle(r) ==
  /\ stage[r] = "running" /\ phase[r] = "held"
  /\ work[r] = {}
  /\ stage' = [stage EXCEPT ![r] = "done"]
  /\ UNCHANGED <<rvars, work, seen, foreign>>

\* The executor returns with quiescence proven and the locks are released.
Quiesce(r) ==
  /\ stage[r] = "running"
  /\ work[r] = {}
  /\ Close(r)
  /\ stage' = [stage EXCEPT ![r] = "done"]
  /\ UNCHANGED <<work, seen, foreign>>

\* KeyboardInterrupt in a sleep of the executor, outside its `try': run() sees
\* an exception before `child_started' is set and releases the locks.
Interrupt(r) ==
  /\ stage[r] = "running"
  /\ work[r] # {}
  /\ Close(r)
  /\ stage' = [stage EXCEPT ![r] = "aborted"]
  /\ UNCHANGED <<work, seen, foreign>>

ReserveStep(r) == (Scan(r) \/ Release(r)) /\ UNCHANGED cvars

RunnerDies(r) == Die(r) /\ UNCHANGED cvars

\* A runner in `Runner' stands for a process and its command: it is used again
\* when the command of the old process is gone.
NewRunner(r) ==
  /\ work[r] = {}
  /\ Renew(r)
  /\ stage' = [stage EXCEPT ![r] = "idle"]
  /\ UNCHANGED <<work, seen, foreign>>

----------------------------------------------------------------------------
(* The command and the other users.                                        *)

Appear(r) ==
  /\ work[r] # {} /\ ~seen[r]
  /\ seen' = [seen EXCEPT ![r] = TRUE]
  /\ UNCHANGED <<rvars, stage, work, foreign>>

CommandEnds(r) ==
  /\ work[r] # {}
  /\ work' = [work EXCEPT ![r] = {}]
  /\ seen' = [seen EXCEPT ![r] = FALSE]
  /\ UNCHANGED <<rvars, stage, foreign>>

ForeignChanges(g) ==
  /\ foreign' = IF g \in foreign THEN foreign \ {g} ELSE foreign \cup {g}
  /\ UNCHANGED <<rvars, stage, work, seen>>

----------------------------------------------------------------------------
Init ==
  /\ ReservationInit
  /\ stage = [r \in Runner |-> "idle"]
  /\ work = [r \in Runner |-> {}]
  /\ seen = [r \in Runner |-> FALSE]
  /\ foreign = {}

RunnerStep(r) ==
  \/ Observe(r) \/ ReserveStep(r) \/ Admit(r) \/ GiveUp(r)
  \/ Launch(r) \/ Quiesce(r) \/ Interrupt(r)

Next ==
  \/ \E r \in Runner : RunnerStep(r) \/ RunnerDies(r) \/ NewRunner(r)
                       \/ Appear(r) \/ CommandEnds(r)
  \/ \E g \in Foreign : ForeignChanges(g)

\* A runner goes on reserving, waiting and releasing; no command has to end.
Spec ==
  /\ Init /\ [][Next]_vars
  /\ \A r \in Runner : WF_vars(ReserveStep(r)) /\ WF_vars(Quiesce(r))

----------------------------------------------------------------------------
(* Properties.                                                             *)

\* Types of the runners and of their commands.
TypeOK ==
  /\ ReservationTypeOK
  /\ stage \in [Runner -> Stage]
  /\ work \in [Runner -> SUBSET Gpu]
  /\ seen \in [Runner -> BOOLEAN]
  /\ foreign \subseteq Gpu

\* The GPUs of live commands, but for those whose runner was interrupted.
protected == [r \in Runner |-> IF stage[r] = "aborted" THEN {} ELSE work[r]]

\* What admission promises of these commands (GpuExclusion).
Exclusion == INSTANCE GpuExclusion WITH user <- protected

\* A command starts with all the GPUs its request names, none of them in use by
\* another command, whoever died before, and keeps them unless its own runner
\* is interrupted: the run implements GpuExclusion.
ImplementsExclusion == Exclusion!Spec

\* No two commands ever have the same GPU, though a command may outlive its
\* runner and its runner's locks and is not yet visible when it has started.
\* Only a command whose runner was interrupted is exposed.
GpuNotShared ==
  \A q, r \in Runner : q # r => protected[q] \cap protected[r] = {}

\* The record is what protects a command whose runner died: it still names the
\* runner as long as the command lives.
WorkIsRecorded ==
  \A r \in Runner : \A g \in protected[r] : record[g] = Active(r)

\* The locks of a command that has ended come back.
LocksReturned ==
  \A r \in Runner : stage[r] = "running" /\ work[r] = {} ~> HeldBy(r) = {}

\* "The UUID lock is released only after the root process has terminated and
\* every AgentCanon-started descendant is proven quiescent."
\* (documents/experiments/gpu-direct-command.md)  A runner that dies has not
\* released anything; one that goes on has.
ReleaseAfterQuiescence ==
  [][\A r \in Runner : phase[r] = "held" /\ phase'[r] = "closing" => work[r] = {}]_vars

=============================================================================
