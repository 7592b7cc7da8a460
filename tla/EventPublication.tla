-------------------------- MODULE EventPublication --------------------------
(***************************************************************************)
(* reconcile_runtime_event_publication and what it calls                   *)
(* (src/tools/runtime/archive/runtime_log_archive_git.py).  A process      *)
(* publishes one runtime event under a fixed name in the directory of the  *)
(* run, writes an observation of how that went to the spool of its attempt *)
(* and a receipt with this observation beside the event.  An attempt is    *)
(* the identity of the bytes of the event: it depends on the snapshot of   *)
(* the source, so that two processes that saw different snapshots want     *)
(* different bytes under one name.  An uncertain observation may be        *)
(* followed by a committed one, never replaced.                            *)
(*                                                                         *)
(* Files appear complete, by a rename that does not replace, and survive   *)
(* a loss of power for sure once their directory has been synced after     *)
(* that: `seen' is what processes read, `safe' is the part that survives.  *)
(*                                                                         *)
(* Covered: processes killed anywhere, syncs that fail, losses of power,   *)
(* concurrent processes of one and of several attempts.  An operator whose *)
(* comment begins with `Mutant' is a plausible mistake in the definition   *)
(* after it, used only to test the properties.                             *)
(***************************************************************************)
EXTENDS Naturals

CONSTANTS
  Proc,       \* processes that run materialize-runtime-event
  Attempt,    \* attempts for the one event
  MaxFaults   \* bound on kills, failed syncs and losses of power

ASSUME PublicationAssumption == MaxFaults \in Nat

VARIABLES
  seen,      \* the event, observations and receipts that can be read
  safe,      \* those of them that a loss of power cannot take
  proc,      \* proc[p]: how far the process is
  returned,  \* history: the attempts that were reported as committed
  faults     \* how many faults have happened

vars == <<seen, safe, proc, returned, faults>>

Sequence == 1..2
Outcome  == {"uncertain", "committed"}
\* Also what a receipt contains.
Observation == [attempt : Attempt, seq : Sequence, outcome : Outcome]

Files == [event : SUBSET Attempt, observed : SUBSET Observation,
          receipt : SUBSET Observation]
Process == [pc : {"idle", "read", "publish", "publishing", "classify",
                  "adopt", "recover", "observe", "observing", "attest",
                  "attesting"},
            attempt : Attempt, seq : Sequence, outcome : Outcome,
            direct : BOOLEAN]

OfAttempt(a, records) == {r \in records : r.attempt = a}
Record(a, i, o) == [attempt |-> a, seq |-> i, outcome |-> o]
RecordOf(p)     == Record(proc[p].attempt, proc[p].seq, proc[p].outcome)
Goto(p, pc) == proc' = [proc EXCEPT ![p].pc = pc]
Quit(p)     == Goto(p, "idle")
Fault       == faults < MaxFaults /\ faults' = faults + 1

\* fsync of the directory of the run, and of that of attempt a.
SyncRun ==
  safe' = [safe EXCEPT !.event = seen.event, !.receipt = seen.receipt]
SyncAttempt(a) ==
  safe' = [safe EXCEPT !.observed = @ \cup OfAttempt(a, seen.observed)]

\* What a process finds under its lock.
Observed(a) == OfAttempt(a, seen.observed)
Missing(a)  == Observed(a) \ seen.receipt
IsCommitted(a, records) ==
  \E i \in Sequence : Record(a, i, "committed") \in records

----------------------------------------------------------------------------
(* One process.                                                            *)

\* The lock of the attempt is refused while another process has it.
Begin(p, a) ==
  /\ proc[p].pc = "idle"
  /\ \A q \in Proc : proc[q].pc # "idle" => proc[q].attempt # a
  /\ proc' = [proc EXCEPT ![p] = [pc |-> "read", attempt |-> a, seq |-> 1,
                                  outcome |-> "uncertain", direct |-> FALSE]]
  /\ UNCHANGED <<seen, safe, returned, faults>>

\* Mutant: records without the event do not matter.
CoherentLoose(a) == seen.event \subseteq {a}

\* The records fit together: one chain of this attempt alone, each receipt
\* with its observation, and with its event; no event of another attempt.
Coherent(a) ==
  /\ \A r \in seen.receipt : r \in Observed(a)
  /\ \A r \in seen.receipt : \A i \in 1..r.seq :
       \E s \in seen.receipt : s.seq = i
  /\ \A r, s \in Observed(a) : r.seq = s.seq => r = s
  /\ seen.event \subseteq {a}
  /\ Observed(a) # {} => a \in seen.event

\* Mutant: a process that finds an uncertain receipt leaves it at that.
NextStepTimid(a, direct) ==
  IF IsCommitted(a, seen.receipt) THEN "done"
  ELSE IF a \notin seen.event THEN "publish"
  ELSE IF Observed(a) = {} THEN "adopt" ELSE "fail"

\* What there is to do when every observation has its receipt.  `direct' says
\* that this process has just published the event.
NextStep(a, direct) ==
  IF IsCommitted(a, seen.receipt) THEN "done"
  ELSE IF a \notin seen.event THEN "publish"
  ELSE IF Observed(a) = {} THEN "adopt"
  ELSE IF direct THEN "fail" ELSE "recover"

\* The first observation without a receipt is the next one to attest.
Proceed(p, direct) ==
  LET a    == proc[p].attempt
      step == NextStep(a, direct)
  IN  \/ \E r \in Missing(a) :
           /\ \A s \in Missing(a) : r.seq <= s.seq
           /\ proc' = [proc EXCEPT ![p].pc = "attest", ![p].seq = r.seq,
                                   ![p].outcome = r.outcome, ![p].direct = direct]
           /\ UNCHANGED returned
      \/ /\ Missing(a) = {} /\ step \in {"done", "fail"}
         /\ Quit(p)
         /\ returned' = IF step = "done" THEN returned \cup {a} ELSE returned
      \/ /\ Missing(a) = {} /\ step \notin {"done", "fail"}
         /\ proc' = [proc EXCEPT ![p].pc = step, ![p].direct = direct]
         /\ UNCHANGED returned

\* Observations, and then receipts, are read and confirmed by a sync; records
\* that do not fit together end the command.
Read(p) ==
  LET a == proc[p].attempt
  IN  /\ proc[p].pc = "read"
      /\ IF Coherent(a)
         THEN /\ safe' = [event    |-> IF seen.receipt # {} THEN seen.event
                                                            ELSE safe.event,
                          receipt  |-> seen.receipt,
                          observed |-> safe.observed \cup Observed(a)]
              /\ Proceed(p, FALSE)
         ELSE /\ SyncAttempt(a) /\ Quit(p)
              /\ UNCHANGED returned
      /\ UNCHANGED <<seen, faults>>

\* The event appears unless there is one; a process that finds one that was
\* not there when it read stops with record_collision.
PublishEvent(p) ==
  /\ proc[p].pc = "publish"
  /\ IF seen.event = {}
     THEN /\ seen' = [seen EXCEPT !.event = {proc[p].attempt}]
          /\ Goto(p, "publishing")
     ELSE Quit(p) /\ UNCHANGED seen
  /\ UNCHANGED <<safe, returned, faults>>

\* The sync inside _secure_publish_noreplace.
SyncEvent(p) ==
  /\ proc[p].pc = "publishing"
  /\ SyncRun /\ Goto(p, "classify")
  /\ UNCHANGED <<seen, returned, faults>>

\* classify_publication_outcome after the sync of
\* _publish_runtime_event_noreplace, whose failure is recorded.
Classify(p) ==
  /\ proc[p].pc = "classify"
  /\ \/ SyncRun /\ UNCHANGED faults
        /\ proc' = [proc EXCEPT ![p].pc = "observe", ![p].seq = 1,
                      ![p].outcome = "committed", ![p].direct = TRUE]
     \/ Fault /\ UNCHANGED safe
        /\ proc' = [proc EXCEPT ![p].pc = "observe", ![p].seq = 1,
                      ![p].outcome = "uncertain", ![p].direct = TRUE]
  /\ UNCHANGED <<seen, returned>>

\* Mutant: an event found without records counts as committed.
AdoptedOutcome == "committed"

\* The causal gap of an event that was found, whether the sync succeeds or not.
GapOutcome == "uncertain"

Adopt(p) ==
  /\ proc[p].pc = "adopt"
  /\ (SyncRun /\ UNCHANGED faults) \/ (Fault /\ UNCHANGED safe)
  /\ proc' = [proc EXCEPT ![p].pc = "observe", ![p].seq = 1,
                          ![p].outcome = GapOutcome]
  /\ UNCHANGED <<seen, returned>>

\* A later process proves what was uncertain.
Recover(p) ==
  /\ proc[p].pc = "recover"
  /\ SyncRun
  /\ proc' = [proc EXCEPT ![p].pc = "observe", ![p].seq = 2,
                          ![p].outcome = "committed"]
  /\ UNCHANGED <<seen, returned, faults>>

Observe(p) ==
  /\ proc[p].pc = "observe"
  /\ seen' = [seen EXCEPT !.observed =
                @ \cup {RecordOf(p)}]
  /\ Goto(p, "observing")
  /\ UNCHANGED <<safe, returned, faults>>

\* Mutant: the receipt is written before the observation is confirmed.
SyncObservationLate(p) ==
  /\ proc[p].pc = "observing"
  /\ Goto(p, "attest")
  /\ UNCHANGED <<seen, safe, returned, faults>>

SyncObservation(p) ==
  /\ proc[p].pc = "observing"
  /\ SyncAttempt(proc[p].attempt) /\ Goto(p, "attest")
  /\ UNCHANGED <<seen, returned, faults>>

Attest(p) ==
  /\ proc[p].pc = "attest"
  /\ seen' = [seen EXCEPT !.receipt =
                @ \cup {RecordOf(p)}]
  /\ Goto(p, "attesting")
  /\ UNCHANGED <<safe, returned, faults>>

\* Mutant: a receipt counts as soon as it can be read.
SyncReceiptLate(p) ==
  /\ proc[p].pc = "attesting"
  /\ Proceed(p, proc[p].direct)
  /\ UNCHANGED <<seen, safe, faults>>

SyncReceipt(p) ==
  /\ proc[p].pc = "attesting"
  /\ SyncRun /\ Proceed(p, proc[p].direct)
  /\ UNCHANGED <<seen, faults>>

\* The process is killed, or a sync or a readback that it needs fails.
Dies(p) ==
  /\ proc[p].pc # "idle"
  /\ Fault /\ Quit(p)
  /\ UNCHANGED <<seen, safe, returned>>

\* What was not synced may be there afterwards or not, each file by itself.
PowerLoss ==
  /\ Fault
  /\ \E e \in SUBSET (seen.event \ safe.event),
        o \in SUBSET (seen.observed \ safe.observed),
        r \in SUBSET (seen.receipt \ safe.receipt) :
       seen' = [event |-> safe.event \cup e, observed |-> safe.observed \cup o,
                receipt |-> safe.receipt \cup r]
  /\ safe' = seen'
  /\ proc' = [p \in Proc |-> [proc[p] EXCEPT !.pc = "idle"]]
  /\ UNCHANGED returned

----------------------------------------------------------------------------
Nothing == [event |-> {}, observed |-> {}, receipt |-> {}]

Init ==
  /\ seen = Nothing /\ safe = Nothing
  /\ \E a \in Attempt :
       proc = [p \in Proc |-> [pc |-> "idle", attempt |-> a, seq |-> 1,
                               outcome |-> "uncertain", direct |-> FALSE]]
  /\ returned = {} /\ faults = 0

Step(p) ==
  \/ Read(p) \/ PublishEvent(p) \/ SyncEvent(p) \/ Classify(p) \/ Adopt(p)
  \/ Recover(p) \/ Observe(p) \/ SyncObservation(p) \/ Attest(p)
  \/ SyncReceipt(p)

Next ==
  \/ PowerLoss
  \/ \E p \in Proc : \/ \E a \in Attempt : Begin(p, a)
                     \/ Step(p) \/ Dies(p)

\* A process that is not killed goes on, and the command is repeated for each
\* snapshot until it gets the lock.
Fairness ==
  /\ \A p \in Proc : WF_vars(Step(p))
  /\ \A a \in Attempt : SF_vars(\E p \in Proc : Begin(p, a))

SafetySpec == Init /\ [][Next]_vars
Spec == SafetySpec /\ Fairness

----------------------------------------------------------------------------
(* Properties.                                                             *)

TypeOK ==
  /\ seen \in Files /\ safe \in Files
  /\ proc \in [Proc -> Process]
  /\ returned \subseteq Attempt /\ faults \in 0..MaxFaults

\* A committed observation is only written of an event that survives a loss of
\* power, so that no two attempts are ever committed for one event
\* (classify_publication_outcome, reconcile_runtime_event_publication).
CommittedIsDurable ==
  \A a \in Attempt :
    IsCommitted(a, seen.observed) => a \in safe.event /\ seen.event = {a}

\* The records of an attempt are one monotone chain, whatever was lost or
\* written again in between: one observation for each sequence, the second
\* after an uncertain first one (validate_publication_receipt_chain).
ChainIsMonotone ==
  \A r \in seen.observed :
    /\ \A s \in seen.observed : r.attempt = s.attempt /\ r.seq = s.seq => r = s
    /\ r.seq = 2 => /\ r.outcome = "committed"
                    /\ Record(r.attempt, 1, "uncertain") \in safe.observed

\* A receipt never outlives its observation, and a second one never its first
\* (spool_publication_outcome before the receipt).
ReceiptsAreBacked ==
  \A r \in seen.receipt :
    /\ r \in safe.observed
    /\ r.seq = 2 => Record(r.attempt, 1, "uncertain") \in safe.receipt

\* What the command reports as committed is there after any loss of power: the
\* event, the observation and the receipt.
ReturnedIsDurable ==
  \A a \in returned :
    a \in safe.event /\ IsCommitted(a, safe.observed \cap safe.receipt)

\* An event that is there gets its committed receipt if the command is
\* repeated on its snapshot, or a loss of power takes it.
EventIsCommitted ==
  \A a \in Attempt :
    a \in seen.event ~> (a \notin seen.event \/ IsCommitted(a, safe.receipt))

=============================================================================
