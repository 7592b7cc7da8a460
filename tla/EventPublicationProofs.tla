----------------------- MODULE EventPublicationProofs -----------------------
(***************************************************************************)
(* What the records of an event are worth, for any number of processes,    *)
(* attempts and faults.  The files alone do not tell why a record may be   *)
(* written: the invariant says, for each step of a process, what its lock  *)
(* and the syncs before that step have made sure of.                       *)
(***************************************************************************)
EXTENDS EventPublication, TLAPS

SafeIsSeen ==
  /\ safe.event \subseteq seen.event
  /\ safe.observed \subseteq seen.observed
  /\ safe.receipt \subseteq seen.receipt

OneEvent == \A a, b \in seen.event : a = b

\* The lock of an attempt has one holder.
OneHolder ==
  \A p, q \in Proc :
    proc[p].pc # "idle" /\ proc[q].pc # "idle" /\ proc[p].attempt = proc[q].attempt
      => p = q

CommittedSafe ==
  \A r \in seen.observed : r.outcome = "committed" => r.attempt \in safe.event

\* The uncertain observation of a and its receipt are there for good.
FirstIsSafe(a) ==
  /\ Record(a, 1, "uncertain") \in safe.observed
  /\ Record(a, 1, "uncertain") \in safe.receipt

\* Nothing else has been observed of a.
OnlyFirst(a) ==
  FirstIsSafe(a) /\ Observed(a) = {Record(a, 1, "uncertain")}

\* What a process may rely on at each of its steps.
Grounds(p) ==
  LET a  == proc[p].attempt
      pc == proc[p].pc
  IN  /\ pc \in {"publish", "publishing", "classify", "adopt"} => Observed(a) = {}
      /\ pc \notin {"idle", "read", "publish"} => a \in seen.event
      /\ pc = "classify" => a \in safe.event
      /\ pc = "recover" => OnlyFirst(a)
      /\ pc = "observe" =>
           /\ proc[p].outcome = "committed" => a \in safe.event
           /\ proc[p].seq = 1 => Observed(a) = {}
           /\ proc[p].seq = 2 => OnlyFirst(a) /\ proc[p].outcome = "committed"
      /\ pc \in {"observing", "attest", "attesting"} =>
           /\ RecordOf(p) \in seen.observed
           /\ proc[p].seq = 2 => FirstIsSafe(a)
      /\ pc \in {"attest", "attesting"} => Observed(a) \subseteq safe.observed

Inv ==
  /\ TypeOK /\ SafeIsSeen /\ OneEvent /\ OneHolder /\ CommittedSafe
  /\ ChainIsMonotone /\ ReceiptsAreBacked /\ ReturnedIsDurable
  /\ \A p \in Proc : Grounds(p)

----------------------------------------------------------------------------
LEMMA InvInit == Init => Inv
<1> SUFFICES ASSUME Init PROVE Inv
  OBVIOUS
<1>1. seen = Nothing /\ safe = Nothing /\ returned = {}
  BY DEF Init
<1>2. \A p \in Proc : proc[p].pc = "idle"
  <2>1. PICK a \in Attempt :
          proc = [p \in Proc |-> [pc |-> "idle", attempt |-> a, seq |-> 1,
                                 outcome |-> "uncertain", direct |-> FALSE]]
    BY DEF Init
  <2> QED BY <2>1
<1>3. TypeOK
  BY PublicationAssumption
     DEF Init, TypeOK, Nothing, Files, Process, Sequence, Outcome
<1> QED
  BY <1>1, <1>2, <1>3 DEF Inv, Nothing, SafeIsSeen, OneEvent, OneHolder,
     CommittedSafe, ChainIsMonotone, ReceiptsAreBacked, ReturnedIsDurable, Grounds

\* A step that leaves what can be read and is safe of other attempts alone, and
\* takes nothing away, leaves the grounds of the other processes as they are.
LEMMA OthersKeepGrounds ==
  ASSUME Inv, NEW p \in Proc, NEW q \in Proc, q # p, proc'[q] = proc[q],
         proc[p].pc # "idle",
         \A r \in seen'.observed :
           r \in seen.observed \/ r.attempt = proc[p].attempt,
         seen.observed \subseteq seen'.observed,
         seen.event \subseteq seen'.event, safe.event \subseteq safe'.event,
         safe.observed \subseteq safe'.observed,
         safe.receipt \subseteq safe'.receipt
  PROVE  Grounds(q)'
<1>1. CASE proc[q].pc = "idle"
  BY <1>1 DEF Grounds
<1>2. CASE proc[q].pc # "idle"
  <2>1. proc[q].attempt # proc[p].attempt BY <1>2 DEF Inv, OneHolder
  <2>2. {r \in seen'.observed : r.attempt = proc[q].attempt}
          = {r \in seen.observed : r.attempt = proc[q].attempt}
    BY <2>1
  <2>3. Observed(proc[q].attempt) = {r \in seen.observed : r.attempt = proc[q].attempt}
    BY DEF Observed, OfAttempt
  <2>4. Grounds(q) BY DEF Inv
  <2> QED
    BY <2>2, <2>3, <2>4
       DEF Grounds, OnlyFirst, FirstIsSafe, Observed, OfAttempt, RecordOf, Record
<1> QED BY <1>1, <1>2

\* A sync makes some of what can be read safe.
SyncStep ==
  /\ seen' = seen /\ safe' \in Files
  /\ safe.event \subseteq safe'.event /\ safe'.event \subseteq seen.event
  /\ safe.observed \subseteq safe'.observed /\ safe'.observed \subseteq seen.observed
  /\ safe.receipt \subseteq safe'.receipt /\ safe'.receipt \subseteq seen.receipt

LEMMA SyncRunIs ==
  ASSUME Inv, SyncRun, seen' = seen
  PROVE  /\ SyncStep /\ safe'.event = seen.event /\ safe'.receipt = seen.receipt
         /\ safe'.observed = safe.observed
BY DEF Inv, TypeOK, SyncRun, SyncStep, SafeIsSeen, Files

LEMMA SyncAttemptIs ==
  ASSUME Inv, NEW a \in Attempt, SyncAttempt(a), seen' = seen
  PROVE  /\ SyncStep /\ Observed(a) \subseteq safe'.observed
         /\ safe'.event = safe.event /\ safe'.receipt = safe.receipt
BY DEF Inv, TypeOK, SyncAttempt, SyncStep, SafeIsSeen, Files, Observed, OfAttempt

\* What a step of p keeps that syncs, or writes nothing.
LEMMA SyncKeeps ==
  ASSUME Inv, SyncStep, NEW p \in Proc, proc[p].pc # "idle",
         NEW r \in Process, proc' = [proc EXCEPT ![p] = r],
         r.attempt = proc[p].attempt,
         faults' \in 0..MaxFaults, returned' \subseteq Attempt,
         \A a \in returned' : \/ a \in returned
                              \/ a \in safe'.event
                                 /\ IsCommitted(a, safe'.observed \cap safe'.receipt),
         Grounds(p)'
  PROVE  Inv'
<1>1. TypeOK' BY DEF Inv, TypeOK, SyncStep
<1>2. SafeIsSeen' /\ OneEvent' BY DEF SyncStep, Inv, OneEvent, SafeIsSeen
<1>3. proc'[p] = r /\ \A q \in Proc \ {p} : proc'[q] = proc[q]
  BY DEF Inv, TypeOK
<1>4. OneHolder' BY <1>3 DEF Inv, OneHolder
<1>5. CommittedSafe' /\ ChainIsMonotone' /\ ReceiptsAreBacked'
  BY DEF SyncStep, Inv, CommittedSafe, ChainIsMonotone, ReceiptsAreBacked
<1>6. ReturnedIsDurable'
  BY DEF SyncStep, Inv, ReturnedIsDurable, IsCommitted
<1>7. \A q \in Proc : Grounds(q)'
  <2> SUFFICES ASSUME NEW q \in Proc, q # p PROVE Grounds(q)'
    OBVIOUS
  <2> QED BY <1>3, OthersKeepGrounds DEF SyncStep
<1> QED BY <1>1, <1>2, <1>4, <1>5, <1>6, <1>7 DEF Inv

LEMMA QuitGrounds ==
  ASSUME NEW p \in Proc, proc'[p].pc = "idle"
  PROVE  Grounds(p)'
BY DEF Grounds

\* The first record of an attempt, if it is all there is and not committed.
LEMMA OnlyUncertain ==
  ASSUME Inv, NEW a \in Attempt, Observed(a) # {}, Observed(a) \subseteq seen.receipt,
         ~IsCommitted(a, seen.receipt)
  PROVE  Observed(a) = {Record(a, 1, "uncertain")}
<1>1. SUFFICES ASSUME NEW r \in Observed(a) PROVE r = Record(a, 1, "uncertain")
  OBVIOUS
<1>2. r \in seen.observed /\ r.attempt = a /\ r \in Observation /\ r \in seen.receipt
  BY DEF Observed, OfAttempt, Inv, TypeOK, Files
<1>3. r = Record(a, r.seq, r.outcome) /\ r.seq \in Sequence /\ r.outcome \in Outcome
  BY <1>2 DEF Observation, Record
<1>4. r.outcome = "uncertain"
  BY <1>2, <1>3 DEF IsCommitted, Outcome
<1>5. r.seq = 1
  BY <1>2, <1>3, <1>4 DEF Inv, ChainIsMonotone, Sequence
<1> QED BY <1>3, <1>4, <1>5

\* What a process may rely on once it knows what to do next.
LEMMA ProceedKeeps ==
  ASSUME Inv, NEW p \in Proc, proc[p].pc \in {"read", "attesting"}, SyncStep,
         NEW direct \in BOOLEAN, Proceed(p, direct),
         safe'.receipt = seen.receipt,
         Observed(proc[p].attempt) \subseteq safe'.observed,
         Observed(proc[p].attempt) # {} => proc[p].attempt \in seen.event,
         UNCHANGED faults
  PROVE  Inv'
<1> DEFINE a == proc[p].attempt
<1>0. a \in Attempt /\ proc \in [Proc -> Process] /\ returned \subseteq Attempt
      /\ faults' \in 0..MaxFaults
  BY DEF Inv, TypeOK, Process
<1>1. ASSUME NEW r \in Missing(a), \A s \in Missing(a) : r.seq <= s.seq,
             proc' = [proc EXCEPT ![p].pc = "attest", ![p].seq = r.seq,
                        ![p].outcome = r.outcome, ![p].direct = direct],
             UNCHANGED returned
      PROVE  Inv'
  <2>1. r \in Observed(a) /\ r \in seen.observed /\ r.attempt = a /\ r \in Observation
    BY <1>1 DEF Missing, Observed, OfAttempt, Inv, TypeOK, Files
  <2> DEFINE next == [proc[p] EXCEPT !.pc = "attest", !.seq = r.seq,
                        !.outcome = r.outcome, !.direct = direct]
  <2>2. next \in Process /\ next.attempt = a /\ proc' = [proc EXCEPT ![p] = next]
    <3>1. proc[p] \in Process BY <1>0
    <3>2. r.seq \in Sequence /\ r.outcome \in Outcome BY <2>1 DEF Observation
    <3>3. next \in Process /\ next.attempt = a BY <3>1, <3>2 DEF Process
    <3>4. proc' = [proc EXCEPT ![p] = next] BY <1>0, <1>1
    <3> QED BY <3>3, <3>4
  <2>3. r = Record(a, r.seq, r.outcome) /\ r.seq \in Sequence
    BY <2>1 DEF Observation, Record
  <2>4. r.seq = 2 => /\ Record(a, 1, "uncertain") \in safe'.observed
                     /\ Record(a, 1, "uncertain") \in safe'.receipt
    <3> SUFFICES ASSUME r.seq = 2
                 PROVE  /\ Record(a, 1, "uncertain") \in safe'.observed
                        /\ Record(a, 1, "uncertain") \in safe'.receipt
      OBVIOUS
    <3>1. Record(a, 1, "uncertain") \in safe.observed
      BY <2>1 DEF Inv, ChainIsMonotone
    <3>2. Record(a, 1, "uncertain") \in Observed(a)
      BY <3>1 DEF Observed, OfAttempt, Record, Inv, SafeIsSeen
    <3>3. Record(a, 1, "uncertain") \notin Missing(a)
      BY <1>1 DEF Record
    <3> QED BY <3>1, <3>2, <3>3 DEF SyncStep, Missing
  <2>5. Grounds(p)'
    <3>1. /\ proc'[p].pc = "attest" /\ proc'[p].attempt = a /\ proc'[p].seq = r.seq
          /\ proc'[p].outcome = r.outcome
      BY <1>0, <1>1 DEF Process
    <3>2. RecordOf(p)' \in seen'.observed
      BY <2>1, <2>3, <3>1 DEF RecordOf, Record, SyncStep
    <3>3. a \in seen'.event /\ {x \in seen'.observed : x.attempt = a} \subseteq safe'.observed
      BY <2>1 DEF SyncStep, Observed, OfAttempt
    <3> QED BY <2>4, <3>1, <3>2, <3>3 DEF Grounds, Observed, OfAttempt, FirstIsSafe, Record
  <2>6. \A x \in returned' : x \in returned BY <1>1
  <2>7. proc[p].pc # "idle" /\ returned' \subseteq Attempt BY <1>0, <1>1
  <2> QED BY <1>0, <2>2, <2>5, <2>6, <2>7, SyncKeeps
<1>2. ASSUME Missing(a) = {}, NEW step \in {"publish", "adopt", "recover"},
             step = NextStep(a, direct),
             proc' = [proc EXCEPT ![p].pc = step, ![p].direct = direct],
             UNCHANGED returned
      PROVE  Inv'
  <2> DEFINE next == [proc[p] EXCEPT !.pc = step, !.direct = direct]
  <2>1. next \in Process /\ next.attempt = a /\ proc' = [proc EXCEPT ![p] = next]
    BY <1>0, <1>2 DEF Process
  <2>2. proc'[p].pc = step /\ proc'[p].attempt = a
    BY <1>0, <1>2 DEF Process
  <2>3. Observed(a)' = {x \in seen'.observed : x.attempt = proc'[p].attempt}
        /\ Observed(a) = {x \in seen.observed : x.attempt = a} /\ seen' = seen
    BY <2>2 DEF Observed, OfAttempt, SyncStep
  <2>4. ASSUME step = "publish" PROVE Grounds(p)'
    <3>1. Observed(a) = {} BY <1>2, <2>4 DEF NextStep
    <3> QED BY <2>2, <2>3, <2>4, <3>1 DEF Grounds, Observed, OfAttempt
  <2>5. ASSUME step = "adopt" PROVE Grounds(p)'
    <3>1. Observed(a) = {} /\ a \in seen.event BY <1>2, <2>5 DEF NextStep
    <3> QED BY <2>2, <2>3, <2>5, <3>1 DEF Grounds, Observed, OfAttempt
  <2>6. ASSUME step = "recover" PROVE Grounds(p)'
    <3>1. Observed(a) # {} /\ a \in seen.event /\ ~IsCommitted(a, seen.receipt)
      BY <1>2, <2>6 DEF NextStep
    <3>2. Observed(a) \subseteq seen.receipt BY <1>2 DEF Missing
    <3>3. Observed(a) = {Record(a, 1, "uncertain")}
      BY <1>0, <3>1, <3>2, OnlyUncertain
    <3>4. Record(a, 1, "uncertain") \in safe'.observed \cap safe'.receipt
      BY <3>2, <3>3
    <3> QED BY <2>2, <2>3, <2>6, <3>1, <3>3, <3>4
            DEF Grounds, OnlyFirst, FirstIsSafe, Observed, OfAttempt, Record
  <2>7. proc[p].pc # "idle" /\ returned' \subseteq Attempt
        /\ \A x \in returned' : x \in returned
    BY <1>0, <1>2
  <2>8. Grounds(p)' BY <1>2, <2>4, <2>5, <2>6
  <2> QED BY <1>0, <2>1, <2>7, <2>8, SyncKeeps
<1>3. ASSUME Quit(p), \/ UNCHANGED returned
                      \/ IsCommitted(a, seen.receipt) /\ returned' = returned \cup {a}
      PROVE  Inv'
  <2> DEFINE next == [proc[p] EXCEPT !.pc = "idle"]
  <2>1. next \in Process /\ next.attempt = a /\ proc' = [proc EXCEPT ![p] = next]
    BY <1>0, <1>3 DEF Process, Quit, Goto
  <2>2. Grounds(p)' BY <1>0, <1>3, QuitGrounds DEF Quit, Goto, Process
  <2>3. IsCommitted(a, seen.receipt) =>
          a \in safe'.event /\ IsCommitted(a, safe'.observed \cap safe'.receipt)
    <3> SUFFICES ASSUME NEW i \in Sequence, Record(a, i, "committed") \in seen.receipt
                 PROVE  a \in safe'.event
                        /\ IsCommitted(a, safe'.observed \cap safe'.receipt)
      BY DEF IsCommitted
    <3>1. Record(a, i, "committed") \in safe.observed
      BY DEF Inv, ReceiptsAreBacked
    <3>2. a \in safe.event
      BY <3>1 DEF Inv, SafeIsSeen, CommittedSafe, Record
    <3> QED BY <3>1, <3>2 DEF SyncStep, IsCommitted
  <2>4. proc[p].pc # "idle" /\ returned' \subseteq Attempt
        /\ \A x \in returned' : x \in returned \/ (x = a /\ IsCommitted(a, seen.receipt))
    BY <1>0, <1>3
  <2> QED BY <1>0, <2>1, <2>2, <2>3, <2>4, SyncKeeps
<1> QED BY <1>1, <1>2, <1>3 DEF Proceed, NextStep

\* A step of p that adds one record to what can be read.
LEMMA WriteKeeps ==
  ASSUME Inv, NEW p \in Proc, proc[p].pc # "idle", proc[p].attempt \in seen.event,
         seen' \in Files, seen'.event = seen.event,
         safe' = safe, returned' = returned, faults' = faults,
         NEW pc, Goto(p, pc), pc \in {"observing", "attesting"},
         \/ /\ seen'.observed = seen.observed \cup {RecordOf(p)}
            /\ seen'.receipt = seen.receipt
            /\ proc[p].outcome = "committed" => proc[p].attempt \in safe.event
            /\ proc[p].seq = 1 => Observed(proc[p].attempt) = {}
            /\ proc[p].seq = 2 => /\ OnlyFirst(proc[p].attempt)
                                  /\ proc[p].outcome = "committed"
         \/ /\ seen'.observed = seen.observed
            /\ seen'.receipt = seen.receipt \cup {RecordOf(p)}
            /\ RecordOf(p) \in safe.observed
            /\ proc[p].seq = 2 => FirstIsSafe(proc[p].attempt),
         Grounds(p)'
  PROVE  Inv'
<1> DEFINE a == proc[p].attempt
           r == RecordOf(p)
<1>0. /\ a \in Attempt /\ proc \in [Proc -> Process]
      /\ r.attempt = a /\ r.seq = proc[p].seq /\ r.outcome = proc[p].outcome
      /\ proc[p].seq \in {1, 2}
  BY DEF Inv, TypeOK, Process, RecordOf, Record, Sequence
<1>1. proc'[p].attempt = a /\ \A q \in Proc \ {p} : proc'[q] = proc[q]
  BY <1>0 DEF Goto, Process
<1>2. TypeOK'
  <2>1. proc' \in [Proc -> Process] BY <1>0 DEF Goto, Process
  <2> QED BY <2>1 DEF Inv, TypeOK
<1>3. SafeIsSeen' /\ OneEvent' BY DEF Inv, SafeIsSeen, OneEvent
<1>4. OneHolder' BY <1>1 DEF Inv, OneHolder
<1>5. CommittedSafe' BY <1>0 DEF Inv, CommittedSafe
<1>6. ChainIsMonotone'
  <2>1. CASE seen'.observed = seen.observed
    BY <2>1 DEF Inv, ChainIsMonotone
  <2>2. CASE /\ seen'.observed = seen.observed \cup {r}
             /\ proc[p].seq = 1 => Observed(a) = {}
             /\ proc[p].seq = 2 => OnlyFirst(a) /\ proc[p].outcome = "committed"
    <3>1. \A x \in seen.observed : x.attempt = a => r.seq = 2 /\ x.seq = 1
      BY <1>0, <2>2 DEF Observed, OfAttempt, OnlyFirst, Record
    <3>2. r.seq = 2 => /\ r.outcome = "committed"
                       /\ Record(r.attempt, 1, "uncertain") \in safe.observed
      BY <1>0, <2>2 DEF OnlyFirst, FirstIsSafe
    <3> QED BY <1>0, <2>2, <3>1, <3>2 DEF Inv, ChainIsMonotone
  <2> QED BY <2>1, <2>2
<1>7. ReceiptsAreBacked'
  BY <1>0 DEF Inv, ReceiptsAreBacked, FirstIsSafe
<1>8. ReturnedIsDurable' BY DEF Inv, ReturnedIsDurable
<1>9. \A q \in Proc : Grounds(q)'
  <2> SUFFICES ASSUME NEW q \in Proc, q # p PROVE Grounds(q)'
    OBVIOUS
  <2> QED BY <1>0, <1>1, OthersKeepGrounds
<1> QED BY <1>2, <1>3, <1>4, <1>5, <1>6, <1>7, <1>8, <1>9 DEF Inv

LEMMA BeginKeeps ==
  ASSUME Inv, NEW p \in Proc, NEW a \in Attempt, Begin(p, a)
  PROVE  Inv'
<1>1. /\ proc' \in [Proc -> Process] /\ proc'[p].pc = "read" /\ proc'[p].attempt = a
      /\ \A q \in Proc \ {p} : proc'[q] = proc[q]
      /\ seen' = seen /\ safe' = safe /\ returned' = returned /\ faults' = faults
  BY DEF Begin, Inv, TypeOK, Process, Sequence, Outcome
<1>2. OneHolder' BY <1>1 DEF Begin, Inv, OneHolder
<1>3. \A q \in Proc : Grounds(q)'
  <2> SUFFICES ASSUME NEW q \in Proc PROVE Grounds(q)'
    OBVIOUS
  <2>1. CASE q = p BY <1>1, <2>1 DEF Grounds
  <2>2. CASE q # p
    BY <1>1, <2>2 DEF Inv, Grounds, OnlyFirst, FirstIsSafe, Observed, OfAttempt,
       RecordOf, Record
  <2> QED BY <2>1, <2>2
<1>4. TypeOK' BY <1>1 DEF Inv, TypeOK
<1>5. SafeIsSeen' /\ OneEvent' /\ CommittedSafe' /\ ChainIsMonotone'
      /\ ReceiptsAreBacked' /\ ReturnedIsDurable'
  BY <1>1 DEF Inv, SafeIsSeen, OneEvent, CommittedSafe, ChainIsMonotone,
     ReceiptsAreBacked, ReturnedIsDurable
<1> QED BY <1>2, <1>3, <1>4, <1>5 DEF Inv

LEMMA PowerLossKeeps ==
  ASSUME Inv, PowerLoss
  PROVE  Inv'
<1>1. /\ safe' = seen' /\ returned' = returned /\ faults' \in 0..MaxFaults
      /\ \A p \in Proc : proc'[p].pc = "idle"
      /\ proc' \in [Proc -> Process]
  BY PublicationAssumption DEF PowerLoss, Fault, Inv, TypeOK, Process
<1>2. /\ seen' \in Files
      /\ safe.event \subseteq seen'.event /\ seen'.event \subseteq seen.event
      /\ safe.observed \subseteq seen'.observed /\ seen'.observed \subseteq seen.observed
      /\ safe.receipt \subseteq seen'.receipt /\ seen'.receipt \subseteq seen.receipt
  BY DEF PowerLoss, Inv, TypeOK, Files, SafeIsSeen
<1>3. TypeOK' BY <1>1, <1>2 DEF Inv, TypeOK
<1>4. SafeIsSeen' /\ OneEvent' /\ OneHolder' /\ CommittedSafe'
  BY <1>1, <1>2 DEF Inv, SafeIsSeen, OneEvent, OneHolder, CommittedSafe
<1>5. ChainIsMonotone' /\ ReceiptsAreBacked'
  BY <1>1, <1>2 DEF Inv, ChainIsMonotone, ReceiptsAreBacked
<1>6. ReturnedIsDurable'
  BY <1>1, <1>2 DEF Inv, ReturnedIsDurable, IsCommitted
<1>7. \A p \in Proc : Grounds(p)' BY <1>1 DEF Grounds
<1> QED BY <1>3, <1>4, <1>5, <1>6, <1>7 DEF Inv

\* A step of p that only goes on, and makes something safe or nothing.
LEMMA GoOn ==
  ASSUME Inv, SyncStep, NEW p \in Proc, proc[p].pc # "idle",
         NEW r \in Process, proc' = [proc EXCEPT ![p] = r],
         r.attempt = proc[p].attempt, faults' \in 0..MaxFaults,
         returned' = returned, Grounds(p)'
  PROVE  Inv'
<1>1. returned' \subseteq Attempt /\ \A a \in returned' : a \in returned
  BY DEF Inv, TypeOK
<1> QED BY <1>1, SyncKeeps

LEMMA Faulty == Inv /\ Fault => faults' \in 0..MaxFaults
BY PublicationAssumption DEF Inv, TypeOK, Fault

LEMMA NoSync == Inv /\ seen' = seen /\ safe' = safe => SyncStep
BY DEF SyncStep, Inv, SafeIsSeen, TypeOK

LEMMA ReadKeeps ==
  ASSUME Inv, NEW p \in Proc, Read(p)
  PROVE  Inv'
<1> DEFINE a == proc[p].attempt
<1>0. /\ a \in Attempt /\ proc \in [Proc -> Process] /\ proc[p].pc = "read"
      /\ seen' = seen /\ faults' = faults /\ faults \in 0..MaxFaults
  BY DEF Read, Inv, TypeOK, Process
<1>1. CASE Coherent(a)
  <2>1. /\ safe' = [event    |-> IF seen.receipt # {} THEN seen.event ELSE safe.event,
                    receipt  |-> seen.receipt,
                    observed |-> safe.observed \cup Observed(a)]
        /\ Proceed(p, FALSE)
    BY <1>1 DEF Read
  <2>2. SyncStep
    BY <1>0, <2>1 DEF SyncStep, Inv, TypeOK, Files, SafeIsSeen, Observed, OfAttempt
  <2>3. safe'.receipt = seen.receipt /\ Observed(a) \subseteq safe'.observed
    BY <2>1
  <2>4. Observed(a) # {} => a \in seen.event BY <1>1 DEF Coherent
  <2> QED BY <1>0, <2>1, <2>2, <2>3, <2>4, ProceedKeeps
<1>2. CASE ~Coherent(a)
  <2>1. SyncAttempt(a) /\ Quit(p) /\ returned' = returned
    BY <1>2 DEF Read
  <2>2. SyncStep BY <1>0, <2>1, SyncAttemptIs
  <2> DEFINE next == [proc[p] EXCEPT !.pc = "idle"]
  <2>3. /\ next \in Process /\ next.attempt = a /\ proc' = [proc EXCEPT ![p] = next]
        /\ proc'[p].pc = "idle"
    BY <1>0, <2>1 DEF Process, Quit, Goto
  <2> QED BY <1>0, <2>1, <2>2, <2>3, QuitGrounds, GoOn
<1> QED BY <1>1, <1>2

LEMMA PublishEventKeeps ==
  ASSUME Inv, NEW p \in Proc, PublishEvent(p)
  PROVE  Inv'
<1> DEFINE a == proc[p].attempt
<1>0. /\ a \in Attempt /\ proc \in [Proc -> Process] /\ proc[p].pc = "publish"
      /\ safe' = safe /\ returned' = returned /\ faults' = faults
      /\ faults \in 0..MaxFaults /\ seen \in Files
  BY DEF PublishEvent, Inv, TypeOK, Process
<1>1. CASE seen.event = {}
  <2>1. /\ seen'.event = {a} /\ seen' \in Files
        /\ seen'.observed = seen.observed /\ seen'.receipt = seen.receipt
        /\ Goto(p, "publishing")
    BY <1>0, <1>1 DEF PublishEvent, Files
  <2>2. /\ proc' \in [Proc -> Process] /\ proc'[p].pc = "publishing"
        /\ proc'[p].attempt = a /\ \A q \in Proc \ {p} : proc'[q] = proc[q]
    BY <1>0, <2>1 DEF Goto, Process
  <2>3. TypeOK' BY <1>0, <2>1, <2>2 DEF Inv, TypeOK
  <2>4. SafeIsSeen' BY <1>0, <1>1, <2>1 DEF Inv, SafeIsSeen
  <2>5. OneEvent' /\ OneHolder' BY <1>0, <2>1, <2>2 DEF Inv, OneEvent, OneHolder
  <2>6. CommittedSafe' /\ ChainIsMonotone' /\ ReceiptsAreBacked' /\ ReturnedIsDurable'
    BY <1>0, <2>1 DEF Inv, CommittedSafe, ChainIsMonotone, ReceiptsAreBacked,
       ReturnedIsDurable
  <2>7. \A q \in Proc : Grounds(q)'
    <3> SUFFICES ASSUME NEW q \in Proc PROVE Grounds(q)'
      OBVIOUS
    <3>1. CASE q = p
      <4>1. {r \in seen.observed : r.attempt = a} = {}
        BY <1>0 DEF Inv, Grounds, Observed, OfAttempt
      <4> QED BY <2>1, <2>2, <3>1, <4>1 DEF Grounds, Observed, OfAttempt
    <3>2. CASE q # p
      <4>1. proc[p].pc # "idle" /\ proc'[q] = proc[q] BY <1>0, <2>2, <3>2
      <4> QED BY <1>0, <1>1, <2>1, <3>2, <4>1, OthersKeepGrounds
    <3> QED BY <3>1, <3>2
  <2> QED BY <2>3, <2>4, <2>5, <2>6, <2>7 DEF Inv
<1>2. CASE seen.event # {}
  <2>1. Quit(p) /\ seen' = seen BY <1>2 DEF PublishEvent
  <2> DEFINE next == [proc[p] EXCEPT !.pc = "idle"]
  <2>2. /\ next \in Process /\ next.attempt = a /\ proc' = [proc EXCEPT ![p] = next]
        /\ proc'[p].pc = "idle"
    BY <1>0, <2>1 DEF Process, Quit, Goto
  <2> QED BY <1>0, <2>1, <2>2, NoSync, QuitGrounds, GoOn
<1> QED BY <1>1, <1>2

LEMMA SyncEventKeeps ==
  ASSUME Inv, NEW p \in Proc, SyncEvent(p)
  PROVE  Inv'
<1> DEFINE a    == proc[p].attempt
           next == [proc[p] EXCEPT !.pc = "classify"]
<1>1. /\ a \in Attempt /\ proc[p].pc = "publishing" /\ SyncRun
      /\ seen' = seen /\ returned' = returned /\ faults' \in 0..MaxFaults
      /\ next \in Process /\ next.attempt = a /\ proc' = [proc EXCEPT ![p] = next]
      /\ proc'[p].pc = "classify" /\ proc'[p].attempt = a
  BY DEF SyncEvent, Inv, TypeOK, Process, Goto
<1>2. SyncStep /\ safe'.event = seen.event BY <1>1, SyncRunIs
<1>3. Grounds(p)'
  <2>1. a \in seen.event /\ {r \in seen.observed : r.attempt = a} = {}
    BY <1>1 DEF Inv, Grounds, Observed, OfAttempt
  <2> QED BY <1>1, <1>2, <2>1 DEF Grounds, Observed, OfAttempt
<1> QED BY <1>1, <1>2, <1>3, GoOn

\* A first observation is due: nothing of the attempt has been observed, and a
\* committed one needs an event that is safe.
LEMMA FirstKeeps ==
  ASSUME Inv, SyncStep, NEW p \in Proc, proc[p].pc \in {"classify", "adopt"},
         NEW r \in Process, proc' = [proc EXCEPT ![p] = r],
         r.attempt = proc[p].attempt, r.pc = "observe", r.seq = 1,
         r.outcome = "committed" => proc[p].attempt \in safe'.event,
         faults' \in 0..MaxFaults, returned' = returned
  PROVE  Inv'
<1> DEFINE a == proc[p].attempt
<1>1. proc'[p] = r BY DEF Inv, TypeOK
<1>2. a \in seen.event /\ {x \in seen.observed : x.attempt = a} = {}
  BY DEF Inv, Grounds, Observed, OfAttempt
<1>3. Grounds(p)'
  BY <1>1, <1>2 DEF SyncStep, Grounds, Observed, OfAttempt
<1> QED BY <1>3, GoOn

LEMMA ValuesTyped == 1 \in Sequence /\ 2 \in Sequence
                     /\ "uncertain" \in Outcome /\ "committed" \in Outcome
BY DEF Sequence, Outcome

LEMMA ClassifyKeeps ==
  ASSUME Inv, NEW p \in Proc, Classify(p)
  PROVE  Inv'
<1> DEFINE next(o) == [proc[p] EXCEPT !.pc = "observe", !.seq = 1, !.outcome = o,
                                      !.direct = TRUE]
<1>1. /\ proc[p] \in Process /\ proc[p].pc = "classify" /\ seen' = seen
      /\ returned' = returned /\ faults \in 0..MaxFaults
      /\ proc[p].attempt \in safe.event
  BY DEF Classify, Inv, TypeOK, Grounds
<1>2. \A o \in Outcome : /\ next(o) \in Process /\ next(o).attempt = proc[p].attempt
                         /\ next(o).pc = "observe" /\ next(o).seq = 1
                         /\ next(o).outcome = o
  BY <1>1, ValuesTyped DEF Process
<1>3. CASE SyncRun /\ UNCHANGED faults /\ proc' = [proc EXCEPT ![p] = next("committed")]
  BY <1>1, <1>2, <1>3, SyncRunIs, FirstKeeps DEF Outcome, SyncStep
<1>4. CASE Fault /\ UNCHANGED safe /\ proc' = [proc EXCEPT ![p] = next("uncertain")]
  BY <1>1, <1>2, <1>4, Faulty, NoSync, FirstKeeps DEF Outcome
<1>5. \/ /\ SyncRun /\ UNCHANGED faults
         /\ proc' = [proc EXCEPT ![p] = next("committed")]
      \/ /\ Fault /\ UNCHANGED safe
         /\ proc' = [proc EXCEPT ![p] = next("uncertain")]
  BY <1>1 DEF Classify, Inv, TypeOK, Process
<1> QED BY <1>3, <1>4, <1>5

LEMMA AdoptKeeps ==
  ASSUME Inv, NEW p \in Proc, Adopt(p)
  PROVE  Inv'
<1> DEFINE next == [proc[p] EXCEPT !.pc = "observe", !.seq = 1,
                                   !.outcome = "uncertain"]
<1>1. /\ proc[p] \in Process /\ proc[p].pc = "adopt" /\ seen' = seen
      /\ returned' = returned /\ faults \in 0..MaxFaults
      /\ proc' = [proc EXCEPT ![p] = next]
  BY DEF Adopt, GapOutcome, Inv, TypeOK, Process
<1>2. /\ next \in Process /\ next.attempt = proc[p].attempt
      /\ next.pc = "observe" /\ next.seq = 1 /\ next.outcome = "uncertain"
  BY <1>1, ValuesTyped DEF Process
<1>3. SyncStep /\ faults' \in 0..MaxFaults
  BY <1>1, SyncRunIs, NoSync, Faulty DEF Adopt
<1> QED BY <1>1, <1>2, <1>3, FirstKeeps

LEMMA RecoverKeeps ==
  ASSUME Inv, NEW p \in Proc, Recover(p)
  PROVE  Inv'
<1> DEFINE a    == proc[p].attempt
           next == [proc[p] EXCEPT !.pc = "observe", !.seq = 2,
                                   !.outcome = "committed"]
<1>1. /\ proc[p] \in Process /\ proc[p].pc = "recover" /\ seen' = seen
      /\ returned' = returned /\ faults' \in 0..MaxFaults /\ SyncRun
      /\ proc' = [proc EXCEPT ![p] = next] /\ proc'[p] = next
  BY DEF Recover, Inv, TypeOK, Process
<1>2. /\ next \in Process /\ next.attempt = a
      /\ next.pc = "observe" /\ next.seq = 2 /\ next.outcome = "committed"
  BY <1>1, ValuesTyped DEF Process
<1>3. SyncStep /\ safe'.event = seen.event BY <1>1, SyncRunIs
<1>4. /\ a \in seen.event
      /\ Record(a, 1, "uncertain") \in safe.observed
      /\ Record(a, 1, "uncertain") \in safe.receipt
      /\ {r \in seen.observed : r.attempt = a} = {Record(a, 1, "uncertain")}
  BY <1>1 DEF Inv, Grounds, OnlyFirst, FirstIsSafe, Observed, OfAttempt
<1>5. Grounds(p)'
  BY <1>1, <1>2, <1>3, <1>4
     DEF SyncStep, Grounds, OnlyFirst, FirstIsSafe, Observed, OfAttempt, Record
<1> QED BY <1>1, <1>2, <1>3, <1>5, GoOn

LEMMA RecordTyped ==
  ASSUME Inv, NEW p \in Proc
  PROVE  /\ RecordOf(p) \in Observation /\ RecordOf(p).attempt = proc[p].attempt
         /\ RecordOf(p).seq = proc[p].seq /\ RecordOf(p).outcome = proc[p].outcome
BY DEF Inv, TypeOK, Process, Observation, RecordOf, Record

LEMMA ObserveKeeps ==
  ASSUME Inv, NEW p \in Proc, Observe(p)
  PROVE  Inv'
<1> DEFINE a == proc[p].attempt
<1>1. /\ proc \in [Proc -> Process] /\ proc[p].pc = "observe" /\ seen \in Files
      /\ seen' = [seen EXCEPT !.observed = @ \cup {RecordOf(p)}]
      /\ safe' = safe /\ returned' = returned /\ faults' = faults
      /\ Goto(p, "observing")
  BY DEF Observe, Inv, TypeOK
<1>2. /\ seen' \in Files /\ seen'.event = seen.event /\ seen'.receipt = seen.receipt
      /\ seen'.observed = seen.observed \cup {RecordOf(p)}
  BY <1>1, RecordTyped DEF Files
<1>3. /\ a \in seen.event
      /\ proc[p].outcome = "committed" => a \in safe.event
      /\ proc[p].seq = 1 => Observed(a) = {}
      /\ proc[p].seq = 2 => OnlyFirst(a) /\ proc[p].outcome = "committed"
  BY <1>1 DEF Inv, Grounds
<1>4. proc'[p] = [proc[p] EXCEPT !.pc = "observing"]
  BY <1>1 DEF Goto
<1>5. Grounds(p)'
  <2>1. /\ proc'[p].pc = "observing" /\ proc'[p].attempt = a
        /\ proc'[p].seq = proc[p].seq /\ proc'[p].outcome = proc[p].outcome
    BY <1>1, <1>4 DEF Process
  <2>2. RecordOf(p)' \in seen'.observed BY <1>2, <2>1 DEF RecordOf, Record
  <2>3. proc[p].seq = 2 => /\ Record(a, 1, "uncertain") \in safe'.observed
                           /\ Record(a, 1, "uncertain") \in safe'.receipt
    BY <1>1, <1>3 DEF OnlyFirst, FirstIsSafe
  <2> QED BY <1>2, <1>3, <2>1, <2>2, <2>3 DEF Grounds, FirstIsSafe, Record
<1> QED BY <1>1, <1>2, <1>3, <1>5, WriteKeeps

LEMMA SyncObservationKeeps ==
  ASSUME Inv, NEW p \in Proc, SyncObservation(p)
  PROVE  Inv'
<1> DEFINE a    == proc[p].attempt
           next == [proc[p] EXCEPT !.pc = "attest"]
<1>1. /\ a \in Attempt /\ proc[p] \in Process /\ proc[p].pc = "observing"
      /\ SyncAttempt(a) /\ seen' = seen /\ returned' = returned
      /\ faults' \in 0..MaxFaults
      /\ proc' = [proc EXCEPT ![p] = next] /\ proc'[p] = next
  BY DEF SyncObservation, Inv, TypeOK, Process, Goto
<1>2. /\ next \in Process /\ next.attempt = a /\ next.pc = "attest"
      /\ next.seq = proc[p].seq /\ next.outcome = proc[p].outcome
  BY <1>1 DEF Process
<1>3. SyncStep /\ {r \in seen.observed : r.attempt = a} \subseteq safe'.observed
  BY <1>1, SyncAttemptIs DEF Observed, OfAttempt
<1>4. /\ a \in seen.event
      /\ Record(a, proc[p].seq, proc[p].outcome) \in seen.observed
      /\ proc[p].seq = 2 => /\ Record(a, 1, "uncertain") \in safe.observed
                            /\ Record(a, 1, "uncertain") \in safe.receipt
  BY <1>1 DEF Inv, Grounds, RecordOf, FirstIsSafe
<1>5. Grounds(p)'
  BY <1>1, <1>2, <1>3, <1>4
     DEF SyncStep, Grounds, FirstIsSafe, Observed, OfAttempt, RecordOf, Record
<1> QED BY <1>1, <1>2, <1>3, <1>5, GoOn

LEMMA AttestKeeps ==
  ASSUME Inv, NEW p \in Proc, Attest(p)
  PROVE  Inv'
<1> DEFINE a == proc[p].attempt
<1>1. /\ proc \in [Proc -> Process] /\ proc[p].pc = "attest" /\ seen \in Files
      /\ seen' = [seen EXCEPT !.receipt = @ \cup {RecordOf(p)}]
      /\ safe' = safe /\ returned' = returned /\ faults' = faults
      /\ Goto(p, "attesting")
  BY DEF Attest, Inv, TypeOK
<1>2. /\ seen' \in Files /\ seen'.event = seen.event /\ seen'.observed = seen.observed
      /\ seen'.receipt = seen.receipt \cup {RecordOf(p)}
  BY <1>1, RecordTyped DEF Files
<1>3. /\ a \in seen.event /\ RecordOf(p) \in seen.observed
      /\ Observed(a) \subseteq safe.observed
      /\ proc[p].seq = 2 => FirstIsSafe(a)
  BY <1>1 DEF Inv, Grounds
<1>4. RecordOf(p) \in safe.observed
  BY <1>3, RecordTyped DEF Observed, OfAttempt
<1>5. Grounds(p)'
  <2>1. /\ proc'[p].pc = "attesting" /\ proc'[p].attempt = a
        /\ proc'[p].seq = proc[p].seq /\ proc'[p].outcome = proc[p].outcome
    BY <1>1 DEF Process, Goto
  <2>2. RecordOf(p)' \in seen'.observed BY <1>2, <1>3, <2>1 DEF RecordOf, Record
  <2>3. proc[p].seq = 2 => /\ Record(a, 1, "uncertain") \in safe'.observed
                           /\ Record(a, 1, "uncertain") \in safe'.receipt
    BY <1>1, <1>3 DEF FirstIsSafe
  <2>4. {r \in seen'.observed : r.attempt = a} \subseteq safe'.observed
    BY <1>1, <1>2, <1>3 DEF Observed, OfAttempt
  <2> QED
    BY <1>2, <1>3, <2>1, <2>2, <2>3, <2>4
       DEF Grounds, FirstIsSafe, Record, Observed, OfAttempt
<1> QED BY <1>1, <1>2, <1>3, <1>4, <1>5, WriteKeeps

LEMMA SyncReceiptKeeps ==
  ASSUME Inv, NEW p \in Proc, SyncReceipt(p)
  PROVE  Inv'
<1>1. /\ proc[p].pc = "attesting" /\ proc[p].direct \in BOOLEAN
      /\ SyncRun /\ seen' = seen /\ faults' = faults
      /\ Proceed(p, proc[p].direct)
  BY DEF SyncReceipt, Inv, TypeOK, Process
<1>2. /\ SyncStep /\ safe'.receipt = seen.receipt /\ safe'.observed = safe.observed
  BY <1>1, SyncRunIs
<1>3. /\ proc[p].attempt \in seen.event
      /\ Observed(proc[p].attempt) \subseteq safe'.observed
  BY <1>1, <1>2 DEF Inv, Grounds
<1> QED BY <1>1, <1>2, <1>3, ProceedKeeps

LEMMA DiesKeeps ==
  ASSUME Inv, NEW p \in Proc, Dies(p)
  PROVE  Inv'
<1> DEFINE next == [proc[p] EXCEPT !.pc = "idle"]
<1>1. /\ proc[p].pc # "idle" /\ Fault /\ Quit(p)
      /\ seen' = seen /\ safe' = safe /\ returned' = returned
  BY DEF Dies
<1>2. /\ next \in Process /\ next.attempt = proc[p].attempt
      /\ proc' = [proc EXCEPT ![p] = next] /\ proc'[p].pc = "idle"
  BY <1>1 DEF Inv, TypeOK, Process, Quit, Goto
<1> QED BY <1>1, <1>2, Faulty, NoSync, QuitGrounds, GoOn

LEMMA InvNext == Inv /\ [Next]_vars => Inv'
<1> SUFFICES ASSUME Inv, [Next]_vars PROVE Inv'
  OBVIOUS
<1>1. CASE UNCHANGED vars
  BY <1>1 DEF vars, Inv, TypeOK, SafeIsSeen, OneEvent, OneHolder, CommittedSafe,
     ChainIsMonotone, ReceiptsAreBacked, ReturnedIsDurable, Grounds, OnlyFirst,
     FirstIsSafe, Observed, OfAttempt, RecordOf, Record, IsCommitted
<1>2. CASE PowerLoss
  BY <1>2, PowerLossKeeps
<1>3. ASSUME NEW p \in Proc, NEW a \in Attempt, Begin(p, a) PROVE Inv'
  BY <1>3, BeginKeeps
<1>4. ASSUME NEW p \in Proc, Step(p) PROVE Inv'
  BY <1>4, ReadKeeps, PublishEventKeeps, SyncEventKeeps, ClassifyKeeps, AdoptKeeps,
     RecoverKeeps, ObserveKeeps, SyncObservationKeeps, AttestKeeps, SyncReceiptKeeps
     DEF Step
<1>5. ASSUME NEW p \in Proc, Dies(p) PROVE Inv'
  BY <1>5, DiesKeeps
<1> QED BY <1>1, <1>2, <1>3, <1>4, <1>5 DEF Next

----------------------------------------------------------------------------
(* The theorems.                                                           *)

THEOREM Invariant == Spec => []Inv
<1>1. Init => Inv BY InvInit
<1>2. Inv /\ [Next]_vars => Inv' BY InvNext
<1> QED BY <1>1, <1>2, PTL DEF Spec, SafetySpec

\* A committed observation is only written of an event that survives a loss of
\* power, so that no two attempts are ever committed for one event
\* (classify_publication_outcome, reconcile_runtime_event_publication).
THEOREM CommittedEvents == Spec => []CommittedIsDurable
<1>1. Inv => CommittedIsDurable
  <2> SUFFICES ASSUME Inv, NEW a \in Attempt, IsCommitted(a, seen.observed)
               PROVE  a \in safe.event /\ seen.event = {a}
    BY DEF CommittedIsDurable
  <2>1. PICK i \in Sequence : Record(a, i, "committed") \in seen.observed
    BY DEF IsCommitted
  <2>2. a \in safe.event BY <2>1 DEF Inv, CommittedSafe, Record
  <2> QED BY <2>2 DEF Inv, SafeIsSeen, OneEvent
<1> QED BY <1>1, Invariant, PTL

\* The records of an attempt are one monotone chain, whatever was lost or
\* written again (validate_publication_receipt_chain).
THEOREM MonotoneChain == Spec => []ChainIsMonotone
<1>1. Inv => ChainIsMonotone BY DEF Inv
<1> QED BY <1>1, Invariant, PTL

\* A receipt never outlives its observation, and a second one never its first
\* (spool_publication_outcome before the receipt).
THEOREM BackedReceipts == Spec => []ReceiptsAreBacked
<1>1. Inv => ReceiptsAreBacked BY DEF Inv
<1> QED BY <1>1, Invariant, PTL

\* What the command reports as committed is there after any loss of power.
THEOREM DurableReturns == Spec => []ReturnedIsDurable
<1>1. Inv => ReturnedIsDurable BY DEF Inv
<1> QED BY <1>1, Invariant, PTL

=============================================================================
