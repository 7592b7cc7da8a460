------------------------- MODULE SpoolArchiveProofs -------------------------
(***************************************************************************)
(* What the branch keeps and certifies, for any number of hosts, events,   *)
(* projections, faults and retries.  The argument follows the order        *)
(* `Below' of checkpoints: every commit of the branch is below the next,   *)
(* the commit a clone forks from is below its head, and its head is below  *)
(* its work tree; a rebase keeps both sides below the result.              *)
(***************************************************************************)
EXTENDS SpoolArchive, TLAPS

\* t has all that s has published.
Below(s, t) == s.proj \subseteq t.proj /\ s.index \subseteq t.index

\* The order of the commits of the branch, the heads and the work trees.
ForkKnown == \A h \in Host : head[h].at \in 0..Len(log)
TipIsLast == \A i \in 0..Len(log) : Below(LogAt(i), Tip)
HeadExtends == \A h \in Host : Below(LogAt(head[h].at), head[h].tree)
WorkExtends == \A h \in Host : Below(head[h].tree, work[h])
SameUnlessAhead ==
  \A h \in Host : ~head[h].ahead => head[h].tree = LogAt(head[h].at)
RunIsCommitted == \A h \in Host : run[h].pc # "idle" => work[h] = head[h].tree

OrderInv ==
  /\ TypeOK
  /\ ForkKnown /\ TipIsLast /\ HeadExtends /\ WorkExtends
  /\ SameUnlessAhead /\ RunIsCommitted

----------------------------------------------------------------------------
(* Checkpoints.                                                            *)

LEMMA BlankTyped == Blank \in Checkpoint
BY DEF Blank, Checkpoint

LEMMA LogAtTyped ==
  ASSUME log \in Seq(Checkpoint), NEW i \in 0..Len(log)
  PROVE  LogAt(i) \in Checkpoint
BY BlankTyped DEF LogAt

LEMMA TipTyped ==
  ASSUME log \in Seq(Checkpoint)
  PROVE  Tip \in Checkpoint /\ Len(log) \in Nat /\ Tip = LogAt(Len(log))
BY LogAtTyped DEF Tip

\* What a push appends to the branch is its tip, and the commits before it
\* stay where they are.
LEMMA Appended ==
  ASSUME log \in Seq(Checkpoint), NEW t \in Checkpoint, log' = Append(log, t)
  PROVE  /\ log' \in Seq(Checkpoint) /\ Len(log') = Len(log) + 1
         /\ Len(log) \in Nat
         /\ log'[Len(log) + 1] = t
         /\ \A i \in 1..Len(log) : log'[i] = log[i]
         /\ Tip' = t
<1>1. /\ log' \in Seq(Checkpoint) /\ Len(log') = Len(log) + 1
      /\ Len(log) \in Nat
  OBVIOUS
<1>2. log'[Len(log) + 1] = t
  OBVIOUS
<1>3. \A i \in 1..Len(log) : log'[i] = log[i]
  OBVIOUS
<1>4. Tip' = t BY <1>1, <1>2 DEF Tip, LogAt
<1> QED BY <1>1, <1>2, <1>3, <1>4

\* An ingest adds to the work tree.
LEMMA WrittenExtends ==
  ASSUME NEW t \in Checkpoint, NEW rows \in SUBSET Row, NEW n \in 1..3
  PROVE  Written(t, rows, n) \in Checkpoint /\ Below(t, Written(t, rows, n))
BY DEF Written, Checkpoint, Below, Row

LEMMA IngestedExtends ==
  ASSUME TypeOK, NEW h \in Host, NEW f \in Projection
  PROVE  Ingested(h, f) \in Checkpoint /\ Below(work[h], Ingested(h, f))
<1>1. work[h] \in Checkpoint BY DEF TypeOK
<1>2. Accepted(h) \X {f} \in SUBSET Row BY DEF TypeOK, Accepted, Row
<1> QED BY <1>1, <1>2, WrittenExtends DEF Ingested, Below

\* A rebase keeps what either side has added to their common commit.
LEMMA RebasedExtends ==
  ASSUME NEW base \in Checkpoint, NEW theirs \in Checkpoint,
         NEW mine \in Checkpoint, Below(base, theirs), Below(base, mine)
  PROVE  /\ Rebased(base, theirs, mine) \in Checkpoint
         /\ Below(theirs, Rebased(base, theirs, mine))
         /\ Below(mine, Rebased(base, theirs, mine))
<1>1. \A b, t, m \in SUBSET Row : b \subseteq t /\ b \subseteq m =>
        Merged(b, t, m) \in SUBSET Row /\ t \subseteq Merged(b, t, m) /\ m \subseteq Merged(b, t, m)
  BY DEF Merged
<1> QED BY <1>1 DEF Rebased, Below, Checkpoint

----------------------------------------------------------------------------
(* Every step keeps the order.                                             *)

LEMMA OrderInvInit == Init => OrderInv
<1> SUFFICES ASSUME Init PROVE OrderInv
  OBVIOUS
<1>1. TypeOK
  BY BlankTyped, ArchiveAssumption
     DEF Init, TypeOK, CloneHead, Run, Idle
<1>2. Tip = Blank /\ Len(log) = 0 /\ LogAt(0) = Blank
  BY DEF Init, Tip, LogAt
<1> QED
  BY <1>1, <1>2 DEF Init, OrderInv, ForkKnown, TipIsLast, HeadExtends,
     WorkExtends, SameUnlessAhead, RunIsCommitted, Below, Idle

\* What a command does to the head and the work tree of h when it commits a
\* tree that is the work tree's, or above it.
LEMMA PublishKeeps ==
  ASSUME OrderInv, NEW h \in Host, NEW t \in Checkpoint, NEW s \in SUBSET Event,
         Below(work[h], t), Publish(h, t, s), work' = [work EXCEPT ![h] = t],
         UNCHANGED <<written, spool, jammed, log, others, faults, torn>>
  PROVE  OrderInv'
<1> USE DEF OrderInv
<1>0. head' \in [Host -> CloneHead] /\ head'[h].tree = t /\ head'[h].at = head[h].at
  BY DEF TypeOK, Publish, CloneHead
<1>a. run' \in [Host -> Run]
  BY ArchiveAssumption DEF TypeOK, Publish, Run
<1>b. work' \in [Host -> Checkpoint]
  BY DEF TypeOK
<1>1. TypeOK'
  BY <1>0, <1>a, <1>b DEF TypeOK
<1>2. Tip' = Tip /\ Len(log') = Len(log)
  BY DEF Tip, LogAt
<1>3. ForkKnown' /\ TipIsLast'
  BY <1>2 DEF TypeOK, Publish, ForkKnown, TipIsLast, CloneHead, LogAt
<1>3a. \A g \in Host : g # h => head'[g] = head[g] /\ work'[g] = work[g]
  BY DEF TypeOK, Publish
<1>3b. work'[h] = t /\ \A i : LogAt(i)' = LogAt(i)
  BY DEF TypeOK, LogAt
<1>4. HeadExtends' /\ WorkExtends'
  <2> SUFFICES ASSUME NEW g \in Host
               PROVE  /\ Below(LogAt(head'[g].at), head'[g].tree)
                      /\ Below(head'[g].tree, work'[g])
    BY <1>3b DEF HeadExtends, WorkExtends
  <2>1. Below(LogAt(head[g].at), head[g].tree) /\ Below(head[g].tree, work[g])
    BY DEF HeadExtends, WorkExtends
  <2>2. CASE g = h BY <1>0, <1>3b, <2>1, <2>2 DEF Below
  <2>3. CASE g # h BY <1>3a, <2>1, <2>3
  <2> QED BY <2>2, <2>3
<1>5. SameUnlessAhead' /\ RunIsCommitted'
  BY DEF TypeOK, Publish, SameUnlessAhead, RunIsCommitted, CloneHead, LogAt
<1> QED BY <1>1, <1>3, <1>4, <1>5

\* A command goes on, tries again or ends.
LEMMA RunGoesOn ==
  ASSUME TypeOK, NEW h \in Host, run[h].pc # "idle",
         End(h) \/ Goto(h, "push") \/ Goto(h, "readback") \/ Retry(h)
  PROVE  /\ run' \in [Host -> Run]
         /\ \A g \in Host : run'[g].pc # "idle" => run[g].pc # "idle"
<1>1. Idle \in Run /\ Idle.pc = "idle"
  BY ArchiveAssumption DEF Idle, Run
<1>2. run[h] \in Run
  BY DEF TypeOK
<1>3. run[h].tries \in Nat /\ RetryLimit \in Nat
  BY <1>2, ArchiveAssumption DEF Run
<1>4. \E r \in Run : run' = [run EXCEPT ![h] = r]
  <2>1. CASE End(h) BY <1>1, <2>1 DEF End
  <2>2. CASE Goto(h, "push")
    <3>1. [run[h] EXCEPT !.pc = "push"] \in Run BY <1>2 DEF Run
    <3> QED BY <2>2, <3>1 DEF Goto
  <2>3. CASE Goto(h, "readback")
    <3>1. [run[h] EXCEPT !.pc = "readback"] \in Run BY <1>2 DEF Run
    <3> QED BY <2>3, <3>1 DEF Goto
  <2>4. CASE Retry(h)
    <3>1. ASSUME run[h].tries + 1 < RetryLimit,
                 run' = [run EXCEPT ![h].pc = "compare", ![h].tries = run[h].tries + 1]
          PROVE  \E r \in Run : run' = [run EXCEPT ![h] = r]
      <4>1. run[h].tries + 1 \in 0..RetryLimit - 1 BY <1>3, <3>1
      <4>2. [run[h] EXCEPT !.pc = "compare", !.tries = run[h].tries + 1] \in Run
        BY <1>2, <4>1 DEF Run
      <4>3. run' = [run EXCEPT ![h] =
              [run[h] EXCEPT !.pc = "compare", !.tries = run[h].tries + 1]]
        BY <3>1 DEF TypeOK
      <4> QED BY <4>2, <4>3
    <3>2. CASE End(h)
      BY <1>1, <3>2 DEF End
    <3> QED BY <2>4, <3>1, <3>2 DEF Retry
  <2> QED BY <2>1, <2>2, <2>3, <2>4
<1> QED BY <1>4 DEF TypeOK

\* A rebase.
LEMMA CompareKeeps ==
  ASSUME OrderInv, NEW h \in Host, Compare(h)
  PROVE  OrderInv'
<1> USE DEF OrderInv
<1> DEFINE base == LogAt(head[h].at)
           mine == head[h].tree
           next == IF head[h].ahead THEN Rebased(base, Tip, mine) ELSE Tip
<1>0. /\ UNCHANGED <<written, spool, jammed, log, others, faults, torn>>
      /\ Tip' = Tip /\ Len(log') = Len(log)
      /\ Tip \in Checkpoint /\ Len(log) \in Nat /\ Tip = LogAt(Len(log))
      /\ base \in Checkpoint /\ mine \in Checkpoint
      /\ Below(base, Tip) /\ Below(base, mine)
  BY TipTyped, LogAtTyped
     DEF Compare, TypeOK, ForkKnown, TipIsLast, HeadExtends, CloneHead, Tip, LogAt
<1>1. run' \in [Host -> Run] /\ \A g \in Host : run'[g].pc # "idle" => run[g].pc # "idle"
  <2>1. run[h].pc # "idle" /\ (Goto(h, "push") \/ End(h)) BY DEF Compare
  <2> QED BY <2>1, RunGoesOn
<1>2. CASE UNCHANGED <<head, work>>
  <2>1. TypeOK' BY <1>0, <1>1, <1>2 DEF TypeOK
  <2>2. ForkKnown' /\ TipIsLast' /\ HeadExtends' /\ WorkExtends' /\ SameUnlessAhead'
    BY <1>0, <1>2 DEF ForkKnown, TipIsLast, HeadExtends, WorkExtends,
       SameUnlessAhead, LogAt
  <2>3. RunIsCommitted' BY <1>1, <1>2 DEF RunIsCommitted
  <2> QED BY <2>1, <2>2, <2>3
<1>3. CASE /\ head' = [head EXCEPT ![h] = [at |-> Len(log),
                         ahead |-> head[h].ahead /\ next # Tip, tree |-> next]]
           /\ work' = [work EXCEPT ![h] = next]
  <2>1. next \in Checkpoint /\ Below(Tip, next)
    BY <1>0, RebasedExtends DEF Below
  <2>2. head' \in [Host -> CloneHead] /\ work' \in [Host -> Checkpoint]
    BY <1>0, <1>3, <2>1 DEF TypeOK, CloneHead
  <2>3. TypeOK' BY <1>0, <1>1, <2>2 DEF TypeOK
  <2>4. ForkKnown' /\ TipIsLast'
    BY <1>0, <1>3 DEF TypeOK, ForkKnown, TipIsLast, LogAt
  <2>5. head'[h].tree = next /\ head'[h].at = Len(log) /\ work'[h] = next
    BY <1>3 DEF TypeOK
  <2>6. \A g \in Host \ {h} : head'[g] = head[g] /\ work'[g] = work[g]
    BY <1>3 DEF TypeOK
  <2>7. HeadExtends' /\ WorkExtends'
    BY <1>0, <2>1, <2>5, <2>6 DEF HeadExtends, WorkExtends, LogAt, Below
  <2>8. ~head'[h].ahead => next = Tip
    BY <1>3 DEF TypeOK
  <2>9. SameUnlessAhead'
    BY <1>0, <2>5, <2>6, <2>8 DEF SameUnlessAhead, LogAt
  <2>10. RunIsCommitted'
    BY <1>1, <2>5, <2>6 DEF RunIsCommitted
  <2> QED BY <2>3, <2>4, <2>7, <2>9, <2>10
<1> QED BY <1>2, <1>3 DEF Compare

\* The branch moves to the head of h.
LEMMA LandKeeps ==
  ASSUME OrderInv, NEW h \in Host, MayLand(h), Land(h),
         UNCHANGED <<written, spool, work, jammed, others, torn>>,
         faults' \in 0..MaxFaults, run' \in [Host -> Run],
         \A g \in Host : run'[g].pc # "idle" => run[g].pc # "idle"
  PROVE  OrderInv' /\ Below(Tip, Tip')
<1> USE DEF OrderInv
<1>0. /\ Tip \in Checkpoint /\ Len(log) \in Nat /\ Tip = LogAt(Len(log))
      /\ head[h].tree \in Checkpoint /\ head[h].at = Len(log)
      /\ Below(Tip, head[h].tree)
  BY TipTyped DEF TypeOK, HeadExtends, MayLand, Behind, CloneHead
<1>1. /\ head' \in [Host -> CloneHead]
      /\ head'[h].tree = head[h].tree /\ head'[h].at = Len(log') /\ ~head'[h].ahead
      /\ \A g \in Host \ {h} : head'[g] = head[g]
  <2>1. Len(log') \in Nat BY <1>0, Appended DEF Land, TypeOK
  <2> QED BY <2>1 DEF Land, TypeOK, CloneHead
<1>2. /\ log' \in Seq(Checkpoint) /\ Len(log') \in Nat /\ Len(log) <= Len(log')
      /\ \A i \in 1..Len(log) : log'[i] = log[i]
      /\ Tip' = head[h].tree
      /\ \A i \in 0..Len(log') : i \in 0..Len(log) \/ i = Len(log')
  <2>1. CASE head[h].ahead
    <3>1. log' = Append(log, head[h].tree) BY <2>1 DEF Land
    <3> QED BY <1>0, <3>1, Appended DEF TypeOK
  <2>2. CASE ~head[h].ahead
    <3>1. log' = log BY <2>2 DEF Land
    <3>2. Tip' = Tip BY <3>1 DEF Tip, LogAt
    <3>3. Tip = head[h].tree BY <1>0, <2>2 DEF SameUnlessAhead
    <3> QED BY <1>0, <3>1, <3>2, <3>3 DEF TypeOK
  <2> QED BY <2>1, <2>2
<1>3. TypeOK' BY <1>1, <1>2 DEF TypeOK
<1>4. ForkKnown' BY <1>0, <1>1, <1>2 DEF ForkKnown
<1>5. \A i \in 0..Len(log) : (IF i = 0 THEN Blank ELSE log'[i]) = LogAt(i)
  BY <1>0, <1>2 DEF LogAt
<1>6. Tip' = IF Len(log') = 0 THEN Blank ELSE log'[Len(log')]
  BY DEF Tip, LogAt
<1>7. TipIsLast'
  <2> SUFFICES ASSUME NEW i \in 0..Len(log')
               PROVE  Below(IF i = 0 THEN Blank ELSE log'[i], Tip')
    BY DEF TipIsLast, LogAt
  <2>1. CASE i \in 0..Len(log)
    BY <1>0, <1>2, <1>5, <2>1 DEF TipIsLast, Below
  <2>2. CASE i = Len(log')
    BY <1>6, <2>2 DEF Below
  <2> QED BY <1>2, <2>1, <2>2
<1>8. HeadExtends'
  <2> SUFFICES ASSUME NEW g \in Host
               PROVE  Below(IF head'[g].at = 0 THEN Blank ELSE log'[head'[g].at],
                            head'[g].tree)
    BY DEF HeadExtends, LogAt
  <2>1. CASE g = h
    BY <1>1, <1>2, <1>6, <2>1 DEF Below
  <2>2. CASE g # h
    BY <1>1, <1>5, <2>2 DEF ForkKnown, HeadExtends
  <2> QED BY <2>1, <2>2
<1>9. WorkExtends' BY <1>1 DEF WorkExtends
<1>10. SameUnlessAhead'
  <2> SUFFICES ASSUME NEW g \in Host, ~head'[g].ahead
               PROVE  head'[g].tree = IF head'[g].at = 0 THEN Blank
                                      ELSE log'[head'[g].at]
    BY DEF SameUnlessAhead, LogAt
  <2>1. CASE g = h
    BY <1>1, <1>2, <1>6, <2>1
  <2>2. CASE g # h
    BY <1>1, <1>5, <2>2 DEF ForkKnown, SameUnlessAhead
  <2> QED BY <2>1, <2>2
<1>11. RunIsCommitted' BY <1>1 DEF RunIsCommitted
<1> QED BY <1>0, <1>2, <1>3, <1>4, <1>7, <1>8, <1>9, <1>10, <1>11

\* Another publisher's commit.
LEMMA OtherKeeps ==
  ASSUME OrderInv, OtherPush
  PROVE  OrderInv'
<1> USE DEF OrderInv
<1>1. Tip \in Checkpoint /\ Len(log) \in Nat /\ Tip = LogAt(Len(log))
  BY TipTyped DEF TypeOK
<1>2. /\ log' \in Seq(Checkpoint) /\ Len(log') = Len(log) + 1
      /\ \A i \in 1..Len(log) : log'[i] = log[i]
      /\ log'[Len(log) + 1] = Tip /\ Tip' = Tip
      /\ UNCHANGED <<written, spool, work, head, jammed, run, faults, torn>>
  BY <1>1, Appended DEF OtherPush, TypeOK
<1>3. TypeOK'
  BY <1>2, ArchiveAssumption DEF TypeOK, OtherPush
<1>4. \A i \in 0..Len(log) : (IF i = 0 THEN Blank ELSE log'[i]) = LogAt(i)
  BY <1>1, <1>2 DEF LogAt
<1>5. TipIsLast'
  <2> SUFFICES ASSUME NEW i \in 0..Len(log')
               PROVE  Below(IF i = 0 THEN Blank ELSE log'[i], Tip')
    BY DEF TipIsLast, LogAt
  <2>1. CASE i \in 0..Len(log) BY <1>2, <1>4, <2>1 DEF TipIsLast
  <2>2. CASE i = Len(log) + 1 BY <1>1, <1>2, <2>2 DEF Below
  <2> QED BY <1>1, <1>2, <2>1, <2>2
<1>6. ForkKnown' BY <1>1, <1>2 DEF ForkKnown
<1>7. HeadExtends' /\ SameUnlessAhead'
  BY <1>2, <1>4 DEF HeadExtends, SameUnlessAhead, ForkKnown, LogAt
<1>8. WorkExtends' /\ RunIsCommitted' BY <1>2 DEF WorkExtends, RunIsCommitted
<1> QED BY <1>3, <1>5, <1>6, <1>7, <1>8

\* What changes none of the checkpoints.
LEMMA QuietKeeps ==
  ASSUME OrderInv, TypeOK', UNCHANGED <<work, head, log>>,
         \A g \in Host : run'[g].pc # "idle" => run[g].pc # "idle"
  PROVE  OrderInv'
BY DEF OrderInv, ForkKnown, TipIsLast, HeadExtends, WorkExtends,
   SameUnlessAhead, RunIsCommitted, LogAt, Tip

\* An ingest that is not committed.
LEMMA IngestKeeps ==
  ASSUME OrderInv, TypeOK', NEW h \in Host, NEW t \in Checkpoint,
         Below(work[h], t), run[h].pc = "idle",
         work' = [work EXCEPT ![h] = t], UNCHANGED <<head, log, run>>
  PROVE  OrderInv'
<1> USE DEF OrderInv
<1>1. ForkKnown' /\ TipIsLast' /\ HeadExtends' /\ SameUnlessAhead'
  BY DEF ForkKnown, TipIsLast, HeadExtends, SameUnlessAhead, LogAt, Tip
<1>2. WorkExtends' /\ RunIsCommitted'
  BY DEF TypeOK, WorkExtends, RunIsCommitted, Below
<1> QED BY <1>1, <1>2

LEMMA OrderInvNext == OrderInv /\ [Next]_vars => OrderInv'
<1> SUFFICES ASSUME OrderInv, [Next]_vars PROVE OrderInv'
  OBVIOUS
<1>0. TypeOK BY DEF OrderInv
<1>1. CASE UNCHANGED vars
  BY <1>1, QuietKeeps, <1>0 DEF vars, TypeOK
<1>2. CASE OtherPush
  BY <1>2, OtherKeeps
<1>3. ASSUME NEW h \in Host, NEW e \in Event, Hook(h, e) PROVE OrderInv'
  <2>1. TypeOK' BY <1>0, <1>3 DEF Hook, TypeOK
  <2> QED BY <1>3, <2>1, QuietKeeps DEF Hook
<1>4. ASSUME NEW h \in Host, Sync(h) PROVE OrderInv'
  <2>1. PICK f \in Projection :
          /\ work' = [work EXCEPT ![h] = Ingested(h, f)]
          /\ Publish(h, Ingested(h, f), spool[h])
    BY <1>4 DEF Sync
  <2>2. spool[h] \in SUBSET Event BY <1>0 DEF TypeOK
  <2> QED BY <1>0, <1>4, <2>1, <2>2, IngestedExtends, PublishKeeps DEF Sync
<1>5. ASSUME NEW h \in Host, PushCommand(h) PROVE OrderInv'
  <2>1. work[h] \in Checkpoint /\ work' = [work EXCEPT ![h] = work[h]]
    BY <1>0, <1>5 DEF PushCommand, TypeOK
  <2>2. Below(work[h], work[h]) /\ {} \in SUBSET Event BY DEF Below
  <2>3. /\ Publish(h, work[h], {})
        /\ UNCHANGED <<written, spool, jammed, log, others, faults, torn>>
    BY <1>5 DEF PushCommand
  <2> QED BY <2>1, <2>2, <2>3, PublishKeeps
<1>6. ASSUME NEW h \in Host, SyncWithoutPush(h) PROVE OrderInv'
  <2>1. PICK f \in Projection : work' = [work EXCEPT ![h] = Ingested(h, f)]
    BY <1>6 DEF SyncWithoutPush
  <2>2. Ingested(h, f) \in Checkpoint /\ Below(work[h], Ingested(h, f))
    BY <1>0, IngestedExtends
  <2>3. TypeOK' BY <1>0, <1>6, <2>1, <2>2 DEF SyncWithoutPush, TypeOK
  <2> QED BY <1>6, <2>1, <2>2, <2>3, IngestKeeps DEF SyncWithoutPush, Locks
<1>7. ASSUME NEW h \in Host, IngestIsTorn(h) PROVE OrderInv'
  <2>1. PICK f \in Projection, n \in 1..2 :
          /\ work' = [work EXCEPT ![h] = Written(@, Accepted(h) \X {f}, n)]
          /\ torn' = torn \cup {n}
    BY <1>7 DEF IngestIsTorn
  <2>2. work[h] \in Checkpoint /\ Accepted(h) \X {f} \in SUBSET Row /\ n \in 1..3
    BY <1>0 DEF TypeOK, Accepted, Row
  <2> DEFINE t == Written(work[h], Accepted(h) \X {f}, n)
  <2>3. t \in Checkpoint /\ Below(work[h], t)
    BY <2>2, WrittenExtends
  <2>4. faults' \in 0..MaxFaults
    BY <1>0, <1>7, ArchiveAssumption DEF IngestIsTorn, Fault, TypeOK
  <2>5. TypeOK' BY <1>0, <1>7, <2>1, <2>3, <2>4 DEF IngestIsTorn, TypeOK
  <2> QED BY <1>7, <2>1, <2>3, <2>5, IngestKeeps DEF IngestIsTorn, Locks
<1>8. ASSUME NEW h \in Host, Compare(h) PROVE OrderInv'
  BY <1>8, CompareKeeps
<1>9. ASSUME NEW h \in Host, Push(h) PROVE OrderInv'
  <2>1. /\ run' \in [Host -> Run]
        /\ \A g \in Host : run'[g].pc # "idle" => run[g].pc # "idle"
    BY <1>0, <1>9, RunGoesOn DEF Push
  <2>2. faults' \in 0..MaxFaults BY <1>0, <1>9 DEF Push, TypeOK
  <2>3. CASE MayLand(h) /\ Land(h)
    BY <1>9, <2>1, <2>2, <2>3, LandKeeps DEF Push
  <2>4. CASE UNCHANGED <<log, head>>
    <3>1. TypeOK' BY <1>0, <1>9, <2>1, <2>4 DEF Push, TypeOK
    <3> QED BY <1>9, <2>1, <2>4, <3>1, QuietKeeps DEF Push
  <2> QED BY <1>9, <2>3, <2>4 DEF Push
<1>10. ASSUME NEW h \in Host, PushFails(h) PROVE OrderInv'
  <2>1. /\ run' \in [Host -> Run]
        /\ \A g \in Host : run'[g].pc # "idle" => run[g].pc # "idle"
    BY <1>0, <1>10, RunGoesOn DEF PushFails
  <2>2. faults' \in 0..MaxFaults
    BY <1>0, <1>10, ArchiveAssumption DEF PushFails, Fault, TypeOK
  <2>3. CASE MayLand(h) /\ Land(h)
    BY <1>10, <2>1, <2>2, <2>3, LandKeeps DEF PushFails
  <2>4. CASE UNCHANGED <<log, head>>
    <3>1. TypeOK' BY <1>0, <1>10, <2>1, <2>2, <2>4 DEF PushFails, TypeOK
    <3> QED BY <1>10, <2>1, <2>4, <3>1, QuietKeeps DEF PushFails
  <2> QED BY <1>10, <2>3, <2>4 DEF PushFails
<1>11. ASSUME NEW h \in Host, Finalize(h) PROVE OrderInv'
  <2>1. /\ run' \in [Host -> Run]
        /\ \A g \in Host : run'[g].pc # "idle" => run[g].pc # "idle"
    BY <1>0, <1>11, RunGoesOn DEF Finalize
  <2>2. spool' \in [Host -> SUBSET Event]
    BY <1>0, <1>11 DEF Finalize, TypeOK
  <2>3. TypeOK' BY <1>0, <1>11, <2>1, <2>2 DEF Finalize, TypeOK
  <2> QED BY <1>11, <2>1, <2>3, QuietKeeps DEF Finalize
<1>12. ASSUME NEW h \in Host, FinalizeIsCut(h) PROVE OrderInv'
  <2>1. /\ run' \in [Host -> Run]
        /\ \A g \in Host : run'[g].pc # "idle" => run[g].pc # "idle"
    BY <1>0, <1>12, RunGoesOn DEF FinalizeIsCut
  <2>2. spool' \in [Host -> SUBSET Event]
    BY <1>0, <1>12 DEF FinalizeIsCut, TypeOK
  <2>3. faults' \in 0..MaxFaults
    BY <1>0, <1>12, ArchiveAssumption DEF FinalizeIsCut, Fault, TypeOK
  <2>4. TypeOK' BY <1>0, <1>12, <2>1, <2>2, <2>3 DEF FinalizeIsCut, TypeOK
  <2> QED BY <1>12, <2>1, <2>4, QuietKeeps DEF FinalizeIsCut
<1>13. ASSUME NEW h \in Host, Stops(h) PROVE OrderInv'
  <2>1. /\ run' \in [Host -> Run]
        /\ \A g \in Host : run'[g].pc # "idle" => run[g].pc # "idle"
    BY <1>0, <1>13, RunGoesOn DEF Stops
  <2>2. faults' \in 0..MaxFaults
    BY <1>0, <1>13, ArchiveAssumption DEF Stops, Fault, TypeOK
  <2>3. TypeOK' BY <1>0, <1>13, <2>1, <2>2 DEF Stops, TypeOK
  <2> QED BY <1>13, <2>1, <2>3, QuietKeeps DEF Stops
<1> QED
  BY <1>1, <1>2, <1>3, <1>4, <1>5, <1>6, <1>7, <1>8, <1>9, <1>10, <1>11, <1>12,
     <1>13 DEF Next, Proceed

----------------------------------------------------------------------------
(* The tip of the branch only grows.                                       *)

LEMMA LandTip ==
  ASSUME OrderInv, NEW h \in Host, MayLand(h), Land(h)
  PROVE  Tip' = head[h].tree /\ Below(Tip, Tip')
<1>0. /\ Tip \in Checkpoint /\ Tip = LogAt(Len(log))
      /\ head[h].tree \in Checkpoint /\ Below(Tip, head[h].tree)
      /\ head[h].at = Len(log)
  BY TipTyped DEF OrderInv, TypeOK, HeadExtends, MayLand, Behind, CloneHead
<1>1. CASE head[h].ahead
  <2>1. log' = Append(log, head[h].tree) BY <1>1 DEF Land
  <2> QED BY <1>0, <2>1, Appended DEF OrderInv, TypeOK
<1>2. CASE ~head[h].ahead
  <2>1. Tip' = Tip BY <1>2 DEF Land, Tip, LogAt
  <2> QED BY <1>0, <1>2, <2>1 DEF OrderInv, SameUnlessAhead
<1> QED BY <1>1, <1>2

LEMMA TipGrows == OrderInv /\ [Next]_vars => Below(Tip, Tip')
<1> SUFFICES ASSUME OrderInv, [Next]_vars PROVE Below(Tip, Tip')
  OBVIOUS
<1>1. CASE UNCHANGED log
  <2>1. Tip' = Tip BY <1>1 DEF Tip, LogAt
  <2> QED BY <2>1 DEF Below
<1>2. CASE OtherPush
  <2>1. Tip' = Tip BY <1>2, TipTyped, Appended DEF OtherPush, OrderInv, TypeOK
  <2> QED BY <2>1 DEF Below
<1>3. ASSUME NEW h \in Host, MayLand(h), Land(h) PROVE Below(Tip, Tip')
  BY <1>3, LandTip
<1>4. \/ UNCHANGED log \/ OtherPush
      \/ \E h \in Host : MayLand(h) /\ Land(h)
  BY DEF Next, vars, Proceed, Hook, Sync, SyncWithoutPush, PushCommand, Compare,
     Push, PushFails, Finalize, FinalizeIsCut, IngestIsTorn, Stops
<1> QED BY <1>1, <1>2, <1>3, <1>4

\* The order holds in every state that is reached.
THEOREM OrderInvariant == SafetySpec => []OrderInv
<1>1. Init => OrderInv BY OrderInvInit
<1>2. OrderInv /\ [Next]_vars => OrderInv' BY OrderInvNext
<1> QED BY <1>1, <1>2, PTL DEF SafetySpec

\* What the branch has published stays published: no push and no rebase of any
\* host loses what another has added (_rebase_to_remote, _compare_and_push).
THEOREM HistoryIsKept == SafetySpec => HistoryGrows
<1>1. OrderInv /\ [Next]_vars =>
        [/\ Tip.proj \subseteq Tip'.proj
         /\ Tip.index \subseteq Tip'.index]_vars
  BY TipGrows DEF Below
<1>2. SafetySpec => []OrderInv BY OrderInvariant
<1> QED BY <1>1, <1>2, PTL DEF SafetySpec, HistoryGrows

----------------------------------------------------------------------------
(* The spool: who has an event, and what its absence means.                *)

SpoolInv ==
  /\ \A h \in Host : spool[h] \subseteq written
  /\ \A g, h \in Host : g # h => spool[g] \cap spool[h] = {}
  /\ DeletedIsPublished

LEMMA PublishedGrows ==
  ASSUME NEW s, NEW t, Below(s, t), NEW e, Published(s, e)
  PROVE  Published(t, e)
BY DEF Below, Published

\* Only the events of a snapshot that its readback certifies leave a spool.
LEMMA FinalizePublishes ==
  ASSUME OrderInv, NEW h \in Host, ReadsBack(h), IsCertifiedBy(h),
         NEW e \in run[h].covered
  PROVE  Published(Tip, e)
<1>1. head[h].tree = Tip
  BY DEF ReadsBack, Behind, OrderInv, SameUnlessAhead, Tip
<1> QED BY <1>1 DEF IsCertifiedBy

LEMMA SpoolInvNext == OrderInv /\ SpoolInv /\ [Next]_vars => SpoolInv'
<1> SUFFICES ASSUME OrderInv, SpoolInv, [Next]_vars PROVE SpoolInv'
  OBVIOUS
<1>0. /\ \A e : Published(Tip, e) => Published(Tip, e)'
      /\ spool \in [Host -> SUBSET Event] /\ written \subseteq Event
  <2>1. Below(Tip, Tip') BY TipGrows
  <2> QED BY <2>1 DEF Below, Published, OrderInv, TypeOK
<1>1. CASE UNCHANGED <<spool, written>>
  BY <1>0, <1>1 DEF SpoolInv, DeletedIsPublished
<1>2. ASSUME NEW h \in Host, NEW e \in Event, Hook(h, e) PROVE SpoolInv'
  <2>1. /\ written' = written \cup {e} /\ e \notin written
        /\ spool'[h] = spool[h] \cup {e}
        /\ \A g \in Host \ {h} : spool'[g] = spool[g]
    BY <1>0, <1>2 DEF Hook
  <2>2. DeletedIsPublished'
    BY <1>0, <2>1 DEF SpoolInv, DeletedIsPublished
  <2> QED BY <2>1, <2>2 DEF SpoolInv
<1>3. ASSUME NEW h \in Host, written' = written,
             NEW gone \in SUBSET Event, spool' = [spool EXCEPT ![h] = @ \ gone],
             \A e \in gone : Published(Tip, e)
      PROVE  SpoolInv'
  <2>1. /\ spool'[h] = spool[h] \ gone
        /\ \A g \in Host \ {h} : spool'[g] = spool[g]
    BY <1>0, <1>3
  <2>2. DeletedIsPublished'
    BY <1>0, <1>3, <2>1 DEF SpoolInv, DeletedIsPublished
  <2> QED BY <1>3, <2>1, <2>2 DEF SpoolInv
<1>4. ASSUME NEW h \in Host, Finalize(h) PROVE SpoolInv'
  <2>1. run[h].covered \in SUBSET Event BY DEF OrderInv, TypeOK, Run
  <2>2. CASE ReadsBack(h) /\ IsCertifiedBy(h)
    <3>1. \A e \in run[h].covered : Published(Tip, e) BY <2>2, FinalizePublishes
    <3>2. spool' = [spool EXCEPT ![h] = @ \ run[h].covered] /\ written' = written
      BY <1>4, <2>2 DEF Finalize
    <3> QED BY <1>3, <2>1, <3>1, <3>2
  <2>3. CASE ~(ReadsBack(h) /\ IsCertifiedBy(h))
    BY <1>1, <1>4, <2>3 DEF Finalize
  <2> QED BY <2>2, <2>3
<1>5. ASSUME NEW h \in Host, FinalizeIsCut(h) PROVE SpoolInv'
  <2>1. PICK gone \in SUBSET run[h].covered : spool' = [spool EXCEPT ![h] = @ \ gone]
    BY <1>5 DEF FinalizeIsCut
  <2>2. gone \in SUBSET Event BY DEF OrderInv, TypeOK, Run
  <2>3. \A e \in gone : Published(Tip, e)
    BY <1>5, FinalizePublishes DEF FinalizeIsCut
  <2>4. written' = written BY <1>5 DEF FinalizeIsCut
  <2> QED BY <1>3, <2>1, <2>2, <2>3, <2>4
<1>6. \/ UNCHANGED <<spool, written>>
      \/ \E h \in Host : \/ \E e \in Event : Hook(h, e)
                         \/ Finalize(h) \/ FinalizeIsCut(h)
  BY DEF Next, vars, Proceed, OtherPush, Sync, SyncWithoutPush, PushCommand,
     Compare, Push, PushFails, IngestIsTorn, Stops
<1> QED BY <1>1, <1>2, <1>4, <1>5, <1>6

\* An event whose spool file is gone is on the branch, whatever was killed,
\* failed or repeated in between (finalize_hook_spool_readback).
THEOREM NothingIsLost == SafetySpec => []DeletedIsPublished
<1>1. Init => SpoolInv
  BY DEF Init, SpoolInv, DeletedIsPublished
<1>2. OrderInv /\ SpoolInv /\ [Next]_vars => SpoolInv' BY SpoolInvNext
<1>3. SpoolInv => DeletedIsPublished BY DEF SpoolInv
<1>4. SafetySpec => []OrderInv BY OrderInvariant
<1>5. SafetySpec => []SpoolInv BY <1>1, <1>2, <1>4, PTL DEF SafetySpec
<1> QED BY <1>3, <1>5, PTL

----------------------------------------------------------------------------
(* Where new checkpoints come from: an ingest, or a rebase.                *)

Trees == {work[h] : h \in Host} \cup {head[h].tree : h \in Host}
           \cup {LogAt(i) : i \in 0..Len(log)}

\* The work tree of h gets the first n writes of an ingest into f.
IngestStep(h, f, n) ==
  /\ Certified(work[h])
  /\ work' = [work EXCEPT ![h] = Written(@, Accepted(h) \X {f}, n)]
  /\ Trees' \subseteq Trees \cup {work'[h]}
  /\ UNCHANGED <<spool, written>>
  /\ n \in 1..2 => torn' = torn \cup {n}
  /\ n = 3 => torn' = torn

\* The commits of h are rebased onto the tip.
RebaseStep(h) ==
  /\ ~Conflict(LogAt(head[h].at), Tip, head[h].tree)
  /\ work' = [work EXCEPT ![h] = Rebased(LogAt(head[h].at), Tip, head[h].tree)]
  /\ Trees' \subseteq Trees \cup {work'[h]}
  /\ Below(work[h], work'[h])
  /\ UNCHANGED <<spool, written, torn>>

\* No new checkpoint, and no work tree loses anything.
OldStep ==
  /\ Trees' \subseteq Trees
  /\ \A h \in Host : Below(work[h], work'[h])
  /\ UNCHANGED torn
  /\ written \subseteq written'
  /\ \A h \in Host : \A e \in spool'[h] : e \in spool[h] \/ e \notin written

LEMMA TreesOf ==
  ASSUME OrderInv
  PROVE  /\ \A h \in Host : work[h] \in Trees /\ head[h].tree \in Trees
         /\ \A h \in Host : LogAt(head[h].at) \in Trees
         /\ Tip \in Trees /\ Trees \subseteq Checkpoint
<1>1. Tip \in Trees BY TipTyped DEF OrderInv, TypeOK, Trees
<1>2. \A h \in Host : LogAt(head[h].at) \in Trees
  BY DEF OrderInv, ForkKnown, Trees
<1>3. Trees \subseteq Checkpoint
  BY LogAtTyped DEF Trees, OrderInv, TypeOK, CloneHead
<1> QED BY <1>1, <1>2, <1>3 DEF Trees

\* What the trees are after a step.
LEMMA TreesAfter ==
  ASSUME NEW t \in Trees'
  PROVE  \/ \E h \in Host : t = work'[h]
         \/ \E h \in Host : t = head'[h].tree
         \/ \E i \in 0..Len(log') : t = IF i = 0 THEN Blank ELSE log'[i]
BY DEF Trees, LogAt

LEMMA OldLog ==
  ASSUME OrderInv, NEW i \in 0..Len(log)
  PROVE  (IF i = 0 THEN Blank ELSE log[i]) \in Trees
BY DEF Trees, LogAt

\* Landing or another publisher's commit only adds a tree that is there.
LEMMA LandTrees ==
  ASSUME OrderInv, NEW t \in Trees, log' = Append(log, t),
         \A h \in Host : work'[h] = work[h] /\ head'[h].tree = head[h].tree
  PROVE  Trees' \subseteq Trees
<1> SUFFICES ASSUME NEW u \in Trees' PROVE u \in Trees
  OBVIOUS
<1>1. t \in Checkpoint /\ log \in Seq(Checkpoint)
  BY TreesOf DEF OrderInv, TypeOK
<1>2. /\ Len(log') = Len(log) + 1 /\ Len(log) \in Nat
      /\ log'[Len(log) + 1] = t
      /\ \A i \in 1..Len(log) : log'[i] = log[i]
  BY <1>1, Appended
<1>3. CASE \E h \in Host : u = work'[h] \/ u = head'[h].tree
  BY <1>3, TreesOf
<1>4. CASE \E i \in 0..Len(log') : u = IF i = 0 THEN Blank ELSE log'[i]
  <2>1. PICK i \in 0..Len(log') : u = IF i = 0 THEN Blank ELSE log'[i]
    BY <1>4
  <2>2. CASE i = Len(log) + 1 BY <1>2, <2>1, <2>2
  <2>3. CASE i \in 0..Len(log) BY <1>2, <2>1, <2>3, OldLog
  <2> QED BY <1>2, <2>2, <2>3
<1> QED BY <1>3, <1>4, TreesAfter

\* A step of h that leaves the branch alone adds its two trees at most.
LEMMA LocalTrees ==
  ASSUME OrderInv, NEW h \in Host, log' = log,
         \A g \in Host \ {h} : work'[g] = work[g] /\ head'[g] = head[g]
  PROVE  Trees' \subseteq Trees \cup {work'[h], head'[h].tree}
<1> SUFFICES ASSUME NEW u \in Trees' PROVE u \in Trees \cup {work'[h], head'[h].tree}
  OBVIOUS
<1>1. CASE \E g \in Host : u = work'[g] \/ u = head'[g].tree
  BY <1>1, TreesOf
<1>2. CASE \E i \in 0..Len(log) : u = IF i = 0 THEN Blank ELSE log[i]
  BY <1>2, OldLog
<1> QED BY <1>1, <1>2, TreesAfter

LEMMA StepKinds ==
  ASSUME OrderInv, [Next]_vars
  PROVE  \/ OldStep
         \/ \E h \in Host, f \in Projection, n \in 1..3 : IngestStep(h, f, n)
         \/ \E h \in Host : RebaseStep(h)
<1>0. TypeOK BY DEF OrderInv
<1>a. \A h \in Host : Below(work[h], work[h]) BY DEF Below
<1>1. ASSUME work' = work, head' = head, log' = log, torn' = torn,
             written \subseteq written',
             \A h \in Host : \A e \in spool'[h] : e \in spool[h] \/ e \notin written
      PROVE  OldStep
  <2>1. Trees' = Trees BY <1>1 DEF Trees, LogAt
  <2> QED BY <1>1, <1>a, <2>1 DEF OldStep
<1>b. ASSUME UNCHANGED <<work, head, log, torn, written, spool>> PROVE OldStep
  <2>1. \A h \in Host : \A e \in spool'[h] : e \in spool[h] BY <1>b
  <2> QED BY <1>1, <1>b, <2>1
<1>2. ASSUME NEW h \in Host, NEW e \in Event, Hook(h, e) PROVE OldStep
  <2>1. /\ spool'[h] = spool[h] \cup {e} /\ e \notin written
        /\ \A g \in Host \ {h} : spool'[g] = spool[g]
        /\ written \subseteq written' /\ UNCHANGED <<work, head, log, torn>>
    BY <1>0, <1>2 DEF Hook, TypeOK
  <2>2. \A g \in Host : \A d \in spool'[g] : d \in spool[g] \/ d \notin written
    BY <2>1
  <2> QED BY <1>1, <2>1, <2>2
<1>3. CASE OtherPush
  <2>1. Trees' \subseteq Trees BY <1>3, TreesOf, LandTrees DEF OtherPush
  <2> QED BY <1>3, <1>a, <2>1 DEF OtherPush, OldStep
<1>4. ASSUME NEW h \in Host, MayLand(h), Land(h),
             UNCHANGED <<written, spool, work, torn>>
      PROVE  OldStep
  <2>1. \A g \in Host : head'[g].tree = head[g].tree
    BY <1>0, <1>4 DEF Land, TypeOK, CloneHead
  <2>2. CASE head[h].ahead
    <3>1. log' = Append(log, head[h].tree) BY <1>4, <2>2 DEF Land
    <3>2. Trees' \subseteq Trees BY <1>4, <2>1, <3>1, TreesOf, LandTrees
    <3> QED BY <1>4, <1>a, <3>2 DEF OldStep
  <2>3. CASE ~head[h].ahead
    <3>1. log' = log BY <1>4, <2>3 DEF Land
    <3>2. Trees' \subseteq Trees
      BY <1>4, <2>1, <3>1, TreesAfter, TreesOf, OldLog
    <3> QED BY <1>4, <1>a, <3>2 DEF OldStep
  <2> QED BY <2>2, <2>3
<1>5. ASSUME NEW h \in Host, PushCommand(h) PROVE OldStep
  <2>1. /\ head'[h].tree = work[h] /\ \A g \in Host \ {h} : head'[g] = head[g]
        /\ UNCHANGED <<work, log, torn, written, spool>>
    BY <1>0, <1>5 DEF PushCommand, Publish, TypeOK, CloneHead
  <2>2. Trees' \subseteq Trees BY <2>1, LocalTrees, TreesOf
  <2> QED BY <1>a, <2>1, <2>2 DEF OldStep
<1>6. ASSUME NEW h \in Host, NEW f \in Projection, Locks(h), Certified(work[h]),
             work' = [work EXCEPT ![h] = Ingested(h, f)],
             head'[h].tree \in {head[h].tree, Ingested(h, f)},
             \A g \in Host \ {h} : head'[g] = head[g],
             UNCHANGED <<written, spool, log, torn>>
      PROVE  OldStep \/ IngestStep(h, f, 3)
  <2>1. /\ work'[h] = Ingested(h, f) /\ \A g \in Host \ {h} : work'[g] = work[g]
    BY <1>0, <1>6 DEF TypeOK
  <2>2. Trees' \subseteq Trees \cup {work'[h]}
    BY <1>6, <2>1, LocalTrees, TreesOf
  <2>3. CASE Accepted(h) = {}
    <3>1. work'[h] = work[h] BY <2>1, <2>3 DEF Ingested
    <3>2. Trees' \subseteq Trees BY <2>2, <3>1, TreesOf
    <3>3. \A g \in Host : Below(work[g], work'[g]) BY <1>a, <2>1, <3>1
    <3> QED BY <1>6, <3>2, <3>3 DEF OldStep
  <2>4. CASE Accepted(h) # {}
    <3>1. work' = [work EXCEPT ![h] = Written(@, Accepted(h) \X {f}, 3)]
      BY <1>6, <2>4 DEF Ingested
    <3>2. Certified(work[h]) /\ torn' = torn /\ UNCHANGED <<spool, written>>
      BY <1>6
    <3> QED BY <2>2, <3>1, <3>2 DEF IngestStep
  <2> QED BY <2>3, <2>4
<1>7. ASSUME NEW h \in Host, Sync(h)
      PROVE  OldStep \/ \E f \in Projection : IngestStep(h, f, 3)
  <2>1. PICK f \in Projection :
          /\ work' = [work EXCEPT ![h] = Ingested(h, f)]
          /\ Publish(h, Ingested(h, f), spool[h])
    BY <1>7 DEF Sync
  <2>2. /\ head'[h].tree = Ingested(h, f) /\ \A g \in Host \ {h} : head'[g] = head[g]
    BY <1>0, <2>1 DEF Publish, TypeOK, CloneHead
  <2> QED BY <1>6, <1>7, <2>1, <2>2 DEF Sync
<1>8. ASSUME NEW h \in Host, SyncWithoutPush(h)
      PROVE  OldStep \/ \E f \in Projection : IngestStep(h, f, 3)
  BY <1>6, <1>8 DEF SyncWithoutPush
<1>9. ASSUME NEW h \in Host, IngestIsTorn(h)
      PROVE  \E f \in Projection, n \in 1..3 : IngestStep(h, f, n)
  <2>1. PICK f \in Projection, n \in 1..2 :
          /\ work' = [work EXCEPT ![h] = Written(@, Accepted(h) \X {f}, n)]
          /\ torn' = torn \cup {n}
    BY <1>9 DEF IngestIsTorn
  <2>2. \A g \in Host \ {h} : work'[g] = work[g] BY <1>0, <2>1 DEF TypeOK
  <2>3. UNCHANGED <<head, log, spool, written>> BY <1>9 DEF IngestIsTorn
  <2>4. Trees' \subseteq Trees \cup {work'[h]}
    BY <2>2, <2>3, LocalTrees, TreesOf
  <2>5. Certified(work[h]) /\ n \in 1..3 /\ n # 3 BY <1>9 DEF IngestIsTorn
  <2>6. IngestStep(h, f, n)
    BY <2>1, <2>3, <2>4, <2>5 DEF IngestStep
  <2> QED BY <2>5, <2>6
<1>10. ASSUME NEW h \in Host, Compare(h) PROVE OldStep \/ RebaseStep(h)
  <2>0. UNCHANGED <<written, spool, log, torn>> BY <1>10 DEF Compare
  <2>1. CASE UNCHANGED <<head, work>>
    BY <1>b, <2>0, <2>1
  <2>2. CASE /\ head[h].ahead /\ ~Conflict(LogAt(head[h].at), Tip, head[h].tree)
             /\ work' = [work EXCEPT ![h] = Rebased(LogAt(head[h].at), Tip, head[h].tree)]
             /\ head'[h].tree = work'[h]
             /\ \A g \in Host \ {h} : head'[g] = head[g]
    <3>1. \A g \in Host \ {h} : work'[g] = work[g] BY <1>0, <2>2 DEF TypeOK
    <3>2. Trees' \subseteq Trees \cup {work'[h]} BY <2>0, <2>2, <3>1, LocalTrees
    <3>3. work[h] = head[h].tree
      BY <1>10 DEF Compare, OrderInv, RunIsCommitted
    <3>4. /\ Tip \in Checkpoint /\ head[h].tree \in Checkpoint
          /\ LogAt(head[h].at) \in Checkpoint
          /\ Below(LogAt(head[h].at), Tip)
          /\ Below(LogAt(head[h].at), head[h].tree)
      BY TreesOf DEF OrderInv, ForkKnown, TipIsLast, HeadExtends
    <3>5. Below(work[h], work'[h])
      BY <1>0, <2>2, <3>3, <3>4, RebasedExtends DEF TypeOK
    <3> QED BY <2>0, <2>2, <3>2, <3>5 DEF RebaseStep
  <2>3. CASE /\ ~head[h].ahead /\ run[h].pc = "compare"
             /\ work' = [work EXCEPT ![h] = Tip]
             /\ head'[h].tree = Tip
             /\ \A g \in Host \ {h} : head'[g] = head[g]
    <3>1. work'[h] = Tip /\ \A g \in Host \ {h} : work'[g] = work[g]
      BY <1>0, <2>3 DEF TypeOK
    <3>2. Trees' \subseteq Trees BY <2>0, <2>3, <3>1, LocalTrees, TreesOf
    <3>3. Below(work[h], Tip)
      <4>1. work[h] = LogAt(head[h].at) /\ head[h].at \in 0..Len(log)
        BY <2>3 DEF OrderInv, RunIsCommitted, SameUnlessAhead, ForkKnown
      <4> QED BY <4>1 DEF OrderInv, TipIsLast
    <3> QED BY <1>a, <2>0, <3>1, <3>2, <3>3 DEF OldStep
  <2> QED BY <1>0, <1>10, <2>1, <2>2, <2>3 DEF Compare, TypeOK, CloneHead
<1>11. ASSUME NEW h \in Host, Push(h) \/ PushFails(h) PROVE OldStep
  <2>1. UNCHANGED <<written, spool, work, torn>>
    BY <1>11 DEF Push, PushFails
  <2>2. (MayLand(h) /\ Land(h)) \/ UNCHANGED <<log, head>>
    BY <1>11 DEF Push, PushFails
  <2> QED BY <1>b, <1>4, <2>1, <2>2
<1>12. ASSUME NEW h \in Host, Finalize(h) \/ FinalizeIsCut(h) PROVE OldStep
  <2>1. \A g \in Host : spool'[g] \subseteq spool[g]
    BY <1>0, <1>12 DEF Finalize, FinalizeIsCut, TypeOK
  <2>2. UNCHANGED <<work, head, log, torn, written>>
    BY <1>12 DEF Finalize, FinalizeIsCut
  <2>3. \A g \in Host : \A d \in spool'[g] : d \in spool[g] \/ d \notin written
    BY <2>1
  <2> QED BY <1>1, <2>2, <2>3
<1>13. ASSUME NEW h \in Host, Stops(h) PROVE OldStep
  BY <1>b, <1>13 DEF Stops
<1>14. CASE UNCHANGED vars
  BY <1>b, <1>14 DEF vars
<1> QED
  BY <1>2, <1>3, <1>5, <1>7, <1>8, <1>9, <1>10, <1>11, <1>12, <1>13, <1>14
     DEF Next, Proceed

----------------------------------------------------------------------------
(* Each event has one row, in all the checkpoints there are.               *)

\* An event in some index has been written, and is in the index of the work
\* tree of the host that has its file.
RowsKnown ==
  \A t \in Trees, e \in Event, f \in Projection : <<e, f>> \in t.index =>
    e \in written /\ \A h \in Host : e \in spool[h] => <<e, f>> \in work[h].index

OneRow ==
  \A s, t \in Trees, e \in Event, f, g \in Projection :
    <<e, f>> \in s.index /\ <<e, g>> \in t.index => f = g

\* Without a cut between its projection and its index an ingest writes the
\* same rows to both.
SameRows == 1 \notin torn => \A t \in Trees : t.proj = t.index

RowInv == RowsKnown /\ OneRow /\ SameRows

LEMMA RowInvInit == Init => RowInv
<1> SUFFICES ASSUME Init PROVE RowInv
  OBVIOUS
<1>1. Trees \subseteq {Blank} BY DEF Init, Trees, LogAt
<1>2. \A t \in Trees : t.index = {} /\ t.proj = {} BY <1>1 DEF Blank
<1> QED BY <1>2 DEF RowInv, RowsKnown, OneRow, SameRows

\* The rows of a rebase are rows of one of its sides.
LEMMA RebasedRows ==
  ASSUME NEW base, NEW theirs, NEW mine
  PROVE  /\ Rebased(base, theirs, mine).index \subseteq theirs.index \cup mine.index
         /\ base.proj = base.index /\ theirs.proj = theirs.index
              /\ mine.proj = mine.index
            => Rebased(base, theirs, mine).proj = Rebased(base, theirs, mine).index
BY DEF Rebased, Merged

LEMMA RowInvNext == OrderInv /\ SpoolInv /\ RowInv /\ [Next]_vars => RowInv'
<1> SUFFICES ASSUME OrderInv, SpoolInv, RowInv, [Next]_vars PROVE RowInv'
  OBVIOUS
<1>1. CASE OldStep
  <2>1. RowsKnown'
    <3> SUFFICES ASSUME NEW t \in Trees', NEW e \in Event, NEW f \in Projection,
                        <<e, f>> \in t.index
                 PROVE  e \in written' /\ \A h \in Host :
                          e \in spool'[h] => <<e, f>> \in work'[h].index
      BY DEF RowsKnown
    <3>1. e \in written /\ \A h \in Host : e \in spool[h] => <<e, f>> \in work[h].index
      BY <1>1 DEF OldStep, RowInv, RowsKnown
    <3> QED BY <1>1, <3>1 DEF OldStep, Below
  <2> QED BY <1>1, <2>1 DEF OldStep, RowInv, OneRow, SameRows
<1>2. ASSUME NEW h \in Host, NEW f \in Projection, NEW n \in 1..3, IngestStep(h, f, n)
      PROVE  RowInv'
  <2> DEFINE new == Accepted(h) \X {f}
  <2>0. work \in [Host -> Checkpoint] /\ work[h] \in Trees
    BY TreesOf DEF OrderInv, TypeOK
  <2>1. /\ work'[h].index \in {work[h].index, work[h].index \cup new}
        /\ \A g \in Host \ {h} : work'[g] = work[g]
        /\ n # 1 => work'[h].index = work[h].index \cup new
        /\ work'[h].proj = work[h].proj \cup new
    BY <1>2, <2>0 DEF IngestStep, Written
  <2>2. \A e \in Event, g \in Projection : <<e, g>> \in new =>
          /\ e \in spool[h] /\ g = f
          /\ \A t \in Trees, k \in Projection : <<e, k>> \notin t.index
    BY DEF Accepted, Indexed, RowInv, RowsKnown
  <2>3. \A t \in Trees' : t \in Trees \/ t = work'[h]
    BY <1>2 DEF IngestStep
  <2>4. RowsKnown'
    <3> SUFFICES ASSUME NEW t \in Trees', NEW e \in Event, NEW k \in Projection,
                        <<e, k>> \in t.index
                 PROVE  e \in written' /\ \A g \in Host :
                          e \in spool'[g] => <<e, k>> \in work'[g].index
      BY DEF RowsKnown
    <3>1. UNCHANGED <<spool, written>> BY <1>2 DEF IngestStep
    <3>2. CASE \E s \in Trees : <<e, k>> \in s.index
      <4>1. e \in written /\ \A g \in Host : e \in spool[g] => <<e, k>> \in work[g].index
        BY <3>2 DEF RowInv, RowsKnown
      <4> QED BY <2>1, <3>1, <4>1
    <3>3. CASE ~\E s \in Trees : <<e, k>> \in s.index
      <4>1. <<e, k>> \in new /\ t = work'[h] BY <2>0, <2>1, <2>3, <3>3
      <4>2. e \in spool[h] /\ e \in written BY <2>2, <4>1 DEF SpoolInv
      <4>3. \A g \in Host : e \in spool[g] => g = h BY <4>2 DEF SpoolInv
      <4> QED BY <3>1, <4>1, <4>2, <4>3
    <3> QED BY <3>2, <3>3
  <2>5. OneRow'
    <3> SUFFICES ASSUME NEW s \in Trees', NEW t \in Trees', NEW e \in Event,
                        NEW j \in Projection, NEW k \in Projection,
                        <<e, j>> \in s.index, <<e, k>> \in t.index
                 PROVE  j = k
      BY DEF OneRow
    <3>1. <<e, j>> \in new \/ \E u \in Trees : <<e, j>> \in u.index
      BY <2>0, <2>1, <2>3
    <3>2. <<e, k>> \in new \/ \E u \in Trees : <<e, k>> \in u.index
      BY <2>0, <2>1, <2>3
    <3> QED BY <2>2, <3>1, <3>2 DEF RowInv, OneRow
  <2>6. SameRows'
    <3> SUFFICES ASSUME 1 \notin torn', NEW t \in Trees' PROVE t.proj = t.index
      BY DEF SameRows
    <3>1. 1 \notin torn /\ n # 1 BY <1>2 DEF IngestStep
    <3>2. CASE t \in Trees BY <3>1, <3>2 DEF RowInv, SameRows
    <3>3. CASE t = work'[h]
      <4>1. work[h].proj = work[h].index BY <2>0, <3>1 DEF RowInv, SameRows
      <4> QED BY <2>1, <3>1, <3>3, <4>1
    <3> QED BY <2>3, <3>2, <3>3
  <2> QED BY <2>4, <2>5, <2>6 DEF RowInv
<1>3. ASSUME NEW h \in Host, RebaseStep(h) PROVE RowInv'
  <2>0. /\ work \in [Host -> Checkpoint] /\ Tip \in Trees
        /\ head[h].tree \in Trees /\ LogAt(head[h].at) \in Trees
    BY TreesOf DEF OrderInv, TypeOK
  <2>1. /\ work'[h] = Rebased(LogAt(head[h].at), Tip, head[h].tree)
        /\ \A g \in Host \ {h} : work'[g] = work[g]
    BY <1>3, <2>0 DEF RebaseStep
  <2>2. \A t \in Trees' : \A e, k : <<e, k>> \in t.index =>
          \E s \in Trees : <<e, k>> \in s.index
    BY <1>3, <2>0, <2>1, RebasedRows DEF RebaseStep
  <2>3. RowsKnown'
    <3> SUFFICES ASSUME NEW t \in Trees', NEW e \in Event, NEW k \in Projection,
                        <<e, k>> \in t.index
                 PROVE  e \in written' /\ \A g \in Host :
                          e \in spool'[g] => <<e, k>> \in work'[g].index
      BY DEF RowsKnown
    <3>1. e \in written /\ \A g \in Host : e \in spool[g] => <<e, k>> \in work[g].index
      BY <2>2 DEF RowInv, RowsKnown
    <3>2. \A g \in Host : work[g].index \subseteq work'[g].index
      BY <1>3, <2>1 DEF RebaseStep, Below
    <3> QED BY <1>3, <3>1, <3>2 DEF RebaseStep
  <2>4. OneRow'
    BY <2>2 DEF RowInv, OneRow
  <2>5. SameRows'
    <3> SUFFICES ASSUME 1 \notin torn', NEW t \in Trees' PROVE t.proj = t.index
      BY DEF SameRows
    <3>1. \A s \in Trees : s.proj = s.index
      BY <1>3 DEF RebaseStep, RowInv, SameRows
    <3>2. work'[h].proj = work'[h].index
      BY <2>0, <2>1, <3>1, RebasedRows
    <3> QED BY <1>3, <3>1, <3>2 DEF RebaseStep
  <2> QED BY <2>3, <2>4, <2>5 DEF RowInv
<1> QED BY <1>1, <1>2, <1>3, StepKinds

----------------------------------------------------------------------------
(* Every checkpoint is a certificate.                                      *)

\* The cursor is the one of the index, and what is indexed is in its projection.
Sealed(t) == t.cursor = t.index /\ t.index \subseteq t.proj

CertInv == 2 \notin torn => \A t \in Trees : Sealed(t)

LEMMA RebasedSealed ==
  ASSUME NEW base, NEW theirs, NEW mine, ~Conflict(base, theirs, mine),
         Sealed(base), Sealed(theirs), Sealed(mine),
         Below(base, theirs), Below(base, mine)
  PROVE  Sealed(Rebased(base, theirs, mine))
<1> DEFINE next == Rebased(base, theirs, mine)
<1>1. /\ next.proj = Merged(base.proj, theirs.proj, mine.proj)
      /\ next.index = Merged(base.index, theirs.index, mine.index)
      /\ next.cursor = IF mine.cursor = base.cursor THEN theirs.cursor ELSE mine.cursor
  BY DEF Rebased
<1>2. theirs.proj \subseteq next.proj /\ mine.proj \subseteq next.proj
  BY <1>1 DEF Below, Merged
<1>3. CASE mine.cursor = base.cursor
  <2>1. next.cursor = theirs.index /\ next.index = theirs.index
    BY <1>1, <1>3 DEF Sealed, Merged
  <2> QED BY <1>2, <2>1 DEF Sealed
<1>4. CASE mine.cursor # base.cursor /\ theirs.cursor = base.cursor
  <2>1. next.cursor = mine.index /\ next.index = mine.index
    BY <1>1, <1>4 DEF Sealed, Merged
  <2> QED BY <1>2, <2>1 DEF Sealed
<1>5. CASE mine.cursor # base.cursor /\ theirs.cursor = mine.cursor
  <2>1. next.cursor = mine.index /\ next.index = mine.index
    BY <1>1, <1>5 DEF Sealed, Merged
  <2> QED BY <1>2, <2>1 DEF Sealed
<1> QED BY <1>3, <1>4, <1>5 DEF Conflict

LEMMA CertInvNext == OrderInv /\ CertInv /\ [Next]_vars => CertInv'
<1> SUFFICES ASSUME OrderInv, CertInv, [Next]_vars, 2 \notin torn', NEW t \in Trees'
             PROVE  Sealed(t)
  BY DEF CertInv
<1>0. work \in [Host -> Checkpoint] BY DEF OrderInv, TypeOK
<1>1. CASE OldStep
  BY <1>1 DEF OldStep, CertInv
<1>2. ASSUME NEW h \in Host, NEW f \in Projection, NEW n \in 1..3, IngestStep(h, f, n)
      PROVE  Sealed(t)
  <2>1. 2 \notin torn /\ n # 2 BY <1>2 DEF IngestStep
  <2>2. \A s \in Trees : Sealed(s) BY <2>1 DEF CertInv
  <2>3. Sealed(work[h]) BY <2>2, TreesOf
  <2>4. work'[h] = Written(work[h], Accepted(h) \X {f}, n)
    BY <1>0, <1>2 DEF IngestStep
  <2>5. Sealed(work'[h])
    <3>1. CASE n = 1 BY <2>3, <2>4, <3>1 DEF Written, Sealed
    <3>2. CASE n = 3 BY <2>3, <2>4, <3>2 DEF Written, Sealed
    <3> QED BY <2>1, <3>1, <3>2
  <2> QED BY <1>2, <2>2, <2>5 DEF IngestStep
<1>3. ASSUME NEW h \in Host, RebaseStep(h) PROVE Sealed(t)
  <2>1. \A s \in Trees : Sealed(s) BY <1>3 DEF RebaseStep, CertInv
  <2>2. Below(LogAt(head[h].at), Tip) /\ Below(LogAt(head[h].at), head[h].tree)
    BY DEF OrderInv, ForkKnown, TipIsLast, HeadExtends
  <2>3. work'[h] = Rebased(LogAt(head[h].at), Tip, head[h].tree)
    BY <1>0, <1>3 DEF RebaseStep
  <2>4. Sealed(work'[h])
    BY <1>3, <2>1, <2>2, <2>3, TreesOf, RebasedSealed DEF RebaseStep
  <2> QED BY <1>3, <2>1, <2>4 DEF RebaseStep
<1> QED BY <1>1, <1>2, <1>3, StepKinds

----------------------------------------------------------------------------
(* The theorems.                                                           *)

ArchiveInv == OrderInv /\ SpoolInv /\ RowInv /\ CertInv

THEOREM ArchiveInvariant == SafetySpec => []ArchiveInv
<1>1. Init => ArchiveInv
  <2>1. Init => Trees \subseteq {Blank} BY DEF Init, Trees, LogAt
  <2>2. Init => CertInv BY <2>1 DEF CertInv, Sealed, Blank
  <2>3. Init => SpoolInv BY DEF Init, SpoolInv, DeletedIsPublished
  <2> QED BY <2>2, <2>3, OrderInvInit, RowInvInit DEF ArchiveInv
<1>2. ArchiveInv /\ [Next]_vars => ArchiveInv'
  BY OrderInvNext, SpoolInvNext, RowInvNext, CertInvNext DEF ArchiveInv
<1> QED BY <1>1, <1>2, PTL DEF SafetySpec

\* One checkpoint of the branch publishes each event once, unless some ingest
\* was cut off between its projection and its index (ingest_hook_event_spool).
THEOREM EventsArePublishedOnce == SafetySpec => []PublishedOnce
<1>1. ArchiveInv => PublishedOnce
  <2>1. OrderInv => Tip \in Trees BY TreesOf
  <2> QED BY <2>1 DEF ArchiveInv, RowInv, SameRows, OneRow, PublishedOnce
<1> QED BY <1>1, ArchiveInvariant, PTL

\* The checkpoint on the branch is a certificate, whoever merged it, unless
\* some ingest was cut off between its index and its cursor
\* (_validate_spool_checkpoint_state).
THEOREM BranchCertified == SafetySpec => []BranchIsCertified
<1>1. ArchiveInv => BranchIsCertified
  <2>1. OrderInv => Tip \in Trees BY TreesOf
  <2> QED
    BY <2>1 DEF ArchiveInv, CertInv, Sealed, RowInv, OneRow, BranchIsCertified, Certified
<1> QED BY <1>1, ArchiveInvariant, PTL

----------------------------------------------------------------------------
(* The hosts implement EventLog.                                           *)

\* What the branch has is written, and what is written and in no spool is on
\* the branch.
KeptOrPublished ==
  /\ onBranch \subseteq written /\ inSpool \subseteq written
  /\ written \subseteq inSpool \cup onBranch

LEMMA InvKeeps == ArchiveInv => KeptOrPublished
<1> SUFFICES ASSUME ArchiveInv PROVE KeptOrPublished
  OBVIOUS
<1>1. Tip \in Trees BY TreesOf DEF ArchiveInv
<1>2. onBranch \subseteq written
  BY <1>1 DEF ArchiveInv, RowInv, RowsKnown, onBranch, Published
<1>3. inSpool \subseteq written
  BY DEF ArchiveInv, SpoolInv, inSpool, Spooled
<1>4. written \subseteq inSpool \cup onBranch
  BY DEF ArchiveInv, OrderInv, TypeOK, SpoolInv, DeletedIsPublished, inSpool,
     onBranch, Spooled
<1> QED BY <1>2, <1>3, <1>4 DEF KeptOrPublished

LEMMA InvKeepsAfter == ArchiveInv' => KeptOrPublished'
BY InvKeeps, PTL

\* A hook writes an event that nobody has seen before.
LEMMA HookWrites ==
  ASSUME ArchiveInv, NEW h \in Host, NEW e \in Event, Hook(h, e)
  PROVE  Events!Write(e)
<1>1. e \notin inSpool \cup onBranch BY InvKeeps DEF KeptOrPublished, Hook
<1>2. spool' = [spool EXCEPT ![h] = @ \cup {e}] /\ log' = log
  BY DEF Hook
<1>3. \A d \in Event : Spooled(d)' <=> Spooled(d) \/ d = e
  BY <1>2 DEF ArchiveInv, OrderInv, TypeOK, Spooled
<1>4. inSpool' = inSpool \cup {e} BY <1>3 DEF inSpool
<1>5. onBranch' = onBranch BY <1>2 DEF onBranch, Published, Tip, LogAt
<1> QED BY <1>1, <1>4, <1>5 DEF Events!Write

\* When the branch moves, the events that are new on it are in some spool.
LEMMA BranchDelivers ==
  ASSUME ArchiveInv, ArchiveInv', [Next]_vars, UNCHANGED <<written, spool>>
  PROVE  Events!Deliver(onBranch' \ onBranch)
<1>1. inSpool' = inSpool BY DEF inSpool, Spooled
<1>2. onBranch \subseteq onBranch'
  BY TipGrows DEF ArchiveInv, Below, onBranch, Published
<1>3. onBranch' \subseteq written BY InvKeepsAfter DEF KeptOrPublished
<1>4. onBranch' \ onBranch \subseteq inSpool BY <1>3, InvKeeps DEF KeptOrPublished
<1> QED BY <1>1, <1>2, <1>4 DEF Events!Deliver

\* When a spool loses files, their events are on the branch.
LEMMA SpoolForgets ==
  ASSUME ArchiveInv, ArchiveInv', UNCHANGED <<written, log>>,
         \A h \in Host : spool'[h] \subseteq spool[h]
  PROVE  Events!Forget(inSpool \ inSpool')
<1>1. inSpool' \subseteq inSpool BY DEF inSpool, Spooled
<1>2. onBranch' = onBranch BY DEF onBranch, Published, Tip, LogAt
<1>3. written' \subseteq inSpool' \cup onBranch' BY InvKeepsAfter DEF KeptOrPublished
<1>4. inSpool \ inSpool' \subseteq onBranch
  BY <1>2, <1>3, InvKeeps DEF KeptOrPublished
<1> QED BY <1>1, <1>2, <1>4 DEF Events!Forget

\* Every step writes, delivers or forgets, if only nothing at all.
LEMMA StepOfEvents ==
  ASSUME ArchiveInv, ArchiveInv', [Next]_vars
  PROVE  Events!Next
<1>1. ASSUME NEW h \in Host, NEW e \in Event, Hook(h, e) PROVE Events!Next
  BY <1>1, HookWrites DEF Events!Next
<1>2. CASE UNCHANGED <<written, spool>>
  <2>1. onBranch' \ onBranch \in SUBSET Event BY DEF onBranch
  <2> QED BY <1>2, <2>1, BranchDelivers DEF Events!Next
<1>3. ASSUME NEW h \in Host, Finalize(h) \/ FinalizeIsCut(h) PROVE Events!Next
  <2>1. UNCHANGED <<written, log>> BY <1>3 DEF Finalize, FinalizeIsCut
  <2>2. \A g \in Host : spool'[g] \subseteq spool[g]
    BY <1>3 DEF Finalize, FinalizeIsCut, ArchiveInv, OrderInv, TypeOK
  <2>3. inSpool \ inSpool' \in SUBSET Event BY DEF inSpool
  <2> QED BY <2>1, <2>2, <2>3, SpoolForgets DEF Events!Next
<1>4. \/ UNCHANGED <<written, spool>>
      \/ \E h \in Host : \/ \E e \in Event : Hook(h, e)
                         \/ Finalize(h) \/ FinalizeIsCut(h)
  BY DEF Next, vars, Proceed, OtherPush, Sync, SyncWithoutPush, PushCommand,
     Compare, Push, PushFails, IngestIsTorn, Stops
<1> QED BY <1>1, <1>2, <1>3, <1>4

\* All hosts together keep each event until it is on the branch, publish it for
\* good, and see it no more: they implement EventLog (command_sync).
THEOREM ArchiveImplementsLog == SafetySpec => ImplementsEventLog
<1>1. Init => Events!Init
  <2> SUFFICES ASSUME Init PROVE Events!Init
    OBVIOUS
  <2>1. Tip.index = {} BY DEF Init, Tip, LogAt, Blank
  <2>2. onBranch = {} BY <2>1 DEF onBranch, Published
  <2>3. \A h \in Host : spool[h] = {} BY DEF Init
  <2>4. inSpool = {} BY <2>3 DEF inSpool, Spooled
  <2> QED BY <2>2, <2>4 DEF Events!Init
<1>2. ArchiveInv /\ ArchiveInv' /\ [Next]_vars => [Events!Next]_Events!vars
  BY StepOfEvents
<1> QED
  BY <1>1, <1>2, ArchiveInvariant, PTL
     DEF SafetySpec, ImplementsEventLog, Events!Spec

=============================================================================
