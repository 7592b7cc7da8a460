----------------------- MODULE DirectGpuCommandProofs -----------------------
(***************************************************************************)
(* Theorems about the reservation transaction and the runner of a GPU      *)
(* command, for every set of runners and GPUs and every number of GPUs     *)
(* wanted.                                                                 *)
(* That a lock, the sequence of the transaction that counts it and the     *)
(* record in its file agree is only inductive together with the phase of   *)
(* the transaction: in which phases it has a pending candidate, how many   *)
(* locks it has in each, and what the file of the candidate holds while    *)
(* its record is being written.                                            *)
(* The record of a lock is changed only by the holder while it closes, and *)
(* a runner whose command lives does not close unless it is interrupted:   *)
(* so the record names the command's runner as long as the command lives,  *)
(* also after the runner died, and nobody else passes the check of that    *)
(* record.                                                                 *)
(***************************************************************************)
EXTENDS DirectGpuCommand, FiniteSetTheorems, SequenceTheorems, TLAPS

Values(s) == {s[n] : n \in 1..Len(s)}

Distinct(s) == \A m, n \in 1..Len(s) : s[m] = s[n] => m = n

----------------------------------------------------------------------------
(* What Append and Front do to a sequence of distinct values.              *)

LEMMA AppendValues ==
  ASSUME NEW S, NEW s \in Seq(S), NEW x \in S
  PROVE  /\ Append(s, x) \in Seq(S)
         /\ Len(Append(s, x)) = Len(s) + 1
         /\ Values(Append(s, x)) = Values(s) \cup {x}
         /\ Distinct(s) /\ x \notin Values(s) => Distinct(Append(s, x))
<1>. DEFINE t == Append(s, x)
<1>1. /\ t \in Seq(S) /\ Len(s) \in Nat /\ Len(t) = Len(s) + 1
      /\ \A n \in 1..Len(s) : t[n] = s[n]
      /\ t[Len(s) + 1] = x
  OBVIOUS
<1>. HIDE DEF t
<1>2. Values(t) = Values(s) \cup {x}
  <2>1. ASSUME NEW n \in 1..Len(t) PROVE t[n] \in Values(s) \cup {x}
    BY <1>1 DEF Values
  <2>2. ASSUME NEW n \in 1..Len(s) PROVE s[n] \in Values(t)
    <3>1. n \in 1..Len(t) /\ t[n] = s[n]
      BY <1>1
    <3>. QED BY <3>1 DEF Values
  <2>3. x \in Values(t)
    <3>1. Len(s) + 1 \in 1..Len(t)
      BY <1>1
    <3>. QED BY <3>1, <1>1 DEF Values
  <2>. QED BY <2>1, <2>2, <2>3 DEF Values
<1>3. ASSUME Distinct(s), x \notin Values(s) PROVE Distinct(t)
  <2>1. ASSUME NEW m \in 1..Len(t), NEW n \in 1..Len(t), t[m] = t[n] PROVE m = n
    <3>1. CASE m \in 1..Len(s) /\ n \in 1..Len(s)
      BY <1>1, <1>3, <2>1, <3>1 DEF Distinct
    <3>2. CASE m \in 1..Len(s) /\ n = Len(s) + 1
      BY <1>1, <1>3, <2>1, <3>2 DEF Values
    <3>3. CASE m = Len(s) + 1 /\ n \in 1..Len(s)
      BY <1>1, <1>3, <2>1, <3>3 DEF Values
    <3>4. CASE m = Len(s) + 1 /\ n = Len(s) + 1
      BY <3>4
    <3>. QED BY <1>1, <3>1, <3>2, <3>3, <3>4
  <2>. QED BY <2>1 DEF Distinct
<1>. QED BY <1>1, <1>2, <1>3 DEF t

LEMMA PrefixValues ==
  ASSUME NEW S, NEW s, NEW k \in Nat, k > 0, \A n \in 1..k : s[n] \in S,
         NEW t, t = SubSeq(s, 1, k - 1)
  PROVE  t \in Seq(S) /\ Len(t) = k - 1 /\ \A n \in 1..k - 1 : t[n] = s[n]
<1>1. \A n \in 1..k - 1 : s[n] \in S
  OBVIOUS
<1>2. 1 \in Int /\ k - 1 \in Int
  OBVIOUS
<1>3. /\ t \in Seq(S)
      /\ Len(t) = IF 1 <= k - 1 THEN (k - 1) - 1 + 1 ELSE 0
      /\ \A n \in 1..(k - 1) - 1 + 1 : t[n] = s[1 + n - 1]
  BY <1>1, <1>2, SubSeqProperties
<1>4. Len(t) = k - 1
  BY <1>3
<1>5. ASSUME NEW n \in 1..k - 1 PROVE t[n] = s[n]
  BY <1>3
<1>. QED BY <1>3, <1>4, <1>5

LEMMA FrontValues ==
  ASSUME NEW S, NEW s \in Seq(S), s # <<>>, Distinct(s)
  PROVE  /\ Front(s) \in Seq(S) /\ Len(Front(s)) = Len(s) - 1
         /\ Last(s) \in Values(s)
         /\ Values(Front(s)) = Values(s) \ {Last(s)}
         /\ Distinct(Front(s))
<1>. DEFINE t == Front(s)
<1>1. /\ Len(s) \in Nat /\ Len(s) > 0
      /\ t \in Seq(S) /\ Len(t) = Len(s) - 1
      /\ \A n \in 1..Len(t) : t[n] = s[n]
  <2>1. Len(s) \in Nat /\ Len(s) > 0 /\ \A n \in 1..Len(s) : s[n] \in S
    BY ElementOfSeq
  <2>2. PICK k \in Nat : k = Len(s)
    BY <2>1
  <2>3. t = SubSeq(s, 1, k - 1)
    BY <2>2 DEF Front
  <2>. HIDE DEF t
  <2>4. k > 0 /\ \A n \in 1..k : s[n] \in S
    BY <2>1, <2>2
  <2>5. t \in Seq(S) /\ Len(t) = k - 1 /\ \A n \in 1..k - 1 : t[n] = s[n]
    BY <2>3, <2>4, PrefixValues
  <2>. QED BY <2>1, <2>2, <2>5
<1>2. Last(s) = s[Len(s)] /\ Len(s) \in 1..Len(s)
  BY <1>1 DEF Last
<1>. HIDE DEF t
<1>3. Last(s) \in Values(s)
  BY <1>2 DEF Values
<1>4. \A n \in 1..Len(s) : n \in 1..Len(t) \/ n = Len(s)
  BY <1>1
<1>5. \A n \in 1..Len(t) : n \in 1..Len(s) /\ n # Len(s)
  BY <1>1
<1>6. Values(t) = Values(s) \ {Last(s)}
  <2>1. ASSUME NEW n \in 1..Len(t) PROVE t[n] \in Values(s) \ {Last(s)}
    BY <1>1, <1>2, <1>5 DEF Values, Distinct
  <2>2. ASSUME NEW n \in 1..Len(s), s[n] # Last(s) PROVE s[n] \in Values(t)
    <3>1. n \in 1..Len(t) /\ t[n] = s[n]
      BY <1>1, <1>2, <1>4, <2>2
    <3>. QED BY <3>1 DEF Values
  <2>. QED BY <2>1, <2>2 DEF Values
<1>7. Distinct(t)
  BY <1>1, <1>5 DEF Distinct
<1>. QED BY <1>1, <1>3, <1>6, <1>7 DEF t

LEMMA DistinctCount ==
  ASSUME NEW S, NEW s \in Seq(S), Distinct(s)
  PROVE  Cardinality(Values(s)) = Len(s)
<1>1. Len(s) \in Nat /\ DOMAIN s = 1..Len(s)
  OBVIOUS
<1>2. s \in [1..Len(s) -> Values(s)]
  <2>1. s = [n \in 1..Len(s) |-> s[n]]
    OBVIOUS
  <2>2. \A n \in 1..Len(s) : s[n] \in Values(s)
    BY DEF Values
  <2>. QED BY <2>1, <2>2
<1>3. s \in Injection(1..Len(s), Values(s))
  BY <1>1, <1>2 DEF Injection, IsInjective, Distinct
<1>4. s \in Surjection(1..Len(s), Values(s))
  BY <1>2 DEF Surjection, Values
<1>5. ExistsBijection(1..Len(s), Values(s))
  BY <1>3, <1>4 DEF ExistsBijection, Bijection
<1>. QED BY <1>1, <1>5, FS_CountingElements

----------------------------------------------------------------------------
(* The inductive invariant.                                                *)

\* A transaction has a pending candidate just while it checks or writes, and
\* no locks before it scans and after it closes.
PhasesMatch ==
  \A r \in Runner :
    /\ pending[r] # None <=> phase[r] \in {"checking", "writing"}
    /\ phase[r] \in {"created", "closed", "dead"} => held[r] = <<>>

\* A lock is counted once, and not while it is pending.
CountedOnce ==
  \A r \in Runner : Distinct(held[r]) /\ pending[r] \notin HeldBy(r)

\* What is counted has a record, and the file of the candidate is empty while
\* its record is being written.
HeldIsRecorded ==
  \A r \in Runner :
    /\ \A g \in HeldBy(r) : record[g] = Active(r)
    /\ phase[r] = "writing" => record[pending[r]] = Empty

\* A transaction stops scanning with the lock that makes it complete.
CountMatchesPhase ==
  \A r \in Runner :
    /\ phase[r] \in {"scanning", "checking", "writing"} => Len(held[r]) < Wanted[r]
    /\ phase[r] = "held" => Len(held[r]) = Wanted[r]

ReservationInv ==
  /\ ReservationTypeOK /\ LocksAccounted
  /\ PhasesMatch /\ CountedOnce /\ HeldIsRecorded /\ CountMatchesPhase

\* A step that leaves the counted locks alone leaves the sets of them alone.
LEMMA SameHeld ==
  ASSUME held' = held
  PROVE  \A q \in Runner : HeldBy(q)' = HeldBy(q)
  BY DEF HeldBy

LEMMA HeldValues ==
  \A q \in Runner : HeldBy(q) = Values(held[q]) /\ HeldBy(q)' = Values(held'[q])
  BY DEF HeldBy, Values

LEMMA TryReserveStep ==
  ASSUME ReservationInv, NEW r \in Runner, NEW candidates \in SUBSET Gpu,
         TryReserve(r, candidates)
  PROVE  ReservationInv'
<1>. USE DEF ReservationInv, TryReserve
<1>0. \A q \in Runner : HeldBy(q)' = HeldBy(q)
  BY SameHeld
<1>1. ReservationTypeOK'
  BY DEF ReservationTypeOK, Phase
<1>2. LocksAccounted'
  BY <1>0 DEF LocksAccounted
<1>3. PhasesMatch'
  BY DEF PhasesMatch, ReservationTypeOK
<1>4. CountedOnce'
  BY <1>0 DEF CountedOnce
<1>5. HeldIsRecorded'
  BY <1>0 DEF HeldIsRecorded, ReservationTypeOK
<1>6. CountMatchesPhase'
  <2>1. held[r] = <<>> /\ Len(<<>>) = 0 /\ Wanted[r] \in Nat \ {0}
    BY ReservationAssumption DEF PhasesMatch
  <2>. QED BY <2>1 DEF CountMatchesPhase, ReservationTypeOK
<1>. QED BY <1>1, <1>2, <1>3, <1>4, <1>5, <1>6

LEMMA LockStep ==
  ASSUME ReservationInv, NEW r \in Runner, NEW g \in Gpu, Lock(r, g)
  PROVE  ReservationInv'
<1>. USE DEF ReservationInv, Lock
<1>0. \A q \in Runner : HeldBy(q)' = HeldBy(q)
  BY SameHeld
<1>1. ReservationTypeOK'
  BY DEF ReservationTypeOK, Phase
<1>2. LocksAccounted'
  <2>1. ASSUME NEW h \in Gpu, NEW q \in Runner
        PROVE  (flock[h] = q <=> h \in HeldBy(q) \cup {pending[q]})'
    <3>1. flock[h] = q <=> h \in HeldBy(q) \cup {pending[q]}
      BY DEF LocksAccounted
    <3>2. pending[r] = None /\ h # None /\ q # None
      BY ReservationAssumption DEF PhasesMatch, ReservationTypeOK
    <3>3. \A p \in Runner : g \notin HeldBy(p)
      BY ReservationAssumption DEF LocksAccounted
    <3>4. flock'[h] = (IF h = g THEN r ELSE flock[h])
      BY DEF ReservationTypeOK
    <3>5. pending'[q] = IF q = r THEN g ELSE pending[q]
      BY DEF ReservationTypeOK
    <3>6. q # r => pending[q] # g
      BY ReservationAssumption DEF LocksAccounted
    <3>. QED BY <1>0, <3>1, <3>2, <3>3, <3>4, <3>5, <3>6
  <2>. QED BY <2>1 DEF LocksAccounted
<1>3. PhasesMatch'
  BY ReservationAssumption DEF PhasesMatch, ReservationTypeOK
<1>4. CountedOnce'
  BY <1>0, ReservationAssumption DEF CountedOnce, LocksAccounted, ReservationTypeOK
<1>5. HeldIsRecorded'
  BY <1>0 DEF HeldIsRecorded, ReservationTypeOK
<1>6. CountMatchesPhase'
  BY DEF CountMatchesPhase, ReservationTypeOK
<1>. QED BY <1>1, <1>2, <1>3, <1>4, <1>5, <1>6

LEMMA SkipBusyStep ==
  ASSUME ReservationInv, NEW r \in Runner, NEW g \in Gpu, SkipBusy(r, g)
  PROVE  ReservationInv'
<1>. USE DEF ReservationInv, SkipBusy
<1>0. \A q \in Runner : HeldBy(q)' = HeldBy(q)
  BY SameHeld
<1>1. ReservationTypeOK'
  BY DEF ReservationTypeOK
<1>2. LocksAccounted' /\ CountedOnce' /\ HeldIsRecorded'
  BY <1>0 DEF LocksAccounted, CountedOnce, HeldIsRecorded
<1>3. PhasesMatch' /\ CountMatchesPhase'
  BY DEF PhasesMatch, CountMatchesPhase
<1>. QED BY <1>1, <1>2, <1>3

LEMMA CheckRecordStep ==
  ASSUME ReservationInv, NEW r \in Runner, CheckRecord(r)
  PROVE  ReservationInv'
<1>. USE DEF ReservationInv, CheckRecord
<1>0. \A q \in Runner : HeldBy(q)' = HeldBy(q)
  BY SameHeld
<1>1. pending[r] \in Gpu
  BY DEF PhasesMatch, ReservationTypeOK
<1>2. ReservationTypeOK'
  BY <1>1 DEF ReservationTypeOK, Phase, Record, Empty
<1>3. LocksAccounted' /\ CountedOnce'
  BY <1>0 DEF LocksAccounted, CountedOnce
<1>4. PhasesMatch' /\ CountMatchesPhase'
  BY DEF PhasesMatch, CountMatchesPhase, ReservationTypeOK
<1>5. HeldIsRecorded'
  <2>1. ASSUME NEW q \in Runner, NEW g \in HeldBy(q) PROVE record'[g] = Active(q)
    <3>1. g \in Gpu /\ record[g] = Active(q)
      BY DEF HeldIsRecorded, HeldBy, ReservationTypeOK
    <3>2. record[pending[r]] # Active(q)
      BY DEF Reusable, Empty, Released, Active
    <3>. QED BY <3>1, <3>2 DEF ReservationTypeOK
  <2>2. ASSUME NEW q \in Runner, phase'[q] = "writing"
        PROVE  record'[pending'[q]] = Empty
    <3>1. CASE q = r
      BY <1>1, <3>1 DEF ReservationTypeOK
    <3>2. CASE q # r
      <4>1. phase[q] = "writing" /\ pending[q] \in Gpu
        BY <2>2, <3>2 DEF ReservationTypeOK, PhasesMatch
      <4>. QED BY <4>1 DEF HeldIsRecorded, ReservationTypeOK
    <3>. QED BY <3>1, <3>2
  <2>. QED BY <1>0, <2>1, <2>2 DEF HeldIsRecorded
<1>. QED BY <1>2, <1>3, <1>4, <1>5

\* Giving a candidate up: only its own descriptor is closed, whatever was
\* written into its file.
LEMMA AbandonStep ==
  ASSUME ReservationInv, NEW r \in Runner, phase[r] \in {"checking", "writing"},
         Abandon(r), record' \in [Gpu -> Record],
         \A g \in Gpu : g # pending[r] => record'[g] = record[g]
  PROVE  ReservationInv'
<1>. USE DEF ReservationInv, Abandon
<1>0. \A q \in Runner : HeldBy(q)' = HeldBy(q)
  BY SameHeld
<1>1. /\ pending[r] \in Gpu /\ flock[pending[r]] = r /\ pending[r] \notin HeldBy(r)
      /\ \A q \in Runner : q # None
  BY ReservationAssumption
  DEF PhasesMatch, ReservationTypeOK, LocksAccounted, CountedOnce
<1>2. \A q \in Runner \ {r} : pending[r] \notin HeldBy(q) \cup {pending[q]}
  BY <1>1 DEF LocksAccounted
<1>3. ReservationTypeOK'
  BY DEF ReservationTypeOK, Phase
<1>4. LocksAccounted'
  <2>1. ASSUME NEW g \in Gpu, NEW q \in Runner
        PROVE  (flock[g] = q <=> g \in HeldBy(q) \cup {pending[q]})'
    <3>1. flock[g] = q <=> g \in HeldBy(q) \cup {pending[q]}
      BY DEF LocksAccounted
    <3>2. flock'[g] = IF g = pending[r] THEN None ELSE flock[g]
      BY DEF ReservationTypeOK
    <3>3. pending'[q] = IF q = r THEN None ELSE pending[q]
      BY DEF ReservationTypeOK
    <3>4. g # None
      BY ReservationAssumption
    <3>5. CASE g = pending[r]
      BY <1>0, <1>1, <1>2, <3>2, <3>3, <3>4, <3>5
    <3>6. CASE g # pending[r]
      BY <1>0, <3>1, <3>2, <3>3, <3>4, <3>6
    <3>. QED BY <3>5, <3>6
  <2>. QED BY <2>1 DEF LocksAccounted
<1>5. PhasesMatch' /\ CountMatchesPhase'
  BY DEF PhasesMatch, CountMatchesPhase, ReservationTypeOK
<1>6. CountedOnce'
  <2>1. \A q \in Runner : None \notin HeldBy(q)
    BY ReservationAssumption DEF HeldBy, ReservationTypeOK
  <2>. QED BY <1>0, <2>1 DEF CountedOnce, ReservationTypeOK
<1>7. HeldIsRecorded'
  <2>1. ASSUME NEW q \in Runner, NEW g \in HeldBy(q) PROVE record'[g] = Active(q)
    <3>1. g \in Gpu /\ record[g] = Active(q)
      BY DEF HeldIsRecorded, HeldBy, ReservationTypeOK
    <3>. QED BY <1>1, <1>2, <3>1
  <2>2. ASSUME NEW q \in Runner, phase'[q] = "writing"
        PROVE  record'[pending'[q]] = Empty
    <3>1. q # r /\ phase[q] = "writing" /\ pending'[q] = pending[q]
      BY <2>2 DEF ReservationTypeOK
    <3>2. pending[q] \in Gpu /\ record[pending[q]] = Empty
      BY <3>1 DEF HeldIsRecorded, ReservationTypeOK, PhasesMatch
    <3>. QED BY <1>2, <3>1, <3>2
  <2>. QED BY <1>0, <2>1, <2>2 DEF HeldIsRecorded
<1>. QED BY <1>3, <1>4, <1>5, <1>6, <1>7

LEMMA RefuseRecordStep ==
  ASSUME ReservationInv, NEW r \in Runner, RefuseRecord(r)
  PROVE  ReservationInv'
<1>1. record' \in [Gpu -> Record] /\ record' = record
  BY DEF RefuseRecord, ReservationInv, ReservationTypeOK
<1>. QED BY <1>1, AbandonStep DEF RefuseRecord

LEMMA WriteFailsStep ==
  ASSUME ReservationInv, NEW r \in Runner, WriteFails(r)
  PROVE  ReservationInv'
<1>1. PICK rec \in {Empty, Torn} : record' = [record EXCEPT ![pending[r]] = rec]
  BY DEF WriteFails
<1>2. rec \in Record
  BY DEF Record, Empty, Torn
<1>3. /\ record' \in [Gpu -> Record]
      /\ \A g \in Gpu : g # pending[r] => record'[g] = record[g]
  BY <1>1, <1>2 DEF ReservationInv, ReservationTypeOK
<1>. QED BY <1>3, AbandonStep DEF WriteFails

LEMMA WriteActiveStep ==
  ASSUME ReservationInv, NEW r \in Runner, WriteActive(r)
  PROVE  ReservationInv'
<1>. USE DEF ReservationInv, WriteActive
<1>1. /\ pending[r] \in Gpu /\ flock[pending[r]] = r /\ pending[r] \notin HeldBy(r)
      /\ held[r] \in Seq(Gpu) /\ Distinct(held[r]) /\ HeldBy(r) = Values(held[r])
      /\ \A q \in Runner : q # None
  BY ReservationAssumption
  DEF PhasesMatch, ReservationTypeOK, LocksAccounted, CountedOnce, HeldBy, Values
<1>2. \A q \in Runner \ {r} : pending[r] \notin HeldBy(q) \cup {pending[q]}
  BY <1>1 DEF LocksAccounted
<1>3. held'[r] = Append(held[r], pending[r])
  BY DEF ReservationTypeOK
<1>4. /\ held'[r] \in Seq(Gpu) /\ Len(held'[r]) = Len(held[r]) + 1
      /\ Values(held'[r]) = HeldBy(r) \cup {pending[r]}
      /\ Distinct(held'[r])
  <2>1. /\ Append(held[r], pending[r]) \in Seq(Gpu)
        /\ Len(Append(held[r], pending[r])) = Len(held[r]) + 1
        /\ Values(Append(held[r], pending[r])) = Values(held[r]) \cup {pending[r]}
        /\ Distinct(Append(held[r], pending[r]))
    <3>. HIDE DEF ReservationInv, WriteActive
    <3>. QED BY <1>1, AppendValues
  <2>. QED BY <1>1, <1>3, <2>1
<1>5. \A q \in Runner : HeldBy(q)' = IF q = r THEN HeldBy(q) \cup {pending[r]} ELSE HeldBy(q)
  <2>1. \A q \in Runner \ {r} : held'[q] = held[q]
    BY DEF ReservationTypeOK
  <2>. QED BY <1>4, <2>1, HeldValues
<1>6. ReservationTypeOK'
  <2>1. Active(r) \in Record
    BY DEF Active, Record
  <2>2. held' \in [Runner -> Seq(Gpu)]
    BY <1>3, <1>4 DEF ReservationTypeOK
  <2>3. phase' \in [Runner -> Phase] /\ verdict' \in [Runner -> {"none", "acquired", "busy", "failed"}]
    BY DEF ReservationTypeOK, Phase
  <2>. QED BY <2>1, <2>2, <2>3 DEF ReservationTypeOK
<1>7. LocksAccounted'
  <2>1. ASSUME NEW g \in Gpu, NEW q \in Runner
        PROVE  (flock[g] = q <=> g \in HeldBy(q) \cup {pending[q]})'
    <3>1. flock[g] = q <=> g \in HeldBy(q) \cup {pending[q]}
      BY DEF LocksAccounted
    <3>2. pending'[q] = IF q = r THEN None ELSE pending[q]
      BY DEF ReservationTypeOK
    <3>3. g # None
      BY ReservationAssumption
    <3>. QED BY <1>5, <3>1, <3>2, <3>3
  <2>. QED BY <2>1 DEF LocksAccounted
<1>8. PhasesMatch'
  BY DEF PhasesMatch, ReservationTypeOK
<1>9. CountedOnce'
  <2>1. ASSUME NEW q \in Runner PROVE Distinct(held'[q])
    BY <1>4 DEF CountedOnce, ReservationTypeOK
  <2>2. ASSUME NEW q \in Runner PROVE pending'[q] \notin HeldBy(q)'
    <3>1. None \notin HeldBy(r) \cup {pending[r]}
      BY <1>1, ReservationAssumption DEF HeldBy, ReservationTypeOK
    <3>. QED BY <1>5, <3>1 DEF CountedOnce, ReservationTypeOK
  <2>. QED BY <2>1, <2>2 DEF CountedOnce
<1>10. HeldIsRecorded'
  <2>1. ASSUME NEW q \in Runner, NEW g \in HeldBy(q)' PROVE record'[g] = Active(q)
    <3>1. CASE q = r /\ g = pending[r]
      BY <1>1, <3>1 DEF ReservationTypeOK
    <3>2. CASE g # pending[r]
      <4>1. g \in HeldBy(q) /\ g \in Gpu
        BY <1>5, <2>1, <3>2 DEF HeldBy, ReservationTypeOK
      <4>. QED BY <3>2, <4>1 DEF HeldIsRecorded, ReservationTypeOK
    <3>3. q # r => g # pending[r]
      BY <1>2, <1>5, <2>1
    <3>. QED BY <3>1, <3>2, <3>3
  <2>2. ASSUME NEW q \in Runner, phase'[q] = "writing"
        PROVE  record'[pending'[q]] = Empty
    <3>1. q # r /\ phase[q] = "writing" /\ pending'[q] = pending[q]
      BY <2>2 DEF ReservationTypeOK
    <3>2. pending[q] \in Gpu /\ record[pending[q]] = Empty
      BY <3>1 DEF HeldIsRecorded, ReservationTypeOK, PhasesMatch
    <3>. QED BY <1>2, <3>1, <3>2 DEF ReservationTypeOK
  <2>. QED BY <2>1, <2>2 DEF HeldIsRecorded
<1>11. CountMatchesPhase'
  <2>1. Len(held[r]) \in Nat /\ Wanted[r] \in Nat /\ Len(held[r]) < Wanted[r]
    BY <1>1, ReservationAssumption DEF CountMatchesPhase
  <2>2. \A q \in Runner \ {r} : phase'[q] = phase[q] /\ held'[q] = held[q]
    BY DEF ReservationTypeOK
  <2>3. phase'[r] = IF Enough(r) THEN "held" ELSE "scanning"
    BY DEF ReservationTypeOK
  <2>4. Enough(r) => Len(held'[r]) = Wanted[r]
    BY <1>4, <2>1 DEF Enough
  <2>5. ~Enough(r) => Len(held'[r]) < Wanted[r]
    BY <1>4, <2>1 DEF Enough
  <2>. QED BY <2>2, <2>3, <2>4, <2>5 DEF CountMatchesPhase
<1>. QED BY <1>6, <1>7, <1>8, <1>9, <1>10, <1>11

\* The steps that only change the phase of a transaction without a pending
\* candidate.
LEMMA PhaseStep ==
  ASSUME ReservationInv, NEW r \in Runner,
         Exhaust(r) \/ Close(r) \/ FinishClose(r) \/ Renew(r)
  PROVE  ReservationInv'
<1>. USE DEF ReservationInv, Exhaust, Close, FinishClose, Renew
<1>0. \A q \in Runner : HeldBy(q)' = HeldBy(q)
  BY SameHeld
<1>1. ReservationTypeOK'
  BY DEF ReservationTypeOK, Phase
<1>2. LocksAccounted' /\ CountedOnce'
  BY <1>0 DEF LocksAccounted, CountedOnce
<1>3. PhasesMatch'
  BY DEF PhasesMatch, ReservationTypeOK
<1>4. HeldIsRecorded'
  BY <1>0 DEF HeldIsRecorded, ReservationTypeOK
<1>5. CountMatchesPhase'
  BY DEF CountMatchesPhase, ReservationTypeOK
<1>. QED BY <1>1, <1>2, <1>3, <1>4, <1>5

LEMMA ReleaseLastStep ==
  ASSUME ReservationInv, NEW r \in Runner, ReleaseLast(r)
  PROVE  ReservationInv'
<1>. USE DEF ReservationInv, ReleaseLast
<1>. DEFINE last == Last(held[r])
<1>1. /\ Front(held[r]) \in Seq(Gpu)
      /\ last \in Values(held[r])
      /\ Values(Front(held[r])) = Values(held[r]) \ {last}
      /\ Distinct(Front(held[r]))
  <2>1. held[r] \in Seq(Gpu) /\ held[r] # <<>> /\ Distinct(held[r])
    BY DEF ReservationTypeOK, CountedOnce
  <2>. HIDE DEF ReservationInv, ReleaseLast
  <2>. QED BY <2>1, FrontValues
<1>2. last \in HeldBy(r) /\ last \in Gpu
  <2>1. last \in HeldBy(r)
    BY <1>1, HeldValues
  <2>. QED BY <2>1 DEF HeldBy, ReservationTypeOK
<1>3. /\ held'[r] = Front(held[r])
      /\ \A q \in Runner \ {r} : held'[q] = held[q]
  BY DEF ReservationTypeOK
<1>. HIDE DEF last
<1>4. \A q \in Runner : HeldBy(q)' = IF q = r THEN HeldBy(q) \ {last} ELSE HeldBy(q)
  BY <1>1, <1>3, HeldValues
<1>5. /\ flock[last] = r /\ pending[r] = None
      /\ \A q \in Runner \ {r} : last \notin HeldBy(q) \cup {pending[q]}
  BY <1>2 DEF LocksAccounted, PhasesMatch
<1>6. /\ record' \in [Gpu -> Record]
      /\ \A g \in Gpu : g # last => record'[g] = record[g]
  <2>1. PICK rec \in {Released, Torn, Empty, record[last]} :
          record' = [record EXCEPT ![last] = rec]
    BY DEF last
  <2>2. rec \in Record
    BY <1>2 DEF ReservationTypeOK, Record, Released, Torn, Empty
  <2>. QED BY <2>1, <2>2 DEF ReservationTypeOK
<1>7. flock' = [flock EXCEPT ![last] = None]
  BY DEF last
<1>8. ReservationTypeOK'
  <2>1. held' \in [Runner -> Seq(Gpu)]
    BY <1>1, <1>3 DEF ReservationTypeOK
  <2>. QED BY <1>6, <1>7, <2>1 DEF ReservationTypeOK
<1>9. LocksAccounted'
  <2>1. ASSUME NEW g \in Gpu, NEW q \in Runner
        PROVE  (flock[g] = q <=> g \in HeldBy(q) \cup {pending[q]})'
    <3>1. flock[g] = q <=> g \in HeldBy(q) \cup {pending[q]}
      BY DEF LocksAccounted
    <3>2. flock'[g] = IF g = last THEN None ELSE flock[g]
      BY <1>7 DEF ReservationTypeOK
    <3>3. g # None /\ q # None /\ pending'[q] = pending[q]
      BY ReservationAssumption
    <3>. QED BY <1>4, <1>5, <3>1, <3>2, <3>3
  <2>. QED BY <2>1 DEF LocksAccounted
<1>10. PhasesMatch' /\ CountMatchesPhase'
  BY <1>3 DEF PhasesMatch, CountMatchesPhase
<1>11. CountedOnce'
  BY <1>1, <1>3, <1>4 DEF CountedOnce
<1>12. HeldIsRecorded'
  <2>1. ASSUME NEW q \in Runner, NEW g \in HeldBy(q)' PROVE record'[g] = Active(q)
    <3>1. g \in HeldBy(q) /\ g # last
      BY <1>4, <1>5, <2>1
    <3>2. g \in Gpu
      BY <3>1 DEF HeldBy, ReservationTypeOK
    <3>. QED BY <1>6, <3>1, <3>2 DEF HeldIsRecorded
  <2>2. ASSUME NEW q \in Runner, phase'[q] = "writing"
        PROVE  record'[pending'[q]] = Empty
    <3>1. q # r /\ phase[q] = "writing" /\ pending[q] \in Gpu
      BY <2>2 DEF PhasesMatch, ReservationTypeOK
    <3>. QED BY <1>5, <1>6, <3>1 DEF HeldIsRecorded
  <2>. QED BY <2>1, <2>2 DEF HeldIsRecorded
<1>. QED BY <1>8, <1>9, <1>10, <1>11, <1>12

LEMMA DieStep ==
  ASSUME ReservationInv, NEW r \in Runner, Die(r)
  PROVE  ReservationInv'
<1>. USE DEF ReservationInv, Die
<1>1. /\ held'[r] = <<>> /\ <<>> \in Seq(Gpu)
      /\ \A q \in Runner \ {r} : held'[q] = held[q]
  BY DEF ReservationTypeOK
<1>2. \A q \in Runner : HeldBy(q)' = IF q = r THEN {} ELSE HeldBy(q)
  <2>1. Values(<<>>) = {} /\ Distinct(<<>>)
    BY DEF Values, Distinct
  <2>. QED BY <1>1, <2>1, HeldValues
<1>3. \A g \in Writing(r) : g \in Gpu /\ flock[g] = r
  <2>1. CASE phase[r] = "writing"
    BY <2>1 DEF Writing, LocksAccounted, PhasesMatch, ReservationTypeOK
  <2>2. CASE phase[r] = "closing" /\ held[r] # <<>>
    <3>1. held[r] \in Seq(Gpu) /\ Distinct(held[r])
      BY DEF ReservationTypeOK, CountedOnce
    <3>2. Last(held[r]) \in Values(held[r])
      BY <2>2, <3>1, FrontValues
    <3>3. Last(held[r]) \in HeldBy(r)
      BY <3>2, HeldValues
    <3>4. Last(held[r]) \in Gpu
      BY <3>3 DEF HeldBy, ReservationTypeOK
    <3>. QED BY <2>2, <3>3, <3>4 DEF Writing, LocksAccounted
  <2>. QED BY <2>1, <2>2 DEF Writing
<1>4. /\ record' \in [Gpu -> Record]
      /\ \A g \in Gpu : g \notin Writing(r) => record'[g] = record[g]
  <2>1. PICK rec \in {Empty, Torn} :
          record' \in {record, [g \in Gpu |-> IF g \in Writing(r) THEN rec ELSE record[g]]}
    OBVIOUS
  <2>2. rec \in Record
    BY DEF Record, Empty, Torn
  <2>. QED BY <2>1, <2>2 DEF ReservationTypeOK
<1>5. ReservationTypeOK'
  <2>1. held' \in [Runner -> Seq(Gpu)]
    BY <1>1 DEF ReservationTypeOK
  <2>. QED BY <1>4, <2>1 DEF ReservationTypeOK, Phase
<1>6. LocksAccounted'
  <2>1. ASSUME NEW g \in Gpu, NEW q \in Runner
        PROVE  (flock[g] = q <=> g \in HeldBy(q) \cup {pending[q]})'
    <3>1. flock[g] = q <=> g \in HeldBy(q) \cup {pending[q]}
      BY DEF LocksAccounted
    <3>2. flock'[g] = IF flock[g] = r THEN None ELSE flock[g]
      BY DEF ReservationTypeOK
    <3>3. pending'[q] = IF q = r THEN None ELSE pending[q]
      BY DEF ReservationTypeOK
    <3>4. g # None /\ q # None
      BY ReservationAssumption
    <3>. QED BY <1>2, <3>1, <3>2, <3>3, <3>4
  <2>. QED BY <2>1 DEF LocksAccounted
<1>7. PhasesMatch'
  BY <1>1 DEF PhasesMatch, ReservationTypeOK
<1>8. CountMatchesPhase'
  BY <1>1 DEF CountMatchesPhase, ReservationTypeOK
<1>9. CountedOnce'
  <2>1. Distinct(<<>>)
    BY DEF Distinct
  <2>2. \A q \in Runner \ {r} : pending'[q] = pending[q]
    BY DEF ReservationTypeOK
  <2>. QED BY <1>1, <1>2, <2>1, <2>2 DEF CountedOnce
<1>10. HeldIsRecorded'
  <2>1. ASSUME NEW q \in Runner, NEW g \in HeldBy(q)' PROVE record'[g] = Active(q)
    <3>1. q # r /\ g \in HeldBy(q)
      BY <1>2, <2>1
    <3>2. g \in Gpu
      BY <3>1 DEF HeldBy, ReservationTypeOK
    <3>3. flock[g] = q
      BY <3>1, <3>2 DEF LocksAccounted
    <3>. QED BY <1>3, <1>4, <3>1, <3>2, <3>3 DEF HeldIsRecorded
  <2>2. ASSUME NEW q \in Runner, phase'[q] = "writing"
        PROVE  record'[pending'[q]] = Empty
    <3>1. q # r /\ phase[q] = "writing" /\ pending'[q] = pending[q]
      BY <2>2 DEF ReservationTypeOK
    <3>2. pending[q] \in Gpu /\ record[pending[q]] = Empty
      BY <3>1 DEF PhasesMatch, ReservationTypeOK, HeldIsRecorded
    <3>3. flock[pending[q]] = q
      BY <3>2 DEF LocksAccounted
    <3>. QED BY <1>3, <1>4, <3>1, <3>2, <3>3
  <2>. QED BY <2>1, <2>2 DEF HeldIsRecorded
<1>. QED BY <1>5, <1>6, <1>7, <1>8, <1>9, <1>10

LEMMA StutterStep ==
  ASSUME ReservationInv, UNCHANGED rvars
  PROVE  ReservationInv'
<1>. USE DEF ReservationInv, rvars
<1>0. \A q \in Runner : HeldBy(q)' = HeldBy(q)
  BY SameHeld
<1>1. ReservationTypeOK'
  BY DEF ReservationTypeOK
<1>2. LocksAccounted' /\ CountedOnce' /\ HeldIsRecorded'
  BY <1>0 DEF LocksAccounted, CountedOnce, HeldIsRecorded
<1>3. PhasesMatch' /\ CountMatchesPhase'
  BY DEF PhasesMatch, CountMatchesPhase
<1>. QED BY <1>1, <1>2, <1>3

LEMMA ReservationInvInit ==
  ReservationInit => ReservationInv
<1>. SUFFICES ASSUME ReservationInit PROVE ReservationInv
  OBVIOUS
<1>. USE DEF ReservationInit
<1>0. \A r \in Runner : HeldBy(r) = {} /\ held[r] = <<>> /\ <<>> \in Seq(Gpu)
  BY DEF HeldBy
<1>1. ReservationTypeOK
  BY <1>0 DEF ReservationTypeOK, Phase, Record, Empty
<1>2. LocksAccounted
  BY <1>0, ReservationAssumption DEF LocksAccounted
<1>3. PhasesMatch /\ CountMatchesPhase
  BY DEF PhasesMatch, CountMatchesPhase
<1>4. CountedOnce
  <2>1. Distinct(<<>>)
    BY DEF Distinct
  <2>. QED BY <1>0, <2>1 DEF CountedOnce
<1>5. HeldIsRecorded
  BY <1>0 DEF HeldIsRecorded
<1>. QED BY <1>1, <1>2, <1>3, <1>4, <1>5 DEF ReservationInv

LEMMA ReservationInvNext ==
  ReservationInv /\ [ReservationNext]_rvars => ReservationInv'
<1>. SUFFICES ASSUME ReservationInv, [ReservationNext]_rvars PROVE ReservationInv'
  OBVIOUS
<1>1. CASE UNCHANGED rvars
  BY <1>1, StutterStep
<1>2. CASE ReservationNext
  <2>1. PICK r \in Runner :
          \/ \E candidates \in SUBSET Gpu : TryReserve(r, candidates)
          \/ Scan(r) \/ Close(r) \/ Release(r) \/ Die(r) \/ Renew(r)
    BY <1>2 DEF ReservationNext
  <2>2. CASE \E candidates \in SUBSET Gpu : TryReserve(r, candidates)
    BY <2>2, TryReserveStep
  <2>3. CASE Scan(r)
    BY <2>3, LockStep, SkipBusyStep, CheckRecordStep, RefuseRecordStep,
       WriteActiveStep, WriteFailsStep, PhaseStep DEF Scan
  <2>4. CASE Close(r) \/ Renew(r)
    BY <2>4, PhaseStep
  <2>5. CASE Release(r)
    BY <2>5, ReleaseLastStep, PhaseStep DEF Release
  <2>6. CASE Die(r)
    BY <2>6, DieStep
  <2>. QED BY <2>1, <2>2, <2>3, <2>4, <2>5, <2>6
<1>. QED BY <1>1, <1>2

LEMMA ReservationInvComplete ==
  ReservationInv => ReservationComplete
<1>. SUFFICES ASSUME ReservationInv, NEW r \in Runner, phase[r] = "held"
              PROVE  /\ Cardinality(HeldBy(r)) = Wanted[r]
                     /\ \A g \in HeldBy(r) : record[g] = Active(r)
  BY DEF ReservationComplete
<1>1. held[r] \in Seq(Gpu) /\ Distinct(held[r]) /\ Len(held[r]) = Wanted[r]
  BY DEF ReservationInv, ReservationTypeOK, CountedOnce, CountMatchesPhase
<1>2. Cardinality(Values(held[r])) = Wanted[r]
  BY <1>1, DistinctCount
<1>. QED BY <1>2, HeldValues DEF ReservationInv, HeldIsRecorded

\* Which step changes an active record: the release of the lock it was written
\* under, or the death of a process during that.
LEMMA ActiveRecordStep ==
  ASSUME ReservationInv, [ReservationNext]_rvars, NEW g \in Gpu,
         record[g].kind = "active", record'[g] # record[g]
  PROVE  flock[g] = record[g].owner /\ phase[flock[g]] = "closing"
<1>1. record' # record /\ record \in [Gpu -> Record]
  BY DEF ReservationInv, ReservationTypeOK
<1>2. record[g] # Empty /\ record[g] # Released
  BY DEF Empty, Released
<1>3. PICK r \in Runner : CheckRecord(r) \/ WriteFails(r) \/ WriteActive(r)
                            \/ ReleaseLast(r) \/ Die(r)
  BY <1>1 DEF ReservationNext, Scan, Release, rvars, TryReserve, Lock, SkipBusy,
              RefuseRecord, Exhaust, Close, FinishClose, Renew
<1>4. CASE CheckRecord(r)
  <2>1. g # pending[r]
    BY <1>2, <1>4 DEF CheckRecord, Reusable
  <2>. QED BY <1>1, <1>4, <2>1 DEF CheckRecord
<1>5. CASE WriteFails(r) \/ WriteActive(r)
  <2>1. record[pending[r]] = Empty
    BY <1>5 DEF WriteFails, WriteActive, ReservationInv, HeldIsRecorded
  <2>2. PICK rec : record' = [record EXCEPT ![pending[r]] = rec]
    BY <1>5 DEF WriteFails, WriteActive
  <2>. QED BY <1>1, <1>2, <2>1, <2>2
<1>6. ASSUME g \in HeldBy(r), phase[r] = "closing"
      PROVE  flock[g] = record[g].owner /\ phase[flock[g]] = "closing"
  <2>1. flock[g] = r /\ record[g] = Active(r)
    BY <1>6 DEF ReservationInv, LocksAccounted, HeldIsRecorded
  <2>. QED BY <1>6, <2>1 DEF Active
<1>7. held[r] # <<>> => Last(held[r]) \in HeldBy(r)
  <2>1. held[r] \in Seq(Gpu) /\ Distinct(held[r])
    BY DEF ReservationInv, ReservationTypeOK, CountedOnce
  <2>2. held[r] # <<>> => Last(held[r]) \in Values(held[r])
    BY <2>1, FrontValues
  <2>. QED BY <2>2, HeldValues
<1>8. CASE ReleaseLast(r)
  <2>1. PICK rec : record' = [record EXCEPT ![Last(held[r])] = rec]
    BY <1>8 DEF ReleaseLast
  <2>2. g = Last(held[r])
    BY <1>1, <2>1
  <2>. QED BY <1>6, <1>7, <1>8, <2>2 DEF ReleaseLast
<1>9. CASE Die(r)
  <2>1. PICK rec \in {Empty, Torn} :
          record' \in {record, [h \in Gpu |-> IF h \in Writing(r) THEN rec ELSE record[h]]}
    BY <1>9 DEF Die
  <2>2. g \in Writing(r)
    BY <1>1, <2>1
  <2>3. CASE phase[r] = "writing"
    BY <1>2, <2>2, <2>3 DEF Writing, ReservationInv, HeldIsRecorded
  <2>4. CASE phase[r] = "closing" /\ held[r] # <<>>
    BY <1>6, <1>7, <2>2, <2>4 DEF Writing
  <2>. QED BY <2>2, <2>3, <2>4 DEF Writing
<1>. QED BY <1>3, <1>4, <1>5, <1>8, <1>9

----------------------------------------------------------------------------
(* Theorems.                                                               *)

\* The locks, the sequences that count them and the records agree, so that no
\* descriptor leaks, and a reservation in use is complete: for every number of processes and GPUs, and
\* wherever processes die or writes fail.
THEOREM ReservationSafety ==
  ReservationSpec => [](ReservationTypeOK /\ AllOrNothing)
<1>1. ReservationInit => ReservationInv
  BY ReservationInvInit
<1>2. ReservationInv /\ [ReservationNext]_rvars => ReservationInv'
  BY ReservationInvNext
<1>3. ReservationInv => ReservationTypeOK /\ AllOrNothing
  BY ReservationInvComplete DEF ReservationInv, AllOrNothing
<1>. QED BY <1>1, <1>2, <1>3, PTL DEF ReservationSpec

\* Only the process that holds a lock changes the active record written under
\* it, and only when it releases.
THEOREM RecordProtection ==
  ReservationSpec => ActiveRecordStays
<1>1. ReservationInit => ReservationInv
  BY ReservationInvInit
<1>2. ReservationInv /\ [ReservationNext]_rvars => ReservationInv'
  BY ReservationInvNext
<1>3. ReservationInv /\ [ReservationNext]_rvars =>
        [\A g \in Gpu : record[g].kind = "active" /\ record'[g] # record[g]
           => flock[g] = record[g].owner /\ phase[flock[g]] = "closing"]_rvars
  BY ActiveRecordStep
<1>. QED BY <1>1, <1>2, <1>3, PTL DEF ReservationSpec, ActiveRecordStays

----------------------------------------------------------------------------
(* The runner.                                                             *)

\* A command lives under the complete reservation of its runner, or its runner
\* is dead or was interrupted.
WorkUnderReservation ==
  \A r \in Runner : protected[r] # {} =>
    phase[r] = "dead" \/ (phase[r] = "held" /\ stage[r] = "running")

CommandInv ==
  /\ ReservationInv /\ TypeOK
  /\ WorkIsRecorded /\ WorkUnderReservation

----------------------------------------------------------------------------
(* Each step of a runner is a step of its reservation or leaves it alone.  *)

LEMMA StepOfReservation ==
  [Next]_vars => [ReservationNext]_rvars
<1>. SUFFICES ASSUME [Next]_vars PROVE [ReservationNext]_rvars
  OBVIOUS
<1>1. CASE UNCHANGED vars
  BY <1>1 DEF vars
<1>2. ASSUME NEW g \in Foreign, ForeignChanges(g) PROVE UNCHANGED rvars
  BY <1>2 DEF ForeignChanges
<1>3. ASSUME NEW r \in Runner,
             Admit(r) \/ Launch(r) \/ Appear(r) \/ CommandEnds(r)
      PROVE  UNCHANGED rvars
  BY <1>3 DEF Admit, Launch, Appear, CommandEnds
<1>4. ASSUME NEW r \in Runner, Observe(r) PROVE ReservationNext
  <2>1. Gpu \ Occupied \in SUBSET Gpu
    OBVIOUS
  <2>. QED BY <1>4, <2>1 DEF Observe, ReservationNext
<1>5. ASSUME NEW r \in Runner,
             ReserveStep(r) \/ GiveUp(r) \/ Quiesce(r) \/ Interrupt(r)
               \/ RunnerDies(r) \/ NewRunner(r)
      PROVE  ReservationNext
  BY <1>5 DEF ReserveStep, GiveUp, Quiesce, Interrupt, RunnerDies, NewRunner,
              ReservationNext
<1>. QED BY <1>1, <1>2, <1>3, <1>4, <1>5 DEF Next, RunnerStep

LEMMA TypeOKNext ==
  TypeOK /\ ReservationTypeOK' /\ [Next]_vars => TypeOK'
<1>. SUFFICES ASSUME TypeOK, ReservationTypeOK', [Next]_vars PROVE TypeOK'
  OBVIOUS
<1>. USE DEF TypeOK, Stage
<1>1. CASE UNCHANGED vars
  BY <1>1 DEF vars, cvars
<1>2. ASSUME NEW g \in Foreign, ForeignChanges(g) PROVE TypeOK'
  BY <1>2, CommandAssumption DEF ForeignChanges
<1>3. ASSUME NEW r \in Runner, Launch(r) PROVE TypeOK'
  <2>1. HeldBy(r) \in SUBSET Gpu
    BY DEF HeldBy, ReservationTypeOK
  <2>. QED BY <1>3, <2>1 DEF Launch
<1>4. ASSUME NEW r \in Runner, Appear(r) \/ CommandEnds(r) PROVE TypeOK'
  BY <1>4 DEF Appear, CommandEnds
<1>5. ASSUME NEW r \in Runner,
             Observe(r) \/ Admit(r) \/ GiveUp(r) \/ Quiesce(r) \/ Interrupt(r) \/ NewRunner(r)
      PROVE  TypeOK'
  BY <1>5 DEF Observe, Admit, GiveUp, Quiesce, Interrupt, NewRunner
<1>6. ASSUME NEW r \in Runner, ReserveStep(r) \/ RunnerDies(r) PROVE TypeOK'
  BY <1>6 DEF ReserveStep, RunnerDies, cvars
<1>. QED BY <1>1, <1>2, <1>3, <1>4, <1>5, <1>6 DEF Next, RunnerStep

LEMMA CommandInvInit ==
  Init => CommandInv
<1>. SUFFICES ASSUME Init PROVE CommandInv
  OBVIOUS
<1>1. ReservationInv
  BY ReservationInvInit DEF Init
<1>2. TypeOK
  BY <1>1 DEF Init, TypeOK, Stage, ReservationInv
<1>. QED BY <1>1, <1>2 DEF CommandInv, Init, WorkIsRecorded, WorkUnderReservation, protected

\* No active record of a live command changes: its runner is not closing.
LEMMA WorkRecordStays ==
  ASSUME CommandInv, [Next]_vars, NEW r \in Runner, NEW g \in protected[r]
  PROVE  record'[g] = record[g]
<1>1. /\ g \in Gpu /\ record[g] = Active(r)
      /\ phase[r] # "closing"
  BY DEF CommandInv, TypeOK, WorkIsRecorded, WorkUnderReservation, protected
<1>2. [ReservationNext]_rvars
  BY StepOfReservation
<1>3. record[g].kind = "active" /\ record[g].owner = r
  BY <1>1 DEF Active
<1>. QED BY <1>1, <1>2, <1>3, ActiveRecordStep DEF CommandInv

\* A command becomes protected only when it is launched.
LEMMA NewlyProtected ==
  ASSUME CommandInv, [Next]_vars, NEW q \in Runner, NEW g \in protected'[q],
         g \notin protected[q]
  PROVE  Launch(q)
<1>. USE DEF CommandInv, TypeOK, protected
<1>1. CASE UNCHANGED vars
  BY <1>1 DEF vars, cvars
<1>2. ASSUME NEW h \in Foreign, ForeignChanges(h) PROVE FALSE
  BY <1>2 DEF ForeignChanges
<1>3. ASSUME NEW r \in Runner, Launch(r) PROVE r = q
  BY <1>3 DEF Launch
<1>4. ASSUME NEW r \in Runner, Appear(r) \/ CommandEnds(r) PROVE FALSE
  BY <1>4 DEF Appear, CommandEnds
<1>5. ASSUME NEW r \in Runner, Observe(r) \/ Admit(r) \/ Quiesce(r) \/ Interrupt(r)
      PROVE  FALSE
  BY <1>5 DEF Observe, Admit, Quiesce, Interrupt
<1>6. ASSUME NEW r \in Runner, GiveUp(r) \/ NewRunner(r) PROVE FALSE
  BY <1>6 DEF GiveUp, NewRunner
<1>7. ASSUME NEW r \in Runner, ReserveStep(r) \/ RunnerDies(r) PROVE FALSE
  BY <1>7 DEF ReserveStep, RunnerDies, cvars
<1>. QED BY <1>1, <1>2, <1>3, <1>4, <1>5, <1>6, <1>7 DEF Next, RunnerStep

LEMMA WorkIsRecordedNext ==
  ASSUME CommandInv, [Next]_vars
  PROVE  WorkIsRecorded'
<1>. SUFFICES ASSUME NEW q \in Runner, NEW g \in protected'[q]
              PROVE  record'[g] = Active(q)
  BY DEF WorkIsRecorded
<1>1. CASE g \in protected[q]
  BY <1>1, WorkRecordStays DEF CommandInv, WorkIsRecorded
<1>2. CASE g \notin protected[q]
  <2>1. Launch(q)
    BY <1>2, NewlyProtected
  <2>2. g \in HeldBy(q) /\ record' = record
    BY <2>1 DEF Launch, rvars, CommandInv, TypeOK, protected
  <2>. QED BY <2>2 DEF CommandInv, ReservationInv, HeldIsRecorded
<1>. QED BY <1>1, <1>2

LEMMA WorkUnderReservationNext ==
  ASSUME CommandInv, [Next]_vars
  PROVE  WorkUnderReservation'
<1>. USE DEF CommandInv, WorkUnderReservation, TypeOK, ReservationTypeOK, protected
<1>1. CASE UNCHANGED vars
  BY <1>1 DEF vars, rvars, cvars
<1>2. ASSUME NEW g \in Foreign, ForeignChanges(g) PROVE WorkUnderReservation'
  BY <1>2 DEF ForeignChanges, rvars
<1>3. ASSUME NEW r \in Runner, Launch(r) PROVE WorkUnderReservation'
  BY <1>3 DEF Launch, rvars
<1>4. ASSUME NEW r \in Runner, Appear(r) \/ CommandEnds(r) PROVE WorkUnderReservation'
  BY <1>4 DEF Appear, CommandEnds, rvars
<1>5. ASSUME NEW r \in Runner, Observe(r) PROVE WorkUnderReservation'
  BY <1>5 DEF Observe, TryReserve
<1>6. ASSUME NEW r \in Runner, Admit(r) PROVE WorkUnderReservation'
  BY <1>6 DEF Admit, rvars
<1>7. ASSUME NEW r \in Runner, GiveUp(r) \/ Quiesce(r) PROVE WorkUnderReservation'
  BY <1>7 DEF GiveUp, Quiesce, Close
<1>8. ASSUME NEW r \in Runner, NewRunner(r) PROVE WorkUnderReservation'
  BY <1>8 DEF NewRunner, Renew
<1>9. ASSUME NEW r \in Runner, RunnerDies(r) PROVE WorkUnderReservation'
  BY <1>9 DEF RunnerDies, Die, cvars
<1>10. ASSUME NEW r \in Runner, ReserveStep(r) PROVE WorkUnderReservation'
  <2>1. phase[r] \in {"scanning", "checking", "writing", "closing"}
    BY <1>10 DEF ReserveStep, Scan, Release, Lock, SkipBusy, CheckRecord, RefuseRecord,
                 WriteActive, WriteFails, Exhaust, ReleaseLast, FinishClose
  <2>2. \A q \in Runner \ {r} : phase'[q] = phase[q]
    BY <1>10 DEF ReserveStep, Scan, Release, Lock, SkipBusy, CheckRecord, RefuseRecord,
                 WriteActive, WriteFails, Exhaust, ReleaseLast, FinishClose, Abandon
  <2>. QED BY <1>10, <2>1, <2>2 DEF ReserveStep, cvars
<1>11. ASSUME NEW r \in Runner, Interrupt(r) PROVE WorkUnderReservation'
  BY <1>11 DEF Interrupt, Close
<1>. QED BY <1>1, <1>2, <1>3, <1>4, <1>5, <1>6, <1>7, <1>8, <1>9, <1>10, <1>11
         DEF Next, RunnerStep

LEMMA CommandInvNext ==
  CommandInv /\ [Next]_vars => CommandInv'
<1>. SUFFICES ASSUME CommandInv, [Next]_vars PROVE CommandInv'
  OBVIOUS
<1>1. ReservationInv'
  BY StepOfReservation, ReservationInvNext DEF CommandInv
<1>2. TypeOK'
  BY <1>1, TypeOKNext DEF CommandInv, ReservationInv
<1>. QED BY <1>1, <1>2, WorkIsRecordedNext, WorkUnderReservationNext DEF CommandInv

\* An active record has one owner.
LEMMA ActiveOwner ==
  ASSUME NEW q, NEW r, Active(q) = Active(r)
  PROVE  q = r
<1>1. Active(q).owner = q /\ Active(r).owner = r
  BY DEF Active
<1>. QED BY <1>1

LEMMA RecordedWorkApart ==
  WorkIsRecorded => GpuNotShared
<1>. SUFFICES ASSUME WorkIsRecorded, NEW q \in Runner, NEW r \in Runner,
                     NEW g \in protected[q] \cap protected[r]
              PROVE  q = r
  BY DEF GpuNotShared
<1>1. record[g] = Active(q) /\ record[g] = Active(r)
  BY DEF WorkIsRecorded
<1>. QED BY <1>1, ActiveOwner

LEMMA SameCardinality ==
  ASSUME NEW S
  PROVE  Exclusion!Cardinality(S) = Cardinality(S)
  BY DEF Exclusion!Cardinality, Cardinality

\* What a launch reserves is in no other protected command's hands.
LEMMA LaunchStarts ==
  ASSUME CommandInv, NEW r \in Runner, Launch(r)
  PROVE  Exclusion!Start(r, HeldBy(r))
<1>1. /\ phase[r] = "held" /\ stage[r] = "admitted"
      /\ work' = [work EXCEPT ![r] = HeldBy(r)]
      /\ stage' = [stage EXCEPT ![r] = "running"]
  BY DEF Launch
<1>2. protected[r] = {}
  BY <1>1 DEF CommandInv, WorkUnderReservation
<1>3. Cardinality(HeldBy(r)) = Wanted[r] /\ \A g \in HeldBy(r) : record[g] = Active(r)
  BY <1>1, ReservationInvComplete DEF CommandInv, ReservationComplete
<1>4. ASSUME NEW q \in Runner PROVE protected[q] \cap HeldBy(r) = {}
  <2>1. CASE q = r
    BY <1>2, <2>1
  <2>2. CASE q # r
    <3>1. ASSUME NEW g \in protected[q], g \in HeldBy(r) PROVE FALSE
      <4>1. record[g] = Active(q) /\ record[g] = Active(r)
        BY <1>3, <3>1 DEF CommandInv, WorkIsRecorded
      <4>. QED BY <2>2, <4>1, ActiveOwner
    <3>. QED BY <3>1
  <2>. QED BY <2>1, <2>2
<1>5. protected' = [protected EXCEPT ![r] = HeldBy(r)]
  BY <1>1 DEF protected, CommandInv, TypeOK
<1>. QED BY <1>2, <1>3, <1>4, <1>5, SameCardinality DEF Exclusion!Start

\* An end of the command and an interrupt of the runner only free GPUs.
LEMMA EndStops ==
  ASSUME CommandInv, NEW r \in Runner, CommandEnds(r) \/ Interrupt(r)
  PROVE  Exclusion!Stop(r)
<1>1. CASE CommandEnds(r)
  <2>1. protected' = [protected EXCEPT ![r] = {}]
    BY <1>1 DEF CommandEnds, protected, CommandInv, TypeOK
  <2>. QED BY <2>1 DEF Exclusion!Stop
<1>2. CASE Interrupt(r)
  <2>1. protected' = [protected EXCEPT ![r] = {}]
    BY <1>2 DEF Interrupt, protected, CommandInv, TypeOK
  <2>. QED BY <2>1 DEF Exclusion!Stop
<1>. QED BY <1>1, <1>2

\* The other steps of a runner are invisible to GpuExclusion.
LEMMA OthersStutter ==
  ASSUME CommandInv, NEW r \in Runner,
         Observe(r) \/ ReserveStep(r) \/ Admit(r) \/ GiveUp(r) \/ Quiesce(r)
           \/ RunnerDies(r) \/ NewRunner(r) \/ Appear(r)
  PROVE  protected' = protected
<1>. USE DEF CommandInv, TypeOK, protected
<1>1. CASE Observe(r) \/ Admit(r) \/ Quiesce(r)
  BY <1>1 DEF Observe, Admit, Quiesce
<1>2. CASE GiveUp(r)
  BY <1>2 DEF GiveUp
<1>3. CASE NewRunner(r) \/ Appear(r)
  BY <1>3 DEF NewRunner, Appear
<1>4. CASE ReserveStep(r) \/ RunnerDies(r)
  BY <1>4 DEF ReserveStep, RunnerDies, cvars
<1>. QED BY <1>1, <1>2, <1>3, <1>4

LEMMA StepOfExclusion ==
  ASSUME CommandInv, [Next]_vars
  PROVE  [Exclusion!Next]_protected
<1>1. ASSUME NEW r \in Runner, Launch(r) PROVE Exclusion!Next
  <2>1. HeldBy(r) \in SUBSET Gpu
    BY DEF HeldBy, CommandInv, TypeOK, ReservationTypeOK
  <2>. QED BY <1>1, <2>1, LaunchStarts DEF Exclusion!Next
<1>2. ASSUME NEW r \in Runner, CommandEnds(r) \/ Interrupt(r) PROVE Exclusion!Next
  BY <1>2, EndStops DEF Exclusion!Next
<1>3. ASSUME NEW g \in Foreign, ForeignChanges(g) PROVE protected' = protected
  BY <1>3 DEF ForeignChanges, protected
<1>4. CASE UNCHANGED vars
  BY <1>4 DEF vars, cvars, protected
<1>. QED BY <1>1, <1>2, <1>3, <1>4, OthersStutter DEF Next, RunnerStep

----------------------------------------------------------------------------
(* Theorems.                                                               *)

\* No two live commands have the same GPU, and the record of every GPU of a
\* live command names its runner, dead or alive, unless that was interrupted.
THEOREM CommandSafety ==
  Spec => [](TypeOK /\ WorkIsRecorded /\ GpuNotShared)
<1>1. Init => CommandInv
  BY CommandInvInit
<1>2. CommandInv /\ [Next]_vars => CommandInv'
  BY CommandInvNext
<1>3. CommandInv => TypeOK /\ WorkIsRecorded /\ GpuNotShared
  BY RecordedWorkApart DEF CommandInv
<1>. QED BY <1>1, <1>2, <1>3, PTL DEF Spec

\* The runners, their locks and their records implement GpuExclusion.
THEOREM Refinement ==
  Spec => ImplementsExclusion
<1>1. Init => CommandInv /\ Exclusion!Init
  BY CommandInvInit DEF Init, Exclusion!Init, protected
<1>2. CommandInv /\ [Next]_vars => CommandInv'
  BY CommandInvNext
<1>3. CommandInv /\ [Next]_vars => [Exclusion!Next]_protected
  BY StepOfExclusion
<1>. QED BY <1>1, <1>2, <1>3, PTL DEF Spec, ImplementsExclusion, Exclusion!Spec
=============================================================================
