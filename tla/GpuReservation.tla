--------------------------- MODULE GpuReservation ---------------------------
(***************************************************************************)
(* GpuReservationTransaction of                                            *)
(* src/tools/experiments/execution/execution_resource_plan.py: a process   *)
(* locks (flock) the lock files of as many GPUs as it wants, all or none,  *)
(* writes an `active' record into each, and at the end a `released' one.   *)
(* The kernel drops the locks of a process that dies; its records stay,    *)
(* and a record that is not `released' makes every later transaction that  *)
(* reaches it fail.                                                        *)
(*                                                                         *)
(* An operator whose comment begins with `Mutant' is a plausible mistake   *)
(* in the definition after it, used only to test the properties.           *)
(***************************************************************************)
EXTENDS Integers, Sequences, FiniteSets

CONSTANTS
  Runner,   \* processes that reserve GPUs
  Gpu,      \* full UUIDs of the candidates
  Wanted,   \* Wanted[r]: the requested_count of r
  None

ASSUME ReservationAssumption ==
  /\ IsFiniteSet(Gpu)
  /\ Wanted \in [Runner -> Nat \ {0}]
  /\ None \notin Runner \cup Gpu

VARIABLES
  phase,    \* phase[r]: where r's transaction is
  left,     \* left[r]: the candidates not tried yet
  held,     \* held[r]: the sequence _held, oldest first
  pending,  \* pending[r]: the candidate whose lock r has and whose record not
  flock,    \* flock[g]: the process that holds the lock of g's file, or None
  record,   \* record[g]: the content of g's file
  verdict   \* verdict[r]: how r's attempt ended

rvars == <<phase, left, held, pending, flock, record, verdict>>

Phase == {"created", "scanning", "checking", "writing", "held", "closing",
          "closed", "dead"}

\* A file is empty, or has a record that is active, released, or cut short by
\* a crash or a failed write.
Empty     == [kind |-> "empty", owner |-> None]
Torn      == [kind |-> "torn", owner |-> None]
Released  == [kind |-> "released", owner |-> None]
Active(r) == [kind |-> "active", owner |-> r]
Record    == [kind : {"empty", "torn", "released"}, owner : {None}]
               \cup [kind : {"active"}, owner : Runner]

HeldBy(r) == {held[r][n] : n \in 1..Len(held[r])}

Front(s) == SubSeq(s, 1, Len(s) - 1)
Last(s)  == s[Len(s)]

----------------------------------------------------------------------------
\* The order of the candidates is the caller's: any order is allowed here.
TryReserve(r, candidates) ==
  /\ phase[r] = "created"
  /\ phase' = [phase EXCEPT ![r] = "scanning"]
  /\ left' = [left EXCEPT ![r] = candidates]
  /\ UNCHANGED <<held, pending, flock, record, verdict>>

Lock(r, g) ==
  /\ phase[r] = "scanning"
  /\ g \in left[r]
  /\ flock[g] = None
  /\ flock' = [flock EXCEPT ![g] = r]
  /\ pending' = [pending EXCEPT ![r] = g]
  /\ phase' = [phase EXCEPT ![r] = "checking"]
  /\ UNCHANGED <<left, held, record, verdict>>

\* Mutant: a busy candidate is tried again until it is free.
WaitForBusy(r, g) ==
  /\ phase[r] = "scanning"
  /\ g \in left[r]
  /\ flock[g] # None
  /\ UNCHANGED rvars

\* A busy candidate is skipped, and only its own descriptor is closed.
SkipBusy(r, g) ==
  /\ phase[r] = "scanning"
  /\ g \in left[r]
  /\ flock[g] # None
  /\ left' = [left EXCEPT ![r] = @ \ {g}]
  /\ UNCHANGED <<phase, held, pending, flock, record, verdict>>

\* Mutant: whoever gets the lock may reuse the file.
ReusableIfLocked == {Empty, Released} \cup {Active(r) : r \in Runner}

Reusable == {Empty, Released}

\* The record in a lock that was acquired must say that it is free; then the
\* file is truncated.
CheckRecord(r) ==
  /\ phase[r] = "checking"
  /\ record[pending[r]] \in Reusable
  /\ record' = [record EXCEPT ![pending[r]] = Empty]
  /\ phase' = [phase EXCEPT ![r] = "writing"]
  /\ UNCHANGED <<left, held, pending, flock, verdict>>

\* Mutant: the descriptor of the candidate that fails stays open.
AbandonLeaky(r) ==
  /\ pending' = [pending EXCEPT ![r] = None]
  /\ phase' = [phase EXCEPT ![r] = "closing"]
  /\ verdict' = [verdict EXCEPT ![r] = "failed"]
  /\ UNCHANGED <<left, held, flock>>

\* A failure closes the candidate's descriptor and rolls back the rest.
Abandon(r) ==
  /\ flock' = [flock EXCEPT ![pending[r]] = None]
  /\ pending' = [pending EXCEPT ![r] = None]
  /\ phase' = [phase EXCEPT ![r] = "closing"]
  /\ verdict' = [verdict EXCEPT ![r] = "failed"]
  /\ UNCHANGED <<left, held>>

RefuseRecord(r) ==
  /\ phase[r] = "checking"
  /\ record[pending[r]] \notin Reusable
  /\ Abandon(r)
  /\ UNCHANGED record

WriteFails(r) ==
  /\ phase[r] = "writing"
  /\ \E rec \in {Empty, Torn} : record' = [record EXCEPT ![pending[r]] = rec]
  /\ Abandon(r)

Enough(r) == Len(held[r]) + 1 >= Wanted[r]

\* The active record is written and the lock counted; the reservation is
\* complete as soon as there are enough.
WriteActive(r) ==
  /\ phase[r] = "writing"
  /\ record' = [record EXCEPT ![pending[r]] = Active(r)]
  /\ held' = [held EXCEPT ![r] = Append(@, pending[r])]
  /\ left' = [left EXCEPT ![r] = @ \ {pending[r]}]
  /\ pending' = [pending EXCEPT ![r] = None]
  /\ IF Enough(r)
       THEN /\ phase' = [phase EXCEPT ![r] = "held"]
            /\ verdict' = [verdict EXCEPT ![r] = "acquired"]
       ELSE /\ phase' = [phase EXCEPT ![r] = "scanning"]
            /\ UNCHANGED verdict
  /\ UNCHANGED flock

\* The candidates are exhausted: what was locked is given back.
Exhaust(r) ==
  /\ phase[r] = "scanning"
  /\ left[r] = {}
  /\ phase' = [phase EXCEPT ![r] = "closing"]
  /\ verdict' = [verdict EXCEPT ![r] = "busy"]
  /\ UNCHANGED <<left, held, pending, flock, record>>

\* close() by the owner of a complete reservation.
Close(r) ==
  /\ phase[r] = "held"
  /\ phase' = [phase EXCEPT ![r] = "closing"]
  /\ UNCHANGED <<left, held, pending, flock, record, verdict>>

\* Locks are released in reverse order: the record first, then the descriptor,
\* which is closed even when the record could not be written.
ReleaseLast(r) ==
  /\ phase[r] = "closing"
  /\ held[r] # <<>>
  /\ \E rec \in {Released, Torn, Empty, record[Last(held[r])]} :
       record' = [record EXCEPT ![Last(held[r])] = rec]
  /\ flock' = [flock EXCEPT ![Last(held[r])] = None]
  /\ held' = [held EXCEPT ![r] = Front(@)]
  /\ UNCHANGED <<phase, left, pending, verdict>>

FinishClose(r) ==
  /\ phase[r] = "closing"
  /\ held[r] = <<>>
  /\ phase' = [phase EXCEPT ![r] = "closed"]
  /\ UNCHANGED <<left, held, pending, flock, record, verdict>>

\* The file that a process is writing when it dies.
Writing(r) == IF phase[r] = "writing" THEN {pending[r]}
              ELSE IF phase[r] = "closing" /\ held[r] # <<>> THEN {Last(held[r])}
              ELSE {}

\* The process dies: the kernel drops its locks and the records stay, but for
\* the one that was being written.
Die(r) ==
  /\ phase[r] \notin {"created", "closed", "dead"}
  /\ phase' = [phase EXCEPT ![r] = "dead"]
  /\ flock' = [g \in Gpu |-> IF flock[g] = r THEN None ELSE flock[g]]
  /\ \E rec \in {Empty, Torn} :
       record' \in {record, [g \in Gpu |-> IF g \in Writing(r) THEN rec ELSE record[g]]}
  /\ held' = [held EXCEPT ![r] = <<>>]
  /\ pending' = [pending EXCEPT ![r] = None]
  /\ UNCHANGED <<left, verdict>>

\* A new process, or a new transaction of an old one.
Renew(r) ==
  /\ phase[r] \in {"closed", "dead"}
  /\ phase' = [phase EXCEPT ![r] = "created"]
  /\ verdict' = [verdict EXCEPT ![r] = "none"]
  /\ left' = [left EXCEPT ![r] = {}]
  /\ UNCHANGED <<held, pending, flock, record>>

----------------------------------------------------------------------------
ReservationInit ==
  /\ phase = [r \in Runner |-> "created"]
  /\ left = [r \in Runner |-> {}]
  /\ held = [r \in Runner |-> <<>>]
  /\ pending = [r \in Runner |-> None]
  /\ flock = [g \in Gpu |-> None]
  /\ record = [g \in Gpu |-> Empty]
  /\ verdict = [r \in Runner |-> "none"]

\* What a transaction does by itself once it has begun to reserve.
Scan(r) ==
  \/ \E g \in Gpu : Lock(r, g) \/ SkipBusy(r, g)
  \/ CheckRecord(r) \/ RefuseRecord(r)
  \/ WriteActive(r) \/ WriteFails(r)
  \/ Exhaust(r)

Release(r) == ReleaseLast(r) \/ FinishClose(r)

ReservationNext ==
  \E r \in Runner :
    \/ \E candidates \in SUBSET Gpu : TryReserve(r, candidates)
    \/ Scan(r) \/ Close(r) \/ Release(r) \/ Die(r) \/ Renew(r)

\* A process runs: what it has begun it goes on with.  Nobody has to close a
\* reservation, to die or to try again.
ReservationSpec ==
  /\ ReservationInit /\ [][ReservationNext]_rvars
  /\ \A r \in Runner : WF_rvars(Scan(r)) /\ WF_rvars(Release(r))

----------------------------------------------------------------------------
(* Properties.                                                             *)

\* Types of the transactions, of the locks and of the files.
ReservationTypeOK ==
  /\ phase \in [Runner -> Phase]
  /\ left \in [Runner -> SUBSET Gpu]
  /\ held \in [Runner -> Seq(Gpu)]
  /\ pending \in [Runner -> Gpu \cup {None}]
  /\ flock \in [Gpu -> Runner \cup {None}]
  /\ record \in [Gpu -> Record]
  /\ verdict \in [Runner -> {"none", "acquired", "busy", "failed"}]

\* A process holds exactly the locks its transaction knows of: none is leaked
\* by a skip, a refusal, a rollback or a close, and none is lost early.
LocksAccounted ==
  \A g \in Gpu, r \in Runner : flock[g] = r <=> g \in HeldBy(r) \cup {pending[r]}

\* All or nothing: a reservation that is in use has every lock it wanted, each
\* with a readable record that names its owner.
ReservationComplete ==
  \A r \in Runner : phase[r] = "held" =>
    /\ Cardinality(HeldBy(r)) = Wanted[r]
    /\ \A g \in HeldBy(r) : record[g] = Active(r)

\* Whatever candidate a transaction fails on, and whatever it skips, it keeps
\* every lock it wanted or gives back every descriptor it opened, once each.
AllOrNothing == LocksAccounted /\ ReservationComplete

\* Nobody but the process that holds the lock it was written under changes an
\* active record.  The record of a process that died outlives its lock.
ActiveRecordStays ==
  [][\A g \in Gpu : record[g].kind = "active" /\ record'[g] # record[g]
                      => flock[g] = record[g].owner /\ phase[flock[g]] = "closing"]_rvars

\* A transaction never waits for another: it ends up complete or empty-handed,
\* however the others hold on to what they have.
ReservationTerminates ==
  \A r \in Runner : phase[r] = "scanning" ~> phase[r] \in {"held", "closed", "dead"}

=============================================================================
