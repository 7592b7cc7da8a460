--------------------------- MODULE SpoolArchive ---------------------------
(***************************************************************************)
(* The hook spool and the runtime log branch                               *)
(* (src/tools/runtime/archive/runtime_log_archive_git.py).  Hooks leave    *)
(* one immutable file per event in the spool of their host.  `sync' adds   *)
(* the spooled events to a projection file, an index and a cursor in the   *)
(* work tree of the host's clone, commits, pushes without force after at   *)
(* most PUBLICATION_RETRY_LIMIT rebases, and deletes the spool files once  *)
(* the branch reads back as its commit.  All hosts of one source           *)
(* repository share the branch and the three files.                        *)
(*                                                                         *)
(* A checkpoint is what index, cursor and projections say.  A row <<e, f>> *)
(* of the index says that event e is in projection file f.  The cursor is  *)
(* the index whose hash it holds.  A clone's head is known by the commit   *)
(* of the branch it forks from, whether it has commits of its own, and its *)
(* checkpoint.                                                             *)
(*                                                                         *)
(* Covered: processes killed anywhere, failed and partial writes, pushes   *)
(* that fail before or after the branch has moved, other publishers on the *)
(* branch.  An operator whose comment begins with `Mutant' is a plausible  *)
(* mistake in the definition after it, used only to test the properties.   *)
(***************************************************************************)
EXTENDS Naturals, Sequences

CONSTANTS
  Host,        \* hosts with a clone and a spool, of one source repository
  Event,       \* hook events; their names are unique
  Projection,  \* projection files, one per commit of the AgentCanon source
  RetryLimit,  \* PUBLICATION_RETRY_LIMIT
  MaxFaults,   \* bound on killed processes and failed pushes
  MaxOthers    \* bound on commits by other publishers

ASSUME ArchiveAssumption ==
  RetryLimit \in Nat \ {0} /\ MaxFaults \in Nat /\ MaxOthers \in Nat

VARIABLES
  written,   \* history: the events that hooks have published
  spool,     \* spool[h]: the events whose file is in the spool of h
  work,      \* work[h]: the checkpoint in the work tree of h
  head,      \* head[h]: the head of the clone of h
  jammed,    \* the hosts whose clone was left in the middle of a rebase
  run,       \* run[h]: the command that holds the archive lock of h
  log,       \* the checkpoints of the commits of the branch, oldest first
  others,    \* how many of them other publishers have made
  faults,    \* how many faults have happened
  torn       \* history: after how many writes ingests were cut off

vars == <<written, spool, work, head, jammed, run, log, others, faults, torn>>

Row == Event \X Projection
Checkpoint == [proj : SUBSET Row, index : SUBSET Row, cursor : SUBSET Row]
CloneHead == [at : Nat, ahead : BOOLEAN, tree : Checkpoint]
Run == [pc : {"idle", "compare", "push", "readback"},
        covered : SUBSET Event, tries : 0..RetryLimit - 1]

Blank == [proj |-> {}, index |-> {}, cursor |-> {}]
Idle  == [pc |-> "idle", covered |-> {}, tries |-> 0]

LogAt(i) == IF i = 0 THEN Blank ELSE log[i]
Tip == LogAt(Len(log))

Indexed(t, e) == \E f \in Projection : <<e, f>> \in t.index
\* finalize_hook_spool_readback looks the event up where the index says.
Published(t, e) == \E f \in Projection : <<e, f>> \in t.index \cap t.proj

\* The cursor holds the hash of the index, every row of the index is in its
\* projection, and no event is in two rows.
Certified(t) ==
  /\ t.cursor = t.index
  /\ t.index \subseteq t.proj
  /\ \A e \in Event, f, g \in Projection :
       <<e, f>> \in t.index /\ <<e, g>> \in t.index => f = g

Goto(h, pc) == run' = [run EXCEPT ![h].pc = pc]
End(h)      == run' = [run EXCEPT ![h] = Idle]

Fault == faults < MaxFaults /\ faults' = faults + 1

----------------------------------------------------------------------------
(* The spool and the work tree.                                            *)

\* A hook publishes an event: a new file under a name of its own.
Hook(h, e) ==
  /\ e \notin written
  /\ written' = written \cup {e}
  /\ spool' = [spool EXCEPT ![h] = @ \cup {e}]
  /\ UNCHANGED <<work, head, jammed, run, log, others, faults, torn>>

\* Mutant: every event of the snapshot is taken for a new one.
AcceptedAll(h) == spool[h]

Accepted(h) == {e \in spool[h] : ~Indexed(work[h], e)}

\* The work tree after the first n of the three writes.
Written(t, rows, n) ==
  [proj   |-> IF n >= 1 THEN t.proj \cup rows ELSE t.proj,
   index  |-> IF n >= 2 THEN t.index \cup rows ELSE t.index,
   cursor |-> IF n >= 3 THEN t.index \cup rows ELSE t.cursor]

\* A command gets the lock, which is refused while another has it, and finds
\* the clone on its branch.  It fetches and leaves the work tree as it is.
Locks(h) == run[h].pc = "idle" /\ h \notin jammed

\* Mutant: without anything to commit there is nothing to publish.
PublishChanges(h, tree, events) ==
  IF tree = head[h].tree THEN UNCHANGED <<head, run>>
  ELSE /\ head' = [head EXCEPT ![h].tree = tree, ![h].ahead = TRUE]
       /\ run' = [run EXCEPT ![h] =
                    [pc |-> "compare", covered |-> events, tries |-> 0]]

\* publish_prepared_archive up to the push: the work tree is staged, and
\* committed where it differs from the head.
Publish(h, tree, events) ==
  /\ head' = [head EXCEPT ![h].tree = tree, ![h].ahead = @ \/ tree # head[h].tree]
  /\ run' = [run EXCEPT ![h] =
               [pc |-> "compare", covered |-> events, tries |-> 0]]

\* The command `push' ingests nothing and publishes the work tree as it is.
PushCommand(h) ==
  /\ Locks(h)
  /\ Publish(h, work[h], {})
  /\ UNCHANGED <<written, spool, work, jammed, log, others, faults, torn>>

\* The work tree after the ingest of the whole spool into f.
Ingested(h, f) ==
  IF Accepted(h) = {} THEN work[h] ELSE Written(work[h], Accepted(h) \X {f}, 3)

\* The command `sync' takes a snapshot of the spool, ingests and publishes it.
\* It fails before it writes anything where the checkpoint is no certificate.
Sync(h) ==
  /\ Locks(h) /\ Certified(work[h])
  /\ \E f \in Projection :
       /\ work' = [work EXCEPT ![h] = Ingested(h, f)]
       /\ Publish(h, Ingested(h, f), spool[h])
  /\ UNCHANGED <<written, spool, jammed, log, others, faults, torn>>

\* `sync --no-push', or a sync that fails or is killed before it commits.
SyncWithoutPush(h) ==
  /\ Locks(h) /\ Certified(work[h]) /\ Accepted(h) # {}
  /\ \E f \in Projection : work' = [work EXCEPT ![h] = Ingested(h, f)]
  /\ UNCHANGED <<written, spool, head, jammed, run, log, others, faults, torn>>

\* The process is killed between two writes, or a write fails and so does the
\* restoration of what was written before.
IngestIsTorn(h) ==
  /\ Locks(h) /\ Certified(work[h]) /\ Accepted(h) # {} /\ Fault
  /\ \E f \in Projection, n \in 1..2 :
       /\ work' = [work EXCEPT ![h] = Written(@, Accepted(h) \X {f}, n)]
       /\ torn' = torn \cup {n}
  /\ UNCHANGED <<written, spool, head, jammed, run, log, others>>

----------------------------------------------------------------------------
(* Publication.                                                            *)

\* Mutant: a conflict in the cursor is settled in favour of the own commit.
ConflictIgnored(base, theirs, mine) == FALSE

\* Only conflicts in .jsonl files are merged, and the cursor is a .json file.
Conflict(base, theirs, mine) ==
  /\ theirs.cursor # base.cursor /\ mine.cursor # base.cursor
  /\ theirs.cursor # mine.cursor

\* Mutant: a file that both sides changed is taken from the own commit.
MergedMine(base, theirs, mine) == IF mine = base THEN theirs ELSE mine

\* A three-way merge of a file of lines, by union where both sides changed it.
Merged(base, theirs, mine) ==
  IF mine = base THEN theirs
  ELSE IF theirs = base THEN mine ELSE theirs \cup mine

Rebased(base, theirs, mine) ==
  [proj   |-> Merged(base.proj, theirs.proj, mine.proj),
   index  |-> Merged(base.index, theirs.index, mine.index),
   cursor |-> IF mine.cursor = base.cursor THEN theirs.cursor ELSE mine.cursor]

Behind(h) == head[h].at # Len(log)

\* One turn of the loop of _compare_and_push up to the push: fetch, and rebase
\* onto the branch where it has moved.  A failed rebase is aborted and ends
\* the command as uncertain.
Compare(h) ==
  /\ run[h].pc = "compare"
  /\ LET base == LogAt(head[h].at)
         mine == head[h].tree
         next == IF head[h].ahead THEN Rebased(base, Tip, mine) ELSE Tip
     IN  IF ~Behind(h) THEN Goto(h, "push") /\ UNCHANGED <<head, work>>
         ELSE IF head[h].ahead /\ Conflict(base, Tip, mine)
         THEN End(h) /\ UNCHANGED <<head, work>>
         ELSE /\ head' = [head EXCEPT ![h] =
                    [at |-> Len(log), ahead |-> head[h].ahead /\ next # Tip,
                     tree |-> next]]
              /\ work' = [work EXCEPT ![h] = next]
              /\ Goto(h, "push")
  /\ UNCHANGED <<written, spool, jammed, log, others, faults, torn>>

\* Mutant: the push is forced.
MayLandForced(h) == TRUE

\* Without force the branch only moves to a descendant of its commit.
MayLand(h) == ~Behind(h)

\* The branch gets the commits of h, if it has any of its own.
Land(h) ==
  /\ log' = IF head[h].ahead THEN Append(log, head[h].tree) ELSE log
  /\ head' = [head EXCEPT ![h].at = Len(log'), ![h].ahead = FALSE]

Retry(h) ==
  \/ /\ run[h].tries + 1 < RetryLimit
     /\ run' = [run EXCEPT ![h].pc = "compare", ![h].tries = run[h].tries + 1]
  \/ run[h].tries + 1 >= RetryLimit /\ End(h)

Push(h) ==
  /\ run[h].pc = "push"
  /\ \/ MayLand(h) /\ Land(h) /\ Goto(h, "readback")
     \/ ~MayLand(h) /\ Retry(h) /\ UNCHANGED <<log, head>>
  /\ UNCHANGED <<written, spool, work, jammed, others, faults, torn>>

\* The push reports a failure, before or after the branch has moved.
PushFails(h) ==
  /\ run[h].pc = "push"
  /\ Fault /\ Retry(h)
  /\ (MayLand(h) /\ Land(h)) \/ UNCHANGED <<log, head>>
  /\ UNCHANGED <<written, spool, work, jammed, others, torn>>

\* The branch has to read back as the local head, or the result is uncertain.
ReadsBack(h) == ~Behind(h) /\ ~head[h].ahead

\* Every event of the snapshot is in the index and the projection of the
\* commit.
IsCertifiedBy(h) == \A e \in run[h].covered : Published(head[h].tree, e)

\* Mutant: the whole spool is deleted, with what hooks have added since.
FinalizeAll(h) ==
  /\ run[h].pc = "readback"
  /\ ReadsBack(h) /\ IsCertifiedBy(h)
  /\ spool' = [spool EXCEPT ![h] = {}] /\ End(h)
  /\ UNCHANGED <<written, work, head, jammed, log, others, faults, torn>>

\* The readback, and finalize_hook_spool_readback, which deletes the files of
\* the snapshot.
Finalize(h) ==
  /\ run[h].pc = "readback"
  /\ spool' = IF ReadsBack(h) /\ IsCertifiedBy(h)
              THEN [spool EXCEPT ![h] = @ \ run[h].covered] ELSE spool
  /\ End(h)
  /\ UNCHANGED <<written, work, head, jammed, log, others, faults, torn>>

\* The process is killed while it deletes them.
FinalizeIsCut(h) ==
  /\ run[h].pc = "readback" /\ ReadsBack(h) /\ IsCertifiedBy(h)
  /\ Fault /\ End(h)
  /\ \E gone \in SUBSET run[h].covered :
       spool' = [spool EXCEPT ![h] = @ \ gone]
  /\ UNCHANGED <<written, work, head, jammed, log, others, torn>>

\* The process is killed, or git or the disk fails it; a kill during a rebase
\* leaves a detached head, on which no later command finds its branch.
Stops(h) ==
  /\ run[h].pc # "idle"
  /\ Fault /\ End(h)
  /\ \/ UNCHANGED jammed
     \/ run[h].pc = "compare" /\ Behind(h) /\ jammed' = jammed \cup {h}
  /\ UNCHANGED <<written, spool, work, head, log, others, torn>>

\* Another publisher commits other files to the branch.
OtherPush ==
  /\ others < MaxOthers
  /\ log' = Append(log, Tip) /\ others' = others + 1
  /\ UNCHANGED <<written, spool, work, head, jammed, run, faults, torn>>

----------------------------------------------------------------------------
Init ==
  /\ written = {} /\ torn = {} /\ jammed = {}
  /\ log = <<>> /\ others = 0 /\ faults = 0
  /\ spool = [h \in Host |-> {}]
  /\ work = [h \in Host |-> Blank]
  /\ head = [h \in Host |-> [at |-> 0, ahead |-> FALSE, tree |-> Blank]]
  /\ run = [h \in Host |-> Idle]

\* What a running command does unless something stops it.
Proceed(h) == Compare(h) \/ Push(h) \/ Finalize(h)

Next ==
  \/ OtherPush
  \/ \E h \in Host :
       \/ \E e \in Event : Hook(h, e)
       \/ Sync(h) \/ SyncWithoutPush(h) \/ PushCommand(h)
       \/ Proceed(h)
       \/ IngestIsTorn(h) \/ PushFails(h) \/ FinalizeIsCut(h) \/ Stops(h)

\* A command that is not stopped goes on, and the timer of the host starts a
\* sync again and again, so that some of them find the lock free.
Fairness ==
  \A h \in Host : WF_vars(Proceed(h)) /\ SF_vars(Sync(h))

SafetySpec == Init /\ [][Next]_vars
Spec == SafetySpec /\ Fairness

----------------------------------------------------------------------------
(* Properties.                                                             *)

TypeOK ==
  /\ written \subseteq Event /\ jammed \subseteq Host /\ torn \subseteq 1..2
  /\ spool \in [Host -> SUBSET Event] /\ work \in [Host -> Checkpoint]
  /\ head \in [Host -> CloneHead] /\ run \in [Host -> Run]
  /\ log \in Seq(Checkpoint)
  /\ others \in 0..MaxOthers /\ faults \in 0..MaxFaults

\* An event whose spool file is gone is on the branch, in the index and where
\* the index says: publication is complete only after remote readback
\* (finalize_hook_spool_readback).
DeletedIsPublished ==
  \A e \in written : (\A h \in Host : e \notin spool[h]) => Published(Tip, e)

\* What the branch has in its projections and its index stays there: no push
\* and no rebase of any host loses what another has published
\* (_rebase_to_remote, _compare_and_push).
HistoryGrows ==
  [][/\ Tip.proj \subseteq Tip'.proj
     /\ Tip.index \subseteq Tip'.index]_vars

\* The checkpoint on the branch is a certificate, whoever merged it, unless
\* some ingest was cut off between its index and its cursor
\* (_validate_spool_checkpoint_state).
BranchIsCertified == 2 \notin torn => Certified(Tip)

\* One checkpoint publishes each event once, unless some ingest was cut off
\* between its projection and its index (ingest_hook_event_spool).
PublishedOnce ==
  1 \notin torn =>
    \A e \in Event, f, g \in Projection :
      <<e, f>> \in Tip.proj /\ <<e, g>> \in Tip.proj => f = g

Spooled(e) == \E h \in Host : e \in spool[h]

\* What all hosts together have kept and published (EventLog).
inSpool  == {e \in Event : Spooled(e)}
onBranch == {e \in Event : Published(Tip, e)}
Events == INSTANCE EventLog WITH spooled <- inSpool, published <- onBranch

\* An event that a hook has written is in a spool until it is on the branch,
\* never leaves the branch, and comes back to no spool, whichever host, rebase,
\* crash or retry has taken it there: the hosts implement EventLog.
ImplementsEventLog == Events!Spec

\* The clone of h is left torn or in a rebase, or has made a checkpoint of its
\* own beside one that another host has published.
Wedged(h) ==
  \/ h \in jammed
  \/ ~Certified(work[h])
  \/ Conflict(LogAt(head[h].at), Tip, work[h])

\* A spooled event is published and leaves the spool, unless its host is in
\* one of these states (command_sync, started by the timer).
DeliveredOrWedged ==
  \A e \in Event :
    Spooled(e) ~> (~Spooled(e) \/ \E h \in Host : e \in spool[h] /\ Wedged(h))

=============================================================================
