------------------------ MODULE SubreaperQuiescence ------------------------
(***************************************************************************)
(* LinuxSubreaperCommandExecutor.execute and its scan of /proc             *)
(* (src/tools/experiments/execution/gpu_command_admission.py).  The runner *)
(* is a child subreaper: what the command's processes leave behind is      *)
(* reparented to it.  It lists /proc, then reads one `stat' after the      *)
(* other, computes from this table which processes belong to the command,  *)
(* reaps the zombies among them and stops when none of them is live.  The  *)
(* processes go on while it reads.                                         *)
(*                                                                         *)
(* An operator whose comment begins with `Mutant' is a plausible mistake   *)
(* in the definition after it, used only to test the properties.           *)
(***************************************************************************)
CONSTANTS
  Proc,        \* processes the command may consist of, each created once
  Root,        \* the process that Popen starts
  Runner       \* the parent of Root and of the orphans

ASSUME ProcAssumption ==
  Root \in Proc /\ Runner \notin Proc

VARIABLES
  status,    \* status[p]: "unborn", "live", "zombie" or "gone"
  parent,    \* parent[p]
  session,   \* the processes in the session of Root
  mode,      \* "watching" Root, "draining" descendants, or "quiet"
  scanning,  \* /proc has been listed and not all of it been read and used
  unread,    \* listed entries whose stat is not read yet
  table,     \* the records read: [pid, state, parent, session]
  tracked,   \* the processes ever found in scope
  forked     \* history: some process forked since /proc was listed

procVars == <<status, parent, session>>
scanVars == <<mode, scanning, unread, table, tracked>>
vars     == <<procVars, scanVars, forked>>

Exists(p) == status[p] \in {"live", "zombie"}

----------------------------------------------------------------------------
(* The processes of the command.                                           *)

Fork(p, c) ==
  /\ status[p] = "live" /\ status[c] = "unborn"
  /\ status' = [status EXCEPT ![c] = "live"]
  /\ parent' = [parent EXCEPT ![c] = p]
  /\ session' = IF p \in session THEN session \cup {c} ELSE session
  /\ forked' = (forked \/ scanning)
  /\ UNCHANGED scanVars

\* setsid: also leaves the process group of Root.
LeaveSession(p) ==
  /\ status[p] = "live" /\ p \in session \ {Root}
  /\ session' = session \ {p}
  /\ UNCHANGED <<status, parent, scanVars, forked>>

\* The children of a process that exits go to the subreaper.
Exit(p) ==
  /\ status[p] = "live"
  /\ status' = [status EXCEPT ![p] = "zombie"]
  /\ parent' = [c \in Proc |-> IF parent[c] = p THEN Runner ELSE parent[c]]
  /\ UNCHANGED <<session, scanVars, forked>>

\* A process of the command reaps its own child.
ParentReaps(c) ==
  /\ status[c] = "zombie" /\ parent[c] # Runner
  /\ status' = [status EXCEPT ![c] = "gone"]
  /\ UNCHANGED <<parent, session, scanVars, forked>>

----------------------------------------------------------------------------
(* The runner.                                                             *)

\* The directory is listed in one go; only what exists is in it.
List ==
  /\ mode # "quiet" /\ ~scanning
  /\ scanning' = TRUE
  /\ unread' = {p \in Proc : Exists(p)}
  /\ forked' = FALSE
  /\ UNCHANGED <<procVars, mode, table, tracked>>

RecordOf(p) == [pid |-> p, state |-> status[p], parent |-> parent[p],
                session |-> p \in session]

\* An entry that is gone when its turn comes is skipped.
ReadStat(p) ==
  /\ p \in unread
  /\ unread' = unread \ {p}
  /\ table' = IF Exists(p) THEN table \cup {RecordOf(p)} ELSE table
  /\ UNCHANGED <<procVars, mode, scanning, tracked, forked>>

\* Mutant: only Root and its session are looked for.
SeedsBySession == {Root} \cup {r.pid : r \in {q \in table : q.session}}

\* Mutant: only Root and what was tracked are looked for.
SeedsByTracking == {Root} \cup tracked

\* What is known to belong to the command, and what is adopted or in session.
Seeds == {Root} \cup tracked
           \cup {r.pid : r \in {q \in table : q.session \/ q.parent = Runner}}

\* No process of the table has a parent in S and is itself outside.
Closed(S) == \A r \in table : r.parent \in S => r.pid \in S

\* The command's processes in the table: the least closed set with the seeds.
Scope == {r \in table :
            \A S \in SUBSET Proc : Seeds \subseteq S /\ Closed(S) => r.pid \in S}

\* Mutant: what was ever tracked is waited for, there or not.
LiveByTracking == ({r.pid : r \in Scope} \cup tracked) \ {Root}

LiveInScope == {r.pid : r \in {q \in Scope : q.pid # Root /\ q.state # "zombie"}}

Reapable == {r.pid : r \in {q \in Scope : q.pid # Root /\ q.state = "zombie"
                                            /\ q.parent = Runner}}

\* While Root runs a scan only adds to what is tracked; poll() may find that
\* Root has exited, which reaps it.
Watch ==
  /\ mode = "watching" /\ scanning /\ unread = {}
  /\ tracked' = tracked \cup {r.pid : r \in Scope}
  /\ IF status[Root] = "zombie"
       THEN /\ mode' = "draining"
            /\ status' = [status EXCEPT ![Root] = "gone"]
       ELSE UNCHANGED <<mode, status>>
  /\ scanning' = FALSE
  /\ table' = {}
  /\ UNCHANGED <<parent, session, unread, forked>>

\* Once Root is gone, a scan that shows no live process ends the wait.
Drain ==
  /\ mode = "draining" /\ scanning /\ unread = {}
  /\ tracked' = tracked \cup {r.pid : r \in Scope}
  /\ status' = [p \in Proc |-> IF p \in Reapable THEN "gone" ELSE status[p]]
  /\ mode' = IF LiveInScope = {} THEN "quiet" ELSE "draining"
  /\ scanning' = FALSE
  /\ table' = {}
  /\ UNCHANGED <<parent, session, unread, forked>>

----------------------------------------------------------------------------
Init ==
  /\ status = [p \in Proc |-> IF p = Root THEN "live" ELSE "unborn"]
  /\ parent = [p \in Proc |-> Runner]
  /\ session = {Root}
  /\ mode = "watching"
  /\ scanning = FALSE
  /\ unread = {}
  /\ table = {}
  /\ tracked = {}
  /\ forked = FALSE

Scan == List \/ (\E p \in Proc : ReadStat(p)) \/ Watch \/ Drain

Next ==
  \/ \E p, c \in Proc : Fork(p, c)
  \/ \E p \in Proc : LeaveSession(p) \/ Exit(p) \/ ParentReaps(p)
  \/ Scan

\* The runner goes on scanning.  No process has to exit.
Spec == Init /\ [][Next]_vars /\ WF_vars(Scan)

----------------------------------------------------------------------------
(* Properties.                                                             *)

\* Types of the processes and of the records read.
TypeOK ==
  /\ status \in [Proc -> {"unborn", "live", "zombie", "gone"}]
  /\ parent \in [Proc -> Proc \cup {Runner}]
  /\ session \subseteq Proc
  /\ mode \in {"watching", "draining", "quiet"}
  /\ scanning \in BOOLEAN /\ forked \in BOOLEAN
  /\ unread \subseteq Proc
  /\ table \subseteq [pid : Proc, state : {"live", "zombie"},
                      parent : Proc \cup {Runner}, session : BOOLEAN]
  /\ tracked \subseteq Proc

\* Whatever a scan once found to belong to the command is gone when the wait
\* ends, wherever it has moved to and however the scan interleaved.
TrackedAreGone ==
  mode = "quiet" => \A p \in tracked : status[p] # "live"

\* Every process of the session that is alive when the wait ends was forked
\* while the last scan was reading, however the others exited and were reaped.
SessionIsGone ==
  mode = "quiet" /\ ~forked => \A p \in session : status[p] # "live"

\* The wait ends when the command does: no zombie, reaped or not, holds it up.
QuiescenceReached ==
  (\A p \in Proc : status[p] # "live") ~> mode = "quiet"

=============================================================================
