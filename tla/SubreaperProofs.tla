--------------------------- MODULE SubreaperProofs ---------------------------
(***************************************************************************)
(* What the wait for quiescence establishes, for any number of processes.  *)
(* An atomic reading of /proc would make both theorems obvious; the        *)
(* invariant says what survives of it when processes go on in between: a   *)
(* process that is live now was live when its entry was read, and one that *)
(* a record calls a zombie will never be live again.                       *)
(***************************************************************************)
EXTENDS SubreaperQuiescence, TLAPS

\* A process that is live now is still to be read or has been read as live.
Noticed(p) == p \in unread \/ \E r \in table : r.pid = p /\ r.state = "live"

\* No record or entry is about a process that does not exist yet, and a record
\* of a zombie is about a process that has exited.
RecordsSound ==
  /\ \A p \in unread \cup tracked : status[p] # "unborn"
  /\ \A r \in table : /\ status[r.pid] # "unborn"
                      /\ r.state = "zombie" => status[r.pid] \in {"zombie", "gone"}

\* Whoever was tracked before the scan is noticed by it.
TrackedNoticed == scanning => \A p \in tracked : status[p] = "live" => Noticed(p)

\* Who is in the session is noticed unless somebody forked; its record says
\* that it is in the session, since nobody returns to a session.
SessionNoticed ==
  scanning /\ ~forked => \A p \in session : status[p] = "live" => Noticed(p)
SessionRecorded == \A r \in table : r.pid \in session => r.session

RootIsReaped == mode \in {"draining", "quiet"} => status[Root] = "gone"

SessionBorn == \A p \in session : status[p] # "unborn"

QuietInv ==
  /\ TypeOK /\ RecordsSound /\ TrackedNoticed
  /\ SessionNoticed /\ SessionRecorded /\ SessionBorn
  /\ RootIsReaped
  /\ TrackedAreGone /\ SessionIsGone
  /\ mode = "quiet" => ~scanning

----------------------------------------------------------------------------
\* The scope contains the records of its seeds.
LEMMA SeedsInScope ==
  ASSUME NEW r \in table, r.pid \in Seeds
  PROVE  r \in Scope
BY DEF Scope

\* If a scan shows no live process, then no live process that belongs to the
\* seeds has been noticed in it.
LEMMA QuietScan ==
  ASSUME LiveInScope = {}, unread = {}, NEW p, p # Root, Noticed(p)
  PROVE  p \notin Seeds
<1>1. PICK r \in table : r.pid = p /\ r.state = "live" BY DEF Noticed
<1>2. SUFFICES ASSUME p \in Seeds PROVE FALSE
  OBVIOUS
<1>3. r \in Scope BY <1>1, <1>2, SeedsInScope
<1>4. p \in LiveInScope BY <1>1, <1>3 DEF LiveInScope
<1> QED BY <1>4

LEMMA QuietInvInit == Init => QuietInv
<1> SUFFICES ASSUME Init PROVE QuietInv
  OBVIOUS
<1> USE ProcAssumption DEF Init
<1>1. TypeOK BY DEF TypeOK
<1>2. RecordsSound BY DEF RecordsSound
<1>3. TrackedNoticed /\ SessionNoticed BY DEF TrackedNoticed, SessionNoticed
<1>4. SessionRecorded /\ SessionBorn BY DEF SessionRecorded, SessionBorn
<1>5. RootIsReaped /\ TrackedAreGone /\ SessionIsGone
  BY DEF RootIsReaped, TrackedAreGone, SessionIsGone
<1> QED BY <1>1, <1>2, <1>3, <1>4, <1>5 DEF QuietInv

----------------------------------------------------------------------------
(* What the processes do.                                                  *)

LEMMA ForkKeeps ==
  ASSUME QuietInv, NEW p \in Proc, NEW c \in Proc, Fork(p, c)
  PROVE  QuietInv'
<1> USE ProcAssumption DEF Fork, QuietInv, scanVars
<1>1. TypeOK' BY DEF TypeOK
<1>2. RecordsSound' BY DEF RecordsSound, TypeOK
<1>3. TrackedNoticed' BY DEF TrackedNoticed, Noticed, RecordsSound, TypeOK
<1>4. SessionNoticed' BY DEF SessionNoticed, Noticed, SessionBorn, TypeOK
<1>5. SessionRecorded' BY DEF SessionRecorded, RecordsSound, TypeOK
<1>6. SessionBorn' BY DEF SessionBorn, TypeOK
<1>7. RootIsReaped' BY DEF RootIsReaped, TypeOK
<1>8. TrackedAreGone' BY DEF TrackedAreGone, RecordsSound, TypeOK
<1>9. SessionIsGone'
  <2> SUFFICES ASSUME mode = "quiet", ~forked' PROVE \A q \in session' : status'[q] # "live"
    BY DEF SessionIsGone
  <2>1. ~forked BY DEF TypeOK
  <2>2. \A q \in session : status[q] # "live" BY <2>1 DEF SessionIsGone
  <2>3. p \notin session /\ session' = session BY <2>2
  <2>4. c \notin session BY DEF SessionBorn
  <2> QED BY <2>2, <2>3, <2>4 DEF TypeOK
<1> QED BY <1>1, <1>2, <1>3, <1>4, <1>5, <1>6, <1>7, <1>8, <1>9

LEMMA LeaveSessionKeeps ==
  ASSUME QuietInv, NEW p \in Proc, LeaveSession(p)
  PROVE  QuietInv'
BY DEF QuietInv, LeaveSession, scanVars, TypeOK, RecordsSound, TrackedNoticed, Noticed,
       SessionNoticed, SessionRecorded, SessionBorn, RootIsReaped, TrackedAreGone,
       SessionIsGone

\* An exit or a reaping only makes fewer processes live.
LEMMA EndKeeps ==
  ASSUME QuietInv, NEW p \in Proc, Exit(p) \/ ParentReaps(p)
  PROVE  QuietInv'
<1> USE ProcAssumption DEF QuietInv, scanVars
<1>1. /\ UNCHANGED <<session, scanVars, forked>>
      /\ status[p] # "unborn"
      /\ \E s \in {"zombie", "gone"} : status' = [status EXCEPT ![p] = s]
      /\ status[p] = "zombie" => status'[p] = "gone"
      /\ status[p] \in {"live", "zombie"}
  BY DEF Exit, ParentReaps, TypeOK
<1>2. parent' \in [Proc -> Proc \cup {Runner}] BY DEF Exit, ParentReaps, TypeOK
<1>3. TypeOK'
  <2>1. PICK s \in {"zombie", "gone"} : status' = [status EXCEPT ![p] = s] BY <1>1
  <2>2. status' \in [Proc -> {"unborn", "live", "zombie", "gone"}]
    BY <2>1 DEF TypeOK
  <2> QED BY <1>1, <1>2, <2>2 DEF TypeOK
<1>4. \A q \in Proc : /\ status'[q] = "live" => status[q] = "live"
                      /\ status[q] # "unborn" => status'[q] # "unborn"
                      /\ status[q] \in {"zombie", "gone"} => status'[q] \in {"zombie", "gone"}
                      /\ status[q] = "gone" => status'[q] = "gone"
  BY <1>1 DEF TypeOK
<1>5. RecordsSound' BY <1>1, <1>4 DEF RecordsSound, TypeOK
<1>6. TrackedNoticed' /\ SessionNoticed'
  BY <1>1, <1>4 DEF TrackedNoticed, SessionNoticed, Noticed, TypeOK
<1>7. SessionRecorded' /\ SessionBorn'
  BY <1>1, <1>4 DEF SessionRecorded, SessionBorn, TypeOK
<1>8. RootIsReaped' /\ TrackedAreGone' /\ SessionIsGone'
  BY <1>1, <1>4 DEF RootIsReaped, TrackedAreGone, SessionIsGone, TypeOK
<1> QED BY <1>1, <1>3, <1>5, <1>6, <1>7, <1>8

----------------------------------------------------------------------------
(* What the runner does.                                                   *)

LEMMA ListKeeps ==
  ASSUME QuietInv, List
  PROVE  QuietInv'
<1> USE DEF QuietInv, List, procVars
<1>1. TypeOK' BY DEF TypeOK
<1>2. RecordsSound' BY DEF RecordsSound, TypeOK, Exists
<1>3. TrackedNoticed' /\ SessionNoticed'
  BY DEF TrackedNoticed, SessionNoticed, Noticed, Exists, TypeOK
<1>4. SessionRecorded' /\ SessionBorn' BY DEF SessionRecorded, SessionBorn
<1>5. RootIsReaped' /\ TrackedAreGone' /\ SessionIsGone'
  BY DEF RootIsReaped, TrackedAreGone, SessionIsGone
<1> QED BY <1>1, <1>2, <1>3, <1>4, <1>5

LEMMA ReadStatKeeps ==
  ASSUME QuietInv, NEW p \in Proc, ReadStat(p)
  PROVE  QuietInv'
<1> USE DEF QuietInv, ReadStat, procVars
<1>1. RecordOf(p).pid = p /\ RecordOf(p).state = status[p]
      /\ RecordOf(p).session = (p \in session)
  BY DEF RecordOf
<1>2. TypeOK'
  <2>1. Exists(p) => RecordOf(p) \in [pid : Proc, state : {"live", "zombie"},
                                      parent : Proc \cup {Runner}, session : BOOLEAN]
    BY DEF TypeOK, RecordOf, Exists
  <2>2. table' \subseteq [pid : Proc, state : {"live", "zombie"},
                          parent : Proc \cup {Runner}, session : BOOLEAN]
    BY <2>1 DEF TypeOK
  <2>3. TypeOK OBVIOUS
  <2>4. unread' \subseteq Proc BY <2>3 DEF TypeOK
  <2> QED BY <2>2, <2>3, <2>4 DEF TypeOK
<1>3. RecordsSound' BY <1>1 DEF RecordsSound, TypeOK, Exists
<1>4. \A q \in Proc : status[q] = "live" /\ Noticed(q) => Noticed(q)'
  BY <1>1 DEF Noticed, Exists
<1>5. TrackedNoticed' /\ SessionNoticed'
  BY <1>4 DEF TrackedNoticed, SessionNoticed, TypeOK
<1>6. SessionRecorded' /\ SessionBorn' BY <1>1 DEF SessionRecorded, SessionBorn
<1>7. RootIsReaped' /\ TrackedAreGone' /\ SessionIsGone'
  BY DEF RootIsReaped, TrackedAreGone, SessionIsGone
<1> QED BY <1>2, <1>3, <1>5, <1>6, <1>7

LEMMA WatchKeeps ==
  ASSUME QuietInv, Watch
  PROVE  QuietInv'
<1> USE ProcAssumption DEF QuietInv, Watch
<1>1. \A r \in Scope : r \in table BY DEF Scope
<1>2. status' \in [Proc -> {"unborn", "live", "zombie", "gone"}]
      /\ \A q \in Proc : status[q] # "unborn" => status'[q] # "unborn"
  BY DEF TypeOK
<1>3. TypeOK'
  <2>1. \A r \in table : r.pid \in Proc BY DEF TypeOK
  <2>2. tracked' \subseteq Proc BY <1>1, <2>1 DEF TypeOK
  <2>3. mode' \in {"watching", "draining"} /\ table' = {} OBVIOUS
  <2>4. /\ parent' = parent /\ session' = session /\ unread' = unread
        /\ forked' = forked /\ scanning' = FALSE
    OBVIOUS
  <2> HIDE DEF Watch, QuietInv
  <2>5. TypeOK BY DEF QuietInv
  <2> QED BY <1>2, <2>2, <2>3, <2>4, <2>5 DEF TypeOK
<1>4. RecordsSound' BY <1>1, <1>2 DEF RecordsSound, TypeOK
<1>5. TrackedNoticed' /\ SessionNoticed' BY DEF TrackedNoticed, SessionNoticed
<1>6. SessionRecorded' BY DEF SessionRecorded
<1>7. SessionBorn' BY <1>2 DEF SessionBorn, TypeOK
<1>8. RootIsReaped' BY DEF RootIsReaped, TypeOK
<1>9. TrackedAreGone' /\ SessionIsGone' BY DEF TrackedAreGone, SessionIsGone
<1> QED BY <1>3, <1>4, <1>5, <1>6, <1>7, <1>8, <1>9

LEMMA DrainKeeps ==
  ASSUME QuietInv, Drain
  PROVE  QuietInv'
<1> USE ProcAssumption DEF QuietInv, Drain
<1>1. \A r \in Scope : r \in table BY DEF Scope
<1>2. \A q \in Proc : status'[q] \in {status[q], "gone"}
  BY DEF TypeOK
<1>3. TypeOK'
  <2>1. status' \in [Proc -> {"unborn", "live", "zombie", "gone"}] BY DEF TypeOK
  <2>2. \A r \in table : r.pid \in Proc BY DEF TypeOK
  <2>3. tracked' \subseteq Proc BY <1>1, <2>2 DEF TypeOK
  <2>4. mode' \in {"quiet", "draining"} /\ table' = {} OBVIOUS
  <2>5. /\ parent' = parent /\ session' = session /\ unread' = unread
        /\ forked' = forked /\ scanning' = FALSE
    OBVIOUS
  <2> HIDE DEF Drain, QuietInv
  <2>6. TypeOK BY DEF QuietInv
  <2> QED BY <2>1, <2>3, <2>4, <2>5, <2>6 DEF TypeOK
<1>4. RecordsSound' BY <1>1, <1>2 DEF RecordsSound, TypeOK
<1>5. TrackedNoticed' /\ SessionNoticed' BY DEF TrackedNoticed, SessionNoticed
<1>6. SessionRecorded' BY DEF SessionRecorded
<1>7. SessionBorn' BY <1>2 DEF SessionBorn, TypeOK
<1>8. RootIsReaped' BY <1>2 DEF RootIsReaped, TypeOK
<1>9. TrackedAreGone'
  <2> SUFFICES ASSUME mode' = "quiet", NEW p \in tracked', status'[p] = "live"
               PROVE  FALSE
    BY DEF TrackedAreGone
  <2>1. LiveInScope = {} OBVIOUS
  <2>2. p \in Proc BY <1>3 DEF TypeOK
  <2>3. status[p] = "live" /\ p # Root BY <1>2, <2>2 DEF RootIsReaped
  <2>4. CASE p \in tracked
    <3>1. Noticed(p) BY <2>3, <2>4 DEF TrackedNoticed
    <3>2. p \in Seeds BY <2>4 DEF Seeds
    <3> QED BY <2>1, <2>3, <3>1, <3>2, QuietScan
  <2>5. CASE p \notin tracked
    <3>1. PICK r \in Scope : r.pid = p BY <2>5
    <3>2. r.state # "zombie" BY <1>1, <2>3, <3>1 DEF RecordsSound
    <3>3. p \in LiveInScope BY <2>3, <3>1, <3>2 DEF LiveInScope
    <3> QED BY <2>1, <3>3
  <2> QED BY <2>4, <2>5
<1>10. SessionIsGone'
  <2> SUFFICES ASSUME mode' = "quiet", ~forked, NEW p \in session, status'[p] = "live"
               PROVE  FALSE
    BY DEF SessionIsGone
  <2>1. LiveInScope = {} OBVIOUS
  <2>2. p \in Proc BY DEF TypeOK
  <2>3. status[p] = "live" /\ p # Root BY <1>2, <2>2 DEF RootIsReaped
  <2>4. Noticed(p) BY <2>3 DEF SessionNoticed
  <2>5. PICK r \in table : r.pid = p BY <2>4 DEF Noticed
  <2>6. r.session BY <2>5 DEF SessionRecorded
  <2>7. p \in Seeds BY <2>5, <2>6 DEF Seeds
  <2> QED BY <2>1, <2>3, <2>4, <2>7, QuietScan
<1> QED BY <1>3, <1>4, <1>5, <1>6, <1>7, <1>8, <1>9, <1>10

LEMMA QuietInvNext == QuietInv /\ [Next]_vars => QuietInv'
<1> SUFFICES ASSUME QuietInv, [Next]_vars PROVE QuietInv'
  OBVIOUS
<1>1. CASE \E p, c \in Proc : Fork(p, c) BY <1>1, ForkKeeps
<1>2. CASE \E p \in Proc : LeaveSession(p) \/ Exit(p) \/ ParentReaps(p)
  BY <1>2, LeaveSessionKeeps, EndKeeps
<1>3. CASE Scan
  <2>1. CASE List BY <2>1, ListKeeps
  <2>2. CASE \E p \in Proc : ReadStat(p) BY <2>2, ReadStatKeeps
  <2>3. CASE Watch BY <2>3, WatchKeeps
  <2>4. CASE Drain BY <2>4, DrainKeeps
  <2> QED BY <1>3, <2>1, <2>2, <2>3, <2>4 DEF Scan
<1>4. CASE UNCHANGED vars
  BY <1>4 DEF QuietInv, vars, procVars, scanVars, TypeOK, RecordsSound, TrackedNoticed,
         Noticed, SessionNoticed, SessionRecorded, SessionBorn, RootIsReaped,
         TrackedAreGone, SessionIsGone
<1> QED BY <1>1, <1>2, <1>3, <1>4 DEF Next

\* When the wait of the executor ends, no process that a scan ever found in
\* scope is live, and a live process of Root's session can only have been
\* forked while the last scan was reading.
THEOREM QuiescenceSafety == Spec => [](TypeOK /\ TrackedAreGone /\ SessionIsGone)
<1>1. Init => QuietInv BY QuietInvInit
<1>2. QuietInv /\ [Next]_vars => QuietInv' BY QuietInvNext
<1>3. QuietInv => TypeOK /\ TrackedAreGone /\ SessionIsGone BY DEF QuietInv
<1> QED BY <1>1, <1>2, <1>3, PTL DEF Spec

\* The same of the session alone: setsid and reparenting hide no process of
\* Root's session from the wait unless it was forked while the last scan read.
THEOREM SessionQuiescence == Spec => []SessionIsGone
<1> QED BY QuiescenceSafety, PTL

=============================================================================
