------------------------------ MODULE IssueSync ------------------------------
(***************************************************************************)
(* IssueWorker.publish and sync_pending_packet                             *)
(* (src/tools/repository/github/issue_sync.py).  A finding becomes a       *)
(* GitHub Issue: the publisher searches for Issues about it, creates or    *)
(* changes one, and has a receipt staged.  Where that fails it leaves a    *)
(* packet in the pending directory of the log, and `--sync-pending'        *)
(* retries the packets in the order of their names until one of them       *)
(* fails.  Publishers and hosts share no lock, and a new Issue is not      *)
(* found by searches at once.                                              *)
(*                                                                         *)
(* The text of an Issue is only told apart by what the code asks of it:    *)
(* "exact" is the text of the packet, "linked" this text and links to      *)
(* other Issues, "cohesive" another text with the responsibility and the   *)
(* fix of the finding, "loose" one without.                                *)
(*                                                                         *)
(* Covered: commands killed anywhere, requests that fail with and without  *)
(* effect, late search results, concurrent commands, people who write,     *)
(* close and reopen Issues.  An operator whose comment begins with         *)
(* `Mutant' is a plausible mistake in the definition after it, used only   *)
(* to test the properties.                                                 *)
(***************************************************************************)
EXTENDS Naturals, Sequences, FiniteSets

CONSTANTS
  Publisher,  \* processes that publish
  Host,       \* processes that retry
  Findings,   \* how many findings there are
  Worker,     \* the findings with a qualified handoff; others are offline
  MaxEvents   \* bound on publications, first and repeated ones, on kills and
              \* failed requests, and on what people do, together

ASSUME IssueAssumption ==
  /\ IsFiniteSet(Publisher) /\ IsFiniteSet(Host)
  /\ Findings \in Nat \ {0} /\ Worker \subseteq 1..Findings
  /\ MaxEvents \in Nat

VARIABLES
  issues,    \* the Issues, in the order of their numbers
  packet,    \* packet[f]: the input mode of the pending packet of f
  receipts,  \* the numbers of the Issues with a staged receipt
  actor,     \* actor[a]: what the process does
  missed,    \* history: missed[f]: the searches that led to a new Issue about f
             \* and missed one
  events     \* how many of the events that MaxEvents bounds there were

vars == <<issues, packet, receipts, actor, missed, events>>

Actor   == Publisher \cup Host
Finding == 1..Findings         \* in the order of their packets' names
Text    == {"exact", "linked", "cohesive", "loose"}
Issue   == [about : Finding, text : Text, open : BOOLEAN, listed : BOOLEAN,
            ours : BOOLEAN]
Mode    == {"none", "initial", "issue-worker-deferred", "structured-log"}
Process == [pc : {"idle", "next", "retry", "search", "create", "edit", "reopen",
                  "sources", "stage", "unlink"},
            retries : BOOLEAN,          \* it is a --sync-pending
            batch : SUBSET Finding,     \* packets that it has still to do
            initial : BOOLEAN,          \* the packet that it read was initial
            finding : Finding, issue : Nat, text : Text,
            reopens : BOOLEAN, sources : SUBSET Nat]

IssuesOf(f) == {n \in DOMAIN issues : issues[n].about = f}
Listed(f)   == {n \in IssuesOf(f) : issues[n].listed}
Exact(f)    == {n \in Listed(f) : issues[n].text = "exact"}
Pending(f)  == packet[f] # "none"

Idle == [pc |-> "idle", retries |-> FALSE, batch |-> {}, initial |-> FALSE,
         finding |-> 1, issue |-> 0, text |-> "exact", reopens |-> FALSE, sources |-> {}]

Goto(a, pc) == actor' = [actor EXCEPT ![a].pc = pc]
Quit(a) == actor' = [actor EXCEPT ![a] = Idle]
Event == events < MaxEvents /\ events' = events + 1

\* An IssueSyncError: a publisher defers its finding, a retry ends with it and
\* leaves this packet and all later ones pending.
Error(a) ==
  /\ Quit(a)
  /\ packet' = IF actor[a].retries \/ Pending(actor[a].finding) THEN packet
               ELSE [packet EXCEPT ![actor[a].finding] = "issue-worker-deferred"]

----------------------------------------------------------------------------
(* Beginnings.                                                             *)

\* Any publisher, for the first time or again; it may have left an initial
\* packet first, which write_pending_packet refuses beside another packet.
BeginPublish(a, f) ==
  /\ actor[a].pc = "idle" /\ f \in Worker /\ Event
  /\ actor' = [actor EXCEPT ![a].pc = "search", ![a].finding = f]
  /\ \/ UNCHANGED packet
     \/ packet[f] = "none" /\ packet' = [packet EXCEPT ![f] = "initial"]
  /\ UNCHANGED <<issues, receipts, missed>>

BeginSync(a) ==
  /\ actor[a].pc = "idle" /\ \E f \in Finding : Pending(f)
  /\ actor' = [actor EXCEPT ![a].pc = "next", ![a].retries = TRUE,
                            ![a].batch = {f \in Finding : Pending(f)}]
  /\ UNCHANGED <<issues, packet, receipts, missed, events>>

----------------------------------------------------------------------------
(* A retry.                                                                *)

\* find_issue_publication_receipt, with the handoff of the finding.
Published(f) == f \in Worker /\ Cardinality(receipts \cap IssuesOf(f)) = 1

\* The next packet is read: another retry may have removed it.
NextPacket(a) ==
  /\ actor[a].pc = "next"
  /\ \/ actor[a].batch = {} /\ Quit(a)
     \/ \E f \in actor[a].batch :
          /\ \A g \in actor[a].batch : f <= g
          /\ IF ~Pending(f) THEN Quit(a)
             ELSE actor' = [actor EXCEPT
                    ![a].finding = f, ![a].batch = @ \ {f},
                    ![a].initial = (packet[f] = "initial"),
                    ![a].pc = IF Published(f) THEN "unlink" ELSE "retry"]
  /\ UNCHANGED <<issues, packet, receipts, missed, events>>

\* Mutant: a retry may create whenever it finds nothing.
MayCreateAny(a) == TRUE

\* Only an initial packet may lead to a new Issue.
MayCreate(a) == actor[a].initial

\* Mutant: every Issue that is found has to be exact.
SettledAll(f) == Cardinality(Listed(f)) = 1 /\ Exact(f) = Listed(f)

\* One of the Issues that are found has to be exact.
Settled(f) == Cardinality(Exact(f)) = 1

\* Mutant: the Issue is there, and so is the packet's work done.
WhenSettledUnlink(f, n) == "unlink"

\* An exact Issue is acknowledged; the one of a handoff is reopened first, by
\* an edit and a change of its state.
WhenSettled(f, n) ==
  IF f \in Worker /\ ~issues[n].open THEN "edit" ELSE "stage"

Retry(a) ==
  /\ actor[a].pc = "retry"
  /\ LET f == actor[a].finding
     IN  \/ /\ Settled(f)
            /\ \E n \in Exact(f) :
                 actor' = [actor EXCEPT
                   ![a].pc = WhenSettled(f, n), ![a].issue = n,
                   ![a].text = "exact", ![a].reopens = TRUE, ![a].sources = {}]
            /\ UNCHANGED packet
         \/ Listed(f) = {} /\ MayCreate(a) /\ Goto(a, "search") /\ UNCHANGED packet
         \/ /\ ~Settled(f) /\ (Listed(f) # {} \/ ~MayCreate(a))
            /\ Error(a)
  /\ UNCHANGED <<issues, receipts, missed, events>>

----------------------------------------------------------------------------
(* A publication.  Each request to GitHub is answered, or fails before or   *)
(* after its effect.                                                       *)

\* plan_publication for the Issues that the search of _publish found: the
\* first steps, and the values that they need.
Plan(a, f) ==
  LET found == Listed(f)
      fits  == {n \in found : issues[n].text # "loose"}
      plan(pc, n, text, reopens, sources) ==
        actor' = [actor EXCEPT ![a].pc = pc, ![a].issue = n, ![a].text = text,
                               ![a].reopens = reopens, ![a].sources = sources]
  IN  \/ found = {} /\ plan("create", 0, "exact", FALSE, {})
      \/ /\ Cardinality(found) = 1
         /\ \E n \in found :
              \/ n \in fits /\ issues[n].open  /\ plan("stage", n, "exact", FALSE, {})
              \/ n \in fits /\ ~issues[n].open /\ plan("edit", n, "exact", TRUE, {})
              \/ n \notin fits /\ plan("edit", n, "exact", FALSE, {})
      \/ /\ Cardinality(found) > 1
         /\ \E n \in IF fits # {} THEN fits ELSE found :
              plan("edit", n, "linked", ~issues[n].open, found \ {n})

\* An Issue of ours is there or being made, the search finds none, and who
\* searches is one who may create.
Misses(a, f) ==
  /\ Listed(f) = {} /\ (~actor[a].retries \/ actor[a].initial)
  /\ \/ \E n \in IssuesOf(f) : issues[n].ours
     \/ \E b \in Actor \ {a} : actor[b].pc = "create" /\ actor[b].finding = f

Search(a) ==
  /\ actor[a].pc = "search"
  /\ LET f == actor[a].finding
     IN  /\ missed' = IF Misses(a, f) THEN [missed EXCEPT ![f] = @ + 1] ELSE missed
         /\ Plan(a, f)
  /\ UNCHANGED <<issues, packet, receipts, events>>

\* The number of the Issue that was made.
Created == Len(issues) + 1

Create(a) ==
  /\ actor[a].pc = "create"
  /\ LET new == Append(issues, [about |-> actor[a].finding, text |-> "exact",
                                open |-> TRUE, listed |-> FALSE, ours |-> TRUE])
     IN  \/ /\ issues' = new /\ UNCHANGED <<packet, events>>
            /\ actor' = [actor EXCEPT ![a].pc = "stage", ![a].issue = Created]
         \/ Event /\ Error(a) /\ issues' \in {issues, new}
  /\ UNCHANGED <<receipts, missed>>

AfterEdit(a) ==
  IF actor[a].reopens THEN "reopen"
  ELSE IF actor[a].sources # {} THEN "sources" ELSE "stage"

Edit(a) ==
  /\ actor[a].pc = "edit"
  /\ LET new == [issues EXCEPT ![actor[a].issue].text = actor[a].text]
     IN  \/ issues' = new /\ Goto(a, AfterEdit(a)) /\ UNCHANGED <<packet, events>>
         \/ Event /\ Error(a) /\ issues' \in {issues, new}
  /\ UNCHANGED <<receipts, missed>>

Reopen(a) ==
  /\ actor[a].pc = "reopen"
  /\ LET new  == [issues EXCEPT ![actor[a].issue].open = TRUE]
         then == IF actor[a].sources # {} THEN "sources" ELSE "stage"
     IN  \/ issues' = new /\ Goto(a, then) /\ UNCHANGED <<packet, events>>
         \/ Event /\ Error(a) /\ issues' \in {issues, new}
  /\ UNCHANGED <<receipts, missed>>

\* The other Issues lose the clauses that the destination has now, and get a
\* link; one that is worded differently keeps its clauses.
Transferred(text) ==
  IF text = "cohesive" THEN {"cohesive", "loose"} ELSE {"loose"}

EditSource(a) ==
  /\ actor[a].pc = "sources"
  /\ \E n \in actor[a].sources, text \in Text :
       LET new  == [issues EXCEPT ![n].text = text]
           rest == actor[a].sources \ {n}
       IN  /\ \A m \in actor[a].sources : n <= m
           /\ text \in Transferred(issues[n].text)
           /\ \/ /\ issues' = new /\ UNCHANGED <<packet, events>>
                 /\ actor' = [actor EXCEPT ![a].sources = rest,
                                ![a].pc = IF rest = {} THEN "stage" ELSE @]
              \/ Event /\ Error(a) /\ issues' \in {issues, new}
  /\ UNCHANGED <<receipts, missed>>

\* The receipt is staged in the container; a publisher is done then.
Stage(a) ==
  /\ actor[a].pc = "stage"
  /\ \/ /\ receipts' = receipts \cup {actor[a].issue}
        /\ IF actor[a].retries THEN Goto(a, "unlink") ELSE Quit(a)
        /\ UNCHANGED <<packet, events>>
     \/ /\ Event /\ Error(a)
        /\ receipts' \in {receipts, receipts \cup {actor[a].issue}}
  /\ UNCHANGED <<issues, missed>>

\* The packet is resolved; one that is gone already ends the retry.
Unlink(a) ==
  /\ actor[a].pc = "unlink"
  /\ packet' = [packet EXCEPT ![actor[a].finding] = "none"]
  /\ IF Pending(actor[a].finding)
     THEN actor' = [actor EXCEPT ![a] = [Idle EXCEPT
                      !.pc = "next", !.retries = TRUE, !.batch = actor[a].batch]]
     ELSE Quit(a)
  /\ UNCHANGED <<issues, receipts, missed, events>>

\* A command is killed, or the preflight or a read fails it.
Killed(a) ==
  /\ actor[a].pc # "idle" /\ Event
  /\ \/ Quit(a) /\ UNCHANGED packet
     \/ actor[a].pc \in {"retry", "search", "unlink"} /\ Error(a)
  /\ UNCHANGED <<issues, receipts, missed>>

----------------------------------------------------------------------------
(* GitHub and people.                                                      *)

Index(n) ==
  /\ ~issues[n].listed
  /\ issues' = [issues EXCEPT ![n].listed = TRUE]
  /\ UNCHANGED <<packet, receipts, actor, missed, events>>

People ==
  /\ Event
  /\ \/ \E f \in Finding, text \in {"exact", "cohesive", "loose"} :
          issues' = Append(issues, [about |-> f, text |-> text, open |-> TRUE,
                                    listed |-> FALSE, ours |-> FALSE])
     \/ \E n \in DOMAIN issues :
          \/ issues' = [issues EXCEPT ![n].open = ~@]
          \/ \E text \in {"cohesive", "loose"} :
               issues' = [issues EXCEPT ![n].text = text]
  /\ UNCHANGED <<packet, receipts, actor, missed>>

----------------------------------------------------------------------------
Init ==
  /\ issues = <<>> /\ receipts = {}
  /\ missed = [f \in Finding |-> 0]
  /\ packet = [f \in Finding |-> IF f \in Worker THEN "none" ELSE "structured-log"]
  /\ actor = [a \in Actor |-> Idle]
  /\ events = 0

Step(a) ==
  \/ NextPacket(a) \/ Retry(a) \/ Search(a) \/ Create(a) \/ Edit(a)
  \/ Reopen(a) \/ EditSource(a) \/ Stage(a) \/ Unlink(a)

Next ==
  \/ \E a \in Publisher, f \in Finding : BeginPublish(a, f)
  \/ \E a \in Host : BeginSync(a)
  \/ \E a \in Actor : Step(a) \/ Killed(a)
  \/ \E n \in DOMAIN issues : Index(n)
  \/ People

\* The host runs `--sync-pending' again and again, a run that is not killed
\* goes on, and searches find an Issue at last.  Publishers owe nothing.
Fairness ==
  /\ \A a \in Host : WF_vars(BeginSync(a) \/ Step(a))
  /\ WF_vars(\E n \in DOMAIN issues : Index(n))

SafetySpec == Init /\ [][Next]_vars
Spec == SafetySpec /\ Fairness

----------------------------------------------------------------------------
(* Properties.                                                             *)

TypeOK ==
  /\ issues \in Seq(Issue) /\ packet \in [Finding -> Mode]
  /\ receipts \subseteq DOMAIN issues
  /\ actor \in [Actor -> Process]
  /\ \A a \in Actor : actor[a].sources \subseteq DOMAIN issues
  /\ missed \in [Finding -> Nat]
  /\ events \in 0..MaxEvents

\* A packet is only removed when there is an Issue about its finding with a
\* receipt, whoever removes it (sync_pending_packet: "remove it after
\* readback").
ResolvedIsPublished ==
  [][\A f \in Finding :
       Pending(f) /\ ~Pending(f)' => receipts \cap IssuesOf(f) # {}]_vars

\* However often a finding is published and retried, by whomever, and whatever
\* is lost or killed, each Issue of ours beyond the first is paid for by a search
\* of one who may create that missed an Issue there or being made; a retry of a
\* packet that is not initial never makes one (plan_publication: "No duplicate
\* Issue is created by a rerun when an exact destination is already present").
NoDuplicate ==
  \A f \in Finding :
    Cardinality({n \in IssuesOf(f) : issues[n].ours}) <= 1 + missed[f]

\* What a retry of f can do something with.
Resolvable(f) ==
  \/ Published(f)
  \/ Cardinality(Exact(f)) = 1
  \/ IssuesOf(f) = {} /\ packet[f] = "initial"
  \/ IssuesOf(f) # Listed(f)

\* A pending packet is resolved by some retry, unless it or one before it has
\* nothing that a retry can do something with.
PacketIsResolved ==
  \A f \in Finding :
    Pending(f) ~> (~Pending(f) \/ \E g \in 1..f : Pending(g) /\ ~Resolvable(g))

\* documents/conventions/REVIEW_PROCESS.md: the offline packet is published
\* and resolved by `--sync-pending'.
OfflineIsPublished ==
  \A f \in Finding : packet[f] = "structured-log" ~> ~Pending(f)

=============================================================================
