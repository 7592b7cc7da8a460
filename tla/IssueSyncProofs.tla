-------------------------- MODULE IssueSyncProofs --------------------------
(***************************************************************************)
(* What publishers and retries keep, for any number of them, of findings   *)
(* and events.  Whoever creates had a search that found nothing: it was    *)
(* then the only one to create and the first, or the search missed what    *)
(* was there or being made, and is counted.                                *)
(***************************************************************************)
EXTENDS IssueSync, FiniteSetTheorems, TLAPS

OursOf(f)   == {n \in IssuesOf(f) : issues[n].ours}
Makes(a, f) == actor[a].pc = "create" /\ actor[a].finding = f
MakersOf(f) == {a \in Actor : Makes(a, f)}

\* What is changed or acknowledged is an Issue about the finding.
KnownIssue ==
  \A a \in Actor :
    actor[a].pc \in {"edit", "reopen", "sources", "stage"} =>
      actor[a].issue \in IssuesOf(actor[a].finding)

\* A packet that is about to be removed has its receipt.
BackedUnlink ==
  \A a \in Actor :
    actor[a].pc = "unlink" => receipts \cap IssuesOf(actor[a].finding) # {}

\* Who searches may create: a publisher, or the retry of an initial packet.  An
\* idle process retries nothing.
EntitledSearch ==
  \A a \in Actor :
    actor[a].pc \in {"idle", "search"} => ~actor[a].retries \/ actor[a].initial

\* The Issues that are made and being made, but for one, are paid for.
PaidFor ==
  \A f \in Finding :
    Cardinality(OursOf(f)) + Cardinality(MakersOf(f)) <= 1 + missed[f]

Inv == TypeOK /\ KnownIssue /\ BackedUnlink /\ EntitledSearch /\ PaidFor

LEMMA ActorTyped ==
  ASSUME Inv, NEW a \in Actor
  PROVE  actor[a] \in Process /\ actor[a].sources \subseteq DOMAIN issues
BY DEF Inv, TypeOK

LEMMA Counted ==
  ASSUME TypeOK, NEW f
  PROVE  /\ IsFiniteSet(OursOf(f)) /\ Cardinality(OursOf(f)) \in Nat
         /\ IsFiniteSet(MakersOf(f)) /\ Cardinality(MakersOf(f)) \in Nat
<1>1. IsFiniteSet(DOMAIN issues)
  <2>1. DOMAIN issues = 1..Len(issues) /\ Len(issues) \in Nat BY DEF TypeOK
  <2> QED BY <2>1, FS_Interval
<1>2. IsFiniteSet(OursOf(f))
  BY <1>1, FS_Subset DEF OursOf, IssuesOf
<1>3. IsFiniteSet(MakersOf(f))
  <2>1. IsFiniteSet(Actor) BY IssueAssumption, FS_Union DEF Actor
  <2> QED BY <2>1, FS_Subset DEF MakersOf
<1> QED BY <1>2, <1>3, FS_CardinalityType

----------------------------------------------------------------------------
(* Issues.                                                                 *)

LEMMA IssueTyped ==
  ASSUME TypeOK, NEW n \in DOMAIN issues
  PROVE  n \in Nat /\ issues[n] \in Issue /\ issues[n].open \in BOOLEAN
<1>1. issues \in Seq(Issue) BY DEF TypeOK
<1>2. n \in Nat /\ issues[n] \in Issue BY <1>1
<1> QED BY <1>2 DEF Issue

\* No step takes an Issue away; most of them do not make one either.
IssuesKept ==
  /\ issues' \in Seq(Issue) /\ DOMAIN issues \subseteq DOMAIN issues'
  /\ \A n \in DOMAIN issues : /\ issues'[n].about = issues[n].about
                              /\ issues'[n].ours = issues[n].ours
  /\ \A n \in DOMAIN issues' \ DOMAIN issues : ~issues'[n].ours

LEMMA KeptSame ==
  ASSUME IssuesKept
  PROVE  \A f : IssuesOf(f) \subseteq IssuesOf(f)' /\ OursOf(f)' = OursOf(f)
BY DEF IssuesKept, IssuesOf, OursOf

LEMMA UnchangedKept ==
  ASSUME TypeOK, UNCHANGED issues
  PROVE  IssuesKept
BY DEF TypeOK, IssuesKept

LEMMA EditKept ==
  ASSUME TypeOK, NEW n \in DOMAIN issues, NEW q \in Issue,
         q.about = issues[n].about, q.ours = issues[n].ours,
         issues' = [issues EXCEPT ![n] = q]
  PROVE  IssuesKept
<1>1. issues \in Seq(Issue) BY DEF TypeOK
<1>2. issues' \in Seq(Issue) /\ DOMAIN issues' = DOMAIN issues
  BY <1>1
<1>3. \A m \in DOMAIN issues : issues'[m] = IF m = n THEN q ELSE issues[m]
  OBVIOUS
<1> QED BY <1>2, <1>3 DEF IssuesKept

LEMMA AppendIssue ==
  ASSUME TypeOK, NEW q \in Issue, issues' = Append(issues, q)
  PROVE  /\ issues' \in Seq(Issue) /\ Len(issues) \in Nat
         /\ DOMAIN issues' = DOMAIN issues \cup {Len(issues) + 1}
         /\ Len(issues) + 1 \notin DOMAIN issues
         /\ issues'[Len(issues) + 1] = q
         /\ \A n \in DOMAIN issues : issues'[n] = issues[n]
<1>1. issues \in Seq(Issue) BY DEF TypeOK
<1>2. /\ Len(issues') = Len(issues) + 1 /\ Len(issues) \in Nat
      /\ DOMAIN issues = 1..Len(issues) /\ DOMAIN issues' = 1..Len(issues')
      /\ issues' \in Seq(Issue)
  BY <1>1
<1> QED BY <1>1, <1>2

----------------------------------------------------------------------------
(* Steps of one process.                                                   *)

\* What may change for the rest of the world when process a moves.
Forward(a) ==
  /\ TypeOK'
  /\ \A b \in Actor : b # a => actor'[b] = actor[b]
  /\ receipts \subseteq receipts' /\ \A f \in Finding : missed[f] <= missed'[f]
  /\ (actor[a].pc \in {"edit", "reopen", "sources", "stage"} =>
        actor[a].issue \in IssuesOf(actor[a].finding))'
  /\ (actor[a].pc = "unlink" =>
        receipts \cap IssuesOf(actor[a].finding) # {})'

\* A move that makes no Issue.  A creation starts when there is and will be none,
\* or it is counted.
LEMMA Moves ==
  ASSUME Inv, NEW a \in Actor, IssuesKept, Forward(a),
         actor'[a].pc \in {"idle", "search"} =>
           ~actor'[a].retries \/ actor'[a].initial,
         actor'[a].pc = "create" =>
           LET f == actor'[a].finding
           IN  /\ actor[a].pc # "create"
               /\ \/ missed'[f] = missed[f] + 1
                  \/ OursOf(f) = {} /\ MakersOf(f) = {}
  PROVE  Inv'
<1>1. \A f : IssuesOf(f) \subseteq IssuesOf(f)' /\ OursOf(f)' = OursOf(f)
  BY KeptSame
<1>2. \A b \in Actor : \A f : b # a => (Makes(b, f)' <=> Makes(b, f))
  BY DEF Forward, Makes
<1>3. KnownIssue'
  BY <1>1 DEF KnownIssue, Forward, Inv, IssuesOf
<1>4. BackedUnlink'
  <2> SUFFICES ASSUME NEW b \in Actor, actor'[b].pc = "unlink", b # a
               PROVE  (receipts \cap IssuesOf(actor[b].finding) # {})'
    BY DEF BackedUnlink, Forward
  <2>1. receipts \cap IssuesOf(actor[b].finding) # {} /\ actor'[b] = actor[b]
    BY DEF Forward, Inv, BackedUnlink
  <2> QED BY <1>1, <2>1 DEF Forward, IssuesOf
<1>5. EntitledSearch'
  BY DEF EntitledSearch, Inv, Forward
<1>6. PaidFor'
  <2> SUFFICES ASSUME NEW f \in Finding
               PROVE  Cardinality(OursOf(f)') + Cardinality(MakersOf(f)')
                        <= 1 + missed'[f]
    BY DEF PaidFor
  <2>1. /\ Cardinality(OursOf(f)) + Cardinality(MakersOf(f)) <= 1 + missed[f]
        /\ missed[f] <= missed'[f] /\ missed[f] \in Nat /\ missed'[f] \in Nat
    BY DEF Inv, PaidFor, Forward, TypeOK
  <2>2. /\ IsFiniteSet(MakersOf(f)) /\ Cardinality(MakersOf(f)) \in Nat
        /\ Cardinality(OursOf(f)) \in Nat
    BY Counted DEF Inv
  <2>3. CASE actor'[a].pc = "create" /\ actor'[a].finding = f
    <3>1. a \notin MakersOf(f) BY <2>3 DEF MakersOf, Makes
    <3>2. MakersOf(f)' = MakersOf(f) \cup {a}
      BY <1>2, <2>3 DEF MakersOf, Makes
    <3>3. Cardinality(MakersOf(f)') = Cardinality(MakersOf(f)) + 1
      <4>1. Cardinality(MakersOf(f) \cup {a}) = Cardinality(MakersOf(f)) + 1
        <5> DEFINE M == MakersOf(f)
        <5> HIDE DEF M
        <5>1. IsFiniteSet(M) /\ a \notin M BY <2>2, <3>1 DEF M
        <5>2. Cardinality(M \cup {a}) = Cardinality(M) + 1 BY <5>1, FS_AddElement
        <5> QED BY <5>2 DEF M
      <4> QED BY <3>2, <4>1
    <3>4. CASE missed'[f] = missed[f] + 1
      BY <1>1, <2>1, <2>2, <3>3, <3>4
    <3>5. CASE OursOf(f) = {} /\ MakersOf(f) = {}
      <4>1. Cardinality(OursOf(f)) = 0 /\ Cardinality(MakersOf(f)) = 0
        BY <3>5, FS_EmptySet
      <4> QED BY <1>1, <2>1, <3>3, <4>1
    <3> QED BY <2>3, <3>4, <3>5
  <2>4. CASE ~(actor'[a].pc = "create" /\ actor'[a].finding = f)
    <3>1. MakersOf(f)' \subseteq MakersOf(f)
      BY <1>2, <2>4 DEF MakersOf, Makes
    <3>2. Cardinality(MakersOf(f)') <= Cardinality(MakersOf(f))
          /\ Cardinality(MakersOf(f)') \in Nat
      BY <2>2, <3>1, FS_Subset, FS_CardinalityType
    <3> QED BY <1>1, <2>1, <2>2, <3>2
  <2> QED BY <2>3, <2>4
<1> QED BY <1>3, <1>4, <1>5, <1>6 DEF Inv, Forward

\* A creation that takes effect.
LEMMA Makings ==
  ASSUME Inv, NEW a \in Actor, Forward(a), actor[a].pc = "create",
         actor'[a].pc \notin {"search", "create"},
         actor'[a].pc = "idle" => ~actor'[a].retries, UNCHANGED missed,
         NEW q \in Issue, q.about = actor[a].finding, issues' = Append(issues, q)
  PROVE  Inv'
<1> DEFINE f == actor[a].finding
           n == Len(issues) + 1
<1>0. f \in Finding BY DEF Inv, TypeOK, Process
<1>1. /\ DOMAIN issues' = DOMAIN issues \cup {n} /\ issues'[n] = q
      /\ \A m \in DOMAIN issues : issues'[m] = issues[m]
  BY AppendIssue DEF Inv
<1>2. /\ \A g : IssuesOf(g) \subseteq IssuesOf(g)'
      /\ \A g : g # f => OursOf(g)' = OursOf(g)
      /\ \A g : OursOf(g)' \subseteq OursOf(g) \cup {n}
  <2>1. \A g : IssuesOf(g) \subseteq IssuesOf(g)' BY <1>1 DEF IssuesOf
  <2>2. \A g : \A m : m \in OursOf(g)' =>
          \/ m \in OursOf(g)
          \/ m = n /\ g = f
    BY <1>1 DEF IssuesOf, OursOf
  <2>3. \A g : OursOf(g) \subseteq OursOf(g)'
    BY <1>1 DEF IssuesOf, OursOf
  <2>4. ASSUME NEW g, g # f PROVE OursOf(g)' = OursOf(g)
    <3>1. OursOf(g)' \subseteq OursOf(g) BY <2>2, <2>4
    <3> QED BY <2>3, <3>1
  <2>5. ASSUME NEW g PROVE OursOf(g)' \subseteq OursOf(g) \cup {n}
    BY <2>2
  <2> QED BY <2>1, <2>4, <2>5
<1>3. /\ \A b \in Actor : \A g : b # a => (Makes(b, g)' <=> Makes(b, g))
      /\ \A g : ~Makes(a, g)'
      /\ Makes(a, f)
  BY DEF Forward, Makes
<1>5. KnownIssue'
  BY <1>2 DEF KnownIssue, Forward, Inv, IssuesOf
<1>6. BackedUnlink'
  <2> SUFFICES ASSUME NEW b \in Actor, actor'[b].pc = "unlink", b # a
               PROVE  (receipts \cap IssuesOf(actor[b].finding) # {})'
    BY DEF BackedUnlink, Forward
  <2>1. receipts \cap IssuesOf(actor[b].finding) # {} /\ actor'[b] = actor[b]
    BY DEF Forward, Inv, BackedUnlink
  <2> QED BY <1>2, <2>1 DEF Forward, IssuesOf
<1>7. EntitledSearch'
  BY DEF EntitledSearch, Inv, Forward
<1>8. PaidFor'
  <2> SUFFICES ASSUME NEW g \in Finding
               PROVE  Cardinality(OursOf(g)') + Cardinality(MakersOf(g)')
                        <= 1 + missed[g]
    BY DEF PaidFor
  <2>1. /\ Cardinality(OursOf(g)) + Cardinality(MakersOf(g)) <= 1 + missed[g]
        /\ missed[g] \in Nat
    BY DEF Inv, PaidFor, TypeOK
  <2>2. /\ IsFiniteSet(MakersOf(g)) /\ Cardinality(MakersOf(g)) \in Nat
        /\ IsFiniteSet(OursOf(g)) /\ Cardinality(OursOf(g)) \in Nat
    BY Counted DEF Inv
  <2>3. MakersOf(g)' = MakersOf(g) \ {a}
    BY <1>3 DEF MakersOf
  <2>4. CASE g = f
    <3>1. a \in MakersOf(g) BY <1>3, <2>4 DEF MakersOf
    <3>2. Cardinality(MakersOf(g)') = Cardinality(MakersOf(g)) - 1
      BY <2>2, <2>3, <3>1, FS_RemoveElement
    <3>3. /\ Cardinality(OursOf(g)') <= Cardinality(OursOf(g)) + 1
          /\ Cardinality(OursOf(g)') \in Nat
      <4> DEFINE S == OursOf(g)
                 T == OursOf(g)'
      <4>0. T \subseteq S \cup {n} BY <1>2
      <4> HIDE DEF S, T, n
      <4>1. IsFiniteSet(S) /\ Cardinality(S) \in Nat BY <2>2 DEF S
      <4>2. /\ IsFiniteSet(S \cup {n})
            /\ \/ Cardinality(S \cup {n}) = Cardinality(S)
               \/ Cardinality(S \cup {n}) = Cardinality(S) + 1
        BY <4>1, FS_AddElement
      <4>3. Cardinality(T) <= Cardinality(S \cup {n}) /\ IsFiniteSet(T)
        BY <4>0, <4>2, FS_Subset
      <4>4. Cardinality(T) \in Nat BY <4>3, FS_CardinalityType
      <4>5. Cardinality(T) <= Cardinality(S) + 1 BY <4>1, <4>2, <4>3, <4>4
      <4> QED BY <4>4, <4>5 DEF S, T
    <3> QED BY <2>1, <2>2, <3>2, <3>3
  <2>5. CASE g # f
    <3>1. a \notin MakersOf(g) BY <2>5 DEF MakersOf, Makes
    <3>2. MakersOf(g)' = MakersOf(g) BY <2>3, <3>1
    <3> QED BY <1>2, <2>1, <2>5, <3>2
  <2> QED BY <2>4, <2>5
<1> QED BY <1>5, <1>6, <1>7, <1>8 DEF Inv, Forward

----------------------------------------------------------------------------
(* Forward(a), from what process a becomes.                                *)

Grows ==
  /\ receipts \subseteq receipts' /\ receipts' \subseteq DOMAIN issues'
  /\ missed' \in [Finding -> Nat] /\ \A f \in Finding : missed[f] <= missed'[f]
  /\ packet' \in [Finding -> Mode] /\ events' \in 0..MaxEvents

LEMMA Becomes ==
  ASSUME Inv, NEW a \in Actor, NEW p \in Process,
         actor' = [actor EXCEPT ![a] = p], Grows,
         issues' \in Seq(Issue), DOMAIN issues \subseteq DOMAIN issues',
         p.sources \subseteq DOMAIN issues',
         p.pc \in {"edit", "reopen", "sources", "stage"} =>
           p.issue \in DOMAIN issues' /\ issues'[p.issue].about = p.finding,
         p.pc = "unlink" =>
           \E n \in receipts' \cap DOMAIN issues' : issues'[n].about = p.finding
  PROVE  Forward(a) /\ actor'[a] = p
<1>1. /\ actor' \in [Actor -> Process] /\ actor'[a] = p
      /\ \A b \in Actor : b # a => actor'[b] = actor[b]
  BY DEF Inv, TypeOK
<1>2. \A b \in Actor : actor'[b].sources \subseteq DOMAIN issues'
  BY <1>1 DEF Inv, TypeOK
<1>3. TypeOK'
  BY <1>1, <1>2 DEF TypeOK, Grows
<1> QED BY <1>1, <1>3 DEF Forward, Grows, IssuesOf

LEMMA IdleProcess ==
  /\ Idle \in Process /\ Idle.pc = "idle" /\ Idle.sources = {}
  /\ Idle.retries = FALSE /\ Idle.initial = FALSE
BY IssueAssumption DEF Idle, Process, Finding, Text

\* The end of a command.
LEMMA Quits ==
  ASSUME Inv, NEW a \in Actor, Quit(a), Grows, issues' \in Seq(Issue),
         DOMAIN issues \subseteq DOMAIN issues'
  PROVE  Forward(a) /\ actor'[a].pc = "idle" /\ ~actor'[a].retries
<1>1. PICK p \in Process : p = Idle
  BY IdleProcess
<1>2. actor' = [actor EXCEPT ![a] = p] BY <1>1 DEF Quit
<1>3. p.pc = "idle" /\ p.sources = {} /\ p.retries = FALSE BY <1>1, IdleProcess
<1>4. Forward(a) /\ actor'[a] = p BY <1>2, <1>3, Becomes
<1> QED BY <1>3, <1>4

LEMMA SameGrows ==
  ASSUME Inv, UNCHANGED <<issues, packet, receipts, missed, events>>
  PROVE  Grows /\ IssuesKept
BY UnchangedKept DEF Inv, TypeOK, Grows

----------------------------------------------------------------------------
(* The actions.                                                            *)

LEMMA BeginPublishKeeps ==
  ASSUME Inv, NEW a \in Publisher, NEW f \in Finding, BeginPublish(a, f)
  PROVE  Inv'
<1> DEFINE p == [actor[a] EXCEPT !.pc = "search", !.finding = f]
<1>0. a \in Actor BY DEF Actor
<1>1. /\ p \in Process /\ p.pc = "search" /\ p.finding = f
      /\ p.sources = actor[a].sources /\ p.sources \subseteq DOMAIN issues
  BY <1>0, ActorTyped DEF Process
<1>2. actor' = [actor EXCEPT ![a] = p]
  BY <1>0 DEF BeginPublish, Inv, TypeOK
<1>3. Grows
  BY IssueAssumption DEF BeginPublish, Event, Inv, TypeOK, Grows, Mode
<1>4. issues' = issues /\ IssuesKept
  BY UnchangedKept DEF BeginPublish, Inv
<1>5. Forward(a) /\ actor'[a] = p
  BY <1>0, <1>1, <1>2, <1>3, <1>4, Becomes DEF IssuesKept
<1>6. ~p.retries \/ p.initial
  BY <1>0 DEF BeginPublish, Inv, EntitledSearch
<1> HIDE DEF p
<1> QED BY <1>0, <1>1, <1>4, <1>5, <1>6, Moves

LEMMA BeginSyncKeeps ==
  ASSUME Inv, NEW a \in Host, BeginSync(a)
  PROVE  Inv'
<1> DEFINE p == [actor[a] EXCEPT !.pc = "next", !.retries = TRUE,
                                 !.batch = {f \in Finding : Pending(f)}]
<1>0. a \in Actor BY DEF Actor
<1>1. /\ p \in Process /\ p.pc = "next"
      /\ p.sources = actor[a].sources /\ p.sources \subseteq DOMAIN issues
  BY <1>0, ActorTyped DEF Process
<1>2. actor' = [actor EXCEPT ![a] = p]
  BY <1>0 DEF BeginSync, Inv, TypeOK
<1>3. Grows /\ IssuesKept /\ issues' = issues
  BY SameGrows DEF BeginSync
<1>5. Forward(a) /\ actor'[a] = p
  BY <1>0, <1>1, <1>2, <1>3, Becomes DEF IssuesKept
<1> QED BY <1>0, <1>1, <1>3, <1>5, Moves

\* What an IssueSyncError leaves.
LEMMA ErrorLeaves ==
  ASSUME Inv, NEW a \in Actor, Error(a)
  PROVE  packet' \in [Finding -> Mode] /\ Quit(a)
<1>1. actor[a].finding \in Finding BY DEF Inv, TypeOK, Process
<1> QED BY <1>1 DEF Error, Inv, TypeOK, Mode

LEMMA NextPacketKeeps ==
  ASSUME Inv, NEW a \in Actor, NextPacket(a)
  PROVE  Inv'
<1>1. Grows /\ IssuesKept /\ issues' = issues /\ receipts' = receipts
  BY SameGrows DEF NextPacket
<1>2. CASE Quit(a)
  <2>1. Forward(a) /\ actor'[a].pc = "idle" /\ ~actor'[a].retries
    BY <1>1, <1>2, Quits DEF IssuesKept
  <2> QED BY <1>1, <2>1, Moves
<1>3. CASE ~Quit(a)
  <2>1. PICK f \in actor[a].batch :
          actor' = [actor EXCEPT
             ![a].finding = f, ![a].batch = @ \ {f},
             ![a].initial = (packet[f] = "initial"),
             ![a].pc = IF Published(f) THEN "unlink" ELSE "retry"]
    BY <1>3 DEF NextPacket
  <2> DEFINE pc == IF Published(f) THEN "unlink" ELSE "retry"
             p  == [actor[a] EXCEPT !.finding = f, !.batch = @ \ {f},
                                    !.initial = (packet[f] = "initial"), !.pc = pc]
  <2>2. /\ p \in Process /\ p.finding = f /\ p.pc = pc
        /\ p.sources = actor[a].sources /\ p.sources \subseteq DOMAIN issues
    <3>1. actor[a] \in Process /\ actor[a].sources \subseteq DOMAIN issues
      BY ActorTyped
    <3>2. /\ f \in Finding /\ actor[a].batch \ {f} \subseteq Finding
          /\ pc \in {"unlink", "retry"}
      BY <3>1 DEF Process
    <3>3. PICK i \in BOOLEAN : i = (packet[f] = "initial") OBVIOUS
    <3>4. p = [actor[a] EXCEPT !.finding = f, !.batch = @ \ {f},
                               !.initial = i, !.pc = pc]
      BY <3>3
    <3> HIDE DEF p, pc
    <3> QED BY <3>1, <3>2, <3>4 DEF Process
  <2>3. actor' = [actor EXCEPT ![a] = p]
    BY <2>1 DEF Inv, TypeOK
  <2>4. pc = "unlink" => receipts \cap IssuesOf(f) # {}
    <3>1. Published(f) => receipts \cap IssuesOf(f) # {}
      BY FS_EmptySet DEF Published
    <3> QED BY <3>1
  <2>5. pc = "unlink" =>
          \E n \in receipts' \cap DOMAIN issues' : issues'[n].about = f
    BY <1>1, <2>4 DEF IssuesOf
  <2> HIDE DEF p
  <2>6. Forward(a) /\ actor'[a] = p
    BY <1>1, <2>2, <2>3, <2>5, Becomes DEF IssuesKept
  <2> QED BY <1>1, <2>2, <2>6, Moves
<1> QED BY <1>2, <1>3

LEMMA RetryKeeps ==
  ASSUME Inv, NEW a \in Actor, Retry(a)
  PROVE  Inv'
<1> DEFINE f == actor[a].finding
<1>0. f \in Finding /\ issues' = issues
  BY ActorTyped DEF Process, Retry
<1>1. CASE Settled(f) /\ UNCHANGED packet /\ \E n \in Exact(f) :
             actor' = [actor EXCEPT
               ![a].pc = WhenSettled(f, n), ![a].issue = n,
               ![a].text = "exact", ![a].reopens = TRUE, ![a].sources = {}]
  <2>1. PICK n \in Exact(f) :
          actor' = [actor EXCEPT
            ![a].pc = WhenSettled(f, n), ![a].issue = n,
            ![a].text = "exact", ![a].reopens = TRUE, ![a].sources = {}]
    BY <1>1
  <2> DEFINE p == [actor[a] EXCEPT !.pc = WhenSettled(f, n), !.issue = n,
                     !.text = "exact", !.reopens = TRUE, !.sources = {}]
  <2>2. n \in IssuesOf(f) /\ n \in Nat
    BY DEF Exact, Listed, IssuesOf, Inv, TypeOK
  <2>3. WhenSettled(f, n) \in {"edit", "stage"} BY DEF WhenSettled
  <2>4. /\ p \in Process /\ p.finding = f /\ p.pc \in {"edit", "stage"}
        /\ p.sources = {} /\ p.issue = n
    BY <2>2, <2>3, ActorTyped DEF Process, Text
  <2>5. actor' = [actor EXCEPT ![a] = p]
    BY <2>1 DEF Inv, TypeOK
  <2>6. Grows /\ IssuesKept
    BY <1>0, <1>1, SameGrows DEF Retry
  <2>7. n \in DOMAIN issues' /\ issues'[n].about = f
    BY <1>0, <2>2 DEF IssuesOf
  <2> HIDE DEF p
  <2>8. Forward(a) /\ actor'[a] = p
    BY <1>0, <2>4, <2>5, <2>6, <2>7, Becomes DEF IssuesKept
  <2> QED BY <2>4, <2>6, <2>8, Moves
<1>2. CASE MayCreate(a) /\ Goto(a, "search") /\ UNCHANGED packet
  <2> DEFINE p == [actor[a] EXCEPT !.pc = "search"]
  <2>1. /\ p \in Process /\ p.finding = f /\ p.pc = "search"
        /\ p.initial = actor[a].initial
        /\ p.sources = actor[a].sources /\ p.sources \subseteq DOMAIN issues
    BY ActorTyped DEF Process
  <2>2. actor' = [actor EXCEPT ![a] = p]
    BY <1>2 DEF Inv, TypeOK, Goto
  <2>3. Grows /\ IssuesKept /\ p.initial
    BY <1>0, <1>2, <2>1, SameGrows DEF Retry, MayCreate
  <2> HIDE DEF p
  <2>4. Forward(a) /\ actor'[a] = p
    BY <1>0, <2>1, <2>2, <2>3, Becomes DEF IssuesKept
  <2> QED BY <2>1, <2>3, <2>4, Moves
<1>3. CASE Error(a)
  <2>1. Grows /\ IssuesKept /\ Quit(a)
    <3>1. packet' \in [Finding -> Mode] /\ Quit(a) BY <1>3, ErrorLeaves
    <3>2. UNCHANGED <<issues, receipts, missed, events>> BY DEF Retry
    <3>3. IssuesKept BY <3>2, UnchangedKept DEF Inv
    <3>4. \A g \in Finding : missed[g] <= missed[g] BY DEF Inv, TypeOK
    <3> QED BY <3>1, <3>2, <3>3, <3>4 DEF Inv, TypeOK, Grows
  <2>2. Forward(a) /\ actor'[a].pc = "idle" /\ ~actor'[a].retries
    BY <2>1, Quits DEF IssuesKept
  <2> QED BY <2>1, <2>2, Moves
<1> QED BY <1>1, <1>2, <1>3 DEF Retry

LEMMA SearchKeeps ==
  ASSUME Inv, NEW a \in Actor, Search(a)
  PROVE  Inv'
<1> DEFINE f == actor[a].finding
<1>0. f \in Finding /\ issues' = issues
  BY ActorTyped DEF Process, Search
<1>1. PICK pc \in {"create", "edit", "stage"}, n \in Nat, text \in Text,
           reopens \in BOOLEAN, sources \in SUBSET Listed(f) :
        /\ actor' = [actor EXCEPT ![a].pc = pc, ![a].issue = n, ![a].text = text,
                                  ![a].reopens = reopens, ![a].sources = sources]
        /\ pc = "create" => Listed(f) = {}
        /\ pc # "create" => n \in Listed(f)
  <2> DEFINE found == Listed(f)
             fits  == {n \in found : issues[n].text # "loose"}
  <2>0. \A n \in found : n \in Nat /\ issues[n].open \in BOOLEAN
    BY IssueTyped DEF Listed, IssuesOf, Inv
  <2>1. CASE /\ found = {}
             /\ actor' = [actor EXCEPT
                  ![a].pc = "create", ![a].issue = 0, ![a].text = "exact",
                  ![a].reopens = FALSE, ![a].sources = {}]
    BY <2>1 DEF Text
  <2>2. CASE \E n \in found, pc \in {"edit", "stage"}, reopens \in BOOLEAN :
             actor' = [actor EXCEPT
                  ![a].pc = pc, ![a].issue = n, ![a].text = "exact",
                  ![a].reopens = reopens, ![a].sources = {}]
    <3>1. PICK n \in found, pc \in {"edit", "stage"}, reopens \in BOOLEAN :
             actor' = [actor EXCEPT
                  ![a].pc = pc, ![a].issue = n, ![a].text = "exact",
                  ![a].reopens = reopens, ![a].sources = {}]
      BY <2>2
    <3> n \in Nat /\ "exact" \in Text
      BY <2>0 DEF Text
    <3> WITNESS pc \in {"create", "edit", "stage"}, n \in Nat, "exact" \in Text,
                reopens \in BOOLEAN, {} \in SUBSET found
    <3> QED BY <3>1
  <2>3. CASE \E n \in found :
             actor' = [actor EXCEPT
                  ![a].pc = "edit", ![a].issue = n, ![a].text = "linked",
                  ![a].reopens = ~issues[n].open, ![a].sources = found \ {n}]
    <3>1. PICK k \in found :
             actor' = [actor EXCEPT
                  ![a].pc = "edit", ![a].issue = k, ![a].text = "linked",
                  ![a].reopens = ~issues[k].open, ![a].sources = found \ {k}]
      BY <2>3
    <3>2. k \in Nat /\ "linked" \in Text
      BY <2>0 DEF Text
    <3>3. PICK r \in BOOLEAN, s \in SUBSET found :
            r = ~issues[k].open /\ s = found \ {k}
      OBVIOUS
    <3>4. actor' = [actor EXCEPT
            ![a].pc = "edit", ![a].issue = k, ![a].text = "linked",
            ![a].reopens = r, ![a].sources = s]
      BY <3>1, <3>3
    <3> QED BY <3>2, <3>4
  <2> QED BY <2>1, <2>2, <2>3 DEF Search, Plan
<1> DEFINE p == [actor[a] EXCEPT !.pc = pc, !.issue = n, !.text = text,
                                 !.reopens = reopens, !.sources = sources]
<1>2. sources \subseteq DOMAIN issues /\ sources \subseteq Nat
  BY DEF Listed, IssuesOf, Inv, TypeOK
<1>3. /\ p \in Process /\ p.finding = f /\ p.pc = pc
      /\ p.sources = sources /\ p.issue = n
  BY <1>2, ActorTyped DEF Process
<1>4. actor' = [actor EXCEPT ![a] = p]
  BY <1>1 DEF Inv, TypeOK
<1>5. Grows /\ IssuesKept
  <2>1. missed' \in [Finding -> Nat] /\ \A g \in Finding : missed[g] <= missed'[g]
    BY <1>0 DEF Search, Inv, TypeOK
  <2> QED BY <2>1, UnchangedKept DEF Search, Inv, TypeOK, Grows
<1>6. pc # "create" => n \in DOMAIN issues' /\ issues'[n].about = f
  BY <1>0, <1>1 DEF Listed, IssuesOf
<1> HIDE DEF p
<1>7. Forward(a) /\ actor'[a] = p
  <2>1. p.pc \in {"edit", "reopen", "sources", "stage"} =>
          p.issue \in DOMAIN issues' /\ issues'[p.issue].about = p.finding
    BY <1>3, <1>6
  <2>2. p.pc # "unlink" /\ p.sources \subseteq DOMAIN issues'
    BY <1>0, <1>2, <1>3
  <2> QED BY <1>3, <1>4, <1>5, <2>1, <2>2, Becomes DEF IssuesKept
<1>8. pc = "create" => \/ missed'[f] = missed[f] + 1
                       \/ OursOf(f) = {} /\ MakersOf(f) = {}
  <2> SUFFICES ASSUME Listed(f) = {}, ~Misses(a, f)
               PROVE  OursOf(f) = {} /\ MakersOf(f) = {}
    BY <1>0, <1>1 DEF Search, Inv, TypeOK
  <2>1. ~actor[a].retries \/ actor[a].initial
    BY DEF Search, Inv, EntitledSearch
  <2>2. ~Makes(a, f) BY DEF Search, Makes
  <2> QED BY <2>1, <2>2 DEF Misses, OursOf, MakersOf, Makes
<1>9. actor[a].pc = "search" BY DEF Search
<1> QED BY <1>1, <1>3, <1>5, <1>7, <1>8, <1>9, Moves

\* A request that fails, before or after its effect.
LEMMA Fails ==
  ASSUME Inv, NEW a \in Actor, Event, Error(a), IssuesKept,
         receipts \subseteq receipts', receipts' \subseteq DOMAIN issues',
         UNCHANGED missed
  PROVE  Inv'
<1>1. events' \in 0..MaxEvents
  BY IssueAssumption DEF Event, Inv, TypeOK
<1>2. Grows /\ Quit(a)
  BY <1>1, ErrorLeaves DEF Grows, Inv, TypeOK
<1>3. Forward(a) /\ actor'[a].pc = "idle" /\ ~actor'[a].retries
  BY <1>2, Quits DEF IssuesKept
<1> QED BY <1>3, Moves

LEMMA CreateKeeps ==
  ASSUME Inv, NEW a \in Actor, Create(a)
  PROVE  Inv'
<1> DEFINE f == actor[a].finding
           q == [about |-> f, text |-> "exact",
                 open |-> TRUE, listed |-> FALSE, ours |-> TRUE]
           new == Append(issues, q)
<1>0. /\ f \in Finding /\ q \in Issue /\ q.about = f /\ actor[a].pc = "create"
      /\ issues' = issues \/ issues' = new
  BY ActorTyped DEF Process, Issue, Text, Create
<1>1. issues' = new =>
        /\ issues' \in Seq(Issue) /\ Created \in Nat
        /\ DOMAIN issues \subseteq DOMAIN issues'
        /\ Created \in DOMAIN issues' /\ issues'[Created].about = f
  BY <1>0, AppendIssue DEF Inv, Created
<1> HIDE DEF q
<1>2. CASE /\ issues' = new /\ UNCHANGED <<packet, events>>
           /\ actor' = [actor EXCEPT ![a].pc = "stage", ![a].issue = Created]
  <2> DEFINE p == [actor[a] EXCEPT !.pc = "stage", !.issue = Created]
  <2>1. /\ p \in Process /\ p.finding = f /\ p.pc = "stage" /\ p.issue = Created
        /\ p.sources = actor[a].sources /\ p.sources \subseteq DOMAIN issues
    BY <1>1, <1>2, ActorTyped DEF Process
  <2>2. actor' = [actor EXCEPT ![a] = p]
    BY <1>2 DEF Inv, TypeOK
  <2>3. Grows
    BY <1>1, <1>2 DEF Create, Inv, TypeOK, Grows
  <2> HIDE DEF p
  <2>4. Forward(a) /\ actor'[a] = p
    <3>1. /\ issues' \in Seq(Issue) /\ DOMAIN issues \subseteq DOMAIN issues'
          /\ p.issue \in DOMAIN issues' /\ issues'[p.issue].about = p.finding
          /\ p.sources \subseteq DOMAIN issues'
      BY <1>1, <1>2, <2>1
    <3> QED BY <2>1, <2>2, <2>3, <3>1, Becomes
  <2> QED BY <1>0, <1>2, <2>1, <2>4, Makings DEF Create
<1>3. CASE Event /\ Error(a)
  <2>1. CASE issues' = issues
    BY <1>3, <2>1, Fails, UnchangedKept DEF Create, Inv, TypeOK
  <2>2. CASE issues' = new
    <3>1. events' \in 0..MaxEvents
      BY <1>3, IssueAssumption DEF Event, Inv, TypeOK
    <3>2. Grows /\ Quit(a)
      BY <1>1, <1>3, <2>2, <3>1, ErrorLeaves DEF Create, Grows, Inv, TypeOK
    <3>3. Forward(a) /\ actor'[a].pc = "idle" /\ ~actor'[a].retries
      BY <1>1, <2>2, <3>2, Quits
    <3> QED BY <1>0, <2>2, <3>3, Makings DEF Create
  <2> QED BY <1>0, <2>1, <2>2
<1> QED BY <1>2, <1>3 DEF Create, q

\* A request that changes an Issue, and what its process does then.
LEMMA Edits ==
  ASSUME Inv, NEW a \in Actor, actor[a].pc \in {"edit", "reopen", "sources"},
         NEW p \in Process, actor' = [actor EXCEPT ![a] = p],
         p.pc \in {"reopen", "sources", "stage"},
         p.finding = actor[a].finding, p.issue = actor[a].issue,
         p.sources \subseteq actor[a].sources, IssuesKept,
         UNCHANGED <<packet, receipts, missed, events>>
  PROVE  Inv'
<1>1. Grows
  BY DEF Inv, TypeOK, Grows, IssuesKept
<1>2. p.issue \in DOMAIN issues' /\ issues'[p.issue].about = p.finding
  BY DEF Inv, KnownIssue, IssuesOf, IssuesKept
<1>3. p.sources \subseteq DOMAIN issues'
  BY DEF Inv, TypeOK, IssuesKept
<1>4. Forward(a) /\ actor'[a] = p
  BY <1>1, <1>2, <1>3, Becomes DEF IssuesKept
<1> QED BY <1>4, Moves

LEMMA Goes ==
  ASSUME Inv, NEW a \in Actor, actor[a].pc \in {"edit", "reopen", "sources"},
         NEW pc \in {"reopen", "sources", "stage"}, Goto(a, pc), IssuesKept,
         UNCHANGED <<packet, receipts, missed, events>>
  PROVE  Inv'
<1> DEFINE p == [actor[a] EXCEPT !.pc = pc]
<1>1. /\ p \in Process /\ p.pc = pc /\ p.finding = actor[a].finding
      /\ p.issue = actor[a].issue /\ p.sources = actor[a].sources
  BY ActorTyped DEF Process
<1>2. actor' = [actor EXCEPT ![a] = p]
  BY DEF Goto, Inv, TypeOK
<1> HIDE DEF p
<1> QED BY <1>1, <1>2, Edits

LEMMA TextKept ==
  ASSUME TypeOK, NEW n \in DOMAIN issues, NEW text \in Text,
         issues' \in {issues, [issues EXCEPT ![n].text = text]}
  PROVE  IssuesKept
<1> DEFINE q == [issues[n] EXCEPT !.text = text]
<1>1. q \in Issue /\ q.about = issues[n].about /\ q.ours = issues[n].ours
  BY IssueTyped DEF Issue
<1>2. CASE issues' = issues BY <1>2, UnchangedKept
<1>3. CASE issues' = [issues EXCEPT ![n].text = text]
  <2>1. issues' = [issues EXCEPT ![n] = q] BY <1>3
  <2> HIDE DEF q
  <2> QED BY <1>1, <2>1, EditKept
<1> QED BY <1>2, <1>3

LEMMA StateKept ==
  ASSUME TypeOK, NEW n \in DOMAIN issues, NEW open \in BOOLEAN,
         issues' \in {issues, [issues EXCEPT ![n].open = open]}
  PROVE  IssuesKept
<1> DEFINE q == [issues[n] EXCEPT !.open = open]
<1>1. q \in Issue /\ q.about = issues[n].about /\ q.ours = issues[n].ours
  BY IssueTyped DEF Issue
<1>2. CASE issues' = issues BY <1>2, UnchangedKept
<1>3. CASE issues' = [issues EXCEPT ![n].open = open]
  <2>1. issues' = [issues EXCEPT ![n] = q] BY <1>3
  <2> HIDE DEF q
  <2> QED BY <1>1, <2>1, EditKept
<1> QED BY <1>2, <1>3

LEMMA EditKeeps ==
  ASSUME Inv, NEW a \in Actor, Edit(a)
  PROVE  Inv'
<1>1. /\ actor[a].issue \in DOMAIN issues /\ actor[a].text \in Text
      /\ AfterEdit(a) \in {"reopen", "sources", "stage"}
  BY DEF Edit, Inv, KnownIssue, IssuesOf, TypeOK, Process, AfterEdit
<1>2. IssuesKept
  BY <1>1, TextKept DEF Edit, Inv
<1>3. CASE Goto(a, AfterEdit(a)) /\ UNCHANGED <<packet, events>>
  BY <1>1, <1>2, <1>3, Goes DEF Edit
<1>4. CASE Event /\ Error(a)
  BY <1>2, <1>4, Fails DEF Edit, Inv, TypeOK, IssuesKept
<1> QED BY <1>3, <1>4 DEF Edit

LEMMA ReopenKeeps ==
  ASSUME Inv, NEW a \in Actor, Reopen(a)
  PROVE  Inv'
<1> DEFINE then == IF actor[a].sources # {} THEN "sources" ELSE "stage"
<1>1. actor[a].issue \in DOMAIN issues /\ then \in {"reopen", "sources", "stage"}
  BY DEF Reopen, Inv, KnownIssue, IssuesOf
<1>2. IssuesKept
  BY <1>1, StateKept DEF Reopen, Inv
<1>3. CASE Goto(a, then) /\ UNCHANGED <<packet, events>>
  BY <1>1, <1>2, <1>3, Goes DEF Reopen
<1>4. CASE Event /\ Error(a)
  BY <1>2, <1>4, Fails DEF Reopen, Inv, TypeOK, IssuesKept
<1> QED BY <1>3, <1>4 DEF Reopen

LEMMA EditSourceKeeps ==
  ASSUME Inv, NEW a \in Actor, EditSource(a)
  PROVE  Inv'
<1>1. PICK n \in actor[a].sources, text \in Text :
        LET new  == [issues EXCEPT ![n].text = text]
            rest == actor[a].sources \ {n}
        IN  \/ /\ issues' = new /\ UNCHANGED <<packet, events>>
               /\ actor' = [actor EXCEPT ![a].sources = rest,
                              ![a].pc = IF rest = {} THEN "stage" ELSE @]
            \/ Event /\ Error(a) /\ issues' \in {issues, new}
  BY DEF EditSource
<1> DEFINE rest == actor[a].sources \ {n}
           pc   == IF rest = {} THEN "stage" ELSE actor[a].pc
           p    == [actor[a] EXCEPT !.sources = rest, !.pc = pc]
<1>2. n \in DOMAIN issues BY DEF Inv, TypeOK
<1>3. IssuesKept
  BY <1>1, <1>2, TextKept DEF Inv
<1>4. CASE /\ UNCHANGED <<packet, events>>
           /\ actor' = [actor EXCEPT ![a].sources = rest,
                          ![a].pc = IF rest = {} THEN "stage" ELSE @]
  <2>1. /\ p \in Process /\ p.pc \in {"sources", "stage"}
        /\ p.finding = actor[a].finding
        /\ p.issue = actor[a].issue /\ p.sources = rest
    <3>1. actor[a] \in Process BY ActorTyped
    <3>2. rest \subseteq actor[a].sources /\ pc \in {"sources", "stage"} BY DEF EditSource
    <3> HIDE DEF rest, pc
    <3> QED BY <3>1, <3>2 DEF Process
  <2>2. actor' = [actor EXCEPT ![a] = p]
    BY <1>4 DEF Inv, TypeOK
  <2> HIDE DEF p
  <2> QED BY <1>3, <1>4, <2>1, <2>2, Edits DEF EditSource
<1>5. CASE Event /\ Error(a)
  BY <1>3, <1>5, Fails DEF EditSource, Inv, TypeOK, IssuesKept
<1> QED BY <1>1, <1>4, <1>5

LEMMA StageKeeps ==
  ASSUME Inv, NEW a \in Actor, Stage(a)
  PROVE  Inv'
<1> DEFINE n == actor[a].issue
<1>1. /\ n \in IssuesOf(actor[a].finding) /\ issues' = issues /\ IssuesKept
      /\ receipts' \subseteq receipts \cup {n} /\ receipts \subseteq receipts'
      /\ receipts' \subseteq DOMAIN issues
  BY UnchangedKept DEF Stage, Inv, KnownIssue, TypeOK, IssuesOf
<1>2. CASE /\ receipts' = receipts \cup {n} /\ UNCHANGED <<packet, events>>
           /\ IF actor[a].retries THEN Goto(a, "unlink") ELSE Quit(a)
  <2>1. Grows
    BY <1>1, <1>2 DEF Stage, Grows, Inv, TypeOK
  <2>2. CASE Goto(a, "unlink")
    <3> DEFINE p == [actor[a] EXCEPT !.pc = "unlink"]
    <3>1. /\ p \in Process /\ p.pc = "unlink" /\ p.finding = actor[a].finding
          /\ p.sources = actor[a].sources /\ p.sources \subseteq DOMAIN issues
      BY ActorTyped DEF Process
    <3>2. actor' = [actor EXCEPT ![a] = p]
      BY <2>2 DEF Goto, Inv, TypeOK
    <3>3. n \in receipts' \cap DOMAIN issues' /\ issues'[n].about = p.finding
      BY <1>1, <1>2, <3>1 DEF IssuesOf
    <3> HIDE DEF p, n
    <3>4. Forward(a) /\ actor'[a] = p
      BY <1>1, <2>1, <3>1, <3>2, <3>3, Becomes DEF IssuesKept
    <3> QED BY <1>1, <3>1, <3>4, Moves
  <2>3. CASE Quit(a)
    <3>1. Forward(a) /\ actor'[a].pc = "idle" /\ ~actor'[a].retries
      BY <1>1, <2>1, <2>3, Quits DEF IssuesKept
    <3> QED BY <1>1, <3>1, Moves
  <2> QED BY <1>2, <2>2, <2>3
<1>3. CASE Event /\ Error(a)
  BY <1>1, <1>3, Fails DEF Stage
<1> QED BY <1>2, <1>3 DEF Stage

LEMMA UnlinkKeeps ==
  ASSUME Inv, NEW a \in Actor, Unlink(a)
  PROVE  Inv'
<1>1. Grows /\ IssuesKept /\ issues' = issues
  <2>1. actor[a].finding \in Finding BY DEF Inv, TypeOK, Process
  <2>2. packet' \in [Finding -> Mode]
    BY <2>1 DEF Unlink, Inv, TypeOK, Mode
  <2> QED BY <2>2, UnchangedKept DEF Unlink, Grows, Inv, TypeOK
<1>2. CASE Quit(a)
  <2>1. Forward(a) /\ actor'[a].pc = "idle" /\ ~actor'[a].retries
    BY <1>1, <1>2, Quits DEF IssuesKept
  <2> QED BY <1>1, <2>1, Moves
<1>3. CASE ~Quit(a)
  <2> DEFINE p == [Idle EXCEPT !.pc = "next", !.retries = TRUE,
                               !.batch = actor[a].batch]
  <2>1. p \in Process /\ p.pc = "next" /\ p.sources = {}
    BY IdleProcess DEF Inv, TypeOK, Process
  <2>2. actor' = [actor EXCEPT ![a] = p]
    BY <1>3 DEF Unlink
  <2> HIDE DEF p
  <2>3. Forward(a) /\ actor'[a] = p
    BY <1>1, <2>1, <2>2, Becomes DEF IssuesKept
  <2> QED BY <1>1, <2>1, <2>3, Moves
<1> QED BY <1>2, <1>3

LEMMA KilledKeeps ==
  ASSUME Inv, NEW a \in Actor, Killed(a)
  PROVE  Inv'
<1>1. CASE Quit(a) /\ UNCHANGED packet
  <2>1. events' \in 0..MaxEvents
    BY IssueAssumption DEF Killed, Event, Inv, TypeOK
  <2>2. Grows /\ IssuesKept
    BY <1>1, <2>1, UnchangedKept DEF Killed, Grows, Inv, TypeOK
  <2>3. Forward(a) /\ actor'[a].pc = "idle" /\ ~actor'[a].retries
    BY <1>1, <2>2, Quits DEF IssuesKept
  <2> QED BY <2>2, <2>3, Moves
<1>2. CASE Error(a)
  BY <1>2, Fails, UnchangedKept DEF Killed, Inv, TypeOK
<1> QED BY <1>1, <1>2 DEF Killed

\* A step of GitHub or of people: nobody moves.
LEMMA Still ==
  ASSUME Inv, TypeOK', IssuesKept,
         UNCHANGED <<packet, receipts, actor, missed>>
  PROVE  Inv'
<1>1. \A f : IssuesOf(f) \subseteq IssuesOf(f)' /\ OursOf(f)' = OursOf(f)
  BY KeptSame
<1>2. KnownIssue' BY <1>1 DEF Inv, KnownIssue, IssuesOf
<1>3. BackedUnlink' BY <1>1 DEF Inv, BackedUnlink, IssuesOf
<1>4. EntitledSearch' BY DEF Inv, EntitledSearch
<1>5. PaidFor' BY <1>1 DEF Inv, PaidFor, MakersOf, Makes
<1> QED BY <1>2, <1>3, <1>4, <1>5 DEF Inv

LEMMA TypeStill ==
  ASSUME Inv, IssuesKept, events' \in 0..MaxEvents,
         UNCHANGED <<packet, receipts, actor, missed>>
  PROVE  Inv'
<1>1. TypeOK' BY DEF Inv, TypeOK, IssuesKept
<1> QED BY <1>1, Still

LEMMA IndexKeeps ==
  ASSUME Inv, NEW n \in DOMAIN issues, Index(n)
  PROVE  Inv'
<1> DEFINE q == [issues[n] EXCEPT !.listed = TRUE]
<1>1. q \in Issue /\ q.about = issues[n].about /\ q.ours = issues[n].ours
  BY IssueTyped DEF Issue, Inv
<1>2. issues' = [issues EXCEPT ![n] = q] BY DEF Index
<1> HIDE DEF q
<1>3. IssuesKept BY <1>1, <1>2, EditKept DEF Inv
<1> QED BY <1>3, TypeStill DEF Index, Inv, TypeOK

LEMMA PeopleKeeps ==
  ASSUME Inv, People
  PROVE  Inv'
<1>1. events' \in 0..MaxEvents
  BY IssueAssumption DEF People, Event, Inv, TypeOK
<1>2. IssuesKept
  <2>1. CASE \E f \in Finding, text \in {"exact", "cohesive", "loose"} :
               issues' = Append(issues, [about |-> f, text |-> text, open |-> TRUE,
                                         listed |-> FALSE, ours |-> FALSE])
    <3>1. PICK q \in Issue : ~q.ours /\ issues' = Append(issues, q)
      BY <2>1 DEF Issue, Text
    <3> QED BY <3>1, AppendIssue DEF Inv, IssuesKept
  <2>2. CASE \E n \in DOMAIN issues : issues' = [issues EXCEPT ![n].open = ~@]
    <3>1. PICK n \in DOMAIN issues, open \in BOOLEAN :
            issues' = [issues EXCEPT ![n].open = open]
      BY <2>2
    <3> QED BY <3>1, StateKept DEF Inv
  <2>3. CASE \E n \in DOMAIN issues, text \in {"cohesive", "loose"} :
               issues' = [issues EXCEPT ![n].text = text]
    BY <2>3, TextKept DEF Inv, Text
  <2> QED BY <2>1, <2>2, <2>3 DEF People
<1> QED BY <1>1, <1>2, TypeStill DEF People

----------------------------------------------------------------------------
(* The theorems.                                                           *)

LEMMA InvInit == Init => Inv
<1> SUFFICES ASSUME Init PROVE Inv OBVIOUS
<1>1. \A f : IssuesOf(f) = {} /\ OursOf(f) = {}
  BY DEF Init, IssuesOf, OursOf
<1>2. \A a \in Actor : actor[a] = Idle /\ actor[a].pc = "idle"
  BY IdleProcess DEF Init
<1>3. TypeOK
  BY IdleProcess, IssueAssumption DEF Init, TypeOK, Mode
<1>4. KnownIssue /\ BackedUnlink
  BY <1>2 DEF KnownIssue, BackedUnlink
<1>5. EntitledSearch
  BY IdleProcess DEF Init, EntitledSearch
<1>6. PaidFor
  <2>1. \A f : MakersOf(f) = {} BY <1>2 DEF MakersOf, Makes
  <2>2. Cardinality({}) = 0 BY FS_EmptySet
  <2>3. \A f \in Finding : missed[f] = 0 BY DEF Init
  <2> QED BY <1>1, <2>1, <2>2, <2>3 DEF PaidFor
<1> QED BY <1>3, <1>4, <1>5, <1>6 DEF Inv

LEMMA InvNext == Inv /\ [Next]_vars => Inv'
<1> SUFFICES ASSUME Inv, [Next]_vars PROVE Inv' OBVIOUS
<1>1. CASE \E a \in Publisher, f \in Finding : BeginPublish(a, f)
  BY <1>1, BeginPublishKeeps
<1>2. CASE \E a \in Host : BeginSync(a)
  BY <1>2, BeginSyncKeeps
<1>3. CASE \E a \in Actor : Step(a) \/ Killed(a)
  BY <1>3, NextPacketKeeps, RetryKeeps, SearchKeeps, CreateKeeps, EditKeeps,
     ReopenKeeps, EditSourceKeeps, StageKeeps, UnlinkKeeps, KilledKeeps DEF Step
<1>4. CASE \E n \in DOMAIN issues : Index(n)
  BY <1>4, IndexKeeps
<1>5. CASE People
  BY <1>5, PeopleKeeps
<1>6. CASE UNCHANGED vars
  BY <1>6, UnchangedKept, TypeStill DEF vars, Inv, TypeOK
<1> QED BY <1>1, <1>2, <1>3, <1>4, <1>5, <1>6 DEF Next

\* The invariant holds of every behaviour of IssueWorker.publish and
\* sync_pending_packet, fair or not.
THEOREM IssueInvariant == SafetySpec => []Inv
BY InvInit, InvNext, PTL DEF SafetySpec

\* Every state of a publication or a retry is of its type: no receipt and no
\* link names an Issue that does not exist.
THEOREM IssueTypes == Spec => []TypeOK
BY IssueInvariant, PTL DEF Spec, Inv

\* However many publishers and retries there are, and however often they are
\* repeated, killed or left without an answer: each Issue of a finding beyond
\* its first is paid for by a search that missed one (plan_publication).
THEOREM NoSecondIssue == Spec => []NoDuplicate
<1>1. Inv => NoDuplicate
  <2> SUFFICES ASSUME Inv, NEW f \in Finding
               PROVE  Cardinality(OursOf(f)) <= 1 + missed[f]
    BY DEF NoDuplicate, OursOf
  <2>1. missed[f] \in Nat BY DEF Inv, TypeOK
  <2> QED BY <2>1, Counted DEF Inv, PaidFor
<1> QED BY <1>1, IssueInvariant, PTL DEF Spec

\* Whoever removes a pending packet, there is an Issue about its finding with a
\* staged receipt (sync_pending_packet: "remove it after readback").
THEOREM ResolvedPackets == Spec => ResolvedIsPublished
<1>1. Inv /\ [Next]_vars =>
        [\A f \in Finding :
           Pending(f) /\ ~Pending(f)' => receipts \cap IssuesOf(f) # {}]_vars
  <2> SUFFICES ASSUME Inv, Next, NEW f \in Finding, Pending(f), ~Pending(f)'
               PROVE  receipts \cap IssuesOf(f) # {}
    OBVIOUS
  <2>1. packet[f] # "none" /\ packet'[f] = "none" BY DEF Pending
  <2>2. PICK a \in Actor : Unlink(a)
    <3>1. ~\E a \in Publisher, g \in Finding : BeginPublish(a, g)
      BY <2>1 DEF BeginPublish, Inv, TypeOK
    <3>2. \A a \in Actor : ~Error(a)
      BY <2>1 DEF Error, Inv, TypeOK
    <3>3. packet' # packet BY <2>1
    <3>4. \A a \in Actor : ~NextPacket(a) /\ ~Search(a)
      BY <3>3 DEF NextPacket, Search
    <3>5. \A a \in Actor : ~Retry(a) /\ ~Create(a) /\ ~Edit(a)
      BY <3>2, <3>3 DEF Retry, Create, Edit
    <3>6. \A a \in Actor : ~Reopen(a) /\ ~EditSource(a) /\ ~Stage(a) /\ ~Killed(a)
      BY <3>2, <3>3 DEF Reopen, EditSource, Stage, Killed
    <3>7. (\A a \in Host : ~BeginSync(a)) /\ ~People
          /\ \A n \in DOMAIN issues : ~Index(n)
      BY <3>3 DEF BeginSync, Index, People
    <3> QED BY <3>1, <3>4, <3>5, <3>6, <3>7 DEF Next, Step
  <2>3. f = actor[a].finding /\ actor[a].pc = "unlink"
    BY <2>1, <2>2 DEF Unlink, Inv, TypeOK
  <2> QED BY <2>3 DEF Inv, BackedUnlink
<1> QED BY <1>1, IssueInvariant, PTL DEF Spec, SafetySpec, ResolvedIsPublished
=============================================================================
