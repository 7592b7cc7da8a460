--------------------- MODULE ResidentReplacementProofs ---------------------
(***************************************************************************)
(* What the scripts of the host adapter reach, for any number of hosts,    *)
(* targets, images, operations, failures and killed scripts.  A script is  *)
(* a sequence of steps that shrinks from its front, so the number of steps *)
(* that are left says where it is: Point is the table of all scripts by    *)
(* that number, and each conjunct of the invariant says what is true from  *)
(* some point on.                                                          *)
(***************************************************************************)
EXTENDS ResidentReplacement, Integers, TLAPS

Left(h) == Len(job[h].todo)

\* In the script of op that phase names, do is the step with n left, itself
\* included, and fails is its route.
Point(op, phase, n, do, fails) ==
  \/ op = "add" /\ phase = "run" /\ <<n, do, fails>> \in
       {<<7, "stop", "exit">>, <<6, "remove", "exit">>,
        <<5, "create", "recover">>, <<4, "boot", "recover">>,
        <<3, "commit", "recover">>, <<2, "publish", "recover">>,
        <<1, "readback", "recover">>}
  \/ op = "remove" /\ phase = "run" /\ <<n, do, fails>> \in
       {<<12, "stop", "exit">>, <<11, "remove", "exit">>,
        <<10, "create", "recover">>, <<9, "boot", "recover">>,
        <<8, "commit", "recover">>, <<7, "publish", "recover">>,
        <<6, "stop", "recover">>, <<5, "remove", "recover">>,
        <<4, "create", "recover">>, <<3, "boot", "recover">>,
        <<2, "ready", "recover">>, <<1, "readback", "recover">>}
  \/ op = "update" /\ phase = "build" /\ n = 1 /\ do = "build" /\ fails = "exit"
  \/ op = "update" /\ phase = "run" /\ <<n, do, fails>> \in
       {<<8, "stop", "exit">>, <<7, "remove", "exit">>,
        <<6, "create", "undo">>, <<5, "boot", "undo">>,
        <<4, "commit", "recover">>, <<3, "publish", "recover">>,
        <<2, "record", "recover">>, <<1, "keep", "recover">>}
  \/ op = "update" /\ phase = "reuse" /\ <<n, do, fails>> \in
       {<<4, "commit", "exit">>, <<3, "publish", "exit">>,
        <<2, "record", "exit">>, <<1, "keep", "exit">>}
  \/ op = "update" /\ phase = "undo" /\ fails = "exit" /\ <<n, do>> \in
       {<<6, "stop">>, <<5, "remove">>, <<4, "discard">>, <<3, "create">>,
        <<2, "boot">>, <<1, "ready">>}
  \/ op = "rollback" /\ phase = "run" /\ <<n, do, fails>> \in
       {<<9, "stop", "exit">>, <<8, "remove", "exit">>, <<7, "create", "exit">>,
        <<6, "boot", "exit">>, <<5, "commit", "recover">>,
        <<4, "publish", "recover">>, <<3, "readback", "recover">>,
        <<2, "ready", "recover">>, <<1, "record", "recover">>}
  \/ op = "update" /\ phase = "recover" /\ <<n, do, fails>> \in
       {<<8, "restore", "note">>, <<7, "stop", "note">>, <<6, "remove", "note">>,
        <<5, "create", "skip">>, <<4, "boot", "skip">>, <<3, "ready", "note">>,
        <<2, "reactivate", "note">>, <<1, "discard", "note">>}
  \/ op \in {"add", "remove", "rollback"} /\ phase = "recover"
     /\ <<n, do, fails>> \in
       {<<7, "restore", "note">>, <<6, "stop", "note">>, <<5, "remove", "note">>,
        <<4, "create", "skip">>, <<3, "boot", "skip">>, <<2, "ready", "note">>,
        <<1, "discard", "note">>}
  \/ op = "stop" /\ phase = "run" /\ <<n, do, fails>> \in
       {<<3, "halt", "exit">>, <<2, "stop", "unhalt">>, <<1, "remove", "exit">>}
  \/ op = "stop" /\ phase = "unhalt" /\ n = 1 /\ do = "ready" /\ fails = "exit"

Follows(op, phase, todo) ==
  \A i \in 1..Len(todo) :
    Point(op, phase, Len(todo) + 1 - i, todo[i].do, todo[i].fails)

StepName == {"build", "stop", "remove", "create", "boot", "commit", "ready", "halt", "restore",
             "publish", "readback", "record", "keep", "reactivate", "discard"}
Step == [do : StepName, fails : {"exit", "unhalt", "undo", "recover", "note", "skip"}]
Work == [op : {"add", "remove", "update", "rollback", "stop"},
         target : Target \cup {None}, candidate : Image, todo : Seq(Step),
         old : Image, ref : Image, expect : Image,
         manifest : (SUBSET Target) \cup {None}, backup : SUBSET Target,
         pending : Plan, projected : BOOLEAN,
         phase : {"run", "build", "reuse", "unchanged", "undo", "recover", "unhalt"},
         result : {"ok", "failed", "broken"}]

\* The fields of a job fit each other, and its script.
Sensible(j) ==
  /\ j \in Work
  /\ Follows(j.op, j.phase, j.todo)
  /\ j.op \in {"add", "remove"} => j.target \in Target /\ j.ref = j.old /\ j.expect = j.old
  /\ j.op \in {"add", "remove"} => j.candidate = j.old /\ j.phase \in {"run", "unchanged", "recover"}
  /\ j.op = "update" => j.pending \in Snapshot
                        /\ j.phase \in {"build", "run", "reuse", "undo", "recover"}
  /\ j.op = "rollback" => j.phase \in {"run", "recover"}
  /\ j.op = "stop" => j.phase \in {"run", "unhalt"}
  /\ j.op # "rollback" => j.manifest = None
  /\ j.op = "rollback" /\ j.phase = "run" => j.manifest \in SUBSET Target
  /\ j.op \in {"update", "rollback"} /\ j.phase = "run" =>
       j.ref = j.candidate /\ j.expect = j.candidate
  /\ j.phase = "reuse" => j.candidate = j.old /\ j.ref = j.old
  /\ j.phase \in {"build", "recover", "undo"} => j.ref = j.old
  /\ j.phase = "recover" => j.expect = j.old
  /\ j.phase \in {"undo", "unhalt"} => j.result = "failed"
  /\ j.phase = "unchanged" => j.todo = <<>> /\ j.result = "ok"
  /\ j.phase \in {"run", "build", "reuse"} /\ j.todo # <<>> => j.result = "ok"
  /\ j.phase \in {"run", "build", "reuse"} => j.result \in {"ok", "failed"}
  /\ j.phase = "recover" /\ j.op # "rollback" => j.result # "ok"

Jobs ==
  /\ job \in [Host -> Work \cup {NoJob}]
  /\ \A h \in Host : Busy(h) => Sensible(job[h])

\* replacement.lock is with the script that is not a stop, which is one.
Locked ==
  \A h \in Host : /\ lock = h <=> Busy(h) /\ job[h].op # "stop"
                  /\ Busy(h) /\ job[h].op = "stop" => stopped

FilesTyped ==
  /\ resident \in Container \cup {None}
  /\ images \subseteq Image /\ retained \subseteq images
  /\ active \in Image /\ mounts \subseteq Target /\ absent \in BOOLEAN /\ plan \in Plan
  /\ exchange \in [targets : SUBSET Target, plan : Plan]
  /\ registry \in Registry

CountersTyped ==
  /\ ops \in 0..MaxOps /\ faults \in 0..MaxFaults /\ crashes \in 0..MaxCrashes
  /\ stopped \in BOOLEAN /\ unrestored \in BOOLEAN

Typed ==
  /\ lock \in Host \cup {None}
  /\ FilesTyped /\ CountersTyped /\ Jobs /\ Locked

\* The images of the resident, of the record and of the image to go back to exist.
ImagesExist ==
  /\ resident # None => resident.image \in images
  /\ ActiveImageExists
  /\ \A h \in Host : lock = h /\ ~unrestored => job[h].old \in images

\* Where a script may have changed the record of the active image.
Keeps(j, n) ==
  \/ active = j.old
  \/ /\ j.phase = "run" /\ j.result = "ok" /\ active = j.candidate
     /\ (j.op = "update" /\ n <= 1) \/ (j.op = "rollback" /\ n = 0)
  \/ /\ j.phase = "recover" /\ j.op = "update"
     /\ n >= 2 \/ (unrestored /\ j.result = "broken")

ActiveKept == \A h \in Host : lock = h => Keeps(job[h], Left(h))

Is(image, targets) == resident = None \/ Valid(image, targets)

\* The container and mounts.tsv from some point of a script on; it may be gone
\* by a stop.
Places(j, n) ==
  /\ j.op = "add" /\ j.phase = "run" /\ j.result = "ok" /\ n <= 4 =>
       resident = None \/ j.target \in resident.mounts
  /\ j.op \in {"add", "remove"} /\ j.result = "ok" /\ n = 0 =>
       Is(j.old, mounts) /\ (j.op = "add" => j.target \in mounts)
  /\ j.phase = "recover" /\ j.result # "broken" /\ (n <= 3 \/ (n = 4 /\ j.op = "update")) =>
       Is(j.old, Manifest(j))
  /\ j.op = "update" /\ ((j.phase = "run" /\ n <= 5) \/ j.phase = "reuse") /\ j.result = "ok" =>
       Is(j.candidate, j.backup)
  /\ j.op = "update" /\ j.phase = "build" /\ j.result = "ok" => mounts = j.backup
  /\ j.op = "update" /\ j.phase \in {"run", "reuse"} /\ j.result = "ok" =>
       IF n >= 3 THEN mounts = j.backup ELSE j.projected => mounts = registry.targets
  /\ j.op = "rollback" /\ j.phase = "run" /\ j.result = "ok" =>
       /\ n <= 6 => resident = None \/ resident.image = j.candidate
       /\ n <= 2 => Is(j.candidate, mounts)

InPlace == \A h \in Host : lock = h => Places(job[h], Left(h))

\* The resident runs once a target operation, or a restoration, has started it
\* for the last time.
Runs(j, n) ==
  /\ (\/ j.op = "add" /\ j.phase = "run" /\ j.result = "ok" /\ n <= 3
      \/ j.op = "remove" /\ j.phase = "run" /\ j.result = "ok" /\ n <= 2
      \/ j.phase = "recover" /\ j.result # "broken" /\ (n <= 2 \/ (n = 3 /\ j.op = "update")))
     => resident # None /\ resident.up
  /\ j.phase = "unchanged" => resident # None

Running == \A h \in Host : lock = h /\ ~stopped => Runs(job[h], Left(h))

\* What the controller knows, and the files hold, at the end of an update, a
\* rollback or a restoration.
Tells(j, n) ==
  /\ j.op = "update" /\ j.phase = "build" /\ j.result = "ok" => n # 0
  /\ j.op = "update" /\ j.phase \in {"run", "reuse"} /\ j.result = "ok" =>
       /\ n <= 3 /\ ~stopped => registry.image = j.candidate
       /\ n <= 1 => active = j.candidate
       /\ n = 0 => plan = j.pending
  /\ j.op = "rollback" /\ j.phase = "run" /\ j.result = "ok" =>
       /\ n <= 4 => registry.targets = j.manifest
       /\ n <= 4 /\ ~stopped => registry.image = j.candidate
       /\ n = 0 => active = j.candidate
  /\ j.phase = "recover" /\ j.result # "broken" /\ ~stopped
     /\ (n <= 1 \/ (n = 2 /\ j.op = "update")) => registry.image = j.old

Told == \A h \in Host : lock = h => Tells(job[h], Left(h))

----------------------------------------------------------------------------
(* As long as nothing fails.                                               *)

Calm == faults = 0 /\ crashes = 0 /\ ~stopped

Known(image, targets) ==
  registry.image = image /\ registry.targets = targets /\ registry.ready

Box(image, targets, up) == Valid(image, targets) /\ resident.up = up

Agreed == Known(active, mounts) /\ Box(active, mounts, TRUE)

CalmImages ==
  /\ active \in images /\ registry.image \in images
  /\ registry.back # None => registry.back.image \in images
  /\ plan # None => plan.image \in images

CourseOfAdd(j, n) ==
  /\ active = j.old
  /\ Known(j.old, IF n = 2 THEN mounts \cup {j.target} ELSE mounts)
  /\ n = 7 => Box(j.old, mounts, TRUE)
  /\ n = 6 => Box(j.old, mounts, FALSE)
  /\ n = 5 => resident = None
  /\ n = 4 => Box(j.old, mounts \cup {j.target}, FALSE)
  /\ n \in {2, 3} => Box(j.old, mounts \cup {j.target}, TRUE)
  /\ n <= 1 => Box(j.old, mounts, TRUE)

CourseOfRemove(j, n) ==
  /\ active = j.old
  /\ Known(j.old, IF n = 7 THEN mounts \ {j.target} ELSE mounts)
  /\ n \in {8, 12} => Box(j.old, mounts, TRUE)
  /\ n \in {9, 11} => Box(j.old, mounts, FALSE)
  /\ n \in {4, 10} => resident = None
  /\ n = 7 => resident # None
  /\ n = 6 => resident # None
  /\ n = 5 => resident # None /\ ~resident.up
  /\ n = 3 => Box(j.old, mounts, FALSE)
  /\ n <= 2 => Box(j.old, mounts, TRUE)

\* A target that was not registered: the controller refuses.
CourseOfRefusal(j, n) ==
  /\ active = j.old /\ Known(j.old, mounts)
  /\ j.op = "remove" /\ j.result = "failed"
  /\ n = 7 => resident # None /\ resident.up
  /\ n = 6 => resident # None
  /\ n = 5 => resident # None /\ ~resident.up
  /\ n = 4 => resident = None
  /\ n = 3 => Box(j.old, mounts, FALSE)
  /\ n <= 2 => Box(j.old, mounts, TRUE)

CourseOfUpdate(j, n) ==
  /\ active = IF n <= 1 THEN j.candidate ELSE j.old
  /\ Known(IF n <= 3 THEN j.candidate ELSE j.old, mounts)
  /\ n = 8 => Box(j.old, mounts, TRUE)
  /\ n = 7 => Box(j.old, mounts, FALSE)
  /\ n = 6 => resident = None
  /\ n = 5 => Box(j.candidate, mounts, FALSE)
  /\ n <= 4 => Box(j.candidate, mounts, TRUE)

CourseOfRollback(j, n) ==
  /\ active = IF n = 0 THEN j.candidate ELSE j.old
  /\ n >= 5 => Known(j.old, mounts)
  /\ n = 4 => Known(j.candidate, j.manifest)
  /\ n <= 3 => Known(j.candidate, mounts)
  /\ n = 9 => Box(j.old, mounts, TRUE)
  /\ n = 8 => Box(j.old, mounts, FALSE)
  /\ n = 7 => resident = None
  /\ n = 6 => Box(j.candidate, j.manifest, FALSE)
  /\ n \in {4, 5} => Box(j.candidate, j.manifest, TRUE)
  /\ n <= 3 => Box(j.candidate, mounts, TRUE)

CourseAt(j, n) ==
  /\ j.phase \notin {"undo", "unhalt"}
  /\ j.phase # "recover" => j.result = "ok"
  /\ j.phase \in {"unchanged", "build", "reuse"} => Agreed /\ active = j.old
  /\ j.phase = "recover" => CourseOfRefusal(j, n)
  /\ j.op = "update" => j.pending.image \in images
  /\ j.op = "add" /\ j.phase = "run" => CourseOfAdd(j, n)
  /\ j.op = "remove" /\ j.phase = "run" => CourseOfRemove(j, n)
  /\ j.op = "update" /\ j.phase = "run" => CourseOfUpdate(j, n) /\ j.candidate \in images
  /\ j.op = "rollback" => CourseOfRollback(j, n) /\ j.candidate \in images

Course(h) == CourseAt(job[h], Left(h))

CalmCourse ==
  Calm => /\ CalmImages
          /\ lock = None => Agreed
          /\ \A h \in Host : lock = h => Course(h)

\* Only a publication that failed takes mounts.tsv away.
Present == absent => faults # 0

Inv ==
  /\ Typed /\ ImagesExist /\ ActiveKept /\ InPlace /\ Running /\ Told /\ CalmCourse /\ Present

----------------------------------------------------------------------------
(* Scripts.                                                                *)

Routes == {"exit", "unhalt", "undo", "recover", "note", "skip"}

\* s is the part of a script that begins with to steps left and leaves from.
Part(op, phase, s, from, to) ==
  /\ s \in Seq(Step) /\ from \in Nat /\ to = from + Len(s)
  /\ \A i \in 1..Len(s) : Point(op, phase, to + 1 - i, s[i].do, s[i].fails)

LEMMA OneInSeq ==
  ASSUME NEW S, NEW a \in S PROVE <<a>> \in Seq(S) /\ Len(<<a>>) = 1 /\ <<a>>[1] = a
OBVIOUS

LEMMA TwoInSeq ==
  ASSUME NEW S, NEW a \in S, NEW b \in S PROVE <<a, b>> \in Seq(S)
OBVIOUS

LEMMA PartOn ==
  ASSUME NEW op, NEW phase, NEW route \in Routes, NEW steps \in Seq(StepName),
         NEW from \in Nat, NEW to, to = from + Len(steps),
         \A i \in 1..Len(steps) : Point(op, phase, to + 1 - i, steps[i], route)
  PROVE  Part(op, phase, On(route, steps), from, to)
<1> DEFINE s == On(route, steps)
<1>1. s = [i \in 1..Len(steps) |-> [do |-> steps[i], fails |-> route]] BY DEF On
<1>2. \A i \in 1..Len(steps) : [do |-> steps[i], fails |-> route] \in Step
  BY DEF Step, Routes
<1>3. s \in Seq(Step) /\ Len(s) = Len(steps) BY <1>1, <1>2
<1>4. \A i \in 1..Len(s) : s[i].do = steps[i] /\ s[i].fails = route BY <1>1, <1>3
<1> QED BY <1>3, <1>4 DEF Part

LEMMA PartThen ==
  ASSUME NEW op, NEW phase, NEW s, NEW t, NEW from, NEW mid, NEW to,
         Part(op, phase, s, mid, to), Part(op, phase, t, from, mid)
  PROVE  Part(op, phase, s \o t, from, to)
<1>1. /\ s \in Seq(Step) /\ t \in Seq(Step) /\ from \in Nat
      /\ mid = from + Len(t) /\ to = mid + Len(s)
  BY DEF Part
<1>2. s \o t \in Seq(Step) /\ Len(s \o t) = Len(s) + Len(t) BY <1>1
<1>3. ASSUME NEW i \in 1..Len(s \o t)
      PROVE  Point(op, phase, to + 1 - i, (s \o t)[i].do, (s \o t)[i].fails)
  <2>1. CASE i <= Len(s)
    <3>1. i \in 1..Len(s) /\ (s \o t)[i] = s[i] BY <1>1, <2>1
    <3> QED BY <3>1 DEF Part
  <2>2. CASE i > Len(s)
    <3>1. i - Len(s) \in 1..Len(t) /\ (s \o t)[i] = t[i - Len(s)] BY <1>1, <1>2, <2>2
    <3>2. to + 1 - i = mid + 1 - (i - Len(s)) BY <1>1, <1>2
    <3> QED BY <3>1, <3>2 DEF Part
  <2> QED BY <2>1, <2>2, <1>1, <1>2
<1>4. to = from + Len(s \o t) BY <1>1, <1>2
<1> QED BY <1>1, <1>2, <1>3, <1>4 DEF Part

LEMMA PartWhole ==
  ASSUME NEW op, NEW phase, NEW s, NEW n, Part(op, phase, s, 0, n)
  PROVE  s \in Seq(Step) /\ Len(s) = n /\ Follows(op, phase, s)
<1>1. s \in Seq(Step) /\ Len(s) \in Nat /\ n = Len(s) BY DEF Part
<1> QED BY <1>1 DEF Part, Follows

LEMMA Shifted ==
  ASSUME NEW a \in Int, NEW b \in Int, NEW i \in Int, b = a - 1
  PROVE  a + 1 - (i + 1) = b + 1 - i
OBVIOUS

\* What is left of a script after a step.
LEMMA FollowsTail ==
  ASSUME NEW op, NEW phase, NEW s \in Seq(Step), Follows(op, phase, s), s # <<>>
  PROVE  /\ Tail(s) \in Seq(Step) /\ Follows(op, phase, Tail(s))
         /\ Len(s) \in Nat \ {0} /\ Len(Tail(s)) = Len(s) - 1
         /\ Point(op, phase, Len(s), Head(s).do, Head(s).fails)
<1>1. Len(s) \in Nat \ {0} /\ Tail(s) \in Seq(Step) /\ Len(Tail(s)) = Len(s) - 1
      /\ Head(s) = s[1]
  OBVIOUS
<1>2. Len(s) + 1 - 1 = Len(s) /\ 1 \in 1..Len(s) BY <1>1
<1>3. Point(op, phase, Len(s), Head(s).do, Head(s).fails) BY <1>1, <1>2 DEF Follows
<1>4. ASSUME NEW i \in 1..Len(Tail(s))
      PROVE  Point(op, phase, Len(Tail(s)) + 1 - i, Tail(s)[i].do, Tail(s)[i].fails)
  <2>1. i + 1 \in 1..Len(s) /\ Tail(s)[i] = s[i + 1] BY <1>1
  <2>2. i \in Int /\ Len(s) \in Int /\ Len(Tail(s)) \in Int /\ Len(Tail(s)) = Len(s) - 1
    BY <1>1
  <2>3. Len(s) + 1 - (i + 1) = Len(Tail(s)) + 1 - i BY <2>2, Shifted
  <2> QED BY <2>1, <2>3 DEF Follows
<1> QED BY <1>1, <1>3, <1>4 DEF Follows

\* Two ways to give the points of a short piece.
LEMMA PartOne ==
  ASSUME NEW op, NEW phase, NEW route \in Routes, NEW a \in StepName, NEW from \in Nat,
         NEW to, to = from + 1, Point(op, phase, to, a, route)
  PROVE  Part(op, phase, On(route, <<a>>), from, to)
<1> DEFINE s == <<a>>
<1>1. s \in Seq(StepName) /\ Len(s) = 1 /\ s[1] = a BY OneInSeq
<1>2. ASSUME NEW i \in 1..Len(s) PROVE Point(op, phase, to + 1 - i, s[i], route)
  <2>1. i = 1 BY <1>1
  <2>2. to + 1 - i = to BY <2>1, <1>1
  <2> QED BY <2>1, <2>2, <1>1
<1> HIDE DEF s
<1>3. Part(op, phase, On(route, s), from, to) BY <1>1, <1>2, PartOn
<1> QED BY <1>3 DEF s

LEMMA PartTwo ==
  ASSUME NEW op, NEW phase, NEW route \in Routes, NEW a \in StepName, NEW b \in StepName,
         NEW from \in Nat, NEW mid, NEW to, mid = from + 1, to = from + 2,
         Point(op, phase, to, a, route), Point(op, phase, mid, b, route)
  PROVE  Part(op, phase, On(route, <<a, b>>), from, to)
<1> DEFINE s == <<a, b>>
<1>1. s \in Seq(StepName) /\ Len(s) = 2 /\ s[1] = a /\ s[2] = b BY TwoInSeq
<1>2. ASSUME NEW i \in 1..Len(s) PROVE Point(op, phase, to + 1 - i, s[i], route)
  <2>1. CASE i = 1
    <3>1. to + 1 - i = to BY <2>1, <1>1
    <3> QED BY <2>1, <3>1, <1>1
  <2>2. CASE i = 2
    <3>1. to + 1 - i = mid BY <2>2, <1>1
    <3> QED BY <2>2, <3>1, <1>1
  <2> QED BY <2>1, <2>2, <1>1
<1> HIDE DEF s
<1>3. Part(op, phase, On(route, s), from, to) BY <1>1, <1>2, PartOn
<1> QED BY <1>3 DEF s

LEMMA OnJoin ==
  ASSUME NEW route, NEW S, NEW s \in Seq(S), NEW t \in Seq(S)
  PROVE  On(route, s \o t) = On(route, s) \o On(route, t)
<1> DEFINE T == [do : S, fails : {route}]
           a == On(route, s)
           b == On(route, t)
           c == On(route, s \o t)
<1>1. /\ a = [i \in 1..Len(s) |-> [do |-> s[i], fails |-> route]]
      /\ b = [i \in 1..Len(t) |-> [do |-> t[i], fails |-> route]]
  BY DEF On
<1>2. s \o t \in Seq(S) /\ Len(s \o t) = Len(s) + Len(t) OBVIOUS
<1>3. c = [i \in 1..(Len(s) + Len(t)) |-> [do |-> (s \o t)[i], fails |-> route]]
  BY <1>2 DEF On
<1>4. \A i \in 1..(Len(s) + Len(t)) : (s \o t)[i] = IF i <= Len(s) THEN s[i] ELSE t[i - Len(s)]
  OBVIOUS
<1>5. a \in Seq(T) /\ b \in Seq(T) /\ Len(a) = Len(s) /\ Len(b) = Len(t) BY <1>1
<1>6. c \in Seq(T) /\ Len(c) = Len(s) + Len(t) BY <1>3, <1>2
<1> HIDE DEF a, b, c
<1>7. a \o b \in Seq(T) /\ Len(a \o b) = Len(s) + Len(t) BY <1>5
<1>8. ASSUME NEW i \in 1..(Len(s) + Len(t)) PROVE c[i] = (a \o b)[i]
  <2>0. i \in Int /\ Len(s) \in Int OBVIOUS
  <2>1. CASE i <= Len(s)
    <3>1. (a \o b)[i] = a[i] BY <1>5, <2>1
    <3>2. a[i] = [do |-> s[i], fails |-> route] BY <1>1, <2>1
    <3> QED BY <3>1, <3>2, <1>3, <1>4, <2>1
  <2>2. CASE i > Len(s)
    <3>1. (a \o b)[i] = b[i - Len(s)] /\ i - Len(s) \in 1..Len(t) BY <1>5, <2>2
    <3>2. b[i - Len(s)] = [do |-> t[i - Len(s)], fails |-> route] BY <1>1, <3>1
    <3> QED BY <3>1, <3>2, <1>3, <1>4, <2>2
  <2>3. i <= Len(s) \/ i > Len(s) BY <2>0
  <2> QED BY <2>1, <2>2, <2>3, Zenon
<1>9. c = a \o b BY <1>6, <1>7, <1>8
<1> QED BY <1>9 DEF a, b, c

LEMMA Sums ==
  /\ 1 = 0 + 1 /\ 2 = 1 + 1 /\ 3 = 2 + 1 /\ 4 = 3 + 1 /\ 5 = 4 + 1 /\ 6 = 5 + 1
  /\ 7 = 6 + 1 /\ 8 = 7 + 1 /\ 9 = 8 + 1 /\ 10 = 9 + 1 /\ 11 = 10 + 1 /\ 12 = 11 + 1
  /\ 2 = 0 + 2 /\ 3 = 1 + 2 /\ 4 = 2 + 2 /\ 5 = 3 + 2 /\ 6 = 4 + 2 /\ 7 = 5 + 2
  /\ 8 = 6 + 2 /\ 9 = 7 + 2 /\ 10 = 8 + 2 /\ 11 = 9 + 2 /\ 12 = 10 + 2
  /\ \A n \in 0..12 : n \in Nat
  /\ 0 \in Nat /\ 1 \in Nat /\ 2 \in Nat /\ 3 \in Nat /\ 4 \in Nat /\ 5 \in Nat /\ 6 \in Nat
  /\ 7 \in Nat /\ 8 \in Nat /\ 9 \in Nat /\ 10 \in Nat /\ 11 \in Nat
OBVIOUS

LEMMA Names ==
  /\ "build" \in StepName /\ "stop" \in StepName /\ "remove" \in StepName
  /\ "create" \in StepName /\ "boot" \in StepName /\ "commit" \in StepName
  /\ "ready" \in StepName /\ "halt" \in StepName /\ "restore" \in StepName
  /\ "publish" \in StepName /\ "readback" \in StepName /\ "record" \in StepName
  /\ "keep" \in StepName /\ "reactivate" \in StepName /\ "discard" \in StepName
  /\ "exit" \in Routes /\ "unhalt" \in Routes /\ "undo" \in Routes
  /\ "recover" \in Routes /\ "note" \in Routes /\ "skip" \in Routes
BY DEF StepName, Routes

LEMMA FollowsStop ==
  StopScript \in Seq(Step) /\ Len(StopScript) = 3 /\ Follows("stop", "run", StopScript)
<1>1. /\ Point("stop", "run", 3, "halt", "exit")
      /\ Point("stop", "run", 2, "stop", "unhalt")
      /\ Point("stop", "run", 1, "remove", "exit")
  BY DEF Point
<1>2. Part("stop", "run", On("exit", <<"halt">>), 2, 3) BY <1>1, Names, Sums, PartOne, Zenon
<1>3. Part("stop", "run", On("unhalt", <<"stop">>), 1, 2) BY <1>1, Names, Sums, PartOne, Zenon
<1>4. Part("stop", "run", On("exit", <<"remove">>), 0, 1) BY <1>1, Names, Sums, PartOne, Zenon
<1>5. Part("stop", "run", StopScript, 0, 3) BY <1>2, <1>3, <1>4, PartThen, Zenon DEF StopScript
<1> QED BY <1>5, PartWhole, Zenon

LEMMA OnTwo ==
  ASSUME NEW route, NEW a \in Seq(StepName), NEW b \in Seq(StepName)
  PROVE  On(route, a \o b) = On(route, a) \o On(route, b) /\ a \o b \in Seq(StepName)
<1>1. a \o b \in Seq(StepName) OBVIOUS
<1> QED BY <1>1, OnJoin, Zenon

LEMMA StepSeqs ==
  /\ Teardown \in Seq(StepName) /\ Ensure \in Seq(StepName) /\ Settle \in Seq(StepName)
  /\ <<>> \in Seq(StepName) /\ <<"commit">> \in Seq(StepName)
  /\ <<"commit", "publish">> \in Seq(StepName) /\ <<"discard">> \in Seq(StepName)
  /\ <<"restore">> \in Seq(StepName)
  /\ <<"ready">> \in Seq(StepName) /\ <<"readback">> \in Seq(StepName)
  /\ <<"commit", "publish", "readback", "ready", "record">> \in Seq(StepName)
BY Names DEF Teardown, Ensure, Settle

LEMMA PartSettle ==
  ASSUME NEW phase, NEW route,
         \/ phase = "run" /\ route = "recover"
         \/ phase = "reuse" /\ route = "exit"
  PROVE  Part("update", phase, On(route, Settle), 0, 3)
<1>1. Settle \in Seq(StepName) /\ Len(Settle) = 3
      /\ Settle[1] = "publish" /\ Settle[2] = "record" /\ Settle[3] = "keep"
  BY StepSeqs DEF Settle
<1>2. ASSUME NEW i \in 1..3 PROVE Point("update", phase, 3 + 1 - i, Settle[i], route)
  <2>1. CASE i = 1 BY <2>1, <1>1 DEF Point
  <2>2. CASE i = 2 BY <2>2, <1>1 DEF Point
  <2>3. CASE i = 3 BY <2>3, <1>1 DEF Point
  <2> QED BY <2>1, <2>2, <2>3
<1>3. route \in Routes BY DEF Routes
<1>4. 3 = 0 + Len(Settle) /\ 1..Len(Settle) = 1..3 BY <1>1
<1> QED BY <1>1, <1>2, <1>3, <1>4, Sums, PartOn, Zenon

LEMMA PartRollback ==
  Part("rollback", "run", On("recover", <<"commit", "publish", "readback", "ready", "record">>), 0, 5)
<1> DEFINE s == <<"commit", "publish", "readback", "ready", "record">>
<1>1. s \in Seq(StepName) /\ Len(s) = 5 /\ s[1] = "commit" /\ s[2] = "publish"
      /\ s[3] = "readback" /\ s[4] = "ready" /\ s[5] = "record"
  BY StepSeqs
<1> HIDE DEF s
<1>2. ASSUME NEW i \in 1..5 PROVE Point("rollback", "run", 5 + 1 - i, s[i], "recover")
  <2>1. CASE i = 1 BY <2>1, <1>1 DEF Point
  <2>2. CASE i = 2 BY <2>2, <1>1 DEF Point
  <2>3. CASE i = 3 BY <2>3, <1>1 DEF Point
  <2>4. CASE i = 4 BY <2>4, <1>1 DEF Point
  <2>5. CASE i = 5 BY <2>5, <1>1 DEF Point
  <2> QED BY <2>1, <2>2, <2>3, <2>4, <2>5
<1>4. 5 = 0 + Len(s) /\ 1..Len(s) = 1..5 BY <1>1
<1>5. Part("rollback", "run", On("recover", s), 0, 5)
  BY <1>1, <1>2, <1>4, Names, Sums, PartOn, Zenon
<1> QED BY <1>5 DEF s

LEMMA PartNone ==
  ASSUME NEW op, NEW phase, NEW route \in Routes, NEW n \in Nat
  PROVE  Part(op, phase, On(route, <<>>), n, n)
<1>1. <<>> \in Seq(StepName) /\ Len(<<>>) = 0 /\ n = n + Len(<<>>) OBVIOUS
<1>2. \A i \in 1..Len(<<>>) : Point(op, phase, n + 1 - i, <<>>[i], route) BY <1>1
<1> QED BY <1>1, <1>2, PartOn, Zenon

LEMMA FollowsAdd ==
  LET s == TargetScript("add") IN
  s \in Seq(Step) /\ Len(s) = 7 /\ Follows("add", "run", s)
<1> DEFINE first == Ensure
           cp == <<"commit", "publish">>
           none == <<>>
           read == <<"readback">>
<1>1. TargetScript("add") =
        On("exit", Teardown) \o
        On("recover", Ensure \o <<"commit", "publish">> \o <<>> \o <<"readback">>)
  BY Zenon DEF TargetScript
<1>2. On("recover", Ensure \o <<"commit", "publish">> \o <<>> \o <<"readback">>)
      = On("recover", Ensure) \o On("recover", <<"commit", "publish">>)
        \o On("recover", <<>>) \o On("recover", <<"readback">>)
  <2>1. first \in Seq(StepName) /\ cp \in Seq(StepName) /\ none \in Seq(StepName)
        /\ read \in Seq(StepName)
    BY StepSeqs
  <2> DEFINE r == "recover"
  <2> HIDE DEF first, cp, none, read, r
  <2>2. On(r, first \o cp) = On(r, first) \o On(r, cp)
        /\ first \o cp \in Seq(StepName)
    <3>1. first \in Seq(StepName) /\ cp \in Seq(StepName) BY <2>1, Zenon
    <3> QED BY <3>1, OnTwo, Zenon
  <2>3. On(r, first \o cp \o none) = On(r, first \o cp) \o On(r, none)
        /\ first \o cp \o none \in Seq(StepName)
    <3>1. first \o cp \in Seq(StepName) /\ none \in Seq(StepName) BY <2>1, <2>2, Zenon
    <3> QED BY <3>1, OnTwo, Zenon
  <2>4. On(r, first \o cp \o none \o read) = On(r, first \o cp \o none) \o On(r, read)
        /\ first \o cp \o none \o read \in Seq(StepName)
    <3>1. first \o cp \o none \in Seq(StepName) /\ read \in Seq(StepName) BY <2>1, <2>3, Zenon
    <3> QED BY <3>1, OnTwo, Zenon
  <2> QED BY <2>2, <2>3, <2>4, Zenon DEF first, cp, none, read, r
<1>3. /\ Point("add", "run", 7, "stop", "exit") /\ Point("add", "run", 6, "remove", "exit")
      /\ Point("add", "run", 5, "create", "recover") /\ Point("add", "run", 4, "boot", "recover")
      /\ Point("add", "run", 3, "commit", "recover") /\ Point("add", "run", 2, "publish", "recover")
      /\ Point("add", "run", 1, "readback", "recover")
  BY DEF Point
<1>4. Part("add", "run", On("exit", Teardown), 5, 7)
  BY <1>3, Names, Sums, PartTwo, Zenon DEF Teardown
<1>5. Part("add", "run", On("recover", Ensure), 3, 5)
  BY <1>3, Names, Sums, PartTwo, Zenon DEF Ensure
<1>6. Part("add", "run", On("recover", <<"commit", "publish">>), 1, 3)
  BY <1>3, Names, Sums, PartTwo, Zenon
<1>7. Part("add", "run", On("recover", <<>>), 1, 1) BY Names, Sums, PartNone, Zenon
<1>8. Part("add", "run", On("recover", <<"readback">>), 0, 1)
  BY <1>3, Names, Sums, PartOne, Zenon
<1>9. Part("add", "run", TargetScript("add"), 0, 7)
  BY <1>1, <1>2, <1>4, <1>5, <1>6, <1>7, <1>8, PartThen, Zenon
<1> QED BY <1>9, PartWhole, Zenon

LEMMA FollowsRemove ==
  LET s == TargetScript("remove") IN
  s \in Seq(Step) /\ Len(s) = 12 /\ Follows("remove", "run", s)
<1> DEFINE first == Ensure
           cp == <<"commit", "publish">>
           down == Teardown
           ready == <<"ready">>
           again == down \o first \o ready
           read == <<"readback">>
<1>1. TargetScript("remove") =
        On("exit", Teardown) \o On("recover", first \o cp \o again \o read)
  BY Zenon DEF TargetScript
<1>2. first \in Seq(StepName) /\ cp \in Seq(StepName) /\ down \in Seq(StepName)
      /\ ready \in Seq(StepName) /\ again \in Seq(StepName) /\ read \in Seq(StepName)
  BY StepSeqs
<1>3. On("recover", again) = On("recover", Teardown) \o On("recover", Ensure) \o On("recover", <<"ready">>)
  <2> DEFINE r == "recover"
  <2> HIDE DEF first, down, ready, r
  <2>1. On(r, down \o first) = On(r, down) \o On(r, first)
        /\ down \o first \in Seq(StepName)
    <3>1. down \in Seq(StepName) /\ first \in Seq(StepName) BY <1>2, Zenon
    <3> QED BY <3>1, OnTwo, Zenon
  <2>2. On(r, down \o first \o ready) = On(r, down \o first) \o On(r, ready)
        /\ down \o first \o ready \in Seq(StepName)
    <3>1. down \o first \in Seq(StepName) /\ ready \in Seq(StepName) BY <1>2, <2>1, Zenon
    <3> QED BY <3>1, OnTwo, Zenon
  <2> QED BY <2>1, <2>2, Zenon DEF first, down, ready, r
<1>4. Part("remove", "run", On("recover", again), 1, 6)
  <2>1. /\ Point("remove", "run", 6, "stop", "recover") /\ Point("remove", "run", 5, "remove", "recover")
        /\ Point("remove", "run", 4, "create", "recover") /\ Point("remove", "run", 3, "boot", "recover")
        /\ Point("remove", "run", 2, "ready", "recover")
    BY DEF Point
  <2>2. Part("remove", "run", On("recover", Teardown), 4, 6)
    BY <2>1, Names, Sums, PartTwo, Zenon DEF Teardown
  <2>3. Part("remove", "run", On("recover", Ensure), 2, 4)
    BY <2>1, Names, Sums, PartTwo, Zenon DEF Ensure
  <2>4. Part("remove", "run", On("recover", <<"ready">>), 1, 2)
    BY <2>1, Names, Sums, PartOne, Zenon
  <2> QED BY <1>3, <2>2, <2>3, <2>4, PartThen, Zenon
<1> HIDE DEF again
<1>5. On("recover", first \o cp \o again \o read)
      = On("recover", Ensure) \o On("recover", cp) \o On("recover", again) \o On("recover", read)
  <2> DEFINE r == "recover"
  <2> HIDE DEF first, cp, read, r
  <2>1. On(r, first \o cp) = On(r, first) \o On(r, cp)
        /\ first \o cp \in Seq(StepName)
    <3>1. first \in Seq(StepName) /\ cp \in Seq(StepName) BY <1>2, Zenon
    <3> QED BY <3>1, OnTwo, Zenon
  <2>2. On(r, first \o cp \o again) = On(r, first \o cp) \o On(r, again)
        /\ first \o cp \o again \in Seq(StepName)
    <3>1. first \o cp \in Seq(StepName) /\ again \in Seq(StepName) BY <1>2, <2>1, Zenon
    <3> QED BY <3>1, OnTwo, Zenon
  <2>3. On(r, first \o cp \o again \o read) = On(r, first \o cp \o again) \o On(r, read)
        /\ first \o cp \o again \o read \in Seq(StepName)
    <3>1. first \o cp \o again \in Seq(StepName) /\ read \in Seq(StepName) BY <1>2, <2>2, Zenon
    <3> QED BY <3>1, OnTwo, Zenon
  <2> QED BY <2>1, <2>2, <2>3, Zenon DEF first, r
<1>6. /\ Point("remove", "run", 12, "stop", "exit") /\ Point("remove", "run", 11, "remove", "exit")
      /\ Point("remove", "run", 10, "create", "recover") /\ Point("remove", "run", 9, "boot", "recover")
      /\ Point("remove", "run", 8, "commit", "recover") /\ Point("remove", "run", 7, "publish", "recover")
      /\ Point("remove", "run", 1, "readback", "recover")
  BY DEF Point
<1>7. Part("remove", "run", On("exit", Teardown), 10, 12)
  BY <1>6, Names, Sums, PartTwo, Zenon DEF Teardown
<1>8. Part("remove", "run", On("recover", Ensure), 8, 10)
  BY <1>6, Names, Sums, PartTwo, Zenon DEF Ensure
<1>9. Part("remove", "run", On("recover", cp), 6, 8)
  BY <1>6, Names, Sums, PartTwo, Zenon
<1>10. Part("remove", "run", On("recover", read), 0, 1)
  BY <1>6, Names, Sums, PartOne, Zenon
<1>11. Part("remove", "run", TargetScript("remove"), 0, 12)
  <2>1. Part("remove", "run", On("recover", Ensure) \o On("recover", cp), 6, 10)
    BY <1>8, <1>9, PartThen, Zenon
  <2>2. Part("remove", "run",
             On("recover", Ensure) \o On("recover", cp) \o On("recover", again), 1, 10)
    BY <2>1, <1>4, PartThen, Zenon
  <2>3. Part("remove", "run", On("recover", first \o cp \o again \o read), 0, 10)
    BY <2>2, <1>10, <1>5, PartThen, Zenon
  <2> QED BY <2>3, <1>1, <1>7, PartThen, Zenon
<1> QED BY <1>11, PartWhole, Zenon

LEMMA FollowsUpdate ==
  ASSUME NEW present \in BOOLEAN
  PROVE  LET s == UpdateScript(present) IN
         /\ s \in Seq(Step) /\ Len(s) = IF present THEN 8 ELSE 6
         /\ Follows("update", "run", s)
<1>1. /\ Point("update", "run", 8, "stop", "exit") /\ Point("update", "run", 7, "remove", "exit")
      /\ Point("update", "run", 6, "create", "undo") /\ Point("update", "run", 5, "boot", "undo")
      /\ Point("update", "run", 4, "commit", "recover")
  BY DEF Point
<1>2. Part("update", "run", On("exit", Teardown), 6, 8)
  BY <1>1, Names, Sums, PartTwo, Zenon DEF Teardown
<1>3. Part("update", "run", On("exit", <<>>), 6, 6) BY Names, Sums, PartNone, Zenon
<1>4. On("exit", <<>>) = <<>> BY DEF On
<1>5. Part("update", "run", On("undo", Ensure), 4, 6)
  BY <1>1, Names, Sums, PartTwo, Zenon DEF Ensure
<1>6. Part("update", "run", On("recover", <<"commit">>), 3, 4) BY <1>1, Names, Sums, PartOne, Zenon
<1>7. Part("update", "run", On("recover", Settle), 0, 3) BY PartSettle, Zenon
<1>8. On("recover", <<"commit">> \o Settle) = On("recover", <<"commit">>) \o On("recover", Settle)
  <2>1. <<"commit">> \in Seq(StepName) /\ Settle \in Seq(StepName) BY StepSeqs, Zenon
  <2> QED BY <2>1, OnTwo, Zenon
<1>9. CASE present
  <2>1. UpdateScript(present) = On("exit", Teardown) \o On("undo", Ensure) \o On("recover", <<"commit">> \o Settle)
    BY <1>9, Zenon DEF UpdateScript
  <2>2. Part("update", "run", UpdateScript(present), 0, 8)
    BY <2>1, <1>2, <1>5, <1>6, <1>7, <1>8, PartThen, Zenon
  <2> QED BY <2>2, <1>9, PartWhole, Zenon
<1>10. CASE ~present
  <2>1. UpdateScript(present) = On("exit", <<>>) \o On("undo", Ensure) \o On("recover", <<"commit">> \o Settle)
    BY <1>4, <1>10, Zenon DEF UpdateScript
  <2>2. Part("update", "run", UpdateScript(present), 0, 6)
    BY <2>1, <1>3, <1>5, <1>6, <1>7, <1>8, PartThen, Zenon
  <2> QED BY <2>2, <1>10, PartWhole, Zenon
<1> QED BY <1>9, <1>10, Zenon

LEMMA FollowsReuse ==
  ReuseScript \in Seq(Step) /\ Len(ReuseScript) = 4 /\ Follows("update", "reuse", ReuseScript)
<1>1. Point("update", "reuse", 4, "commit", "exit") BY DEF Point
<1>2. Part("update", "reuse", On("exit", <<"commit">>), 3, 4) BY <1>1, Names, Sums, PartOne, Zenon
<1>3. Part("update", "reuse", On("exit", Settle), 0, 3) BY PartSettle, Zenon
<1>4. ReuseScript = On("exit", <<"commit">>) \o On("exit", Settle)
  <2>1. <<"commit">> \in Seq(StepName) /\ Settle \in Seq(StepName) BY StepSeqs, Zenon
  <2> QED BY <2>1, OnTwo, Zenon DEF ReuseScript
<1>5. Part("update", "reuse", ReuseScript, 0, 4) BY <1>2, <1>3, <1>4, PartThen, Zenon
<1> QED BY <1>5, PartWhole, Zenon

LEMMA FollowsRollback ==
  /\ RollbackScript \in Seq(Step) /\ Len(RollbackScript) = 9
  /\ Follows("rollback", "run", RollbackScript)
<1>1. /\ Point("rollback", "run", 9, "stop", "exit") /\ Point("rollback", "run", 8, "remove", "exit")
      /\ Point("rollback", "run", 7, "create", "exit") /\ Point("rollback", "run", 6, "boot", "exit")
  BY DEF Point
<1>2. Part("rollback", "run", On("exit", Teardown), 7, 9)
  BY <1>1, Names, Sums, PartTwo, Zenon DEF Teardown
<1>3. Part("rollback", "run", On("exit", Ensure), 5, 7)
  BY <1>1, Names, Sums, PartTwo, Zenon DEF Ensure
<1>4. On("exit", Teardown \o Ensure) = On("exit", Teardown) \o On("exit", Ensure)
  <2>1. Teardown \in Seq(StepName) /\ Ensure \in Seq(StepName) BY StepSeqs, Zenon
  <2> QED BY <2>1, OnTwo, Zenon
<1>5. Part("rollback", "run", RollbackScript, 0, 9)
  BY <1>2, <1>3, <1>4, PartRollback, PartThen, Zenon DEF RollbackScript
<1> QED BY <1>5, PartWhole, Zenon

LEMMA FollowsUndo ==
  UndoScript \in Seq(Step) /\ Len(UndoScript) = 6 /\ Follows("update", "undo", UndoScript)
<1>1. /\ Point("update", "undo", 6, "stop", "exit") /\ Point("update", "undo", 5, "remove", "exit")
      /\ Point("update", "undo", 4, "discard", "exit") /\ Point("update", "undo", 3, "create", "exit")
      /\ Point("update", "undo", 2, "boot", "exit") /\ Point("update", "undo", 1, "ready", "exit")
  BY DEF Point
<1>2. Part("update", "undo", On("exit", Teardown), 4, 6)
  BY <1>1, Names, Sums, PartTwo, Zenon DEF Teardown
<1>3. Part("update", "undo", On("exit", <<"discard">>), 3, 4) BY <1>1, Names, Sums, PartOne, Zenon
<1>4. Part("update", "undo", On("exit", Ensure), 1, 3)
  BY <1>1, Names, Sums, PartTwo, Zenon DEF Ensure
<1>5. Part("update", "undo", On("exit", <<"ready">>), 0, 1) BY <1>1, Names, Sums, PartOne, Zenon
<1>6. UndoScript = On("exit", Teardown) \o On("exit", <<"discard">>)
                   \o On("exit", Ensure) \o On("exit", <<"ready">>)
  <2> DEFINE a == Teardown
             b == <<"discard">>
             c == Ensure
             d == <<"ready">>
  <2>1. a \in Seq(StepName) /\ b \in Seq(StepName) /\ c \in Seq(StepName) /\ d \in Seq(StepName)
    BY StepSeqs
  <2>2. UndoScript = On("exit", a \o b \o c \o d) BY Zenon DEF UndoScript
  <2> DEFINE r == "exit"
  <2> HIDE DEF a, b, c, d, r
  <2>3. On(r, a \o b) = On(r, a) \o On(r, b)
        /\ a \o b \in Seq(StepName)
    <3>1. a \in Seq(StepName) /\ b \in Seq(StepName) BY <2>1, Zenon
    <3> QED BY <3>1, OnTwo, Zenon
  <2>4. On(r, a \o b \o c) = On(r, a \o b) \o On(r, c)
        /\ a \o b \o c \in Seq(StepName)
    <3>1. a \o b \in Seq(StepName) /\ c \in Seq(StepName) BY <2>1, <2>3, Zenon
    <3> QED BY <3>1, OnTwo, Zenon
  <2>5. On(r, a \o b \o c \o d) = On(r, a \o b \o c) \o On(r, d)
        /\ a \o b \o c \o d \in Seq(StepName)
    <3>1. a \o b \o c \in Seq(StepName) /\ d \in Seq(StepName) BY <2>1, <2>4, Zenon
    <3> QED BY <3>1, OnTwo, Zenon
  <2> QED BY <2>2, <2>3, <2>4, <2>5, Zenon DEF a, b, c, d, r
<1>7. Part("update", "undo", UndoScript, 0, 6)
  BY <1>2, <1>3, <1>4, <1>5, <1>6, PartThen, Zenon
<1> QED BY <1>7, PartWhole, Zenon

\* The end of a restoration has two steps for an update and one for the others.
LEMMA PartEpilogue ==
  ASSUME NEW op \in {"add", "remove", "update", "rollback"}
  PROVE  Part(op, "recover", Epilogue(op), 0, IF op = "update" THEN 2 ELSE 1)
<1>1. /\ Point(op, "recover", 1, "discard", "note")
      /\ op = "update" => Point(op, "recover", 2, "reactivate", "note")
  BY DEF Point
<1>2. Part(op, "recover", On("note", <<"discard">>), 0, 1) BY <1>1, Names, Sums, PartOne, Zenon
<1>3. CASE op = "update"
  <2>1. Part(op, "recover", On("note", <<"reactivate">>), 1, 2)
    BY <1>1, <1>3, Names, Sums, PartOne, Zenon
  <2>2. Epilogue(op) = On("note", <<"reactivate">>) \o On("note", <<"discard">>)
    <3>1. <<"reactivate">> \in Seq(StepName) BY OneInSeq, Names
    <3>2. <<"discard">> \in Seq(StepName) BY StepSeqs, Zenon
    <3> QED BY <3>1, <3>2, <1>3, OnTwo, Zenon DEF Epilogue
  <2> QED BY <2>1, <2>2, <1>2, <1>3, PartThen, Zenon
<1>4. CASE op # "update"
  <2>1. <<>> \o <<"discard">> = <<"discard">> OBVIOUS
  <2>2. Epilogue(op) = On("note", <<"discard">>) BY <2>1, <1>4, Zenon DEF Epilogue
  <2> QED BY <2>2, <1>2, <1>4, Zenon
<1> QED BY <1>3, <1>4, Zenon

LEMMA FollowsEpilogue ==
  ASSUME NEW op \in {"add", "remove", "update", "rollback"}
  PROVE  /\ Epilogue(op) \in Seq(Step) /\ Len(Epilogue(op)) = IF op = "update" THEN 2 ELSE 1
         /\ Follows(op, "recover", Epilogue(op))
BY PartEpilogue, PartWhole, Zenon

LEMMA FollowsRecovery ==
  ASSUME NEW op \in {"add", "remove", "update", "rollback"}
  PROVE  LET s == RecoveryScript(op) IN
         /\ s \in Seq(Step) /\ Len(s) = IF op = "update" THEN 8 ELSE 7
         /\ Follows(op, "recover", s)
<1> DEFINE e == IF op = "update" THEN 2 ELSE 1
           restore == On("note", <<"restore">>)
<1>1. /\ Point(op, "recover", e + 6, "restore", "note") /\ Point(op, "recover", e + 5, "stop", "note")
      /\ Point(op, "recover", e + 4, "remove", "note") /\ Point(op, "recover", e + 3, "create", "skip")
      /\ Point(op, "recover", e + 2, "boot", "skip") /\ Point(op, "recover", e + 1, "ready", "note")
  <2>1. CASE op = "update" BY <2>1 DEF Point
  <2>2. CASE op # "update" BY <2>2 DEF Point
  <2> QED BY <2>1, <2>2, Zenon
<1>2. /\ e \in Nat /\ e + 1 \in Nat /\ e + 3 \in Nat /\ e + 5 \in Nat
      /\ e + 2 = (e + 1) + 1 /\ e + 3 = (e + 1) + 2 /\ e + 4 = (e + 3) + 1 /\ e + 5 = (e + 3) + 2
      /\ e + 6 = (e + 5) + 1 /\ e + 6 = IF op = "update" THEN 8 ELSE 7
  OBVIOUS
<1>3. Part(op, "recover", Epilogue(op), 0, e) BY PartEpilogue
<1> HIDE DEF e
<1>4. Part(op, "recover", On("note", <<"restore">>), e + 5, e + 6)
  BY <1>1, <1>2, Names, PartOne, Zenon
<1>5. Part(op, "recover", On("note", Teardown), e + 3, e + 5)
  BY <1>1, <1>2, Names, PartTwo, Zenon DEF Teardown
<1>6. Part(op, "recover", On("skip", Ensure), e + 1, e + 3)
  BY <1>1, <1>2, Names, PartTwo, Zenon DEF Ensure
<1>7. Part(op, "recover", On("note", <<"ready">>), e, e + 1)
  BY <1>1, <1>2, Names, PartOne, Zenon
<1>8. On("note", <<"restore">> \o Teardown) = On("note", <<"restore">>) \o On("note", Teardown)
  <2>1. <<"restore">> \in Seq(StepName) /\ Teardown \in Seq(StepName) BY StepSeqs, Zenon
  <2> QED BY <2>1, OnTwo, Zenon
<1>9. Part(op, "recover", RecoveryScript(op), 0, e + 6)
  BY <1>3, <1>4, <1>5, <1>6, <1>7, <1>8, PartThen, Zenon DEF RecoveryScript
<1> QED BY <1>9, <1>2, PartWhole, Zenon

\* Scripts of one step.
LEMMA FollowsBuild ==
  LET s == On("exit", <<"build">>) IN
  s \in Seq(Step) /\ Len(s) = 1 /\ Follows("update", "build", s)
<1>1. Point("update", "build", 1, "build", "exit") BY DEF Point
<1>2. Part("update", "build", On("exit", <<"build">>), 0, 1) BY <1>1, Names, Sums, PartOne, Zenon
<1> QED BY <1>2, PartWhole, Zenon

LEMMA FollowsUnhalt ==
  LET s == On("exit", <<"ready">>) IN
  s \in Seq(Step) /\ Len(s) = 1 /\ Follows("stop", "unhalt", s)
<1>1. Point("stop", "unhalt", 1, "ready", "exit") BY DEF Point
<1>2. Part("stop", "unhalt", On("exit", <<"ready">>), 0, 1) BY <1>1, Names, Sums, PartOne, Zenon
<1> QED BY <1>2, PartWhole, Zenon

----------------------------------------------------------------------------
(* How a step changes the job of its host.                                 *)

Kept(j, k) ==
  /\ k.op = j.op /\ k.target = j.target /\ k.candidate = j.candidate
  /\ k.old = j.old /\ k.backup = j.backup /\ k.pending = j.pending

\* The step is done: k is what j becomes.
GoesOn(j, k) ==
  /\ Kept(j, k)
  /\ k.phase = j.phase /\ k.result = j.result
  /\ k.ref = j.ref /\ k.expect = j.expect /\ k.manifest = j.manifest
  /\ k.projected => j.projected
  /\ Len(k.todo) = Len(j.todo) - 1

\* The step fails.
FallsBack(j, k) ==
  LET route == Head(j.todo).fails n == Len(k.todo) IN
  /\ Kept(j, k) /\ n \in Nat
  /\ \/ route = "exit" /\ k.phase = j.phase /\ n = 0 /\ k.result = "failed"
     \/ route = "unhalt" /\ k.phase = "unhalt" /\ k.result = "failed"
     \/ route = "undo" /\ k.phase = "undo" /\ n = 6 /\ k.result = "failed"
     \/ /\ route = "recover" /\ k.phase = "recover"
        /\ n = IF j.op = "update" THEN 8 ELSE 7
        /\ k.result = "failed" \/ j.op = "rollback"
     \/ route = "note" /\ k.phase = j.phase /\ n = Len(j.todo) - 1 /\ k.result = "broken"
     \/ /\ route = "skip" /\ k.phase = j.phase /\ k.result = "broken"
        /\ n = IF j.op = "update" THEN 2 ELSE 1

Onward(j) == [j EXCEPT !.todo = Tail(@)]

\* A publication that fails is a step that is done.
Astray(j) == [j EXCEPT !.todo = Tail(@), !.projected = FALSE]

LEMMA Here ==
  ASSUME NEW j, Sensible(j), j.todo # <<>>
  PROVE  /\ j \in Work /\ j.todo \in Seq(Step) /\ Follows(j.op, j.phase, j.todo)
         /\ Len(j.todo) \in Nat \ {0} /\ Len(Tail(j.todo)) = Len(j.todo) - 1
         /\ Tail(j.todo) \in Seq(Step) /\ Follows(j.op, j.phase, Tail(j.todo))
         /\ Point(j.op, j.phase, Len(j.todo), Head(j.todo).do, Head(j.todo).fails)
<1>1. j \in Work /\ Follows(j.op, j.phase, j.todo) BY DEF Sensible
<1>2. j.todo \in Seq(Step) BY <1>1 DEF Work
<1> QED BY <1>1, <1>2, FollowsTail

LEMMA OnwardJob ==
  ASSUME NEW j, Sensible(j), j.todo # <<>>, NEW k, k \in {Onward(j), Astray(j)}
  PROVE  Sensible(k) /\ GoesOn(j, k)
<1>1. /\ j \in Work /\ Len(Tail(j.todo)) = Len(j.todo) - 1
      /\ Tail(j.todo) \in Seq(Step) /\ Follows(j.op, j.phase, Tail(j.todo))
      /\ Point(j.op, j.phase, Len(j.todo), Head(j.todo).do, Head(j.todo).fails)
  BY Here
<1>2. k \in Work
  <2>1. CASE k = Onward(j) BY <1>1, <2>1 DEF Work, Onward
  <2>2. CASE k = Astray(j) BY <1>1, <2>2 DEF Work, Astray
  <2> QED BY <2>1, <2>2
<1>3. /\ Kept(j, k) /\ k.todo = Tail(j.todo)
      /\ k.phase = j.phase /\ k.result = j.result
      /\ k.ref = j.ref /\ k.expect = j.expect /\ k.manifest = j.manifest
      /\ k.projected => j.projected
  <2>1. CASE k = Onward(j) BY <1>1, <2>1 DEF Work, Onward, Kept
  <2>2. CASE k = Astray(j) BY <1>1, <2>2 DEF Work, Astray, Kept
  <2> QED BY <2>1, <2>2
<1>4. GoesOn(j, k) BY <1>1, <1>3 DEF GoesOn
<1>5. Follows(k.op, k.phase, k.todo) BY <1>1, <1>3 DEF Kept
<1>6. j.phase # "unchanged" BY <1>1 DEF Point
<1>7. Sensible(k) BY <1>2, <1>3, <1>5, <1>6 DEF Sensible, Kept
<1> QED BY <1>4, <1>7

LEMMA FailedJob ==
  ASSUME NEW j, Sensible(j), j.todo # <<>>
  PROVE  Sensible(Failed(j)) /\ FallsBack(j, Failed(j))
<1> DEFINE k == Failed(j)
           route == Head(j.todo).fails
<1>1. /\ j \in Work /\ Len(Tail(j.todo)) = Len(j.todo) - 1 /\ Len(j.todo) \in Nat \ {0}
      /\ Tail(j.todo) \in Seq(Step) /\ Follows(j.op, j.phase, Tail(j.todo))
      /\ Point(j.op, j.phase, Len(j.todo), Head(j.todo).do, route)
  BY Here
<1>2. route \in {"exit", "unhalt", "undo", "recover", "note", "skip"} BY <1>1 DEF Point
<1>3. CASE route = "exit"
  <2>1. k = [j EXCEPT !.todo = <<>>, !.result = "failed"] BY <1>3 DEF Failed
  <2>2. <<>> \in Seq(Step) /\ Len(<<>>) = 0 /\ Follows(j.op, j.phase, <<>>) BY DEF Follows
  <2>3. k \in Work BY <1>1, <2>1, <2>2 DEF Work
  <2>4. /\ Kept(j, k) /\ k.todo = <<>> /\ k.phase = j.phase /\ k.result = "failed"
        /\ k.ref = j.ref /\ k.expect = j.expect /\ k.manifest = j.manifest
    BY <1>1, <2>1 DEF Work, Kept
  <2> HIDE DEF k
  <2>5. FallsBack(j, k) BY <2>2, <2>4, <1>3 DEF FallsBack
  <2>6. j.phase \in {"run", "build", "reuse", "undo", "unhalt"} BY <1>1, <1>3 DEF Point
  <2>7. Sensible(k) BY <2>2, <2>3, <2>4, <2>6 DEF Sensible, Kept
  <2> QED BY <2>5, <2>7 DEF k
<1>4. CASE route = "unhalt"
  <2> DEFINE s == On("exit", <<"ready">>)
  <2>1. k = [j EXCEPT !.phase = "unhalt", !.result = "failed", !.todo = s] BY <1>4 DEF Failed
  <2>2. s \in Seq(Step) /\ Len(s) \in Nat /\ Follows("stop", "unhalt", s) BY FollowsUnhalt
  <2> HIDE DEF s
  <2>3. k \in Work BY <1>1, <2>1, <2>2 DEF Work
  <2>4. /\ Kept(j, k) /\ k.todo = s /\ k.phase = "unhalt" /\ k.result = "failed"
        /\ k.ref = j.ref /\ k.expect = j.expect /\ k.manifest = j.manifest
    BY <1>1, <2>1 DEF Work, Kept
  <2> HIDE DEF k
  <2>5. FallsBack(j, k) BY <2>2, <2>4, <1>4 DEF FallsBack
  <2>6. j.op = "stop" BY <1>1, <1>4 DEF Point
  <2>7. Sensible(k) BY <2>2, <2>3, <2>4, <2>6 DEF Sensible, Kept
  <2> QED BY <2>5, <2>7 DEF k
<1>5. CASE route = "undo"
  <2>1. k = [j EXCEPT !.phase = "undo", !.result = "failed", !.ref = j.old, !.todo = UndoScript]
    BY <1>5 DEF Failed, Undo
  <2>2. UndoScript \in Seq(Step) /\ Len(UndoScript) = 6 /\ Follows("update", "undo", UndoScript)
    BY FollowsUndo
  <2>3. k \in Work
    <3>1. j.old \in Image /\ j \in Work BY <1>1 DEF Work
    <3> HIDE DEF k
    <3> QED BY <3>1, <2>1, <2>2 DEF Work
  <2>4. /\ Kept(j, k) /\ k.todo = UndoScript /\ k.phase = "undo" /\ k.result = "failed"
        /\ k.ref = j.old /\ k.expect = j.expect /\ k.manifest = j.manifest
    BY <1>1, <2>1 DEF Work, Kept
  <2> HIDE DEF k
  <2>5. FallsBack(j, k) BY <2>2, <2>4, <1>5 DEF FallsBack
  <2>6. j.op = "update" /\ j.phase = "run" BY <1>1, <1>5 DEF Point
  <2>7. Sensible(k) BY <2>2, <2>3, <2>4, <2>6 DEF Sensible, Kept
  <2> QED BY <2>5, <2>7 DEF k
<1>6. CASE route = "recover"
  <2> DEFINE s == RecoveryScript(j.op)
             m == IF j.op = "rollback" /\ Head(j.todo).do # "commit" THEN j.backup ELSE None
             r == IF j.op = "rollback" /\ Head(j.todo).do \in {"ready", "record"}
                  THEN "ok" ELSE "failed"
  <2>1. k = [j EXCEPT !.phase = "recover", !.ref = j.old, !.expect = j.old, !.todo = s,
                      !.manifest = m, !.result = r]
    BY <1>6 DEF Failed, Recover
  <2>2. j.op \in {"add", "remove", "update", "rollback"} /\ j.phase = "run"
    BY <1>1, <1>6 DEF Point
  <2>3. s \in Seq(Step) /\ Len(s) = (IF j.op = "update" THEN 8 ELSE 7)
        /\ Follows(j.op, "recover", s)
    BY <2>2, FollowsRecovery
  <2>4. /\ m \in (SUBSET Target) \cup {None} /\ (j.op # "rollback" => m = None)
        /\ r \in {"ok", "failed"} /\ (j.op # "rollback" => r = "failed")
    <3>1. j.backup \in SUBSET Target BY <1>1 DEF Work
    <3>2. (m = None \/ m = j.backup) /\ (j.op # "rollback" => m = None) BY Zenon
    <3>3. (r = "ok" \/ r = "failed") /\ (j.op # "rollback" => r = "failed") BY Zenon
    <3> HIDE DEF m, r
    <3>4. m \in (SUBSET Target) \cup {None} BY <3>1, <3>2, Zenon
    <3>5. r \in {"ok", "failed"} BY <3>3, Zenon
    <3> QED BY <3>2, <3>3, <3>4, <3>5, Zenon
  <2> HIDE DEF s, m, r
  <2>5. k \in Work
    <3>1. j.old \in Image /\ j \in Work BY <1>1 DEF Work
    <3> HIDE DEF k
    <3> QED BY <3>1, <2>1, <2>3, <2>4 DEF Work
  <2>6. /\ Kept(j, k) /\ k.todo = s /\ k.phase = "recover" /\ k.result = r
        /\ k.ref = j.old /\ k.expect = j.old /\ k.manifest = m
    BY <1>1, <2>1 DEF Work, Kept
  <2> HIDE DEF k
  <2>7. FallsBack(j, k) BY <2>3, <2>4, <2>6, <1>6 DEF FallsBack
  <2>8. Sensible(k) BY <2>2, <2>3, <2>4, <2>5, <2>6 DEF Sensible, Kept
  <2> QED BY <2>7, <2>8 DEF k
<1>7. CASE route = "note"
  <2>1. k = [j EXCEPT !.todo = Tail(@), !.result = "broken"] BY <1>7 DEF Failed
  <2>2. k \in Work BY <1>1, <2>1 DEF Work
  <2>3. /\ Kept(j, k) /\ k.todo = Tail(j.todo) /\ k.phase = j.phase /\ k.result = "broken"
        /\ k.ref = j.ref /\ k.expect = j.expect /\ k.manifest = j.manifest
    BY <1>1, <2>1 DEF Work, Kept
  <2> HIDE DEF k
  <2>4. FallsBack(j, k) BY <1>1, <2>3, <1>7 DEF FallsBack
  <2>5. j.phase = "recover" BY <1>1, <1>7 DEF Point
  <2>6. Sensible(k) BY <1>1, <2>2, <2>3, <2>5 DEF Sensible, Kept
  <2> QED BY <2>4, <2>6 DEF k
<1>8. CASE route = "skip"
  <2> DEFINE s == Epilogue(j.op)
  <2>1. k = [j EXCEPT !.todo = s, !.result = "broken"] BY <1>8 DEF Failed
  <2>2. j.op \in {"add", "remove", "update", "rollback"} /\ j.phase = "recover"
    BY <1>1, <1>8 DEF Point
  <2>3. s \in Seq(Step) /\ Len(s) = (IF j.op = "update" THEN 2 ELSE 1)
        /\ Follows(j.op, "recover", s)
    BY <2>2, FollowsEpilogue
  <2> HIDE DEF s
  <2>4. k \in Work BY <1>1, <2>1, <2>3 DEF Work
  <2>5. /\ Kept(j, k) /\ k.todo = s /\ k.phase = j.phase /\ k.result = "broken"
        /\ k.ref = j.ref /\ k.expect = j.expect /\ k.manifest = j.manifest
    BY <1>1, <2>1 DEF Work, Kept
  <2> HIDE DEF k
  <2>6. FallsBack(j, k) BY <2>3, <2>5, <1>8 DEF FallsBack
  <2>7. Sensible(k) BY <2>2, <2>3, <2>4, <2>5 DEF Sensible, Kept
  <2> QED BY <2>6, <2>7 DEF k
<1> QED BY <1>2, <1>3, <1>4, <1>5, <1>6, <1>7, <1>8

----------------------------------------------------------------------------
(* Typing.                                                                 *)

LEMMA HostNotNone == \A h \in Host : h # None
BY ReplacementAssumption

LEMMA TypedOK == ASSUME Typed PROVE TypeOK
<1>1. ASSUME NEW h \in Host, Busy(h)
      PROVE  /\ job[h].op \in {"add", "remove", "update", "rollback", "stop"}
             /\ job[h].op # "stop" <=> lock = h
  <2>1. job[h] \in Work BY <1>1 DEF Typed, Jobs, Sensible
  <2>2. job[h].op \in {"add", "remove", "update", "rollback", "stop"} BY <2>1 DEF Work
  <2>3. job[h].op # "stop" <=> lock = h BY <1>1 DEF Typed, Locked
  <2> QED BY <2>2, <2>3
<1> QED BY <1>1 DEF TypeOK, Typed, FilesTyped

LEMMA WorkIsBusy == ASSUME NEW k \in Work PROVE k.op # "none"
BY DEF Work

\* The steps of a script leave the lock and the history of stop alone.
LEMMA JobStep ==
  ASSUME Typed, NEW h \in Host, Busy(h), NEW k, Sensible(k), k.op = job[h].op,
         job' = [job EXCEPT ![h] = k], lock' = lock, stopped' = stopped
  PROVE  Jobs' /\ Locked'
<1>1. k \in Work BY DEF Sensible
<1>2. job \in [Host -> Work \cup {NoJob}] BY DEF Typed, Jobs
<1>3. job' \in [Host -> Work \cup {NoJob}] /\ job'[h] = k
      /\ \A g \in Host \ {h} : job'[g] = job[g]
  BY <1>1, <1>2
<1>4. \A g \in Host : job'[g].op = job[g].op BY <1>3
<1>5. \A g \in Host : Busy(g)' => Busy(g) BY <1>4 DEF Busy
<1>6. \A g \in Host : Busy(g)' => Sensible(job'[g])
  BY <1>3, <1>5 DEF Typed, Jobs
<1>7. Jobs' BY <1>3, <1>6 DEF Jobs
<1>8. Locked' BY <1>4 DEF Typed, Locked, Busy
<1> QED BY <1>7, <1>8

LEMMA AdvanceJob ==
  ASSUME Typed, NEW h \in Host, Busy(h), job[h].todo # <<>>,
         NEW k, k \in {Onward(job[h]), Astray(job[h])},
         job' = [job EXCEPT ![h] = k], lock' = lock, stopped' = stopped
  PROVE  /\ Jobs' /\ Locked' /\ GoesOn(job[h], job'[h])
         /\ \A g \in Host \ {h} : job'[g] = job[g]
         /\ job'[h] = k
<1>1. Sensible(job[h]) /\ job \in [Host -> Work \cup {NoJob}] BY DEF Typed, Jobs
<1>2. Sensible(k) /\ GoesOn(job[h], k) BY <1>1, OnwardJob
<1>3. k.op = job[h].op BY <1>2 DEF GoesOn, Kept
<1>4. Jobs' /\ Locked' BY <1>2, <1>3, JobStep
<1>5. job'[h] = k /\ \A g \in Host \ {h} : job'[g] = job[g] BY <1>1
<1> QED BY <1>2, <1>4, <1>5

LEMMA FailJob ==
  ASSUME Typed, NEW h \in Host, Busy(h), job[h].todo # <<>>,
         job' = [job EXCEPT ![h] = Failed(@)], lock' = lock, stopped' = stopped
  PROVE  /\ Jobs' /\ Locked' /\ FallsBack(job[h], job'[h])
         /\ \A g \in Host \ {h} : job'[g] = job[g]
<1>1. Sensible(job[h]) /\ job \in [Host -> Work \cup {NoJob}] BY DEF Typed, Jobs
<1>2. Sensible(Failed(job[h])) /\ FallsBack(job[h], Failed(job[h])) BY <1>1, FailedJob
<1> DEFINE k == Failed(job[h])
<1>3. job' = [job EXCEPT ![h] = k] BY Zenon
<1> HIDE DEF k
<1>4. Sensible(k) /\ k.op = job[h].op BY <1>2 DEF k, FallsBack, Kept
<1>5. Jobs' /\ Locked' BY <1>3, <1>4, JobStep
<1>6. job'[h] = k /\ \A g \in Host \ {h} : job'[g] = job[g] BY <1>1, <1>3
<1> QED BY <1>2, <1>5, <1>6 DEF k

\* h makes a step: it is done, or it fails.
Ahead(h)  == GoesOn(job[h], job'[h])    /\ \A g \in Host \ {h} : job'[g] = job[g]
Behind(h) == FallsBack(job[h], job'[h]) /\ \A g \in Host \ {h} : job'[g] = job[g]

Route(h) == Head(job[h].todo).fails
Where(h, do) == Point(job[h].op, job[h].phase, Left(h), do, Route(h))

LEMMA AtHere ==
  ASSUME Typed, NEW h \in Host, NEW do, At(h, do)
  PROVE  /\ Busy(h) /\ job[h].todo # <<>> /\ Sensible(job[h]) /\ job[h] \in Work
         /\ Left(h) \in Nat \ {0} /\ Where(h, do)
<1>1. Busy(h) /\ job[h].todo # <<>> /\ Head(job[h].todo).do = do BY DEF At
<1>2. Sensible(job[h]) BY <1>1 DEF Typed, Jobs
<1>3. /\ Len(job[h].todo) \in Nat \ {0} /\ job[h] \in Work
      /\ Point(job[h].op, job[h].phase, Len(job[h].todo), Head(job[h].todo).do,
               Head(job[h].todo).fails)
  BY <1>1, <1>2, Here, Zenon
<1> QED BY <1>1, <1>2, <1>3 DEF Where, Route, Left

LEMMA Moves ==
  ASSUME Typed, NEW h \in Host, Busy(h), job[h].todo # <<>>, lock' = lock, stopped' = stopped
  PROVE  /\ Advance(h) => Ahead(h) /\ faults' = faults
         /\ Fail(h) => Behind(h) /\ faults' = faults
         /\ Fault(h) => Behind(h) /\ faults' # 0
         /\ job' = [job EXCEPT ![h].todo = Tail(@)] => Ahead(h)
         /\ (\/ Advance(h) \/ Fail(h) \/ Fault(h) \/ job' = [job EXCEPT ![h].todo = Tail(@)])
            => Jobs' /\ Locked'
         /\ Advance(h) \/ Fail(h) \/ Fault(h) => faults' \in 0..MaxFaults
<1>1. job' = [job EXCEPT ![h].todo = Tail(@)] => Ahead(h) /\ Jobs' /\ Locked'
  <2>1. job' = [job EXCEPT ![h].todo = Tail(@)] => job' = [job EXCEPT ![h] = Onward(job[h])]
    BY DEF Onward
  <2>2. Onward(job[h]) \in {Onward(job[h]), Astray(job[h])} BY Zenon
  <2> QED BY <2>1, <2>2, AdvanceJob, Zenon DEF Ahead
<1>2. job' = [job EXCEPT ![h] = Failed(@)] => Behind(h) /\ Jobs' /\ Locked'
  BY FailJob, Zenon DEF Behind
<1>3. faults \in 0..MaxFaults /\ MaxFaults \in Nat
  BY ReplacementAssumption DEF Typed, CountersTyped
<1>4. Fault(h) => faults' # 0 /\ faults' \in 0..MaxFaults BY <1>3 DEF Fault
<1>5. Advance(h) \/ Fail(h) => faults' = faults BY DEF Advance, Fail
<1>6. /\ Advance(h) => job' = [job EXCEPT ![h].todo = Tail(@)]
      /\ Fail(h) \/ Fault(h) => job' = [job EXCEPT ![h] = Failed(@)]
  BY DEF Advance, Fail, Fault
<1> QED BY <1>1, <1>2, <1>3, <1>4, <1>5, <1>6, Zenon

\* The step that prepares an update turns into its script, or that of a reuse.
Builds(j, k) ==
  \/ k = [j EXCEPT !.todo = UpdateScript(resident # None), !.phase = "run",
                   !.ref = j.candidate, !.expect = j.candidate]
  \/ j.candidate = j.old /\ k = [j EXCEPT !.todo = ReuseScript, !.phase = "reuse"]

Built(j, k) ==
  /\ Kept(j, k) /\ k.result = "ok" /\ k.ref = j.candidate
  /\ \/ k.phase = "run" /\ Len(k.todo) = IF resident # None THEN 8 ELSE 6
     \/ k.phase = "reuse" /\ Len(k.todo) = 4 /\ j.candidate = j.old

LEMMA BuildJob ==
  ASSUME NEW j, Sensible(j), j.op = "update", j.phase = "build", j.todo # <<>>,
         NEW k, Builds(j, k)
  PROVE  Sensible(k) /\ Built(j, k)
<1>1. j \in Work BY DEF Sensible
<1>2. CASE k = [j EXCEPT !.todo = UpdateScript(resident # None), !.phase = "run",
                         !.ref = j.candidate, !.expect = j.candidate]
  <2> DEFINE s == UpdateScript(resident # None)
  <2>1. s \in Seq(Step) /\ Len(s) = (IF resident # None THEN 8 ELSE 6) /\ Follows("update", "run", s)
    BY FollowsUpdate, Zenon
  <2> HIDE DEF s
  <2>2. k = [j EXCEPT !.todo = s, !.phase = "run", !.ref = j.candidate, !.expect = j.candidate]
    BY <1>2 DEF s
  <2>3. k \in Work BY <1>1, <2>1, <2>2 DEF Work
  <2>4. /\ Kept(j, k) /\ k.todo = s /\ k.phase = "run" /\ k.result = j.result
        /\ k.ref = j.candidate /\ k.expect = j.candidate /\ k.manifest = j.manifest
    BY <1>1, <2>2 DEF Work, Kept
  <2>5. j.result = "ok" BY DEF Sensible
  <2>6. Built(j, k) BY <2>1, <2>4, <2>5 DEF Built
  <2>7. Sensible(k) BY <2>1, <2>3, <2>4, <2>5 DEF Sensible, Kept
  <2> QED BY <2>6, <2>7
<1>3. CASE j.candidate = j.old /\ k = [j EXCEPT !.todo = ReuseScript, !.phase = "reuse"]
  <2>1. /\ ReuseScript \in Seq(Step) /\ Len(ReuseScript) = 4
        /\ Follows("update", "reuse", ReuseScript)
    BY FollowsReuse
  <2>2. k \in Work BY <1>1, <1>3, <2>1 DEF Work
  <2>3. /\ Kept(j, k) /\ k.todo = ReuseScript /\ k.phase = "reuse" /\ k.result = j.result
        /\ k.ref = j.ref /\ k.expect = j.expect /\ k.manifest = j.manifest
    BY <1>1, <1>3 DEF Work, Kept
  <2>4. j.result = "ok" /\ j.ref = j.old BY DEF Sensible
  <2>5. Built(j, k) BY <1>3, <2>1, <2>3, <2>4 DEF Built
  <2>6. Sensible(k) BY <1>3, <2>1, <2>2, <2>3, <2>4 DEF Sensible, Kept
  <2> QED BY <2>5, <2>6
<1> QED BY <1>2, <1>3 DEF Builds

LEMMA TransitionTyped ==
  ASSUME NEW j, Sensible(j), registry \in Registry,
         NEW n, NEW route, Point(j.op, j.phase, n, "commit", route)
  PROVE  Transition(j) \in Registry
<1>1. j \in Work BY DEF Sensible
<1>2. /\ j.old \in Image /\ j.candidate \in Image /\ j.ref \in Image
      /\ j.op \in {"add", "remove", "update", "rollback"}
      /\ j.op \in {"add", "remove"} => j.target \in Target
      /\ j.op = "rollback" => j.manifest \in SUBSET Target
  BY <1>1 DEF Sensible, Work, Point
<1>3. /\ registry.targets \in SUBSET Target /\ registry.image \in Image
      /\ [image |-> registry.image, targets |-> registry.targets] \in Plan
      /\ [image |-> j.old, targets |-> registry.targets] \in Plan /\ None \in Plan
  BY <1>2 DEF Registry, Plan, Snapshot
<1>4. \A T \in SUBSET Target : ChangedTargets(T) \in Registry BY <1>3 DEF Registry, ChangedTargets
<1>5. CASE j.op = "add"
  <2>1. registry.targets \cup {j.target} \in SUBSET Target BY <1>2, <1>3, <1>5
  <2>2. [ChangedTargets(registry.targets \cup {j.target}) EXCEPT !.ready = TRUE] \in Registry
    BY <1>4, <2>1 DEF Registry
  <2>3. CASE j.target \in registry.targets
    <3>1. Transition(j) = registry BY <1>5, <2>3 DEF Transition
    <3> QED BY <3>1
  <2>4. CASE j.target \notin registry.targets
    <3>1. Transition(j) = [ChangedTargets(registry.targets \cup {j.target}) EXCEPT !.ready = TRUE]
      BY <1>5, <2>4 DEF Transition
    <3> QED BY <3>1, <2>2
  <2> QED BY <2>3, <2>4
<1>6. CASE j.op = "remove"
  <2>1. registry.targets \ {j.target} \in SUBSET Target BY <1>3
  <2>2. Transition(j) = ChangedTargets(registry.targets \ {j.target}) BY <1>6 DEF Transition
  <2> QED BY <1>4, <2>1, <2>2
<1>7. CASE j.op = "update" /\ j.phase = "reuse"
  <2>1. Transition(j) = [registry EXCEPT !.image = j.ref, !.ready = TRUE] BY <1>7 DEF Transition
  <2> QED BY <1>2, <2>1 DEF Registry
<1>8. CASE j.op = "rollback" \/ (j.op = "update" /\ j.phase # "reuse")
  <2>1. CASE j.op = "rollback" BY <1>2, <1>3, <2>1 DEF Transition, Registry
  <2>2. CASE j.op = "update" BY <1>2, <1>3, <1>8, <2>2 DEF Transition, Registry
  <2> QED BY <1>8, <2>1, <2>2
<1> QED BY <1>2, <1>5, <1>6, <1>7, <1>8

LEMMA RestoredTyped ==
  ASSUME NEW j \in Work, registry \in Registry, mounts \subseteq Target
  PROVE  Restored(j) \in Registry
<1>1. /\ registry.targets \in SUBSET Target /\ registry.image \in Image /\ registry.back \in Plan
      /\ [image |-> registry.image, targets |-> registry.targets] \in Plan
      /\ j.old \in Image
  BY DEF Registry, Plan, Snapshot, Work
<1>2. (IF j.op = "rollback" THEN mounts ELSE registry.targets) \in SUBSET Target BY <1>1
<1>3. (IF registry.image # j.old
       THEN [image |-> registry.image, targets |-> registry.targets] ELSE registry.back) \in Plan
  BY <1>1
<1> QED BY <1>1, <1>2, <1>3 DEF Restored, Registry

LEMMA WantedTyped ==
  ASSUME NEW j, Sensible(j), mounts \subseteq Target
  PROVE  WantedMounts(j) \subseteq Target
<1>1. j \in Work BY DEF Sensible
<1>2. j.manifest # None => j.manifest \subseteq Target BY <1>1 DEF Work
<1>3. j.op = "add" => j.target \in Target BY DEF Sensible
<1> QED BY <1>2, <1>3 DEF WantedMounts, Manifest

LEMMA TypedAfter ==
  ASSUME Typed, NEW h \in Host, Busy(h), job[h].todo # <<>>,
         Advance(h) \/ Fail(h) \/ Fault(h), FilesTyped',
         lock' = lock, ops' = ops, crashes' = crashes, stopped' = stopped,
         unrestored' \in {unrestored, TRUE}
  PROVE  Typed'
<1>1. Jobs' /\ Locked' /\ faults' \in 0..MaxFaults BY Moves
<1>2. CountersTyped' BY <1>1 DEF Typed, CountersTyped
<1> QED BY <1>1, <1>2 DEF Typed

LEMMA BuildTyped ==
  ASSUME Typed, ActiveKept, NEW h \in Host, Build(h)
  PROVE  Typed'
<1> DEFINE j == job[h]
<1>1. /\ Busy(h) /\ j.todo # <<>> /\ Sensible(j) /\ j \in Work /\ Where(h, "build")
      /\ Left(h) \in Nat \ {0}
  BY AtHere, Zenon DEF Build
<1>2. j.op = "update" /\ j.phase = "build" BY <1>1 DEF Where, Point
<1>3. lock = h /\ active = j.old BY <1>1, <1>2 DEF Typed, Locked, ActiveKept, Keeps
<1>4. /\ lock' = lock /\ ops' = ops /\ crashes' = crashes /\ stopped' = stopped
      /\ unrestored' = unrestored /\ UNCHANGED <<resident, retained, fileVars, registry>>
  BY DEF Build, boundVars, historyVars
<1>5. j.candidate \in Image BY <1>1 DEF Work
<1>6. images' \subseteq Image /\ images \subseteq images' BY <1>5 DEF Build, Typed, FilesTyped
<1>7. FilesTyped' BY <1>4, <1>6 DEF Typed, FilesTyped, fileVars
<1>8. CASE Fault(h) BY <1>1, <1>4, <1>7, <1>8, TypedAfter
<1>9. ASSUME NEW k, Builds(j, k), job' = [job EXCEPT ![h] = k], faults' = faults PROVE Typed'
  <2>1. Sensible(k) /\ Built(j, k) BY <1>1, <1>2, <1>9, BuildJob
  <2>2. k.op = j.op BY <2>1 DEF Built, Kept
  <2>3. Jobs' /\ Locked' BY <1>1, <1>4, <1>9, <2>1, <2>2, JobStep
  <2>4. CountersTyped' BY <1>4, <1>9 DEF Typed, CountersTyped
  <2> QED BY <1>4, <1>7, <2>3, <2>4 DEF Typed
<1>10. CASE /\ job' = [job EXCEPT ![h].todo = UpdateScript(resident # None), ![h].phase = "run",
                                   ![h].ref = j.candidate, ![h].expect = j.candidate]
            /\ faults' = faults
  <2> DEFINE k == [j EXCEPT !.todo = UpdateScript(resident # None), !.phase = "run",
                            !.ref = j.candidate, !.expect = j.candidate]
  <2>1. job \in [Host -> Work \cup {NoJob}] BY DEF Typed, Jobs
  <2>2. job' = [job EXCEPT ![h] = k] BY <1>10, <2>1
  <2>3. Builds(j, k) BY DEF Builds
  <2> QED BY <1>9, <1>10, <2>2, <2>3
<1>11. CASE /\ job' = [job EXCEPT ![h].todo = ReuseScript, ![h].phase = "reuse"]
            /\ j.candidate = active /\ faults' = faults
  <2> DEFINE k == [j EXCEPT !.todo = ReuseScript, !.phase = "reuse"]
  <2>1. job \in [Host -> Work \cup {NoJob}] BY DEF Typed, Jobs
  <2>2. job' = [job EXCEPT ![h] = k] BY <1>11, <2>1
  <2>3. Builds(j, k) BY <1>3, <1>11 DEF Builds
  <2> QED BY <1>9, <1>11, <2>2, <2>3
<1>12. CASE job' = [job EXCEPT ![h] = Failed(@)] /\ faults' = faults
  BY <1>1, <1>4, <1>7, <1>12, TypedAfter DEF Fail
<1> QED BY <1>8, <1>10, <1>11, <1>12 DEF Build

LEMMA ContainerTyped ==
  ASSUME Typed, NEW h \in Host,
         StopContainer(h) \/ RemoveContainer(h) \/ CreateContainer(h) \/ Boot(h)
  PROVE  Typed'
<1> DEFINE j == job[h]
<1>1. /\ lock' = lock /\ ops' = ops /\ crashes' = crashes /\ stopped' = stopped
      /\ unrestored' = unrestored /\ UNCHANGED <<images, retained, fileVars, registry>>
  BY DEF StopContainer, RemoveContainer, CreateContainer, Boot, boundVars, historyVars
<1>2. Busy(h) /\ j.todo # <<>> BY DEF StopContainer, RemoveContainer, CreateContainer, Boot, At
<1>3. Sensible(j) /\ j \in Work BY <1>2 DEF Typed, Jobs, Sensible
<1>4. resident \in Container \cup {None} /\ mounts \subseteq Target BY DEF Typed, FilesTyped
<1>5. resident # None =>
        [resident EXCEPT !.up = FALSE] \in Container /\ [resident EXCEPT !.up = TRUE] \in Container
  BY <1>4 DEF Container
<1>6. [image |-> j.ref, mounts |-> WantedMounts(j), up |-> FALSE] \in Container
  <2>1. WantedMounts(j) \subseteq Target BY <1>3, <1>4, WantedTyped
  <2> QED BY <1>3, <2>1 DEF Work, Container
<1>7. CASE StopContainer(h)
  <2>1. resident' \in Container \cup {None} BY <1>4, <1>5, <1>7 DEF StopContainer, Missing
  <2>2. Advance(h) \/ Fail(h) \/ Fault(h) BY <1>7 DEF StopContainer, Missing
  <2>3. FilesTyped' BY <1>1, <2>1 DEF Typed, FilesTyped, fileVars
  <2> QED BY <1>1, <1>2, <2>2, <2>3, TypedAfter
<1>8. CASE RemoveContainer(h)
  <2>1. resident' \in Container \cup {None} BY <1>4, <1>5, <1>8 DEF RemoveContainer, Missing
  <2>2. Advance(h) \/ Fail(h) \/ Fault(h) BY <1>8 DEF RemoveContainer, Missing
  <2>3. FilesTyped' BY <1>1, <2>1 DEF Typed, FilesTyped, fileVars
  <2> QED BY <1>1, <1>2, <2>2, <2>3, TypedAfter
<1>9. CASE CreateContainer(h)
  <2>1. resident' \in Container \cup {None} BY <1>4, <1>6, <1>9 DEF CreateContainer
  <2>2. Advance(h) \/ Fail(h) \/ Fault(h) BY <1>9 DEF CreateContainer
  <2>3. FilesTyped' BY <1>1, <2>1 DEF Typed, FilesTyped, fileVars
  <2> QED BY <1>1, <1>2, <2>2, <2>3, TypedAfter
<1>10. CASE Boot(h)
  <2>1. resident' \in Container \cup {None} BY <1>4, <1>5, <1>10 DEF Boot
  <2>2. Advance(h) \/ Fail(h) \/ Fault(h) BY <1>10 DEF Boot
  <2>3. FilesTyped' BY <1>1, <2>1 DEF Typed, FilesTyped, fileVars
  <2> QED BY <1>1, <1>2, <2>2, <2>3, TypedAfter
<1> QED BY <1>7, <1>8, <1>9, <1>10

LEMMA CallTyped ==
  ASSUME Typed, NEW h \in Host, Commit(h) \/ Ready(h) \/ Halt(h) \/ Restore(h)
  PROVE  Typed'
<1> DEFINE j == job[h]
<1>1. /\ lock' = lock /\ ops' = ops /\ crashes' = crashes /\ stopped' = stopped
      /\ unrestored' = unrestored /\ UNCHANGED <<dockerVars, fileVars>>
  BY DEF Commit, Ready, Halt, Restore, boundVars, historyVars
<1>2. Busy(h) /\ j.todo # <<>> BY DEF Commit, Ready, Halt, Restore, At
<1>3. Sensible(j) /\ j \in Work BY <1>2 DEF Typed, Jobs, Sensible
<1>4. registry \in Registry /\ mounts \subseteq Target BY DEF Typed, FilesTyped
<1>5. ASSUME registry' \in Registry, Advance(h) \/ Fail(h) \/ Fault(h) PROVE Typed'
  <2>1. FilesTyped' BY <1>1, <1>5 DEF Typed, FilesTyped, fileVars, dockerVars
  <2> QED BY <1>1, <1>2, <1>5, <2>1, TypedAfter
<1>6. CASE Commit(h)
  <2>1. Where(h, "commit") BY <1>6, AtHere, Zenon DEF Commit
  <2>2. Transition(j) \in Registry BY <1>3, <1>4, <2>1, TransitionTyped DEF Where
  <2> QED BY <1>4, <1>5, <1>6, <2>2 DEF Commit, Call
<1>7. CASE Ready(h)
  <2>1. [registry EXCEPT !.image = j.ref, !.ready = TRUE] \in Registry
    BY <1>3, <1>4 DEF Registry, Work
  <2> QED BY <1>4, <1>5, <1>7, <2>1 DEF Ready, Call
<1>8. CASE Halt(h)
  <2>1. [registry EXCEPT !.image = j.ref, !.ready = FALSE] \in Registry
    BY <1>3, <1>4 DEF Registry, Work
  <2> QED BY <1>4, <1>5, <1>8, <2>1 DEF Halt, Call
<1>9. CASE Restore(h)
  <2>1. Restored(j) \in Registry BY <1>3, <1>4, RestoredTyped
  <2> QED BY <1>4, <1>5, <1>9, <2>1 DEF Restore, Call
<1> QED BY <1>6, <1>7, <1>8, <1>9

\* A publication is done, and notes when it failed.
LEMMA PublishMoves ==
  ASSUME Typed, NEW h \in Host, Publish(h)
  PROVE  /\ Ahead(h) /\ Jobs' /\ Locked'
         /\ \/ Advance(h) /\ absent' = FALSE /\ mounts' = registry.targets
               /\ exchange' = Projection /\ plan' = registry.back
            \/ faults' = faults + 1 /\ faults' \in 0..MaxFaults /\ job'[h].projected = FALSE
<1>1. /\ lock' = lock /\ stopped' = stopped /\ Busy(h) /\ job[h].todo # <<>>
  BY DEF Publish, At, boundVars, historyVars
<1>2. CASE Advance(h) /\ exchange' = Projection /\ mounts' = exchange'.targets
           /\ absent' = FALSE /\ plan' = exchange'.plan
  <2>1. Ahead(h) /\ Jobs' /\ Locked' BY <1>1, <1>2, Moves
  <2> QED BY <1>2, <2>1 DEF Projection
<1>3. CASE /\ faults < MaxFaults /\ faults' = faults + 1
           /\ job' = [job EXCEPT ![h].todo = Tail(@), ![h].projected = FALSE]
  <2> DEFINE k == Astray(job[h])
  <2>1. job \in [Host -> Work \cup {NoJob}] /\ job[h] \in Work BY <1>1 DEF Typed, Jobs, Sensible
  <2>2. job' = [job EXCEPT ![h] = k] BY <1>3, <2>1 DEF Astray
  <2>3. k.projected = FALSE BY <2>1 DEF Astray, Work
  <2>4. k \in {Onward(job[h]), Astray(job[h])} BY Zenon
  <2>5. faults' \in 0..MaxFaults BY <1>3, ReplacementAssumption DEF Typed, CountersTyped
  <2> HIDE DEF k
  <2>6. Jobs' /\ Locked' /\ Ahead(h) /\ job'[h] = k BY <1>1, <2>2, <2>4, AdvanceJob DEF Ahead
  <2> QED BY <1>3, <2>3, <2>5, <2>6
<1> QED BY <1>2, <1>3 DEF Publish

LEMMA PublishTyped ==
  ASSUME Typed, NEW h \in Host, Publish(h)
  PROVE  Typed'
<1>1. /\ lock' = lock /\ ops' = ops /\ crashes' = crashes /\ stopped' = stopped
      /\ unrestored' = unrestored /\ UNCHANGED <<dockerVars, active, registry>>
  BY DEF Publish, boundVars, historyVars
<1>2. Jobs' /\ Locked' BY PublishMoves
<1>3. Projection \in [targets : SUBSET Target, plan : Plan]
  BY DEF Projection, Typed, FilesTyped, Registry
<1>4. exchange' \in [targets : SUBSET Target, plan : Plan]
  BY <1>3 DEF Publish, Typed, FilesTyped
<1>5. /\ exchange'.targets \subseteq Target /\ exchange'.plan \in Plan /\ None \in Plan
      /\ mounts \subseteq Target /\ plan \in Plan /\ absent \in BOOLEAN
  BY <1>4 DEF Typed, FilesTyped, Plan
<1>6. mounts' \subseteq Target /\ absent' \in BOOLEAN /\ plan' \in Plan
  BY <1>5 DEF Publish, PublishPartly
<1>7. FilesTyped' BY <1>1, <1>4, <1>6 DEF Typed, FilesTyped, dockerVars
<1>8. faults' \in 0..MaxFaults
  BY PublishMoves DEF Advance, Typed, CountersTyped
<1>9. CountersTyped' BY <1>1, <1>8 DEF Typed, CountersTyped
<1> QED BY <1>1, <1>2, <1>7, <1>9 DEF Typed

LEMMA FileTyped ==
  ASSUME Typed, NEW h \in Host, Readback(h) \/ Record(h) \/ KeepPlan(h) \/ Reactivate(h)
  PROVE  Typed'
<1> DEFINE j == job[h]
<1>1. /\ lock' = lock /\ ops' = ops /\ crashes' = crashes /\ stopped' = stopped
      /\ unrestored' \in {unrestored, TRUE}
      /\ UNCHANGED <<dockerVars, mounts, absent, exchange, registry>>
  BY DEF Readback, Record, KeepPlan, Reactivate, boundVars, historyVars, fileVars
<1>2. Busy(h) /\ j.todo # <<>> BY DEF Readback, Record, KeepPlan, Reactivate, At
<1>3. j \in Work BY <1>2 DEF Typed, Jobs, Sensible
<1>4. /\ active \in Image /\ plan \in Plan
      /\ j.old \in Image /\ j.pending \in Plan /\ (resident # None => resident.image \in Image)
  BY <1>3 DEF Typed, FilesTyped, Work, Container
<1>5. active' \in Image BY <1>4 DEF Readback, Record, KeepPlan, Reactivate, fileVars
<1>6. plan' \in Plan BY <1>4 DEF Readback, Record, KeepPlan, Reactivate, fileVars
<1>7. FilesTyped' BY <1>1, <1>5, <1>6 DEF Typed, FilesTyped, dockerVars
<1>8. Advance(h) \/ Fail(h) \/ Fault(h) BY DEF Readback, Record, KeepPlan, Reactivate
<1> QED BY <1>1, <1>2, <1>7, <1>8, TypedAfter

LEMMA DiscardTyped ==
  ASSUME Typed, NEW h \in Host, DiscardImage(h)
  PROVE  Typed'
<1>1. /\ lock' = lock /\ ops' = ops /\ crashes' = crashes /\ stopped' = stopped
      /\ unrestored' = unrestored /\ UNCHANGED <<resident, fileVars, registry>>
  BY DEF DiscardImage, boundVars, historyVars
<1>2. images' \subseteq Image /\ retained' \subseteq images'
  BY DEF DiscardImage, Typed, FilesTyped
<1>3. Busy(h) /\ job[h].todo # <<>> /\ (Advance(h) \/ Fail(h) \/ Fault(h)) BY DEF DiscardImage, At
<1>4. FilesTyped' BY <1>1, <1>2 DEF Typed, FilesTyped, fileVars
<1> QED BY <1>1, <1>3, <1>4, TypedAfter

LEMMA PerformTyped ==
  ASSUME Typed, ActiveKept, NEW h \in Host, Perform(h)
  PROVE  Typed'
BY BuildTyped, ContainerTyped, CallTyped, PublishTyped, FileTyped, DiscardTyped DEF Perform

\* What a job holds when it begins.
Fresh(k, op, target, candidate, ref) ==
  /\ k.op = op /\ k.target = target /\ k.candidate = candidate /\ k.old = active
  /\ k.ref = ref /\ k.expect = ref /\ k.backup = mounts /\ k.result = "ok"

Plain(k, op, target, candidate, todo) ==
  /\ k \in Work /\ Fresh(k, op, target, candidate, active)
  /\ k.phase = "run" /\ k.todo = todo /\ k.manifest = None

LEMMA NewJob ==
  ASSUME Typed, NEW op \in {"add", "remove", "update", "rollback", "stop"},
         NEW t \in Target \cup {None}, NEW c \in Image, NEW s \in Seq(Step),
         NEW w, w = Job(op, t, c, s)
  PROVE  Plain(w, op, t, c, s)
<1>1. active \in Image /\ mounts \subseteq Target /\ None \in Plan
  BY DEF Typed, FilesTyped, Plan
<1> QED BY <1>1 DEF Job, Work, Fresh, Plain

LEMMA TargetJob ==
  ASSUME Typed, NEW op \in {"add", "remove"}, NEW t \in Target
  PROVE  LET k == Job(op, t, active, TargetScript(op)) IN
         /\ Sensible(k) /\ Fresh(k, op, t, active, active)
         /\ k.phase = "run" /\ Len(k.todo) = IF op = "add" THEN 7 ELSE 12
<1> DEFINE s == TargetScript(op)
           k == Job(op, t, active, s)
<1>1. /\ s \in Seq(Step) /\ Len(s) = (IF op = "add" THEN 7 ELSE 12)
      /\ Follows(op, "run", s)
  BY FollowsAdd, FollowsRemove, Zenon
<1>2. active \in Image /\ t \in Target \cup {None} BY DEF Typed, FilesTyped
<1>9. k = Job(op, t, active, s) OBVIOUS
<1> HIDE DEF s, k
<1>3. Plain(k, op, t, active, s)
  BY <1>1, <1>2, <1>9, NewJob
<1>4. Sensible(k) BY <1>1, <1>3 DEF Sensible, Fresh, Plain
<1> QED BY <1>1, <1>3, <1>4 DEF k, s, Plain

LEMMA UnchangedJob ==
  ASSUME Typed, NEW op \in {"add", "remove"}, NEW t \in Target
  PROVE  LET k == [Job(op, t, active, <<>>) EXCEPT !.phase = "unchanged"] IN
         /\ Sensible(k) /\ Fresh(k, op, t, active, active)
         /\ k.phase = "unchanged" /\ Len(k.todo) = 0
<1> DEFINE s == <<>>
           base == Job(op, t, active, s)
           k == [base EXCEPT !.phase = "unchanged"]
<1>1. s \in Seq(Step) /\ Len(s) = 0 /\ s = <<>> /\ Follows(op, "unchanged", s) BY DEF Follows
<1>2. active \in Image /\ t \in Target \cup {None} BY DEF Typed, FilesTyped
<1>9. base = Job(op, t, active, s) OBVIOUS
<1> HIDE DEF s, base, k
<1>3. Plain(base, op, t, active, s)
  BY <1>1, <1>2, <1>9, NewJob
<1>4. /\ k \in Work /\ Fresh(k, op, t, active, active) /\ k.phase = "unchanged"
      /\ k.todo = s /\ k.manifest = None
  BY <1>3 DEF Work, Fresh, Plain, k
<1>5. Sensible(k) BY <1>1, <1>4 DEF Sensible, Fresh, Plain
<1> QED BY <1>1, <1>4, <1>5 DEF k, base, s, Plain

LEMMA NoTarget ==
  /\ None \in Target \cup {None}
  /\ "update" \in {"add", "remove", "update", "rollback", "stop"}
  /\ "rollback" \in {"add", "remove", "update", "rollback", "stop"}
  /\ "stop" \in {"add", "remove", "update", "rollback", "stop"}
OBVIOUS

LEMMA UpdateJob ==
  ASSUME Typed, NEW c \in Image
  PROVE  LET k == [Job("update", None, c, On("exit", <<"build">>)) EXCEPT
                     !.phase = "build", !.pending = [image |-> active, targets |-> mounts]] IN
         /\ Sensible(k) /\ Fresh(k, "update", None, c, active)
         /\ k.phase = "build" /\ Len(k.todo) = 1
         /\ k.pending.image = active
<1> DEFINE s == On("exit", <<"build">>)
           base == Job("update", None, c, s)
           p == [image |-> active, targets |-> mounts]
           k == [base EXCEPT !.phase = "build", !.pending = p]
<1>1. s \in Seq(Step) /\ Len(s) = 1 /\ Follows("update", "build", s) BY FollowsBuild
<1>2. p \in Snapshot /\ p \in Plan BY DEF Typed, FilesTyped, Plan, Snapshot
<1>3. p.image = active OBVIOUS
<1>9. base = Job("update", None, c, s) OBVIOUS
<1> HIDE DEF s, p, base, k
<1>4. Plain(base, "update", None, c, s)
  BY <1>1, <1>9, NoTarget, NewJob, Zenon
<1>5. /\ k \in Work /\ Fresh(k, "update", None, c, active) /\ k.phase = "build"
      /\ k.todo = s /\ k.manifest = None /\ k.pending = p
  BY <1>2, <1>4 DEF Work, Fresh, Plain, k
<1>6. Sensible(k) BY <1>1, <1>2, <1>5 DEF Sensible, Fresh, Plain
<1> QED BY <1>1, <1>3, <1>5, <1>6 DEF k, base, p, s, Plain

LEMMA RollbackJob ==
  ASSUME Typed, plan # None
  PROVE  LET k == [Job("rollback", None, plan.image, RollbackScript) EXCEPT
                     !.ref = plan.image, !.expect = plan.image, !.manifest = plan.targets] IN
         /\ Sensible(k) /\ Fresh(k, "rollback", None, plan.image, plan.image)
         /\ k.phase = "run" /\ Len(k.todo) = 9 /\ k.manifest = plan.targets
<1> DEFINE s == RollbackScript
           base == Job("rollback", None, plan.image, s)
           k == [base EXCEPT !.ref = plan.image, !.expect = plan.image, !.manifest = plan.targets]
<1>1. s \in Seq(Step) /\ Len(s) = 9 /\ Follows("rollback", "run", s) BY FollowsRollback
<1>2. plan.image \in Image /\ plan.targets \in SUBSET Target
  BY DEF Typed, FilesTyped, Plan, Snapshot
<1>9. base = Job("rollback", None, plan.image, s) OBVIOUS
<1> HIDE DEF s, base, k
<1>3. Plain(base, "rollback", None, plan.image, s)
  BY <1>1, <1>2, <1>9, NoTarget, NewJob, Zenon
<1>4. /\ k \in Work /\ Fresh(k, "rollback", None, plan.image, plan.image) /\ k.phase = "run"
      /\ k.todo = s /\ k.manifest = plan.targets
  BY <1>2, <1>3 DEF Work, Fresh, Plain, k
<1>5. Sensible(k) BY <1>1, <1>2, <1>4 DEF Sensible, Fresh, Plain
<1> QED BY <1>1, <1>4, <1>5 DEF k, base, s, Plain

LEMMA StopJob ==
  ASSUME Typed
  PROVE  LET k == Job("stop", None, active, StopScript) IN
         Sensible(k) /\ k.op = "stop"
<1> DEFINE s == StopScript
           k == Job("stop", None, active, s)
<1>1. s \in Seq(Step) /\ Follows("stop", "run", s) BY FollowsStop
<1>2. active \in Image BY DEF Typed, FilesTyped
<1>9. k = Job("stop", None, active, s) OBVIOUS
<1> HIDE DEF s, k
<1>3. Plain(k, "stop", None, active, s)
  BY <1>1, <1>2, <1>9, NoTarget, NewJob, Zenon
<1>4. Sensible(k) BY <1>1, <1>3 DEF Sensible, Fresh, Plain
<1> QED BY <1>3, <1>4 DEF k, s, Fresh, Plain

LEMMA BeginTyped ==
  ASSUME Typed, NEW h \in Host, NEW k, Begin(h, k), Sensible(k), k.op # "stop",
         retained' \subseteq images
  PROVE  /\ Typed' /\ lock = None /\ lock' = h /\ job'[h] = k
         /\ UNCHANGED <<resident, images, fileVars, registry, historyVars>>
<1>1. job \in [Host -> Work \cup {NoJob}] /\ k \in Work BY DEF Typed, Jobs, Sensible
<1>2. /\ ~Busy(h) /\ lock = None /\ ops < MaxOps /\ lock' = h /\ ops' = ops + 1
      /\ job' = [job EXCEPT ![h] = k]
      /\ UNCHANGED <<resident, images, fileVars, registry, faults, crashes, historyVars>>
  BY DEF Begin
<1>3. /\ job' \in [Host -> Work \cup {NoJob}] /\ job'[h] = k
      /\ \A g \in Host \ {h} : job'[g] = job[g]
  BY <1>1, <1>2
<1>4. Jobs' BY <1>3 DEF Typed, Jobs, Busy
<1>5. Busy(h)' BY <1>1, <1>3, WorkIsBusy DEF Busy
<1>6. Locked'
  <2>1. ASSUME NEW g \in Host PROVE lock' = g <=> Busy(g)' /\ job'[g].op # "stop"
    <3>1. CASE g = h BY <1>2, <1>3, <1>5, <3>1
    <3>2. CASE g # h
      <4>1. ~(Busy(g) /\ job[g].op # "stop") BY <1>2, HostNotNone DEF Typed, Locked
      <4> QED BY <1>2, <1>3, <3>2, <4>1 DEF Busy
    <3> QED BY <3>1, <3>2
  <2>2. stopped' = stopped BY <1>2 DEF historyVars
  <2>3. ASSUME NEW g \in Host, Busy(g)', job'[g].op = "stop" PROVE stopped'
    <3>1. g # h BY <1>3, <2>3
    <3>2. Busy(g) /\ job[g].op = "stop" BY <1>3, <2>3, <3>1 DEF Busy
    <3> QED BY <2>2, <3>2 DEF Typed, Locked
  <2> QED BY <2>1, <2>3 DEF Locked
<1>7. FilesTyped' BY <1>2 DEF Typed, FilesTyped, fileVars
<1>8. CountersTyped' BY <1>2, ReplacementAssumption DEF Typed, CountersTyped, historyVars
<1> QED BY <1>2, <1>3, <1>4, <1>6, <1>7, <1>8 DEF Typed

LEMMA BeginStopTyped ==
  ASSUME Typed, NEW h \in Host, BeginStop(h)
  PROVE  /\ Typed' /\ lock' = lock /\ \A g \in Host : lock = g => job'[g] = job[g]
<1> DEFINE k == Job("stop", None, active, StopScript)
<1>1. Sensible(k) /\ k.op = "stop" BY StopJob
<1>2. /\ ~Busy(h) /\ ops < MaxOps /\ ops' = ops + 1 /\ stopped' = TRUE
      /\ job' = [job EXCEPT ![h] = k]
      /\ UNCHANGED <<dockerVars, fileVars, registry, lock, faults, crashes, unrestored>>
  BY DEF BeginStop
<1> HIDE DEF k
<1>3. job \in [Host -> Work \cup {NoJob}] /\ k \in Work BY <1>1 DEF Typed, Jobs, Sensible
<1>4. /\ job' \in [Host -> Work \cup {NoJob}] /\ job'[h] = k
      /\ \A g \in Host \ {h} : job'[g] = job[g]
  BY <1>2, <1>3
<1>5. Jobs' BY <1>1, <1>4 DEF Typed, Jobs, Busy
<1>6. lock # h BY <1>2 DEF Typed, Locked
<1>7. Locked' BY <1>1, <1>2, <1>4, <1>6 DEF Typed, Locked, Busy
<1>8. FilesTyped' BY <1>2 DEF Typed, FilesTyped, fileVars, dockerVars
<1>9. CountersTyped' BY <1>2, ReplacementAssumption DEF Typed, CountersTyped
<1> QED BY <1>2, <1>4, <1>5, <1>6, <1>7, <1>8, <1>9 DEF Typed

\* The end of a job, or of a killed one.
LEMMA EndTyped ==
  ASSUME Typed, NEW h \in Host, Busy(h), job' = [job EXCEPT ![h] = NoJob], Release(h),
         UNCHANGED <<dockerVars, fileVars, registry, ops, historyVars, faults>>,
         crashes' \in 0..MaxCrashes
  PROVE  Typed' /\ (lock # h => lock' = lock) /\ (lock = h => lock' = None)
         /\ \A g \in Host \ {h} : job'[g] = job[g]
<1>1. job \in [Host -> Work \cup {NoJob}] BY DEF Typed, Jobs
<1>2. /\ job' \in [Host -> Work \cup {NoJob}] /\ job'[h] = NoJob
      /\ \A g \in Host \ {h} : job'[g] = job[g]
  BY <1>1
<1>3. ~Busy(h)' BY <1>2 DEF Busy, NoJob
<1>4. Jobs' BY <1>2, <1>3 DEF Typed, Jobs, Busy
<1>5. /\ lock # h => lock' = lock
      /\ lock = h => lock' = None
  BY DEF Release
<1>6. Locked'
  <2>1. ASSUME NEW g \in Host PROVE lock' = g <=> Busy(g)' /\ job'[g].op # "stop"
    <3>1. CASE g = h BY <1>3, <1>5, <3>1, HostNotNone
    <3>2. CASE g # h
      <4>1. lock' = g <=> lock = g BY <1>5, <3>2, HostNotNone
      <4> QED BY <1>2, <3>2, <4>1 DEF Typed, Locked, Busy
    <3> QED BY <3>1, <3>2
  <2>2. stopped' = stopped BY DEF historyVars
  <2>3. ASSUME NEW g \in Host, Busy(g)', job'[g].op = "stop" PROVE stopped'
    <3>1. g # h BY <1>3, <2>3
    <3>2. Busy(g) /\ job[g].op = "stop" BY <1>2, <2>3, <3>1 DEF Busy
    <3> QED BY <2>2, <3>2 DEF Typed, Locked
  <2> QED BY <2>1, <2>3 DEF Locked
<1>7. FilesTyped' BY DEF Typed, FilesTyped, fileVars, dockerVars
<1>8. CountersTyped' BY DEF Typed, CountersTyped, historyVars
<1>9. lock' \in Host \cup {None} BY <1>5 DEF Typed
<1> QED BY <1>2, <1>4, <1>5, <1>6, <1>7, <1>8, <1>9 DEF Typed

LEMMA FinishTyped ==
  ASSUME Typed, NEW h \in Host, Finish(h)
  PROVE  /\ Typed' /\ (lock # h => lock' = lock) /\ (lock = h => lock' = None)
         /\ \A g \in Host \ {h} : job'[g] = job[g]
<1>1. crashes' \in 0..MaxCrashes BY DEF Finish, boundVars, Typed, CountersTyped
<1> QED BY <1>1, EndTyped DEF Finish, Done, boundVars

LEMMA CrashTyped ==
  ASSUME Typed, NEW h \in Host, Crash(h)
  PROVE  /\ Typed' /\ (lock # h => lock' = lock) /\ (lock = h => lock' = None)
         /\ \A g \in Host \ {h} : job'[g] = job[g]
         /\ crashes' # 0
<1>1. crashes' \in 0..MaxCrashes /\ crashes' # 0
  BY ReplacementAssumption DEF Crash, Typed, CountersTyped
<1> QED BY <1>1, EndTyped DEF Crash

----------------------------------------------------------------------------
(* A stop, which holds no lock, as the one who holds it sees it.           *)

Aside ==
  /\ lock' = lock /\ (\A g \in Host : lock = g => job'[g] = job[g])
  /\ images' = images /\ active' = active /\ mounts' = mounts /\ plan' = plan
  /\ unrestored' = unrestored /\ stopped'
  /\ \/ resident' = resident
     \/ resident' = None
     \/ /\ resident # None /\ resident' # None
        /\ resident'.image = resident.image /\ resident'.mounts = resident.mounts
  /\ registry'.targets = registry.targets

LEMMA AsideKeeps ==
  ASSUME Typed, ImagesExist, ActiveKept, InPlace, Running, Told, Aside
  PROVE  ImagesExist' /\ ActiveKept' /\ InPlace' /\ Running' /\ Told' /\ CalmCourse'
<1>1. lock' = lock /\ \A g \in Host : lock = g => job'[g] = job[g] /\ Left(g)' = Left(g)
  BY DEF Aside, Left
<1>2. ImagesExist' BY <1>1 DEF Aside, ImagesExist, ActiveImageExists
<1>3. ActiveKept' BY <1>1 DEF Aside, ActiveKept, Keeps
<1>4. InPlace' BY <1>1 DEF Aside, InPlace, Places, Manifest, Is, Valid
<1>5. Running' BY <1>1 DEF Aside, Running, Runs
<1>6. Told' BY <1>1 DEF Aside, Told, Tells
<1>7. CalmCourse' BY DEF Aside, CalmCourse, Calm
<1> QED BY <1>2, <1>3, <1>4, <1>5, <1>6, <1>7

\* The steps of a stop.
LEMMA StopAside ==
  ASSUME Typed, NEW h \in Host, Perform(h), job[h].op = "stop"
  PROVE  Aside
<1>1. \A do : At(h, do) => Busy(h) /\ job[h].todo # <<>> /\ Where(h, do) BY AtHere
<1>2. ~(\/ Build(h) \/ CreateContainer(h) \/ Boot(h) \/ Commit(h) \/ Restore(h) \/ Publish(h)
        \/ Readback(h) \/ Record(h) \/ KeepPlan(h) \/ Reactivate(h) \/ DiscardImage(h))
  <2>1. ~Where(h, "build") /\ ~Where(h, "create") /\ ~Where(h, "boot") /\ ~Where(h, "commit")
    BY DEF Where, Point
  <2>2. ~Where(h, "restore") /\ ~Where(h, "publish") /\ ~Where(h, "readback")
    BY DEF Where, Point
  <2>3. ~Where(h, "record") /\ ~Where(h, "keep") /\ ~Where(h, "reactivate") /\ ~Where(h, "discard")
    BY DEF Where, Point
  <2> QED BY <1>1, <2>1, <2>2, <2>3, Zenon
          DEF Build, CreateContainer, Boot, Commit, Restore, Publish, Readback, Record, KeepPlan,
              Reactivate, DiscardImage
<1>3. StopContainer(h) \/ RemoveContainer(h) \/ Ready(h) \/ Halt(h)
  BY <1>2, Zenon DEF Perform
<1>4. Busy(h) /\ job[h].todo # <<>> BY <1>3 DEF StopContainer, RemoveContainer, Ready, Halt, At
<1>5. stopped /\ lock # h BY <1>4 DEF Typed, Locked
<1>6. /\ lock' = lock /\ stopped' = stopped /\ unrestored' = unrestored
      /\ images' = images /\ active' = active /\ mounts' = mounts /\ plan' = plan
  BY <1>3 DEF StopContainer, RemoveContainer, Ready, Halt, boundVars, historyVars, fileVars, dockerVars
<1>7. Advance(h) \/ Fail(h) \/ Fault(h)
  BY <1>3 DEF StopContainer, RemoveContainer, Ready, Halt, Missing, Call
<1>8. \A g \in Host \ {h} : job'[g] = job[g] BY <1>4, <1>6, <1>7, Moves DEF Ahead, Behind
<1>9. \A g \in Host : lock = g => job'[g] = job[g] BY <1>5, <1>8
<1>10. CASE StopContainer(h) \/ RemoveContainer(h)
  <2>1. registry' = registry BY <1>10 DEF StopContainer, RemoveContainer
  <2>2. resident \in Container \cup {None} BY DEF Typed, FilesTyped
  <2>3. \/ resident' = resident
        \/ resident' = None
        \/ resident # None /\ resident' = [resident EXCEPT !.up = FALSE]
    BY <1>10 DEF StopContainer, RemoveContainer, Missing
  <2>4. resident # None =>
          /\ [resident EXCEPT !.up = FALSE] \in Container
          /\ [resident EXCEPT !.up = FALSE] # None
          /\ [resident EXCEPT !.up = FALSE].image = resident.image
          /\ [resident EXCEPT !.up = FALSE].mounts = resident.mounts
    BY <2>2, ReplacementAssumption DEF Container
  <2> QED BY <1>5, <1>6, <1>9, <2>1, <2>3, <2>4 DEF Aside
<1>11. CASE Ready(h) \/ Halt(h)
  <2>1. resident' = resident BY <1>11 DEF Ready, Halt, dockerVars
  <2>2. registry \in Registry BY DEF Typed, FilesTyped
  <2>3. registry'.targets = registry.targets BY <1>11, <2>2 DEF Ready, Halt, Call, Registry
  <2> QED BY <1>5, <1>6, <1>9, <2>1, <2>3 DEF Aside
<1> QED BY <1>3, <1>10, <1>11

LEMMA BeginStopAside ==
  ASSUME Typed, NEW h \in Host, BeginStop(h)
  PROVE  Aside
<1>1. lock' = lock /\ \A g \in Host : lock = g => job'[g] = job[g] BY BeginStopTyped
<1>2. /\ images' = images /\ active' = active /\ mounts' = mounts /\ plan' = plan
      /\ unrestored' = unrestored /\ stopped' /\ resident' = resident /\ registry' = registry
  BY DEF BeginStop, fileVars, dockerVars
<1> QED BY <1>1, <1>2 DEF Aside

----------------------------------------------------------------------------
(* A step of the script that holds the lock fails.                         *)

LEMMA Holder ==
  ASSUME Typed, NEW h \in Host, Busy(h), job[h].op # "stop"
  PROVE  lock = h /\ \A g \in Host : lock = g => g = h
BY DEF Typed, Locked

LEMMA BehindKeeps ==
  ASSUME Typed, ActiveKept, NEW h \in Host, lock = h, lock' = lock,
         job[h] \in Work, Left(h) \in Nat \ {0}, NEW do, Where(h, do), Behind(h),
         active' = active, unrestored => unrestored', do = "reactivate" => unrestored'
  PROVE  ActiveKept' /\ InPlace' /\ Running' /\ Told'
<1> DEFINE j == job[h]
           k == job'[h]
<1>1. /\ Kept(j, k) /\ Len(k.todo) \in Nat /\ FallsBack(j, k) BY DEF Behind, FallsBack
<1>2. Left(h)' = Len(k.todo) BY DEF Left
<1>3. \A g \in Host : lock' = g => g = h OBVIOUS
<1>4. k.op = j.op /\ k.old = j.old BY <1>1 DEF Kept
<1>5. k.result = "ok" => k.op = "rollback" /\ k.phase = "recover"
  BY <1>1, <1>4 DEF FallsBack
<1>6. k.phase # "unchanged"
  <2>1. j.phase # "unchanged" BY DEF Where, Point
  <2> QED BY <1>1, <2>1 DEF FallsBack
<1>7. k.phase = "recover" /\ k.result # "broken" => Len(k.todo) = IF k.op = "update" THEN 8 ELSE 7
  <2>1. j.phase = "recover" => Route(h) \in {"note", "skip"} BY DEF Where, Point
  <2> QED BY <1>1, <1>4, <2>1 DEF FallsBack, Route
<1>8. Keeps(job[h], Left(h))'
  <2>1. CASE active = j.old BY <1>4, <2>1 DEF Keeps
  <2>2. CASE j.phase = "recover" /\ j.op = "update" /\ active # j.old
    <3>1. Left(h) >= 2 \/ unrestored BY <2>2 DEF ActiveKept, Keeps
    <3>2. Route(h) \in {"note", "skip"} BY <2>2 DEF Where, Point
    <3>3. Left(h) = 2 => do = "reactivate" BY <2>2 DEF Where, Point
    <3>4. k.phase = "recover" /\ k.result = "broken"
          /\ (Len(k.todo) = Left(h) - 1 \/ Len(k.todo) = 2)
      BY <1>1, <2>2, <3>2 DEF FallsBack, Route, Left
    <3>5. Left(h) >= 2 => Len(k.todo) >= 2 \/ Left(h) = 2
      <4>1. Left(h) \in Int /\ (Len(k.todo) = Left(h) - 1 \/ Len(k.todo) = 2) BY <3>4
      <4>2. CASE Len(k.todo) = Left(h) - 1 BY <4>1, <4>2
      <4>3. CASE Len(k.todo) = 2 BY <4>3
      <4> QED BY <4>1, <4>2, <4>3
    <3>6. Len(k.todo) >= 2 \/ unrestored' BY <3>1, <3>3, <3>5, Zenon
    <3> QED BY <1>2, <1>4, <2>2, <3>4, <3>6 DEF Keeps
  <2>3. CASE j.phase = "run" /\ active # j.old
    <3>1. j.op = "update" /\ Left(h) <= 1 BY <2>3 DEF ActiveKept, Keeps
    <3>2. Route(h) = "recover" BY <2>3, <3>1 DEF Where, Point
    <3>3. k.phase = "recover" /\ Len(k.todo) = 8 BY <1>1, <3>1, <3>2 DEF FallsBack, Route
    <3> QED BY <1>2, <1>4, <3>1, <3>3 DEF Keeps
  <2> QED BY <2>1, <2>2, <2>3 DEF ActiveKept, Keeps
<1>9. /\ ~(k.phase = "recover" /\ k.result # "broken"
           /\ (Left(h)' <= 3 \/ (Left(h)' = 4 /\ k.op = "update")))
      /\ k.phase = "run" => k.result # "ok"
  <2>1. CASE k.phase = "recover" /\ k.result # "broken"
    <3>1. Left(h)' = 7 \/ Left(h)' = 8 BY <1>2, <1>7, <2>1
    <3> QED BY <2>1, <3>1
  <2> QED BY <1>5, <2>1
<1>12. Places(job[h], Left(h))' BY <1>5, <1>9 DEF Places
<1>13. Left(h)' \in Nat BY <1>1, <1>2
<1>10. Runs(job[h], Left(h))' BY <1>5, <1>6, <1>9, <1>13 DEF Runs
<1>11. Tells(job[h], Left(h))' BY <1>5, <1>9, <1>13 DEF Tells
<1> QED BY <1>3, <1>8, <1>10, <1>11, <1>12 DEF ActiveKept, InPlace, Running, Told

----------------------------------------------------------------------------
(* A step of the script that holds the lock is done.                       *)

Safe == ImagesExist /\ ActiveKept /\ InPlace /\ Running /\ Told

\* What the steps have in common.
LEMMA AheadJob ==
  ASSUME Typed, NEW h \in Host, Left(h) \in Nat \ {0}, Ahead(h), NEW do, Where(h, do)
  PROVE  /\ Kept(job[h], job'[h])
         /\ job'[h].phase = job[h].phase /\ job'[h].result = job[h].result
         /\ job'[h].ref = job[h].ref /\ job'[h].expect = job[h].expect
         /\ job'[h].manifest = job[h].manifest
         /\ (job'[h].projected => job[h].projected)
         /\ Left(h)' = Left(h) - 1 /\ Left(h)' \in Nat
         /\ job[h].phase # "unchanged"
<1>1. job[h].phase # "unchanged" BY DEF Where, Point
<1> QED BY <1>1 DEF Ahead, GoesOn, Left

LEMMA SafeThen ==
  ASSUME Typed, Safe, NEW h \in Host, lock = h, lock' = lock, stopped' = stopped,
         job'[h].old = job[h].old,
         resident' # None => resident'.image \in images',
         ~unrestored' => active' \in images' /\ job[h].old \in images',
         Keeps(job[h], Left(h))', Places(job[h], Left(h))',
         ~stopped => Runs(job[h], Left(h))', Tells(job[h], Left(h))'
  PROVE  Safe'
<1>0. \A g \in Host : lock' = g => g = h OBVIOUS
<1>1. ImagesExist' BY <1>0 DEF ImagesExist, ActiveImageExists
<1>2. ActiveKept' /\ InPlace' /\ Told' BY DEF ActiveKept, InPlace, Told
<1>3. Running' BY DEF Running
<1> QED BY <1>1, <1>2, <1>3 DEF Safe

LEMMA SafeAfter ==
  ASSUME Typed, Safe, NEW h \in Host, lock = h, lock' = lock, stopped' = stopped,
         job'[h].old = job[h].old, images \subseteq images',
         resident' # None => resident'.image \in images',
         active' = active \/ active' \in images', unrestored => unrestored',
         Keeps(job[h], Left(h))', Places(job[h], Left(h))',
         ~stopped => Runs(job[h], Left(h))', Tells(job[h], Left(h))'
  PROVE  Safe'
<1>1. ASSUME ~unrestored' PROVE active' \in images' /\ job[h].old \in images'
  <2>1. ~unrestored BY <1>1
  <2>2. active \in images /\ job[h].old \in images
    BY <2>1 DEF Safe, ImagesExist, ActiveImageExists
  <2> QED BY <2>2
<1> QED BY <1>1, SafeThen

\* What is known at a step of the script that holds the lock.
LEMMA SafeHere ==
  ASSUME Typed, Safe, NEW h \in Host, NEW do, At(h, do), job[h].op # "stop"
  PROVE  /\ Busy(h) /\ job[h].todo # <<>> /\ job[h] \in Work /\ Left(h) \in Nat \ {0}
         /\ Where(h, do) /\ Sensible(job[h]) /\ lock = h
         /\ Keeps(job[h], Left(h)) /\ Places(job[h], Left(h)) /\ Tells(job[h], Left(h))
         /\ (~stopped => Runs(job[h], Left(h)))
         /\ (resident # None => resident.image \in images)
         /\ (~unrestored => active \in images /\ job[h].old \in images)
<1>1. /\ Busy(h) /\ job[h].todo # <<>> /\ job[h] \in Work /\ Left(h) \in Nat \ {0}
      /\ Where(h, do) /\ Sensible(job[h])
  BY AtHere, Zenon
<1>2. lock = h BY <1>1, Holder
<1>3. /\ Keeps(job[h], Left(h)) /\ Places(job[h], Left(h)) /\ Tells(job[h], Left(h))
      /\ (~stopped => Runs(job[h], Left(h)))
  BY <1>2 DEF Safe, ActiveKept, InPlace, Told, Running
<1>4. /\ (resident # None => resident.image \in images)
      /\ (~unrestored => active \in images /\ job[h].old \in images)
  BY <1>2 DEF Safe, ImagesExist, ActiveImageExists
<1> QED BY <1>1, <1>2, <1>3, <1>4

LEMMA BehindSafe ==
  ASSUME Typed, Safe, NEW h \in Host, lock = h, lock' = lock, stopped' = stopped,
         job[h] \in Work, Left(h) \in Nat \ {0}, NEW do, Where(h, do), Behind(h),
         active' = active, images' = images, unrestored => unrestored',
         resident' # None => resident'.image \in images,
         do = "reactivate" => unrestored'
  PROVE  Safe'
<1>1. ActiveKept' /\ InPlace' /\ Running' /\ Told' BY BehindKeeps DEF Safe
<1>2. job'[h].old = job[h].old BY DEF Behind, FallsBack, Kept
<1>3. /\ Keeps(job[h], Left(h))' /\ Places(job[h], Left(h))' /\ Tells(job[h], Left(h))'
      /\ ~stopped => Runs(job[h], Left(h))'
  BY <1>1 DEF ActiveKept, InPlace, Told, Running
<1> QED BY <1>2, <1>3, SafeAfter

\* stop and remove: nothing is promised of the container right after them.
LEMMA TeardownSafe ==
  ASSUME Typed, Safe, NEW h \in Host, job[h].op # "stop", StopContainer(h) \/ RemoveContainer(h)
  PROVE  Safe'
<1> DEFINE j == job[h]
<1>1. Busy(h) /\ j.todo # <<>> /\ j \in Work /\ Left(h) \in Nat \ {0}
      /\ (Where(h, "stop") \/ Where(h, "remove"))
  BY AtHere, Zenon DEF StopContainer, RemoveContainer
<1>2. PICK do \in {"stop", "remove"} : Where(h, do) BY <1>1
<1>3. lock = h BY <1>1, Holder
<1>4. /\ lock' = lock /\ stopped' = stopped /\ unrestored' = unrestored /\ images' = images
      /\ active' = active /\ mounts' = mounts /\ plan' = plan /\ registry' = registry
  BY DEF StopContainer, RemoveContainer, boundVars, historyVars, fileVars
<1>5. Advance(h) \/ Fail(h) \/ Fault(h) BY DEF StopContainer, RemoveContainer, Missing
<1>6. Ahead(h) \/ Behind(h) BY <1>1, <1>4, <1>5, Moves
<1>7. resident \in Container \cup {None} /\ (resident # None => resident.image \in images)
  BY DEF Typed, FilesTyped, Safe, ImagesExist
<1>8. resident' # None => resident'.image \in images
  BY <1>7 DEF StopContainer, RemoveContainer, Missing, Container
<1>9. CASE Behind(h)
  <2>1. do # "reactivate" BY <1>2
  <2> QED BY <1>1, <1>2, <1>3, <1>4, <1>8, <1>9, <2>1, BehindSafe
<1>10. CASE Ahead(h)
  <2>1. /\ Kept(j, job'[h]) /\ job'[h].phase = j.phase /\ job'[h].result = j.result
        /\ job'[h].manifest = j.manifest
        /\ (job'[h].projected => j.projected)
        /\ Left(h)' = Left(h) - 1 /\ Left(h)' \in Nat /\ j.phase # "unchanged"
    BY <1>1, <1>2, <1>10, AheadJob
  <2>2. Keeps(j, Left(h)) /\ Places(j, Left(h)) /\ Tells(j, Left(h))
    BY <1>3 DEF Safe, ActiveKept, InPlace, Told
  <2>3. Keeps(job[h], Left(h))'
    BY <1>1, <1>2, <1>4, <2>1, <2>2 DEF Keeps, Kept, Where, Point
  <2>4. Places(job[h], Left(h))'
    BY <1>1, <1>2, <1>4, <2>1, <2>2 DEF Places, Manifest, Kept, Where, Point
  <2>5. Runs(job[h], Left(h))'
    BY <1>1, <1>2, <1>4, <2>1 DEF Runs, Kept, Where, Point
  <2>6. Tells(job[h], Left(h))'
    BY <1>1, <1>2, <1>4, <2>1, <2>2 DEF Tells, Kept, Where, Point
  <2>7. job'[h].old = j.old BY <2>1 DEF Kept
  <2> QED BY <1>3, <1>4, <1>8, <2>3, <2>4, <2>5, <2>6, <2>7, SafeAfter
<1> QED BY <1>6, <1>9, <1>10

\* What is done before an update has its image is nothing but its beginning.
LEMMA BuildSafe ==
  ASSUME Typed, Safe, NEW h \in Host, Build(h)
  PROVE  Safe'
<1> DEFINE j == job[h]
           k == job'[h]
<1>1. /\ Busy(h) /\ j.todo # <<>> /\ Sensible(j) /\ j \in Work /\ Where(h, "build")
      /\ Left(h) \in Nat \ {0}
  BY AtHere, Zenon DEF Build
<1>2. j.op = "update" /\ j.phase = "build" /\ Left(h) = 1 /\ Route(h) = "exit"
  BY <1>1 DEF Where, Point
<1>3. lock = h /\ active = j.old
  <2>1. lock = h BY <1>1, <1>2, Holder
  <2> QED BY <1>2, <2>1 DEF Safe, ActiveKept, Keeps
<1>4. /\ lock' = lock /\ stopped' = stopped /\ unrestored' = unrestored
      /\ UNCHANGED <<resident, retained, fileVars, registry>>
  BY DEF Build, boundVars, historyVars
<1>5. resident # None => resident.image \in images BY DEF Safe, ImagesExist
<1>6. CASE Fault(h) /\ images' = images
  <2>1. Behind(h) BY <1>1, <1>4, <1>6, Moves
  <2>2. active' = active /\ resident' = resident BY <1>4 DEF fileVars
  <2>3. "build" # "reactivate" OBVIOUS
  <2> QED BY <1>1, <1>3, <1>4, <1>5, <1>6, <2>1, <2>2, <2>3, BehindSafe, Zenon
<1>15. CASE job' = [job EXCEPT ![h] = Failed(@)] /\ faults' = faults
            /\ images' = images \cup {j.candidate}
  <2>1. Fail(h) BY <1>15 DEF Fail
  <2>2. Behind(h) BY <1>1, <1>4, <2>1, Moves
  <2>3. "build" # "reactivate" OBVIOUS
  <2>4. ActiveKept' /\ InPlace' /\ Running' /\ Told'
    BY <1>1, <1>3, <1>4, <2>2, <2>3, BehindKeeps, Zenon DEF Safe, fileVars
  <2>5. k.old = j.old BY <2>2 DEF Behind, FallsBack, Kept
  <2>6. active' = active /\ resident' = resident BY <1>4 DEF fileVars
  <2>7. /\ Keeps(job[h], Left(h))' /\ Places(job[h], Left(h))' /\ Tells(job[h], Left(h))'
        /\ ~stopped => Runs(job[h], Left(h))'
    BY <1>3, <1>4, <2>4 DEF ActiveKept, InPlace, Told, Running
  <2> QED BY <1>3, <1>4, <1>5, <1>15, <2>5, <2>6, <2>7, SafeAfter
<1>7. CASE /\ images' = images \cup {j.candidate}
           /\ \/ job' = [job EXCEPT ![h].todo = UpdateScript(resident # None), ![h].phase = "run",
                                    ![h].ref = j.candidate, ![h].expect = j.candidate]
              \/ /\ j.candidate = active /\ Valid(active, mounts)
                 /\ job' = [job EXCEPT ![h].todo = ReuseScript, ![h].phase = "reuse"]
  <2>1. /\ images' = images \cup {j.candidate}
        /\ \/ job' = [job EXCEPT ![h].todo = UpdateScript(resident # None), ![h].phase = "run",
                                 ![h].ref = j.candidate, ![h].expect = j.candidate]
           \/ /\ j.candidate = active /\ Valid(active, mounts)
              /\ job' = [job EXCEPT ![h].todo = ReuseScript, ![h].phase = "reuse"]
    BY <1>7
  <2>2. job \in [Host -> Work \cup {NoJob}] BY DEF Typed, Jobs
  <2>3. Builds(j, k) /\ (k.phase = "reuse" => Valid(active, mounts))
    <3>1. CASE job' = [job EXCEPT ![h].todo = UpdateScript(resident # None), ![h].phase = "run",
                                  ![h].ref = j.candidate, ![h].expect = j.candidate]
      <4>1. k = [j EXCEPT !.todo = UpdateScript(resident # None), !.phase = "run",
                          !.ref = j.candidate, !.expect = j.candidate]
        BY <2>2, <3>1
      <4>2. k.phase = "run" BY <1>1, <4>1 DEF Work
      <4> QED BY <4>1, <4>2 DEF Builds
    <3>2. CASE /\ j.candidate = active /\ Valid(active, mounts)
               /\ job' = [job EXCEPT ![h].todo = ReuseScript, ![h].phase = "reuse"]
      <4>1. k = [j EXCEPT !.todo = ReuseScript, !.phase = "reuse"] BY <2>2, <3>2
      <4> QED BY <1>3, <3>2, <4>1 DEF Builds
    <3> QED BY <2>1, <3>1, <3>2
  <2>4. Built(j, k) BY <1>1, <1>2, <2>3, BuildJob
  <2>5. Left(h)' = Len(k.todo) BY DEF Left
  <2>6. /\ active' = active /\ mounts' = mounts /\ resident' = resident /\ registry' = registry
    BY <1>4 DEF fileVars
  <2>7. Places(j, Left(h)) BY <1>3 DEF Safe, InPlace
  <2>8. mounts = j.backup
    <3>1. j.result = "ok" BY <1>1, <1>2 DEF Sensible
    <3> QED BY <1>2, <2>7, <3>1 DEF Places, Manifest
  <2>9. k.op = "update" /\ k.old = j.old /\ k.candidate = j.candidate /\ k.backup = j.backup
        /\ k.result = "ok"
    BY <1>2, <2>4 DEF Built, Kept
  <2>10. \/ k.phase = "run" /\ Left(h)' \in {6, 8}
         \/ k.phase = "reuse" /\ Left(h)' = 4 /\ j.candidate = j.old
    <3>1. CASE k.phase = "run" /\ Len(k.todo) = IF resident # None THEN 8 ELSE 6
      <4>1. Len(k.todo) = 8 \/ Len(k.todo) = 6 BY <3>1
      <4> QED BY <2>5, <3>1, <4>1
    <3>2. CASE k.phase = "reuse" /\ Len(k.todo) = 4 /\ j.candidate = j.old BY <2>5, <3>2
    <3> QED BY <2>4, <3>1, <3>2 DEF Built
  <2>11. Keeps(job[h], Left(h))' BY <1>3, <2>6, <2>9 DEF Keeps
  <2>12. Places(job[h], Left(h))'
    BY <1>3, <2>3, <2>6, <2>8, <2>9, <2>10 DEF Places, Manifest, Is, Valid
  <2>13. Runs(job[h], Left(h))' BY <2>9, <2>10 DEF Runs
  <2>14. Tells(job[h], Left(h))' BY <2>9, <2>10 DEF Tells
  <2> QED BY <1>3, <1>4, <1>5, <2>1, <2>6, <2>9, <2>11, <2>12, <2>13, <2>14, SafeAfter
<1> QED BY <1>6, <1>7, <1>15 DEF Build

\* The container that is created, or was there, is the one that is asked for.
LEMMA CreateSafe ==
  ASSUME Typed, Safe, NEW h \in Host, CreateContainer(h)
  PROVE  Safe'
<1> DEFINE j == job[h]
           k == job'[h]
           wanted == [image |-> j.ref, mounts |-> WantedMounts(j), up |-> FALSE]
<1>1. /\ Busy(h) /\ j.todo # <<>> /\ j \in Work /\ Left(h) \in Nat \ {0}
      /\ Where(h, "create") /\ Sensible(j)
  BY AtHere, Zenon DEF CreateContainer
<1>2. j.op # "stop" /\ lock = h
  <2>1. j.op # "stop" BY <1>1 DEF Where, Point
  <2> QED BY <1>1, <2>1, Holder
<1>3. /\ lock' = lock /\ stopped' = stopped /\ unrestored' = unrestored /\ images' = images
      /\ active' = active /\ mounts' = mounts /\ plan' = plan /\ registry' = registry
  BY DEF CreateContainer, boundVars, historyVars, fileVars
<1>4. Advance(h) \/ Fail(h) \/ Fault(h) BY DEF CreateContainer
<1>5. Ahead(h) \/ Behind(h) BY <1>1, <1>3, <1>4, Moves
<1>6. resident # None => resident.image \in images BY DEF Safe, ImagesExist
<1>7. wanted # None /\ wanted.image = j.ref /\ wanted.mounts = WantedMounts(j)
  <2>1. WantedMounts(j) \subseteq Target BY <1>1, WantedTyped DEF Typed, FilesTyped
  <2>2. wanted \in Container BY <1>1, <2>1 DEF Container, Work
  <2>3. wanted # None BY <2>2, ReplacementAssumption
  <2> QED BY <2>3
<1> HIDE DEF wanted
<1>8. \/ resident' = resident
      \/ resident' = wanted /\ j.ref \in images
  BY DEF CreateContainer, wanted
<1>9. resident' # None => resident'.image \in images BY <1>6, <1>7, <1>8
<1>10. CASE Behind(h)
  <2>1. "create" # "reactivate" OBVIOUS
  <2> QED BY <1>1, <1>2, <1>3, <1>9, <1>10, <2>1, BehindSafe, Zenon
<1>11. CASE ~Behind(h)
  <2>0. Ahead(h) /\ ~Fail(h) /\ ~Fault(h)
    BY <1>1, <1>3, <1>5, <1>11, Moves
  <2>1. /\ Kept(j, k) /\ k.phase = j.phase /\ k.result = j.result /\ k.manifest = j.manifest
        /\ (k.projected => j.projected)
        /\ Left(h)' = Left(h) - 1 /\ Left(h)' \in Nat /\ j.phase # "unchanged"
    BY <1>1, <2>0, AheadJob, Zenon
  <2>2. resident' # None /\ resident'.image = j.expect /\ resident'.mounts = WantedMounts(j)
    BY <1>7, <2>0 DEF CreateContainer, Valid, wanted
  <2>3. Keeps(j, Left(h)) /\ Places(j, Left(h)) /\ Tells(j, Left(h))
    BY <1>2 DEF Safe, ActiveKept, InPlace, Told
  <2>4. /\ j.op = "add" /\ j.phase = "run" => j.target \in WantedMounts(j)
        /\ j.op \in {"add", "remove", "update"} /\ (j.op = "add" => j.phase # "run") =>
             WantedMounts(j) = mounts
        /\ j.phase = "recover" => WantedMounts(j) = Manifest(j) /\ j.expect = j.old
        /\ j.op \in {"add", "remove"} => j.expect = j.old
        /\ j.op \in {"update", "rollback"} /\ j.phase = "run" => j.expect = j.candidate
    BY <1>1 DEF Sensible, WantedMounts, Manifest
  <2>5. Keeps(job[h], Left(h))'
    BY <1>1, <1>3, <2>1, <2>3 DEF Keeps, Kept, Where, Point
  <2>6. Places(job[h], Left(h))'
    BY <1>1, <1>3, <2>1, <2>2, <2>3, <2>4 DEF Places, Manifest, Is, Valid, Kept, Where, Point
  <2>7. Runs(job[h], Left(h))' BY <1>1, <2>1 DEF Runs, Kept, Where, Point
  <2>8. Tells(job[h], Left(h))' BY <1>1, <1>3, <2>1, <2>3 DEF Tells, Kept, Where, Point
  <2>9. k.old = j.old BY <2>1 DEF Kept
  <2> QED BY <1>2, <1>3, <1>9, <2>5, <2>6, <2>7, <2>8, <2>9, SafeAfter
<1> QED BY <1>10, <1>11

LEMMA BootSafe ==
  ASSUME Typed, Safe, NEW h \in Host, Boot(h)
  PROVE  Safe'
<1> DEFINE j == job[h]
           k == job'[h]
           started == [resident EXCEPT !.up = TRUE]
<1>1. /\ Busy(h) /\ j.todo # <<>> /\ j \in Work /\ Left(h) \in Nat \ {0}
      /\ Where(h, "boot") /\ Sensible(j)
  BY AtHere, Zenon DEF Boot
<1>2. j.op # "stop" /\ lock = h
  <2>1. j.op # "stop" BY <1>1 DEF Where, Point
  <2> QED BY <1>1, <2>1, Holder
<1>3. /\ lock' = lock /\ stopped' = stopped /\ unrestored' = unrestored /\ images' = images
      /\ active' = active /\ mounts' = mounts /\ plan' = plan /\ registry' = registry
  BY DEF Boot, boundVars, historyVars, fileVars
<1>4. Advance(h) \/ Fail(h) \/ Fault(h) BY DEF Boot
<1>5. Ahead(h) \/ Behind(h) BY <1>1, <1>3, <1>4, Moves
<1>6. resident # None =>
        /\ started # None /\ started.image = resident.image
        /\ started.mounts = resident.mounts /\ started.up
  <2>1. ASSUME resident # None PROVE resident \in Container BY <2>1 DEF Typed, FilesTyped
  <2>2. ASSUME resident # None PROVE started \in Container BY <2>1, <2>2 DEF Container
  <2>3. ASSUME resident # None
        PROVE  started.image = resident.image /\ started.mounts = resident.mounts /\ started.up
    BY <2>1, <2>3 DEF Container
  <2> QED BY <2>2, <2>3, ReplacementAssumption
<1> HIDE DEF started
<1>7. \/ resident' = resident
      \/ resident # None /\ resident' = started
  BY DEF Boot, started
<1>8. resident' # None => resident'.image \in images BY <1>6, <1>7 DEF Safe, ImagesExist
<1>9. CASE Behind(h)
  <2>1. "boot" # "reactivate" OBVIOUS
  <2> QED BY <1>1, <1>2, <1>3, <1>8, <1>9, <2>1, BehindSafe, Zenon
<1>10. CASE ~Behind(h)
  <2>0. Ahead(h) /\ ~Fail(h) /\ ~Fault(h) BY <1>1, <1>3, <1>5, <1>10, Moves
  <2>1. /\ Kept(j, k) /\ k.phase = j.phase /\ k.result = j.result /\ k.manifest = j.manifest
        /\ (k.projected => j.projected)
        /\ Left(h)' = Left(h) - 1 /\ Left(h)' \in Nat /\ j.phase # "unchanged"
    BY <1>1, <2>0, AheadJob, Zenon
  <2>2. resident # None /\ resident' = started BY <2>0 DEF Boot, started
  <2>3. resident' # None /\ resident'.up /\ resident'.image = resident.image
        /\ resident'.mounts = resident.mounts
    BY <1>6, <2>2
  <2>4. Keeps(j, Left(h)) /\ Places(j, Left(h)) /\ Tells(j, Left(h))
    BY <1>2 DEF Safe, ActiveKept, InPlace, Told
  <2>5. Keeps(job[h], Left(h))' BY <1>1, <1>3, <2>1, <2>4 DEF Keeps, Kept, Where, Point
  <2>6. Places(job[h], Left(h))'
    BY <1>1, <1>3, <2>1, <2>2, <2>3, <2>4 DEF Places, Manifest, Is, Valid, Kept, Where, Point
  <2>7. Runs(job[h], Left(h))' BY <2>1, <2>3 DEF Runs
  <2>8. Tells(job[h], Left(h))' BY <1>1, <1>3, <2>1, <2>4 DEF Tells, Kept, Where, Point
  <2>9. k.old = j.old BY <2>1 DEF Kept
  <2> QED BY <1>2, <1>3, <1>8, <2>5, <2>6, <2>7, <2>8, <2>9, SafeAfter
<1> QED BY <1>9, <1>10

----------------------------------------------------------------------------
(* The calls of the controller.                                            *)

LEMMA TransitionTells ==
  ASSUME NEW j, Sensible(j), registry \in Registry, NEW n, NEW route,
         Point(j.op, j.phase, n, "commit", route)
  PROVE  /\ j.op \in {"update", "rollback"} => Transition(j).image = j.candidate
         /\ j.op = "rollback" => Transition(j).targets = j.manifest
<1>1. CASE j.op = "update" /\ j.phase = "reuse"
  <2>1. j.ref = j.candidate BY <1>1 DEF Sensible
  <2>2. Transition(j) = [registry EXCEPT !.image = j.ref, !.ready = TRUE] BY <1>1 DEF Transition
  <2> QED BY <1>1, <2>1, <2>2 DEF Registry
<1>2. CASE j.op = "update" /\ j.phase # "reuse" BY <1>2 DEF Transition
<1>3. CASE j.op = "rollback" BY <1>3 DEF Transition
<1> QED BY <1>1, <1>2, <1>3

\* A call that fails, in the controller or on the way back.
LEMMA CallBehind ==
  ASSUME Typed, Safe, NEW h \in Host, NEW do \in StepName, At(h, do), job[h].op # "stop",
         do # "reactivate", Fail(h) \/ Fault(h), UNCHANGED <<dockerVars, fileVars, lock, boundVars>>
  PROVE  Safe'
<1>1. /\ Busy(h) /\ job[h].todo # <<>> /\ job[h] \in Work /\ Left(h) \in Nat \ {0}
      /\ Where(h, do) /\ lock = h /\ (resident # None => resident.image \in images)
  BY SafeHere, Zenon
<1>2. /\ lock' = lock /\ stopped' = stopped /\ unrestored' = unrestored /\ images' = images
      /\ active' = active /\ resident' = resident
  BY DEF boundVars, historyVars, fileVars, dockerVars
<1>3. Behind(h) BY <1>1, <1>2, Moves
<1> QED BY <1>1, <1>2, <1>3, BehindSafe

LEMMA CommitSafe ==
  ASSUME Typed, Safe, NEW h \in Host, Commit(h), job[h].op # "stop"
  PROVE  Safe'
<1> DEFINE j == job[h]
           k == job'[h]
<1>1. At(h, "commit") /\ UNCHANGED <<dockerVars, fileVars, lock, boundVars>> BY DEF Commit
<1>2. CASE Fail(h) \/ Fault(h) BY <1>1, <1>2, CallBehind DEF StepName
<1>3. CASE ~(Fail(h) \/ Fault(h))
  <2>1. resident # None /\ resident.up /\ registry' = Transition(j) /\ Advance(h)
    BY <1>3 DEF Commit, Call
  <2>2. /\ Busy(h) /\ j.todo # <<>> /\ j \in Work /\ Left(h) \in Nat \ {0}
        /\ Where(h, "commit") /\ Sensible(j) /\ lock = h
        /\ Keeps(j, Left(h)) /\ Places(j, Left(h)) /\ Tells(j, Left(h))
        /\ (resident # None => resident.image \in images)
    BY <1>1, SafeHere, Zenon
  <2>3. /\ lock' = lock /\ stopped' = stopped /\ unrestored' = unrestored /\ images' = images
        /\ active' = active /\ mounts' = mounts /\ plan' = plan /\ resident' = resident
    BY <1>1 DEF boundVars, historyVars, fileVars, dockerVars
  <2>4. Ahead(h) BY <2>1, <2>2, <2>3, Moves
  <2>5. /\ Kept(j, k) /\ k.phase = j.phase /\ k.result = j.result /\ k.manifest = j.manifest
        /\ (k.projected => j.projected)
        /\ Left(h)' = Left(h) - 1 /\ Left(h)' \in Nat /\ j.phase # "unchanged"
    BY <2>2, <2>4, AheadJob, Zenon
  <2>6. registry \in Registry BY DEF Typed, FilesTyped
  <2>7. /\ j.op \in {"update", "rollback"} => registry'.image = j.candidate
        /\ j.op = "rollback" => registry'.targets = j.manifest
    BY <2>1, <2>2, <2>6, TransitionTells, Zenon DEF Where
  <2>8. Keeps(job[h], Left(h))' BY <2>2, <2>3, <2>5 DEF Keeps, Kept, Where, Point
  <2>9. Places(job[h], Left(h))' BY <2>2, <2>3, <2>5 DEF Places, Manifest, Is, Valid, Kept, Where, Point
  <2>10. Runs(job[h], Left(h))' BY <2>1, <2>3, <2>5 DEF Runs
  <2>11. Tells(job[h], Left(h))' BY <2>2, <2>3, <2>5, <2>7 DEF Tells, Kept, Where, Point
  <2>12. k.old = j.old BY <2>5 DEF Kept
  <2> QED BY <2>2, <2>3, <2>8, <2>9, <2>10, <2>11, <2>12, SafeAfter
<1> QED BY <1>2, <1>3

LEMMA ReadySafe ==
  ASSUME Typed, Safe, NEW h \in Host, Ready(h), job[h].op # "stop"
  PROVE  Safe'
<1> DEFINE j == job[h]
           k == job'[h]
<1>1. At(h, "ready") /\ UNCHANGED <<dockerVars, fileVars, lock, boundVars>> BY DEF Ready
<1>2. CASE Fail(h) \/ Fault(h) BY <1>1, <1>2, CallBehind DEF StepName
<1>3. CASE ~(Fail(h) \/ Fault(h))
  <2>1. /\ resident # None /\ resident.up /\ Advance(h)
        /\ registry' = [registry EXCEPT !.image = j.ref, !.ready = TRUE]
    BY <1>3 DEF Ready, Call
  <2>2. /\ Busy(h) /\ j.todo # <<>> /\ j \in Work /\ Left(h) \in Nat \ {0}
        /\ Where(h, "ready") /\ Sensible(j) /\ lock = h
        /\ Keeps(j, Left(h)) /\ Places(j, Left(h)) /\ Tells(j, Left(h))
        /\ (resident # None => resident.image \in images)
    BY <1>1, SafeHere, Zenon
  <2>3. /\ lock' = lock /\ stopped' = stopped /\ unrestored' = unrestored /\ images' = images
        /\ active' = active /\ mounts' = mounts /\ plan' = plan /\ resident' = resident
    BY <1>1 DEF boundVars, historyVars, fileVars, dockerVars
  <2>4. Ahead(h) BY <2>1, <2>2, <2>3, Moves
  <2>5. /\ Kept(j, k) /\ k.phase = j.phase /\ k.result = j.result /\ k.manifest = j.manifest
        /\ (k.projected => j.projected)
        /\ Left(h)' = Left(h) - 1 /\ Left(h)' \in Nat /\ j.phase # "unchanged"
    BY <2>2, <2>4, AheadJob, Zenon
  <2>6. registry'.targets = registry.targets /\ registry'.image = j.ref
    BY <2>1 DEF Typed, FilesTyped, Registry
  <2>7. /\ j.op = "rollback" /\ j.phase = "run" => j.ref = j.candidate
        /\ j.phase = "recover" => j.ref = j.old
    BY <2>2 DEF Sensible
  <2>8. Keeps(job[h], Left(h))' BY <2>2, <2>3, <2>5 DEF Keeps, Kept, Where, Point
  <2>9. Places(job[h], Left(h))'
    BY <2>2, <2>3, <2>5, <2>6 DEF Places, Manifest, Is, Valid, Kept, Where, Point
  <2>10. Runs(job[h], Left(h))' BY <2>1, <2>3, <2>5 DEF Runs
  <2>11. Tells(job[h], Left(h))' BY <2>2, <2>3, <2>5, <2>6, <2>7 DEF Tells, Kept, Where, Point
  <2>12. k.old = j.old BY <2>5 DEF Kept
  <2> QED BY <2>2, <2>3, <2>8, <2>9, <2>10, <2>11, <2>12, SafeAfter
<1> QED BY <1>2, <1>3

\* The first step of a restoration.
LEMMA RestoreSafe ==
  ASSUME Typed, Safe, NEW h \in Host, Restore(h), job[h].op # "stop"
  PROVE  Safe'
<1> DEFINE j == job[h]
           k == job'[h]
<1>1. At(h, "restore") /\ UNCHANGED <<dockerVars, fileVars, lock, boundVars>> BY DEF Restore
<1>2. CASE Fail(h) \/ Fault(h) BY <1>1, <1>2, CallBehind DEF StepName
<1>3. CASE ~(Fail(h) \/ Fault(h))
  <2>1. Advance(h) BY <1>3 DEF Restore, Call
  <2>2. /\ Busy(h) /\ j.todo # <<>> /\ j \in Work /\ Left(h) \in Nat \ {0}
        /\ Where(h, "restore") /\ Sensible(j) /\ lock = h /\ Keeps(j, Left(h))
        /\ (resident # None => resident.image \in images)
    BY <1>1, SafeHere, Zenon
  <2>3. /\ lock' = lock /\ stopped' = stopped /\ unrestored' = unrestored /\ images' = images
        /\ active' = active /\ resident' = resident
    BY <1>1 DEF boundVars, historyVars, fileVars, dockerVars
  <2>4. Ahead(h) BY <2>1, <2>2, <2>3, Moves
  <2>5. /\ Kept(j, k) /\ k.phase = j.phase /\ k.result = j.result /\ k.manifest = j.manifest
        /\ (k.projected => j.projected)
        /\ Left(h)' = Left(h) - 1 /\ Left(h)' \in Nat
    BY <2>2, <2>4, AheadJob, Zenon
  <2>6. /\ j.phase = "recover" /\ j.op # "stop"
        /\ Left(h) = (IF j.op = "update" THEN 8 ELSE 7)
    BY <2>2 DEF Where, Point
  <2>7. Left(h)' \in {6, 7} /\ (j.op \in {"add", "remove"} => j.result # "ok")
    <3>1. j.op \in {"add", "remove"} => j.result # "ok"
      BY <2>2, <2>6 DEF Sensible
    <3>2. Left(h) = 8 \/ Left(h) = 7 BY <2>6
    <3>3. Left(h)' \in {6, 7} BY <2>5, <3>2
    <3> QED BY <3>1, <3>3
  <2>8. Keeps(job[h], Left(h))' BY <2>2, <2>3, <2>5, <2>6, <2>7 DEF Keeps, Kept
  <2>9. Places(job[h], Left(h))' BY <2>5, <2>6, <2>7 DEF Places, Manifest, Kept
  <2>10. Runs(job[h], Left(h))' BY <2>5, <2>6, <2>7 DEF Runs, Kept
  <2>11. Tells(job[h], Left(h))' BY <2>5, <2>6 DEF Tells
  <2>12. k.old = j.old BY <2>5 DEF Kept
  <2> QED BY <2>2, <2>3, <2>8, <2>9, <2>10, <2>11, <2>12, SafeAfter
<1> QED BY <1>2, <1>3

----------------------------------------------------------------------------
(* The writes of the state files and the removal of the candidate.         *)

LEMMA PublishSafe ==
  ASSUME Typed, Safe, NEW h \in Host, Publish(h), job[h].op # "stop"
  PROVE  Safe'
<1> DEFINE j == job[h]
           k == job'[h]
<1>1. /\ At(h, "publish") /\ UNCHANGED <<dockerVars, active, registry, lock, boundVars>>
  BY DEF Publish
<1>2. /\ Busy(h) /\ j.todo # <<>> /\ j \in Work /\ Left(h) \in Nat \ {0}
      /\ Where(h, "publish") /\ Sensible(j) /\ lock = h
      /\ Keeps(j, Left(h)) /\ Places(j, Left(h)) /\ Tells(j, Left(h))
      /\ (~stopped => Runs(j, Left(h)))
      /\ (resident # None => resident.image \in images)
  BY <1>1, SafeHere, Zenon
<1>3. /\ lock' = lock /\ stopped' = stopped /\ unrestored' = unrestored /\ images' = images
      /\ active' = active /\ registry' = registry /\ resident' = resident
  BY <1>1 DEF boundVars, historyVars, dockerVars
<1>4. Ahead(h) BY PublishMoves
<1>5. /\ Kept(j, k) /\ k.phase = j.phase /\ k.result = j.result /\ k.manifest = j.manifest
        /\ (k.projected => j.projected)
      /\ Left(h)' = Left(h) - 1 /\ Left(h)' \in Nat /\ j.phase # "unchanged"
  BY <1>2, <1>4, AheadJob, Zenon
<1>6. j.op \in {"add", "remove", "update", "rollback"} /\ j.phase \in {"run", "reuse"}
      /\ (k.projected => mounts' = registry.targets)
  BY <1>2, PublishMoves DEF Where, Point
<1>7. Keeps(job[h], Left(h))' BY <1>2, <1>3, <1>5 DEF Keeps, Kept, Where, Point
<1>8. Places(job[h], Left(h))'
  BY <1>2, <1>3, <1>5, <1>6 DEF Places, Manifest, Is, Valid, Kept, Where, Point
<1>9. ~stopped => Runs(job[h], Left(h))' BY <1>2, <1>3, <1>5 DEF Runs, Kept, Where, Point
<1>10. Tells(job[h], Left(h))' BY <1>2, <1>3, <1>5 DEF Tells, Kept, Where, Point
<1>11. k.old = j.old BY <1>5 DEF Kept
<1> QED BY <1>2, <1>3, <1>7, <1>8, <1>9, <1>10, <1>11, SafeAfter

LEMMA ReadbackSafe ==
  ASSUME Typed, Safe, NEW h \in Host, Readback(h), job[h].op # "stop"
  PROVE  Safe'
<1> DEFINE j == job[h]
           k == job'[h]
<1>1. At(h, "readback") /\ UNCHANGED <<dockerVars, fileVars, registry, lock, boundVars>>
  BY DEF Readback
<1>2. CASE Fail(h) \/ Fault(h) BY <1>1, <1>2, CallBehind DEF StepName
<1>3. CASE ~(Fail(h) \/ Fault(h))
  <2>1. Valid(j.expect, mounts) /\ Advance(h) BY <1>3 DEF Readback
  <2>2. /\ Busy(h) /\ j.todo # <<>> /\ j \in Work /\ Left(h) \in Nat \ {0}
        /\ Where(h, "readback") /\ Sensible(j) /\ lock = h
        /\ Keeps(j, Left(h)) /\ Places(j, Left(h)) /\ Tells(j, Left(h))
        /\ (~stopped => Runs(j, Left(h)))
        /\ (resident # None => resident.image \in images)
    BY <1>1, SafeHere, Zenon
  <2>3. /\ lock' = lock /\ stopped' = stopped /\ unrestored' = unrestored /\ images' = images
        /\ active' = active /\ mounts' = mounts /\ plan' = plan /\ resident' = resident
        /\ registry' = registry
    BY <1>1 DEF boundVars, historyVars, fileVars, dockerVars
  <2>4. Ahead(h) BY <2>1, <2>2, <2>3, Moves
  <2>5. /\ Kept(j, k) /\ k.phase = j.phase /\ k.result = j.result /\ k.manifest = j.manifest
        /\ (k.projected => j.projected)
        /\ Left(h)' = Left(h) - 1 /\ Left(h)' \in Nat /\ j.phase # "unchanged"
    BY <2>2, <2>4, AheadJob, Zenon
  <2>6. resident # None /\ resident.image = j.expect /\ resident.mounts = mounts
    BY <2>1 DEF Valid
  <2>7. /\ j.op \in {"add", "remove"} => j.expect = j.old
        /\ j.op = "rollback" /\ j.phase = "run" => j.expect = j.candidate
    BY <2>2 DEF Sensible
  <2>8. Keeps(job[h], Left(h))' BY <2>2, <2>3, <2>5 DEF Keeps, Kept, Where, Point
  <2>9. Places(job[h], Left(h))'
    BY <2>2, <2>3, <2>5, <2>6, <2>7 DEF Places, Manifest, Is, Valid, Kept, Where, Point
  <2>10. ~stopped => Runs(job[h], Left(h))' BY <2>2, <2>3, <2>5 DEF Runs, Kept, Where, Point
  <2>11. Tells(job[h], Left(h))' BY <2>2, <2>3, <2>5 DEF Tells, Kept, Where, Point
  <2>12. k.old = j.old BY <2>5 DEF Kept
  <2> QED BY <2>2, <2>3, <2>8, <2>9, <2>10, <2>11, <2>12, SafeAfter
<1> QED BY <1>2, <1>3

\* A step on a state file that fails.
LEMMA FileBehind ==
  ASSUME Typed, Safe, NEW h \in Host, NEW do \in StepName, At(h, do), job[h].op # "stop",
         Fail(h) \/ Fault(h), UNCHANGED <<resident, images, active, lock, stopped>>,
         unrestored => unrestored', do = "reactivate" => unrestored'
  PROVE  Safe'
<1>1. /\ Busy(h) /\ job[h].todo # <<>> /\ job[h] \in Work /\ Left(h) \in Nat \ {0}
      /\ Where(h, do) /\ lock = h /\ (resident # None => resident.image \in images)
  BY SafeHere, Zenon
<1>2. Behind(h) BY <1>1, Moves
<1> QED BY <1>1, <1>2, BehindSafe

LEMMA RecordSafe ==
  ASSUME Typed, Safe, NEW h \in Host, Record(h), job[h].op # "stop"
  PROVE  Safe'
<1> DEFINE j == job[h]
           k == job'[h]
<1>1. At(h, "record") BY DEF Record
<1>2. /\ lock' = lock /\ stopped' = stopped /\ unrestored' = unrestored /\ images' = images
      /\ mounts' = mounts /\ plan' = plan /\ resident' = resident /\ registry' = registry
  BY DEF Record, boundVars, historyVars, dockerVars
<1>3. CASE (Fail(h) \/ Fault(h)) /\ active' = active
  BY <1>1, <1>2, <1>3, FileBehind DEF StepName
<1>4. CASE resident # None /\ active' = resident.image /\ Advance(h)
  <2>1. resident # None /\ active' = resident.image /\ Advance(h) BY <1>4
  <2>2. /\ Busy(h) /\ j.todo # <<>> /\ j \in Work /\ Left(h) \in Nat \ {0}
        /\ Where(h, "record") /\ Sensible(j) /\ lock = h
        /\ Keeps(j, Left(h)) /\ Places(j, Left(h)) /\ Tells(j, Left(h))
        /\ (resident # None => resident.image \in images)
    BY <1>1, SafeHere, Zenon
  <2>4. Ahead(h) BY <2>1, <2>2, <1>2, Moves
  <2>5. /\ Kept(j, k) /\ k.phase = j.phase /\ k.result = j.result /\ k.manifest = j.manifest
        /\ (k.projected => j.projected)
        /\ Left(h)' = Left(h) - 1 /\ Left(h)' \in Nat /\ j.phase # "unchanged"
    BY <2>2, <2>4, AheadJob, Zenon
  <2>6. j.result = "ok" /\ j.phase \in {"run", "reuse"} BY <2>2 DEF Sensible, Where, Point
  <2>7. active' = j.candidate
    BY <2>1, <2>2, <2>6 DEF Places, Manifest, Is, Valid, Where, Point
  <2>8. j.phase = "reuse" => j.candidate = j.old BY <2>2 DEF Sensible
  <2>9. Keeps(job[h], Left(h))' BY <2>2, <2>5, <2>6, <2>7, <2>8 DEF Keeps, Kept, Where, Point
  <2>10. Places(job[h], Left(h))'
    BY <2>2, <1>2, <2>5 DEF Places, Manifest, Is, Valid, Kept, Where, Point
  <2>11. Runs(job[h], Left(h))' BY <2>2, <2>5 DEF Runs, Kept, Where, Point
  <2>12. Tells(job[h], Left(h))' BY <2>2, <1>2, <2>5, <2>7 DEF Tells, Kept, Where, Point
  <2>13. k.old = j.old BY <2>5 DEF Kept
  <2>14. active' \in images' BY <1>2, <2>1, <2>2
  <2> QED BY <2>2, <1>2, <2>9, <2>10, <2>11, <2>12, <2>13, <2>14, SafeAfter
<1> QED BY <1>3, <1>4 DEF Record

LEMMA KeepPlanSafe ==
  ASSUME Typed, Safe, NEW h \in Host, KeepPlan(h), job[h].op # "stop"
  PROVE  Safe'
<1> DEFINE j == job[h]
           k == job'[h]
<1>1. At(h, "keep") BY DEF KeepPlan
<1>2. /\ lock' = lock /\ stopped' = stopped /\ unrestored' = unrestored /\ images' = images
      /\ mounts' = mounts /\ active' = active /\ resident' = resident /\ registry' = registry
  BY DEF KeepPlan, boundVars, historyVars, dockerVars
<1>3. CASE Fault(h) BY <1>1, <1>2, <1>3, FileBehind DEF StepName
<1>4. CASE ~Fault(h)
  <2>1. plan' = j.pending /\ Advance(h) BY <1>4 DEF KeepPlan
  <2>2. /\ Busy(h) /\ j.todo # <<>> /\ j \in Work /\ Left(h) \in Nat \ {0}
        /\ Where(h, "keep") /\ Sensible(j) /\ lock = h
        /\ Keeps(j, Left(h)) /\ Places(j, Left(h)) /\ Tells(j, Left(h))
        /\ (resident # None => resident.image \in images)
    BY <1>1, SafeHere, Zenon
  <2>4. Ahead(h) BY <2>1, <2>2, <1>2, Moves
  <2>5. /\ Kept(j, k) /\ k.phase = j.phase /\ k.result = j.result /\ k.manifest = j.manifest
        /\ (k.projected => j.projected)
        /\ Left(h)' = Left(h) - 1 /\ Left(h)' \in Nat /\ j.phase # "unchanged"
    BY <2>2, <2>4, AheadJob, Zenon
  <2>6. j.op = "update" /\ Left(h) = 1 /\ j.phase \in {"run", "reuse"}
    BY <2>2 DEF Where, Point
  <2>7. Keeps(job[h], Left(h))' BY <1>2, <2>2, <2>5, <2>6 DEF Keeps, Kept
  <2>8. Places(job[h], Left(h))' BY <1>2, <2>2, <2>5, <2>6 DEF Places, Manifest, Is, Valid, Kept
  <2>9. Runs(job[h], Left(h))' BY <2>5, <2>6 DEF Runs, Kept
  <2>10. Tells(job[h], Left(h))' BY <1>2, <2>1, <2>2, <2>5, <2>6 DEF Tells, Kept
  <2>11. k.old = j.old BY <2>5 DEF Kept
  <2> QED BY <1>2, <2>2, <2>7, <2>8, <2>9, <2>10, <2>11, SafeAfter
<1> QED BY <1>3, <1>4

LEMMA ReactivateSafe ==
  ASSUME Typed, Safe, NEW h \in Host, Reactivate(h), job[h].op # "stop"
  PROVE  Safe'
<1> DEFINE j == job[h]
           k == job'[h]
<1>1. At(h, "reactivate") BY DEF Reactivate
<1>2. /\ lock' = lock /\ stopped' = stopped /\ images' = images
      /\ mounts' = mounts /\ plan' = plan /\ resident' = resident /\ registry' = registry
  BY DEF Reactivate, dockerVars
<1>3. CASE Fault(h) /\ active' = active /\ unrestored'
  BY <1>1, <1>2, <1>3, FileBehind DEF StepName
<1>4. CASE active' = j.old /\ Advance(h) /\ unrestored' = unrestored
  <2>2. /\ Busy(h) /\ j.todo # <<>> /\ j \in Work /\ Left(h) \in Nat \ {0}
        /\ Where(h, "reactivate") /\ Sensible(j) /\ lock = h
        /\ Places(j, Left(h)) /\ Tells(j, Left(h)) /\ (~stopped => Runs(j, Left(h)))
        /\ (resident # None => resident.image \in images)
        /\ (~unrestored => active \in images /\ job[h].old \in images)
    BY <1>1, SafeHere, Zenon
  <2>4. Ahead(h) BY <1>4, <2>2, <1>2, Moves
  <2>5. /\ Kept(j, k) /\ k.phase = j.phase /\ k.result = j.result /\ k.manifest = j.manifest
        /\ (k.projected => j.projected)
        /\ Left(h)' = Left(h) - 1 /\ Left(h)' \in Nat /\ j.phase # "unchanged"
    BY <2>2, <2>4, AheadJob, Zenon
  <2>6. j.op = "update" /\ j.phase = "recover" /\ Left(h) = 2 BY <2>2 DEF Where, Point
  <2>7. k.old = j.old BY <2>5 DEF Kept
  <2>8. Keeps(job[h], Left(h))' BY <1>4, <2>7 DEF Keeps
  <2>9. Places(job[h], Left(h))'
    BY <1>2, <2>2, <2>5, <2>6 DEF Places, Manifest, Is, Valid, Kept
  <2>10. ~stopped => Runs(job[h], Left(h))' BY <1>2, <2>2, <2>5, <2>6 DEF Runs, Kept
  <2>11. Tells(job[h], Left(h))' BY <1>2, <2>2, <2>5, <2>6 DEF Tells, Kept
  <2>12. ~unrestored' => active' \in images' /\ j.old \in images' BY <1>2, <1>4, <2>2
  <2> QED BY <1>2, <2>2, <2>7, <2>8, <2>9, <2>10, <2>11, <2>12, SafeThen
<1> QED BY <1>3, <1>4 DEF Reactivate

\* The image that goes is neither the one to go back to nor the record's.
LEMMA DiscardSafe ==
  ASSUME Typed, Safe, NEW h \in Host, DiscardImage(h), job[h].op # "stop"
  PROVE  Safe'
<1> DEFINE j == job[h]
           k == job'[h]
<1>1. At(h, "discard") BY DEF DiscardImage
<1>2. /\ lock' = lock /\ stopped' = stopped /\ unrestored' = unrestored
      /\ mounts' = mounts /\ plan' = plan /\ resident' = resident /\ registry' = registry
      /\ active' = active
  BY DEF DiscardImage, boundVars, historyVars, fileVars
<1>3. CASE (Fail(h) \/ Fault(h)) /\ images' = images
  BY <1>1, <1>2, <1>3, FileBehind DEF StepName
<1>4. CASE /\ Advance(h)
           /\ \/ images' = images
              \/ /\ j.candidate # j.old /\ images' = images \ {j.candidate}
                 /\ resident # None => resident.image # j.candidate
  <2>2. /\ Busy(h) /\ j.todo # <<>> /\ j \in Work /\ Left(h) \in Nat \ {0}
        /\ Where(h, "discard") /\ Sensible(j) /\ lock = h
        /\ Keeps(j, Left(h)) /\ Places(j, Left(h)) /\ Tells(j, Left(h))
        /\ (~stopped => Runs(j, Left(h)))
        /\ (resident # None => resident.image \in images)
        /\ (~unrestored => active \in images /\ job[h].old \in images)
    BY <1>1, SafeHere, Zenon
  <2>4. Ahead(h) BY <1>4, <2>2, <1>2, Moves
  <2>5. /\ Kept(j, k) /\ k.phase = j.phase /\ k.result = j.result /\ k.manifest = j.manifest
        /\ (k.projected => j.projected)
        /\ Left(h)' = Left(h) - 1 /\ Left(h)' \in Nat /\ j.phase # "unchanged"
    BY <2>2, <2>4, AheadJob, Zenon
  <2>6. \/ j.op = "update" /\ j.phase = "undo"
        \/ j.phase = "recover" /\ Left(h) = 1
    BY <2>2 DEF Where, Point
  <2>7. k.old = j.old BY <2>5 DEF Kept
  <2>8. active = j.old \/ unrestored BY <2>2, <2>6 DEF Keeps
  <2>9. Keeps(job[h], Left(h))' BY <1>2, <2>2, <2>5, <2>6 DEF Keeps, Kept
  <2>10. Places(job[h], Left(h))'
    BY <1>2, <2>2, <2>5, <2>6 DEF Places, Manifest, Is, Valid, Kept, Sensible
  <2>11. ~stopped => Runs(job[h], Left(h))' BY <1>2, <2>2, <2>5, <2>6 DEF Runs, Kept
  <2>12. Tells(job[h], Left(h))' BY <1>2, <2>2, <2>5, <2>6 DEF Tells, Kept
  <2>13. ~unrestored' => active' \in images' /\ j.old \in images' BY <1>2, <1>4, <2>2, <2>8
  <2>14. resident' # None => resident'.image \in images' BY <1>2, <1>4, <2>2
  <2> QED BY <1>2, <2>2, <2>7, <2>9, <2>10, <2>11, <2>12, <2>13, <2>14, SafeThen
<1> QED BY <1>3, <1>4 DEF DiscardImage

LEMMA PerformSafe ==
  ASSUME Typed, Safe, NEW h \in Host, Perform(h)
  PROVE  Safe'
<1>1. CASE job[h].op = "stop"
  <2>1. Aside BY <1>1, StopAside
  <2> QED BY <2>1, AsideKeeps DEF Safe
<1>2. CASE job[h].op # "stop"
  <2>1. ~Halt(h)
    <3>1. ASSUME Halt(h) PROVE FALSE
      <4>1. Where(h, "halt") BY <3>1, AtHere, Zenon DEF Halt
      <4> QED BY <1>2, <4>1 DEF Where, Point
    <3> QED BY <3>1
  <2>2. \/ Build(h) \/ StopContainer(h) \/ RemoveContainer(h) \/ CreateContainer(h) \/ Boot(h)
        \/ Commit(h) \/ Ready(h) \/ Restore(h) \/ Publish(h) \/ Readback(h) \/ Record(h)
        \/ KeepPlan(h) \/ Reactivate(h) \/ DiscardImage(h)
    BY <2>1, Zenon DEF Perform
  <2> QED BY <1>2, <2>2, BuildSafe, TeardownSafe, CreateSafe, BootSafe, CommitSafe, ReadySafe,
             RestoreSafe, PublishSafe, ReadbackSafe, RecordSafe, KeepPlanSafe, ReactivateSafe,
             DiscardSafe, Zenon
<1> QED BY <1>1, <1>2

----------------------------------------------------------------------------
(* An operation begins, ends or is killed.                                 *)

LEMMA BeginSafe ==
  ASSUME Typed, Safe, NEW h \in Host, NEW k, Begin(h, k), Sensible(k), k.op # "stop",
         retained' \subseteq images, k.old = active, k.backup = mounts,
         Left(h)' = Len(k.todo), Len(k.todo) \in Nat,
         \/ k.phase = "unchanged" /\ Valid(active, mounts) /\ k.target \in mounts
            /\ k.op = "add"
         \/ k.op = "add" /\ k.phase = "run" /\ Len(k.todo) = 7
         \/ k.op = "remove" /\ k.phase = "run" /\ Len(k.todo) = 12
         \/ k.op = "update" /\ k.phase = "build" /\ Len(k.todo) = 1
         \/ k.op = "rollback" /\ k.phase = "run" /\ Len(k.todo) = 9
  PROVE  Safe'
<1>1. /\ lock = None /\ lock' = h /\ job'[h] = k
      /\ UNCHANGED <<resident, images, fileVars, registry, historyVars>>
  BY BeginTyped
<1>2. /\ resident' = resident /\ images' = images /\ active' = active /\ mounts' = mounts
      /\ plan' = plan /\ registry' = registry /\ stopped' = stopped /\ unrestored' = unrestored
  BY <1>1 DEF fileVars, historyVars
<1>3. \A g \in Host : lock' = g => g = h BY <1>1
<1>4. Keeps(job[h], Left(h))' BY <1>1, <1>2 DEF Keeps
<1>0. ImagesExist' BY <1>1, <1>2, <1>3 DEF Safe, ImagesExist, ActiveImageExists
<1> SUFFICES Places(job[h], Left(h))' /\ Runs(job[h], Left(h))' /\ Tells(job[h], Left(h))'
  BY <1>0, <1>3, <1>4 DEF Safe, ActiveKept, InPlace, Running, Told
<1>5. CASE k.phase = "unchanged" /\ Valid(active, mounts) /\ k.target \in mounts /\ k.op = "add"
  <2>1. Places(job[h], Left(h))' BY <1>1, <1>2, <1>5 DEF Places, Manifest, Is, Valid
  <2>2. Runs(job[h], Left(h))' BY <1>1, <1>2, <1>5 DEF Runs, Valid
  <2>3. Tells(job[h], Left(h))' BY <1>1, <1>5 DEF Tells
  <2> QED BY <2>1, <2>2, <2>3
<1>6. CASE k.op = "add" /\ k.phase = "run" /\ Len(k.todo) = 7
  <2>1. Places(job[h], Left(h))' BY <1>1, <1>6 DEF Places, Manifest
  <2>2. Runs(job[h], Left(h))' BY <1>1, <1>6 DEF Runs
  <2>3. Tells(job[h], Left(h))' BY <1>1, <1>6 DEF Tells
  <2> QED BY <2>1, <2>2, <2>3
<1>7. CASE k.op = "remove" /\ k.phase = "run" /\ Len(k.todo) = 12
  <2>1. Places(job[h], Left(h))' BY <1>1, <1>7 DEF Places, Manifest
  <2>2. Runs(job[h], Left(h))' BY <1>1, <1>7 DEF Runs
  <2>3. Tells(job[h], Left(h))' BY <1>1, <1>7 DEF Tells
  <2> QED BY <2>1, <2>2, <2>3
<1>8. CASE k.op = "update" /\ k.phase = "build" /\ Len(k.todo) = 1
  <2>1. Places(job[h], Left(h))' BY <1>1, <1>2, <1>8 DEF Places, Manifest
  <2>2. Runs(job[h], Left(h))' BY <1>1, <1>8 DEF Runs
  <2>3. Tells(job[h], Left(h))' BY <1>1, <1>8 DEF Tells
  <2> QED BY <2>1, <2>2, <2>3
<1>9. CASE k.op = "rollback" /\ k.phase = "run" /\ Len(k.todo) = 9
  <2>1. Places(job[h], Left(h))' BY <1>1, <1>9 DEF Places, Manifest
  <2>2. Runs(job[h], Left(h))' BY <1>1, <1>9 DEF Runs
  <2>3. Tells(job[h], Left(h))' BY <1>1, <1>9 DEF Tells
  <2> QED BY <2>1, <2>2, <2>3
<1> QED BY <1>5, <1>6, <1>7, <1>8, <1>9

LEMMA BeginTargetSafe ==
  ASSUME Typed, Safe, NEW h \in Host, NEW op \in {"add", "remove"}, NEW t \in Target,
         BeginTarget(h, op, t)
  PROVE  Typed' /\ Safe'
<1>1. retained' \subseteq images BY DEF BeginTarget, Typed, FilesTyped
<1>2. CASE /\ Unchanged(op, t)
           /\ Begin(h, [Job(op, t, active, <<>>) EXCEPT !.phase = "unchanged"])
  <2> DEFINE k == [Job(op, t, active, <<>>) EXCEPT !.phase = "unchanged"]
  <2>1. Sensible(k) /\ Fresh(k, op, t, active, active) /\ k.phase = "unchanged" /\ Len(k.todo) = 0
    BY UnchangedJob, Zenon
  <2>2. Begin(h, k) BY <1>2
  <2> HIDE DEF k
  <2>3. /\ k.old = active /\ k.backup = mounts /\ k.op = op /\ k.target = t
    BY <2>1 DEF Fresh
  <2>4. k.op # "stop" BY <2>3
  <2>5. Typed' /\ job'[h] = k BY <1>1, <2>1, <2>2, <2>4, BeginTyped
  <2>6. Left(h)' = Len(k.todo) /\ Len(k.todo) \in Nat BY <2>1, <2>5 DEF Left
  <2>7. k.op = "add" /\ k.target \in mounts /\ Valid(active, mounts) BY <1>2, <2>3 DEF Unchanged
  <2> QED BY <1>1, <2>1, <2>2, <2>3, <2>4, <2>5, <2>6, <2>7, BeginSafe
<1>3. CASE Begin(h, Job(op, t, active, TargetScript(op)))
  <2> DEFINE k == Job(op, t, active, TargetScript(op))
  <2>1. /\ Sensible(k) /\ Fresh(k, op, t, active, active)
        /\ k.phase = "run" /\ Len(k.todo) = IF op = "add" THEN 7 ELSE 12
    BY TargetJob, Zenon
  <2>2. Begin(h, k) BY <1>3
  <2> HIDE DEF k
  <2>3. /\ k.old = active /\ k.backup = mounts /\ k.op = op BY <2>1 DEF Fresh
  <2>4. k.op # "stop" BY <2>3
  <2>5. Typed' /\ job'[h] = k BY <1>1, <2>1, <2>2, <2>4, BeginTyped
  <2>6. \/ k.op = "add" /\ Len(k.todo) = 7
        \/ k.op = "remove" /\ Len(k.todo) = 12
    BY <2>1, <2>3
  <2>7. Left(h)' = Len(k.todo) /\ Len(k.todo) \in Nat BY <2>5, <2>6 DEF Left
  <2> QED BY <1>1, <2>1, <2>2, <2>3, <2>4, <2>5, <2>6, <2>7, BeginSafe
<1> QED BY <1>2, <1>3 DEF BeginTarget

LEMMA BeginUpdateSafe ==
  ASSUME Typed, Safe, NEW h \in Host, NEW c \in Image, BeginUpdate(h, c)
  PROVE  Typed' /\ Safe'
<1> DEFINE k == [Job("update", None, c, On("exit", <<"build">>)) EXCEPT
                   !.phase = "build", !.pending = [image |-> active, targets |-> mounts]]
<1>1. retained' \subseteq images BY DEF BeginUpdate, Typed, FilesTyped
<1>2. /\ Sensible(k) /\ Fresh(k, "update", None, c, active)
      /\ k.phase = "build" /\ Len(k.todo) = 1
  BY UpdateJob, Zenon
<1>3. Begin(h, k) BY DEF BeginUpdate
<1> HIDE DEF k
<1>4. k.old = active /\ k.backup = mounts /\ k.op = "update" BY <1>2 DEF Fresh
<1>5. k.op # "stop" BY <1>4
<1>6. Typed' /\ job'[h] = k BY <1>1, <1>2, <1>3, <1>5, BeginTyped
<1>7. Left(h)' = Len(k.todo) /\ Len(k.todo) \in Nat BY <1>2, <1>6 DEF Left
<1> QED BY <1>1, <1>2, <1>3, <1>4, <1>5, <1>6, <1>7, BeginSafe

LEMMA BeginRollbackSafe ==
  ASSUME Typed, Safe, NEW h \in Host, BeginRollback(h)
  PROVE  Typed' /\ Safe'
<1> DEFINE k == [Job("rollback", None, plan.image, RollbackScript) EXCEPT
                   !.ref = plan.image, !.expect = plan.image, !.manifest = plan.targets]
<1>1. retained' \subseteq images /\ plan # None BY DEF BeginRollback, Typed, FilesTyped
<1>2. /\ Sensible(k) /\ Fresh(k, "rollback", None, plan.image, plan.image)
      /\ k.phase = "run" /\ Len(k.todo) = 9
  BY <1>1, RollbackJob, Zenon
<1>3. Begin(h, k) BY DEF BeginRollback
<1> HIDE DEF k
<1>4. k.old = active /\ k.backup = mounts /\ k.op = "rollback" BY <1>2 DEF Fresh
<1>5. k.op # "stop" BY <1>4
<1>6. Typed' /\ job'[h] = k BY <1>1, <1>2, <1>3, <1>5, BeginTyped
<1>7. Left(h)' = Len(k.todo) /\ Len(k.todo) \in Nat BY <1>2, <1>6 DEF Left
<1> QED BY <1>1, <1>2, <1>3, <1>4, <1>5, <1>6, <1>7, BeginSafe

\* A script that ends or is killed leaves its files; what others hold stays.
LEMMA EndSafe ==
  ASSUME Safe, NEW h \in Host, (lock # h => lock' = lock), (lock = h => lock' = None),
         \A g \in Host \ {h} : job'[g] = job[g],
         UNCHANGED <<dockerVars, fileVars, registry, historyVars>>
  PROVE  Safe'
<1>1. \A g \in Host : lock' = g => lock = g /\ job'[g] = job[g] /\ Left(g)' = Left(g)
  BY HostNotNone DEF Left
<1>2. /\ resident' = resident /\ images' = images /\ active' = active /\ mounts' = mounts
      /\ plan' = plan /\ registry' = registry /\ stopped' = stopped /\ unrestored' = unrestored
  BY DEF fileVars, dockerVars, historyVars
<1>3. ImagesExist' BY <1>1, <1>2 DEF Safe, ImagesExist, ActiveImageExists
<1>4. ActiveKept' BY <1>1, <1>2 DEF Safe, ActiveKept, Keeps
<1>5. InPlace' BY <1>1, <1>2 DEF Safe, InPlace, Places, Manifest, Is, Valid
<1>6. Running' BY <1>1, <1>2 DEF Safe, Running, Runs
<1>7. Told' BY <1>1, <1>2 DEF Safe, Told, Tells
<1> QED BY <1>3, <1>4, <1>5, <1>6, <1>7 DEF Safe

LEMMA FinishSafe == ASSUME Typed, Safe, NEW h \in Host, Finish(h) PROVE Typed' /\ Safe'
<1>1. UNCHANGED <<dockerVars, fileVars, registry, historyVars>> BY DEF Finish, boundVars
<1> QED BY <1>1, FinishTyped, EndSafe

LEMMA CrashSafe == ASSUME Typed, Safe, NEW h \in Host, Crash(h) PROVE Typed' /\ Safe'
<1>1. UNCHANGED <<dockerVars, fileVars, registry, historyVars>> BY DEF Crash
<1> QED BY <1>1, CrashTyped, EndSafe

----------------------------------------------------------------------------
(* As long as nothing fails and nobody stops the resident, every script    *)
(* keeps to its course.                                                    *)

LEMMA CalmHere ==
  ASSUME Typed, CalmCourse, Calm', NEW h \in Host, NEW do, At(h, do), job[h].op # "stop",
         lock' = lock, stopped' = stopped, crashes' = crashes,
         Advance(h) \/ Fail(h) \/ Fault(h)
  PROVE  /\ Advance(h) \/ Fail(h)
         /\ ~Fault(h) /\ CalmImages /\ CourseAt(job[h], Left(h)) /\ lock = h
         /\ Where(h, do) /\ Sensible(job[h]) /\ job[h] \in Work /\ Left(h) \in Nat \ {0}
         /\ Busy(h) /\ job[h].todo # <<>>
         /\ Advance(h) => Ahead(h)
         /\ Fail(h) => Behind(h)
<1>1. /\ Busy(h) /\ job[h].todo # <<>> /\ Sensible(job[h]) /\ job[h] \in Work
      /\ Left(h) \in Nat \ {0} /\ Where(h, do)
  BY AtHere, Zenon
<1>2. lock = h BY <1>1, Holder
<1>3. faults' = 0 /\ crashes = 0 /\ ~stopped BY DEF Calm
<1>4. ~Fault(h) /\ (Advance(h) => Ahead(h)) /\ (Fail(h) => Behind(h)) /\ faults = 0
  BY <1>1, <1>3, Moves
<1>5. Calm BY <1>3, <1>4 DEF Calm
<1>6. CalmImages /\ CourseAt(job[h], Left(h)) BY <1>2, <1>5 DEF CalmCourse, Course
<1> QED BY <1>1, <1>2, <1>4, <1>6

LEMMA CalmAhead ==
  ASSUME Typed, NEW h \in Host, lock = h, lock' = lock, Left(h) \in Nat \ {0},
         NEW do, Where(h, do), Ahead(h), CalmImages',
         NEW j, j = job[h], NEW n, n = Left(h) - 1, CourseAt(j, n)'
  PROVE  CalmCourse'
<1>1. PICK k : k = job'[h] OBVIOUS
<1>2. /\ Kept(j, k) /\ k.phase = j.phase /\ k.result = j.result /\ k.manifest = j.manifest
      /\ Left(h)' = n
  BY <1>1, AheadJob, Zenon
<1>3. /\ k.op = j.op /\ k.target = j.target /\ k.candidate = j.candidate
      /\ k.old = j.old /\ k.pending = j.pending
  BY <1>2 DEF Kept
<1>4. CourseOfAdd(k, n)' <=> CourseOfAdd(j, n)' BY <1>3 DEF CourseOfAdd
<1>5. CourseOfRemove(k, n)' <=> CourseOfRemove(j, n)' BY <1>3 DEF CourseOfRemove
<1>6. CourseOfRefusal(k, n)' <=> CourseOfRefusal(j, n)' BY <1>2, <1>3 DEF CourseOfRefusal
<1>7. CourseOfUpdate(k, n)' <=> CourseOfUpdate(j, n)' BY <1>3 DEF CourseOfUpdate
<1>8. CourseOfRollback(k, n)' <=> CourseOfRollback(j, n)' BY <1>2, <1>3 DEF CourseOfRollback
<1>9. CourseAt(k, n)' BY <1>2, <1>3, <1>4, <1>5, <1>6, <1>7, <1>8 DEF CourseAt
<1>10. Course(h)' BY <1>1, <1>2, <1>9 DEF Course
<1>11. lock' # None /\ \A g \in Host : lock' = g => g = h BY HostNotNone
<1> QED BY <1>10, <1>11 DEF CalmCourse

\* Where a script is, and where it is after a step.
LEMMA CalmPoint ==
  ASSUME NEW h \in Host, Left(h) \in Nat \ {0}, CourseAt(job[h], Left(h)), Sensible(job[h]),
         NEW do, Where(h, do)
  PROVE  \E j, n, m : /\ j = job[h] /\ n = Left(h) /\ m = n - 1
                      /\ n \in Nat \ {0} /\ m \in Nat /\ m = Left(h) - 1
                      /\ CourseAt(j, n) /\ Point(j.op, j.phase, n, do, Route(h)) /\ Sensible(j)
<1>1. Left(h) - 1 \in Nat OBVIOUS
<1> QED BY <1>1 DEF Where

LEMMA BootCalm ==
  ASSUME Typed, CalmCourse, Calm', NEW h \in Host, Boot(h), job[h].op # "stop"
  PROVE  CalmCourse'
<1>1. /\ lock' = lock /\ stopped' = stopped /\ crashes' = crashes /\ images' = images
      /\ active' = active /\ mounts' = mounts /\ plan' = plan /\ registry' = registry
  BY DEF Boot, boundVars, historyVars, fileVars
<1>2. At(h, "boot") /\ (Advance(h) \/ Fail(h) \/ Fault(h)) BY DEF Boot
<1>3. /\ ~Fault(h) /\ CalmImages /\ CourseAt(job[h], Left(h)) /\ lock = h
      /\ Where(h, "boot") /\ Sensible(job[h]) /\ Left(h) \in Nat \ {0}
      /\ Advance(h) => Ahead(h)
  BY <1>1, <1>2, CalmHere, Zenon
<1>4. PICK j, n, m : /\ j = job[h] /\ n = Left(h) /\ m = n - 1
                     /\ n \in Nat \ {0} /\ m \in Nat /\ m = Left(h) - 1
                     /\ CourseAt(j, n) /\ Point(j.op, j.phase, n, "boot", Route(h)) /\ Sensible(j)
  BY <1>3, CalmPoint, Zenon
<1>5. CourseAt(j, n) /\ Point(j.op, j.phase, n, "boot", Route(h)) BY <1>4
<1>6. resident # None
  BY <1>4, <1>5 DEF CourseAt, Point, CourseOfAdd, CourseOfRemove, CourseOfRefusal, CourseOfUpdate,
                    CourseOfRollback, Box, Valid
<1>7. resident' = [resident EXCEPT !.up = TRUE] /\ Advance(h) BY <1>3, <1>6 DEF Boot
<1>8. /\ resident' # None /\ resident'.image = resident.image
      /\ resident'.mounts = resident.mounts /\ resident'.up = TRUE
  <2>1. resident \in Container BY <1>6 DEF Typed, FilesTyped
  <2>2. resident' \in Container BY <1>7, <2>1 DEF Container
  <2> QED BY <1>7, <2>1, <2>2, ReplacementAssumption DEF Container
<1>9. CourseAt(j, m)'
  <2>1. CASE j.op = "add"
    BY <1>1, <1>4, <1>5, <1>8, <2>1 DEF CourseAt, Point, CourseOfAdd, CourseOfRefusal, Known, Box, Valid
  <2>2. CASE j.op = "remove" /\ j.phase = "run"
    BY <1>1, <1>4, <1>5, <1>8, <2>2 DEF CourseAt, Point, CourseOfRemove, Known, Box, Valid
  <2>3. CASE j.op = "remove" /\ j.phase = "recover"
    BY <1>1, <1>4, <1>5, <1>8, <2>3 DEF CourseAt, Point, CourseOfRefusal, Known, Box, Valid
  <2>4. CASE j.op = "update"
    BY <1>1, <1>4, <1>5, <1>8, <2>4 DEF CourseAt, Point, CourseOfUpdate, CourseOfRefusal, Known, Box, Valid
  <2>5. CASE j.op = "rollback"
    BY <1>1, <1>4, <1>5, <1>8, <2>5 DEF CourseAt, Point, CourseOfRollback, CourseOfRefusal, Known, Box, Valid
  <2> QED BY <1>5, <2>1, <2>2, <2>3, <2>4, <2>5 DEF Point
<1>10. CalmImages' BY <1>1, <1>3 DEF CalmImages
<1> QED BY <1>1, <1>3, <1>4, <1>7, <1>9, <1>10, CalmAhead

LEMMA StopCalm ==
  ASSUME Typed, CalmCourse, Calm', NEW h \in Host, StopContainer(h), job[h].op # "stop"
  PROVE  CalmCourse'
<1>1. /\ lock' = lock /\ stopped' = stopped /\ crashes' = crashes
      /\ images' = images /\ active' = active /\ mounts' = mounts
      /\ plan' = plan /\ registry' = registry
  BY DEF StopContainer, boundVars, historyVars, fileVars, dockerVars
<1>2. At(h, "stop") /\ (Advance(h) \/ Fail(h) \/ Fault(h)) BY DEF StopContainer, Missing, Call
<1>3. /\ ~Fault(h) /\ CalmImages /\ CourseAt(job[h], Left(h)) /\ lock = h
      /\ Where(h, "stop") /\ Sensible(job[h]) /\ Left(h) \in Nat \ {0}
      /\ (Advance(h) => Ahead(h)) /\ (Fail(h) => Behind(h))
  BY <1>1, <1>2, CalmHere, Zenon
<1>4. PICK j, n, m : /\ j = job[h] /\ n = Left(h) /\ m = n - 1
                     /\ n \in Nat \ {0} /\ m \in Nat /\ m = Left(h) - 1
                     /\ CourseAt(j, n) /\ Point(j.op, j.phase, n, "stop", Route(h)) /\ Sensible(j)
  BY <1>3, CalmPoint, Zenon
<1>6. resident # None
  BY <1>4 DEF CourseAt, Point, CourseOfAdd, CourseOfRemove, CourseOfRefusal, CourseOfUpdate,
                    CourseOfRollback, Box, Valid
<1>7. resident' = [resident EXCEPT !.up = FALSE] /\ Advance(h)
  BY <1>3, <1>6 DEF StopContainer, Missing
<1>8. /\ resident' # None /\ resident'.image = resident.image
      /\ resident'.mounts = resident.mounts /\ resident'.up = FALSE
  <2>1. resident \in Container BY <1>6 DEF Typed, FilesTyped
  <2>2. resident' \in Container BY <1>7, <2>1 DEF Container
  <2> QED BY <1>7, <2>1, <2>2, ReplacementAssumption DEF Container
<1>9. CourseAt(j, m)'
  <2>1. CASE j.op = "add" /\ j.phase = "run"
    BY <1>1, <1>4, <1>8, <2>1
    DEF CourseAt, Point, CourseOfAdd, Known, Box, Valid
  <2>2. CASE j.op = "remove" /\ j.phase = "run"
    BY <1>1, <1>4, <1>8, <2>2
    DEF CourseAt, Point, CourseOfRemove, Known, Box, Valid
  <2>3. CASE j.phase = "recover"
    BY <1>1, <1>4, <1>8, <2>3
    DEF CourseAt, Point, CourseOfRefusal, CourseOfRollback, Known, Box, Valid
  <2>4. CASE j.op = "update" /\ j.phase = "run"
    BY <1>1, <1>4, <1>8, <2>4
    DEF CourseAt, Point, CourseOfUpdate, Known, Box, Valid
  <2>5. CASE j.op = "rollback" /\ j.phase = "run"
    BY <1>1, <1>4, <1>8, <2>5
    DEF CourseAt, Point, CourseOfRollback, Known, Box, Valid
  <2> QED BY <1>4, <2>1, <2>2, <2>3, <2>4, <2>5 DEF Point, CourseAt
<1>10. CalmImages' BY <1>1, <1>3 DEF CalmImages
<1> QED BY <1>1, <1>3, <1>4, <1>7, <1>9, <1>10, CalmAhead

LEMMA RemoveCalm ==
  ASSUME Typed, CalmCourse, Calm', NEW h \in Host, RemoveContainer(h), job[h].op # "stop"
  PROVE  CalmCourse'
<1>1. /\ lock' = lock /\ stopped' = stopped /\ crashes' = crashes
      /\ images' = images /\ active' = active /\ mounts' = mounts
      /\ plan' = plan /\ registry' = registry
  BY DEF RemoveContainer, boundVars, historyVars, fileVars, dockerVars
<1>2. At(h, "remove") /\ (Advance(h) \/ Fail(h) \/ Fault(h)) BY DEF RemoveContainer, Missing, Call
<1>3. /\ ~Fault(h) /\ CalmImages /\ CourseAt(job[h], Left(h)) /\ lock = h
      /\ Where(h, "remove") /\ Sensible(job[h]) /\ Left(h) \in Nat \ {0}
      /\ (Advance(h) => Ahead(h)) /\ (Fail(h) => Behind(h))
  BY <1>1, <1>2, CalmHere, Zenon
<1>4. PICK j, n, m : /\ j = job[h] /\ n = Left(h) /\ m = n - 1
                     /\ n \in Nat \ {0} /\ m \in Nat /\ m = Left(h) - 1
                     /\ CourseAt(j, n) /\ Point(j.op, j.phase, n, "remove", Route(h)) /\ Sensible(j)
  BY <1>3, CalmPoint, Zenon
<1>6. resident # None /\ ~resident.up
  BY <1>4 DEF CourseAt, Point, CourseOfAdd, CourseOfRemove, CourseOfRefusal, CourseOfUpdate,
                    CourseOfRollback, Box, Valid
<1>7. resident' = None /\ Advance(h) BY <1>3, <1>6 DEF RemoveContainer, Missing
<1>8. CourseAt(j, m)'
  <2>1. CASE j.op = "add" /\ j.phase = "run"
    BY <1>1, <1>4, <1>7, <2>1
    DEF CourseAt, Point, CourseOfAdd, Known, Box, Valid
  <2>2. CASE j.op = "remove" /\ j.phase = "run"
    BY <1>1, <1>4, <1>7, <2>2
    DEF CourseAt, Point, CourseOfRemove, Known, Box, Valid
  <2>3. CASE j.phase = "recover"
    BY <1>1, <1>4, <1>7, <2>3
    DEF CourseAt, Point, CourseOfRefusal, CourseOfRollback, Known, Box, Valid
  <2>4. CASE j.op = "update" /\ j.phase = "run"
    BY <1>1, <1>4, <1>7, <2>4
    DEF CourseAt, Point, CourseOfUpdate, Known, Box, Valid
  <2>5. CASE j.op = "rollback" /\ j.phase = "run"
    BY <1>1, <1>4, <1>7, <2>5
    DEF CourseAt, Point, CourseOfRollback, Known, Box, Valid
  <2> QED BY <1>4, <2>1, <2>2, <2>3, <2>4, <2>5 DEF Point, CourseAt
<1>9. CalmImages' BY <1>1, <1>3 DEF CalmImages
<1> QED BY <1>1, <1>3, <1>4, <1>7, <1>8, <1>9, CalmAhead

LEMMA CreateCalm ==
  ASSUME Typed, CalmCourse, Present, Calm', NEW h \in Host, CreateContainer(h),
         job[h].op # "stop"
  PROVE  CalmCourse'
<1>1. /\ lock' = lock /\ stopped' = stopped /\ crashes' = crashes
      /\ images' = images /\ active' = active /\ mounts' = mounts
      /\ plan' = plan /\ registry' = registry
  BY DEF CreateContainer, boundVars, historyVars, fileVars, dockerVars
<1>2. At(h, "create") /\ (Advance(h) \/ Fail(h) \/ Fault(h)) BY DEF CreateContainer, Missing, Call
<1>3. /\ ~Fault(h) /\ CalmImages /\ CourseAt(job[h], Left(h)) /\ lock = h
      /\ Where(h, "create") /\ Sensible(job[h]) /\ Left(h) \in Nat \ {0}
      /\ (Advance(h) => Ahead(h)) /\ (Fail(h) => Behind(h))
  BY <1>1, <1>2, CalmHere, Zenon
<1>4. PICK j, n, m : /\ j = job[h] /\ n = Left(h) /\ m = n - 1
                     /\ n \in Nat \ {0} /\ m \in Nat /\ m = Left(h) - 1
                     /\ CourseAt(j, n) /\ Point(j.op, j.phase, n, "create", Route(h)) /\ Sensible(j)
  BY <1>3, CalmPoint, Zenon
<1>5. /\ active = j.old /\ active \in images
      /\ j.op \in {"update", "rollback"} => j.candidate \in images
      /\ j.op = "rollback" => j.phase = "run"
  BY <1>3, <1>4 DEF CourseAt, Point, CourseOfAdd, CourseOfRemove, CourseOfRefusal, CourseOfUpdate,
                    CourseOfRollback, Box, Valid, CalmImages
<1>6. resident = None
  BY <1>4 DEF CourseAt, Point, CourseOfAdd, CourseOfRemove, CourseOfRefusal, CourseOfUpdate,
                    CourseOfRollback, Box, Valid
<1>7. j.ref = j.expect /\ j.ref \in images
      /\ j.ref = (IF j.op \in {"update", "rollback"} THEN j.candidate ELSE j.old)
  <2>1. j.op \in {"add", "remove", "update", "rollback"} /\ (j.op = "update" => j.phase = "run")
    BY <1>4 DEF CourseAt, CourseOfRefusal, Point
  <2>2. j.op \in {"add", "remove"} => j.ref = j.old /\ j.expect = j.old BY <1>4 DEF Sensible
  <2>3. j.op \in {"update", "rollback"} => j.ref = j.candidate /\ j.expect = j.candidate
    BY <1>4, <1>5, <2>1 DEF Sensible
  <2> QED BY <1>5, <2>1, <2>2, <2>3
<1> DEFINE wanted == [image |-> j.ref, mounts |-> WantedMounts(j), up |-> FALSE]
<1>13. ~absent BY <1>2, <1>3 DEF Present, Calm, Advance, Fail
<1>8. resident' = wanted /\ Advance(h) BY <1>3, <1>4, <1>6, <1>7, <1>13 DEF CreateContainer
<1>9. /\ resident' # None /\ resident'.image = j.ref
      /\ resident'.mounts = WantedMounts(j) /\ resident'.up = FALSE
  <2>1. WantedMounts(j) \subseteq Target BY <1>4, WantedTyped DEF Typed, FilesTyped
  <2>2. j.ref \in Image BY <1>4 DEF Sensible, Work
  <2>3. wanted \in Container BY <2>1, <2>2 DEF Container
  <2> QED BY <1>8, <2>3, ReplacementAssumption
<1>10. /\ j.op = "add" /\ j.phase = "run" => WantedMounts(j) = mounts \cup {j.target}
       /\ j.op \in {"remove", "update"} => WantedMounts(j) = mounts
       /\ j.op = "rollback" => WantedMounts(j) = j.manifest
  <2>1. j.op # "rollback" => j.manifest = None BY <1>4 DEF Sensible
  <2>2. j.op = "rollback" => j.manifest # None
    BY <1>4, <1>5, ReplacementAssumption DEF Sensible
  <2> QED BY <2>1, <2>2 DEF WantedMounts, Manifest
<1>11. CourseAt(j, m)'
  <2>1. CASE j.op = "add" /\ j.phase = "run"
    BY <1>1, <1>4, <1>5, <1>7, <1>9, <1>10, <2>1
    DEF CourseAt, Point, CourseOfAdd, Known, Box, Valid
  <2>2. CASE j.op = "remove" /\ j.phase = "run"
    BY <1>1, <1>4, <1>5, <1>7, <1>9, <1>10, <2>2
    DEF CourseAt, Point, CourseOfRemove, Known, Box, Valid
  <2>3. CASE j.phase = "recover"
    BY <1>1, <1>4, <1>5, <1>7, <1>9, <1>10, <2>3
    DEF CourseAt, Point, CourseOfRefusal, CourseOfRollback, Known, Box, Valid
  <2>4. CASE j.op = "update" /\ j.phase = "run"
    BY <1>1, <1>4, <1>5, <1>7, <1>9, <1>10, <2>4
    DEF CourseAt, Point, CourseOfUpdate, Known, Box, Valid
  <2>5. CASE j.op = "rollback" /\ j.phase = "run"
    BY <1>1, <1>4, <1>5, <1>7, <1>9, <1>10, <2>5
    DEF CourseAt, Point, CourseOfRollback, Known, Box, Valid
  <2> QED BY <1>4, <2>1, <2>2, <2>3, <2>4, <2>5 DEF Point, CourseAt
<1>12. CalmImages' BY <1>1, <1>3 DEF CalmImages
<1> QED BY <1>1, <1>3, <1>4, <1>8, <1>11, <1>12, CalmAhead

LEMMA ReadyCalm ==
  ASSUME Typed, CalmCourse, Calm', NEW h \in Host, Ready(h), job[h].op # "stop"
  PROVE  CalmCourse'
<1>1. /\ lock' = lock /\ stopped' = stopped /\ crashes' = crashes
      /\ images' = images /\ active' = active /\ mounts' = mounts
      /\ plan' = plan /\ resident' = resident
  BY DEF Ready, boundVars, historyVars, fileVars, dockerVars
<1>2. At(h, "ready") /\ (Advance(h) \/ Fail(h) \/ Fault(h)) BY DEF Ready, Missing, Call
<1>3. /\ ~Fault(h) /\ CalmImages /\ CourseAt(job[h], Left(h)) /\ lock = h
      /\ Where(h, "ready") /\ Sensible(job[h]) /\ Left(h) \in Nat \ {0}
      /\ (Advance(h) => Ahead(h)) /\ (Fail(h) => Behind(h))
  BY <1>1, <1>2, CalmHere, Zenon
<1>4. PICK j, n, m : /\ j = job[h] /\ n = Left(h) /\ m = n - 1
                     /\ n \in Nat \ {0} /\ m \in Nat /\ m = Left(h) - 1
                     /\ CourseAt(j, n) /\ Point(j.op, j.phase, n, "ready", Route(h)) /\ Sensible(j)
  BY <1>3, CalmPoint, Zenon
<1>6. resident # None /\ resident.up /\ active = (IF j.op = "rollback" THEN active ELSE j.old)
  BY <1>4 DEF CourseAt, Point, CourseOfAdd, CourseOfRemove, CourseOfRefusal, CourseOfUpdate,
                    CourseOfRollback, Box, Valid
<1>7. registry' = [registry EXCEPT !.image = j.ref, !.ready = TRUE] /\ Advance(h)
  BY <1>3, <1>4, <1>6 DEF Ready, Call
<1>8. /\ registry'.image = j.ref /\ registry'.targets = registry.targets
      /\ registry'.back = registry.back /\ registry'.ready = TRUE
  BY <1>7 DEF Typed, FilesTyped, Registry
<1>9. /\ j.op \in {"remove", "rollback"} /\ j.phase \in {"run", "recover"}
      /\ j.op = "remove" => j.ref = j.old
      /\ j.op = "rollback" => j.ref = j.candidate /\ j.phase = "run" /\ j.candidate \in images
  <2>1. /\ j.op \in {"remove", "rollback"} /\ j.phase \in {"run", "recover"}
        /\ j.op = "rollback" => j.phase = "run" /\ j.candidate \in images
    BY <1>4 DEF CourseAt, CourseOfRefusal, Point
  <2> QED BY <1>4, <2>1 DEF Sensible
<1>10. CourseAt(j, m)'
  <2>1. CASE j.op = "remove" /\ j.phase = "run"
    BY <1>1, <1>4, <1>8, <1>9, <2>1
    DEF CourseAt, Point, CourseOfRemove, Known, Box, Valid
  <2>2. CASE j.phase = "recover"
    BY <1>1, <1>4, <1>8, <1>9, <2>2
    DEF CourseAt, Point, CourseOfRefusal, CourseOfRollback, Known, Box, Valid
  <2>3. CASE j.op = "rollback" /\ j.phase = "run"
    BY <1>1, <1>4, <1>8, <1>9, <2>3
    DEF CourseAt, Point, CourseOfRollback, Known, Box, Valid
  <2> QED BY <1>4, <2>1, <2>2, <2>3 DEF Point, CourseAt
<1>11. CalmImages' BY <1>1, <1>3, <1>6, <1>8, <1>9 DEF CalmImages
<1> QED BY <1>1, <1>3, <1>4, <1>7, <1>10, <1>11, CalmAhead

LEMMA RestoreCalm ==
  ASSUME Typed, CalmCourse, Calm', NEW h \in Host, Restore(h), job[h].op # "stop"
  PROVE  CalmCourse'
<1>1. /\ lock' = lock /\ stopped' = stopped /\ crashes' = crashes
      /\ images' = images /\ active' = active /\ mounts' = mounts
      /\ plan' = plan /\ resident' = resident
  BY DEF Restore, boundVars, historyVars, fileVars, dockerVars
<1>2. At(h, "restore") /\ (Advance(h) \/ Fail(h) \/ Fault(h)) BY DEF Restore, Missing, Call
<1>3. /\ ~Fault(h) /\ CalmImages /\ CourseAt(job[h], Left(h)) /\ lock = h
      /\ Where(h, "restore") /\ Sensible(job[h]) /\ Left(h) \in Nat \ {0}
      /\ (Advance(h) => Ahead(h)) /\ (Fail(h) => Behind(h))
  BY <1>1, <1>2, CalmHere, Zenon
<1>4. PICK j, n, m : /\ j = job[h] /\ n = Left(h) /\ m = n - 1
                     /\ n \in Nat \ {0} /\ m \in Nat /\ m = Left(h) - 1
                     /\ CourseAt(j, n) /\ Point(j.op, j.phase, n, "restore", Route(h)) /\ Sensible(j)
  BY <1>3, CalmPoint, Zenon
<1>6. /\ j.op = "remove" /\ j.phase = "recover" /\ n = 7 /\ active = j.old
      /\ resident # None /\ resident.up /\ registry.image = j.old
  BY <1>4 DEF CourseAt, CourseOfRefusal, Known, Point
<1>7. registry' = Restored(j) /\ Advance(h) BY <1>3, <1>4, <1>6 DEF Restore, Call
<1>8. /\ registry'.image = j.old /\ registry'.targets = registry.targets
      /\ registry'.back = registry.back /\ registry'.ready = TRUE
  BY <1>6, <1>7 DEF Restored
<1>9. CourseAt(j, m)'
  <2>1. CASE j.phase = "recover"
    BY <1>1, <1>4, <1>6, <1>8, <2>1
    DEF CourseAt, Point, CourseOfRefusal, CourseOfRollback, Known, Box, Valid
  <2> QED BY <1>6, <2>1
<1>10. CalmImages' BY <1>1, <1>3, <1>6, <1>8 DEF CalmImages
<1> QED BY <1>1, <1>3, <1>4, <1>7, <1>9, <1>10, CalmAhead

LEMMA ReadbackCalm ==
  ASSUME Typed, CalmCourse, Calm', NEW h \in Host, Readback(h), job[h].op # "stop"
  PROVE  CalmCourse'
<1>1. /\ lock' = lock /\ stopped' = stopped /\ crashes' = crashes
      /\ images' = images /\ active' = active /\ mounts' = mounts
      /\ plan' = plan /\ resident' = resident /\ registry' = registry
  BY DEF Readback, boundVars, historyVars, fileVars, dockerVars
<1>2. At(h, "readback") /\ (Advance(h) \/ Fail(h) \/ Fault(h)) BY DEF Readback, Missing, Call
<1>3. /\ ~Fault(h) /\ CalmImages /\ CourseAt(job[h], Left(h)) /\ lock = h
      /\ Where(h, "readback") /\ Sensible(job[h]) /\ Left(h) \in Nat \ {0}
      /\ (Advance(h) => Ahead(h)) /\ (Fail(h) => Behind(h))
  BY <1>1, <1>2, CalmHere, Zenon
<1>4. PICK j, n, m : /\ j = job[h] /\ n = Left(h) /\ m = n - 1
                     /\ n \in Nat \ {0} /\ m \in Nat /\ m = Left(h) - 1
                     /\ CourseAt(j, n) /\ Point(j.op, j.phase, n, "readback", Route(h)) /\ Sensible(j)
  BY <1>3, CalmPoint, Zenon
<1>6. Valid(j.expect, mounts)
  <2>1. Valid(IF j.op = "rollback" THEN j.candidate ELSE j.old, mounts)
    BY <1>4 DEF CourseAt, Point, CourseOfAdd, CourseOfRemove, CourseOfRefusal, CourseOfUpdate,
                    CourseOfRollback, Box, Valid
  <2>2. j.op \in {"add", "remove", "rollback"} /\ j.phase = "run" BY <1>4 DEF Point
  <2> QED BY <1>4, <2>1, <2>2 DEF Sensible
<1>7. Advance(h) BY <1>3, <1>4, <1>6 DEF Readback
<1>8. CourseAt(j, m)'
  <2>1. CASE j.op = "add" /\ j.phase = "run"
    BY <1>1, <1>4, <2>1
    DEF CourseAt, Point, CourseOfAdd, Known, Box, Valid
  <2>2. CASE j.op = "remove" /\ j.phase = "run"
    BY <1>1, <1>4, <2>2
    DEF CourseAt, Point, CourseOfRemove, Known, Box, Valid
  <2>3. CASE j.op = "rollback" /\ j.phase = "run"
    BY <1>1, <1>4, <2>3
    DEF CourseAt, Point, CourseOfRollback, Known, Box, Valid
  <2> QED BY <1>4, <2>1, <2>2, <2>3 DEF Point, CourseAt
<1>9. CalmImages' BY <1>1, <1>3 DEF CalmImages
<1> QED BY <1>1, <1>3, <1>4, <1>7, <1>8, <1>9, CalmAhead

LEMMA RecordCalm ==
  ASSUME Typed, CalmCourse, Calm', NEW h \in Host, Record(h), job[h].op # "stop"
  PROVE  CalmCourse'
<1>1. /\ lock' = lock /\ stopped' = stopped /\ crashes' = crashes
      /\ images' = images /\ mounts' = mounts
      /\ plan' = plan /\ resident' = resident /\ registry' = registry
  BY DEF Record, boundVars, historyVars, fileVars, dockerVars
<1>2. At(h, "record") /\ (Advance(h) \/ Fail(h) \/ Fault(h)) BY DEF Record, Missing, Call
<1>3. /\ ~Fault(h) /\ CalmImages /\ CourseAt(job[h], Left(h)) /\ lock = h
      /\ Where(h, "record") /\ Sensible(job[h]) /\ Left(h) \in Nat \ {0}
      /\ (Advance(h) => Ahead(h)) /\ (Fail(h) => Behind(h))
  BY <1>1, <1>2, CalmHere, Zenon
<1>4. PICK j, n, m : /\ j = job[h] /\ n = Left(h) /\ m = n - 1
                     /\ n \in Nat \ {0} /\ m \in Nat /\ m = Left(h) - 1
                     /\ CourseAt(j, n) /\ Point(j.op, j.phase, n, "record", Route(h)) /\ Sensible(j)
  BY <1>3, CalmPoint, Zenon
<1>6. /\ resident # None /\ j.op \in {"update", "rollback"} /\ j.phase \in {"run", "reuse"}
      /\ resident.image = (IF j.phase = "reuse" THEN active ELSE j.candidate)
      /\ j.phase = "run" => j.candidate \in images
  BY <1>4 DEF CourseAt, Point, CourseOfAdd, CourseOfRemove, CourseOfRefusal, CourseOfUpdate,
                    CourseOfRollback, Box, Valid, Agreed
<1>7. active' = resident.image /\ Advance(h) BY <1>3, <1>6 DEF Record
<1>8. CourseAt(j, m)'
  <2>1. CASE j.op = "update" /\ j.phase = "run"
    BY <1>1, <1>4, <1>6, <1>7, <2>1
    DEF CourseAt, Point, CourseOfUpdate, Known, Box, Valid
  <2>2. CASE j.op = "update" /\ j.phase = "reuse"
    BY <1>1, <1>4, <1>6, <1>7, <2>2
    DEF CourseAt, Point, Agreed, Known, Box, Valid
  <2>3. CASE j.op = "rollback" /\ j.phase = "run"
    BY <1>1, <1>4, <1>6, <1>7, <2>3
    DEF CourseAt, Point, CourseOfRollback, Known, Box, Valid
  <2> QED BY <1>4, <2>1, <2>2, <2>3 DEF Point, CourseAt
<1>9. CalmImages' BY <1>1, <1>3, <1>6, <1>7 DEF CalmImages
<1> QED BY <1>1, <1>3, <1>4, <1>7, <1>8, <1>9, CalmAhead

LEMMA KeepPlanCalm ==
  ASSUME Typed, CalmCourse, Calm', NEW h \in Host, KeepPlan(h), job[h].op # "stop"
  PROVE  CalmCourse'
<1>1. /\ lock' = lock /\ stopped' = stopped /\ crashes' = crashes
      /\ images' = images /\ mounts' = mounts
      /\ active' = active /\ resident' = resident /\ registry' = registry
  BY DEF KeepPlan, boundVars, historyVars, fileVars, dockerVars
<1>2. At(h, "keep") /\ (Advance(h) \/ Fail(h) \/ Fault(h)) BY DEF KeepPlan, Missing, Call
<1>3. /\ ~Fault(h) /\ CalmImages /\ CourseAt(job[h], Left(h)) /\ lock = h
      /\ Where(h, "keep") /\ Sensible(job[h]) /\ Left(h) \in Nat \ {0}
      /\ (Advance(h) => Ahead(h)) /\ (Fail(h) => Behind(h))
  BY <1>1, <1>2, CalmHere, Zenon
<1>4. PICK j, n, m : /\ j = job[h] /\ n = Left(h) /\ m = n - 1
                     /\ n \in Nat \ {0} /\ m \in Nat /\ m = Left(h) - 1
                     /\ CourseAt(j, n) /\ Point(j.op, j.phase, n, "keep", Route(h)) /\ Sensible(j)
  BY <1>3, CalmPoint, Zenon
<1>5. plan' = j.pending /\ Advance(h) BY <1>3, <1>4 DEF KeepPlan
<1>6. j.op = "update" /\ j.phase \in {"run", "reuse"} BY <1>4 DEF Point
<1>7. j.pending.image \in images BY <1>4, <1>6 DEF CourseAt
<1>8. CourseAt(j, m)'
  <2>1. CASE j.op = "update" /\ j.phase = "run"
    BY <1>1, <1>4, <2>1
    DEF CourseAt, Point, CourseOfUpdate, Known, Box, Valid
  <2>2. CASE j.op = "update" /\ j.phase = "reuse"
    BY <1>1, <1>4, <2>2
    DEF CourseAt, Point, Agreed, Known, Box, Valid
  <2> QED BY <1>4, <2>1, <2>2 DEF Point, CourseAt
<1>9. CalmImages' BY <1>1, <1>3, <1>5, <1>7 DEF CalmImages
<1> QED BY <1>1, <1>3, <1>4, <1>5, <1>8, <1>9, CalmAhead

LEMMA DiscardCalm ==
  ASSUME Typed, CalmCourse, Calm', NEW h \in Host, DiscardImage(h), job[h].op # "stop"
  PROVE  CalmCourse'
<1>1. /\ lock' = lock /\ stopped' = stopped /\ crashes' = crashes
      /\ active' = active /\ mounts' = mounts
      /\ plan' = plan /\ resident' = resident /\ registry' = registry
  BY DEF DiscardImage, boundVars, historyVars, fileVars, dockerVars
<1>2. At(h, "discard") /\ (Advance(h) \/ Fail(h) \/ Fault(h)) BY DEF DiscardImage, Missing, Call
<1>3. /\ ~Fault(h) /\ CalmImages /\ CourseAt(job[h], Left(h)) /\ lock = h
      /\ Where(h, "discard") /\ Sensible(job[h]) /\ Left(h) \in Nat \ {0}
      /\ (Advance(h) => Ahead(h)) /\ (Fail(h) => Behind(h))
  BY <1>1, <1>2, CalmHere, Zenon
<1>4. PICK j, n, m : /\ j = job[h] /\ n = Left(h) /\ m = n - 1
                     /\ n \in Nat \ {0} /\ m \in Nat /\ m = Left(h) - 1
                     /\ CourseAt(j, n) /\ Point(j.op, j.phase, n, "discard", Route(h)) /\ Sensible(j)
  BY <1>3, CalmPoint, Zenon
<1>6. j.op = "remove" /\ j.phase = "recover" /\ n = 1 BY <1>4 DEF CourseAt, CourseOfRefusal, Point
<1>7. j.candidate = j.old BY <1>4, <1>6 DEF Sensible
<1>8. images' = images /\ Advance(h) BY <1>3, <1>4, <1>7 DEF DiscardImage
<1>9. CourseAt(j, m)'
  <2>1. CASE j.phase = "recover"
    BY <1>1, <1>4, <1>6, <1>8, <2>1
    DEF CourseAt, Point, CourseOfRefusal, CourseOfRollback, Known, Box, Valid
  <2> QED BY <1>6, <2>1
<1>10. CalmImages' BY <1>1, <1>3, <1>8 DEF CalmImages
<1> QED BY <1>1, <1>3, <1>4, <1>8, <1>9, <1>10, CalmAhead

\* Without a failure an update is never restored.
LEMMA ReactivateCalm ==
  ASSUME Typed, CalmCourse, Calm', NEW h \in Host, Reactivate(h), job[h].op # "stop"
  PROVE  CalmCourse'
<1>1. /\ lock' = lock /\ stopped' = stopped /\ crashes' = crashes
      /\ At(h, "reactivate") /\ (Advance(h) \/ Fail(h) \/ Fault(h))
  BY DEF Reactivate
<1>2. /\ CourseAt(job[h], Left(h)) /\ Where(h, "reactivate") /\ Sensible(job[h])
      /\ Left(h) \in Nat \ {0}
  BY <1>1, CalmHere, Zenon
<1>3. PICK j, n, m : /\ j = job[h] /\ n = Left(h) /\ m = n - 1
                     /\ n \in Nat \ {0} /\ m \in Nat /\ m = Left(h) - 1
                     /\ CourseAt(j, n) /\ Point(j.op, j.phase, n, "reactivate", Route(h))
                     /\ Sensible(j)
  BY <1>2, CalmPoint, Zenon
<1> QED BY <1>3 DEF CourseAt, CourseOfRefusal, Point

\* The controller refuses nothing but to remove what is not registered.
LEMMA RefusalCalm ==
  ASSUME Typed, NEW h \in Host, lock = h, lock' = lock, Behind(h), CalmImages',
         NEW j, j = job[h], j.op = "remove", j.phase = "run", Route(h) = "recover",
         active' = j.old, Known(j.old, mounts)', resident' # None, resident'.up
  PROVE  CalmCourse'
<1>1. PICK k : k = job'[h] OBVIOUS
<1>2. Kept(j, k) /\ k.phase = "recover" /\ k.result = "failed" /\ Len(k.todo) = 7
  BY <1>1 DEF Behind, FallsBack, Route
<1>3. k.op = "remove" /\ k.old = j.old BY <1>2 DEF Kept
<1>4. CourseAt(k, 7)' BY <1>2, <1>3 DEF CourseAt, CourseOfRefusal
<1>5. Course(h)' BY <1>1, <1>2, <1>4 DEF Course, Left
<1>6. lock' # None /\ \A g \in Host : lock' = g => g = h BY HostNotNone
<1> QED BY <1>5, <1>6 DEF CalmCourse

LEMMA CommitCalm ==
  ASSUME Typed, CalmCourse, Calm', NEW h \in Host, Commit(h), job[h].op # "stop"
  PROVE  CalmCourse'
<1>1. /\ lock' = lock /\ stopped' = stopped /\ crashes' = crashes
      /\ images' = images /\ active' = active /\ mounts' = mounts
      /\ plan' = plan /\ resident' = resident
  BY DEF Commit, boundVars, historyVars, fileVars, dockerVars
<1>2. At(h, "commit") /\ (Advance(h) \/ Fail(h) \/ Fault(h)) BY DEF Commit, Missing, Call
<1>3. /\ ~Fault(h) /\ CalmImages /\ CourseAt(job[h], Left(h)) /\ lock = h
      /\ Where(h, "commit") /\ Sensible(job[h]) /\ Left(h) \in Nat \ {0}
      /\ (Advance(h) => Ahead(h)) /\ (Fail(h) => Behind(h))
  BY <1>1, <1>2, CalmHere, Zenon
<1>4. PICK j, n, m : /\ j = job[h] /\ n = Left(h) /\ m = n - 1
                     /\ n \in Nat \ {0} /\ m \in Nat /\ m = Left(h) - 1
                     /\ CourseAt(j, n) /\ Point(j.op, j.phase, n, "commit", Route(h)) /\ Sensible(j)
  BY <1>3, CalmPoint, Zenon
<1>5. /\ registry \in Registry /\ j \in Work
  BY <1>4 DEF Typed, FilesTyped, Sensible
<1>6. /\ resident # None /\ resident.up /\ active \in images /\ registry.image \in images
      /\ active = j.old /\ registry.image = j.old /\ registry.targets = mounts /\ registry.ready
      /\ resident.mounts = (IF j.op = "add" THEN mounts \cup {j.target}
                            ELSE IF j.op = "rollback" THEN j.manifest ELSE mounts)
      /\ j.op \in {"add", "remove", "rollback"} => j.phase = "run"
      /\ j.op = "rollback" \/ (j.op = "update" /\ j.phase = "run") => j.candidate \in images
      /\ j.op \in {"add", "remove", "update", "rollback"}
      /\ j.op = "update" => j.phase \in {"run", "reuse"}
  BY <1>3, <1>4 DEF CourseAt, Point, CourseOfAdd, CourseOfRemove, CourseOfRefusal, CourseOfUpdate,
                    CourseOfRollback, Box, Valid, Agreed, Known, CalmImages
<1>7. registry.known => [image |-> registry.image, targets |-> registry.targets].image \in images
  BY <1>6
<1>8. CASE ~Accepted(j)
  <2>1. j.op = "remove" /\ j.target \notin registry.targets \cap resident.mounts
    BY <1>6, <1>8 DEF Accepted
  <2>2. Fail(h) /\ registry' = registry BY <1>3, <1>4, <1>8 DEF Commit, Call
  <2>3. Route(h) = "recover" BY <1>4, <2>1 DEF Point
  <2>4. CalmImages' BY <1>1, <1>3, <2>2 DEF CalmImages
  <2>5. Known(j.old, mounts)' BY <1>1, <1>6, <2>2 DEF Known
  <2> QED BY <1>1, <1>3, <1>4, <1>6, <2>1, <2>2, <2>3, <2>4, <2>5, RefusalCalm
<1>9. CASE Accepted(j)
  <2>1. registry' = Transition(j) /\ Advance(h) BY <1>3, <1>4, <1>6, <1>9 DEF Commit, Call
  <2>2. /\ CourseAt(j, m)'
        /\ registry'.image \in images
        /\ registry'.back # None => registry'.back.image \in images
    <3>1. CASE j.op = "add"
      <4>1. /\ registry'.targets = mounts \cup {j.target} /\ registry'.image = j.old
            /\ registry'.ready = TRUE
            /\ registry'.back # None => registry'.back.image \in images
        <5>1. CASE j.target \in registry.targets
          <6>1. registry' = registry BY <2>1, <3>1, <5>1 DEF Transition
          <6> QED BY <1>3, <1>5, <1>6, <5>1, <6>1 DEF Registry, CalmImages
        <5>2. CASE j.target \notin registry.targets
          <6>1. registry' = [ChangedTargets(registry.targets \cup {j.target}) EXCEPT !.ready = TRUE]
            BY <2>1, <3>1, <5>2 DEF Transition
          <6> QED BY <1>5, <1>6, <1>7, <6>1 DEF ChangedTargets, Registry
        <5> QED BY <5>1, <5>2
      <4>2. CourseAt(j, m)'
        BY <1>1, <1>4, <1>6, <3>1, <4>1 DEF CourseAt, Point, CourseOfAdd, Known, Box, Valid
      <4> QED BY <1>6, <4>1, <4>2
    <3>2. CASE j.op = "remove"
      <4>1. registry' = ChangedTargets(registry.targets \ {j.target})
        BY <2>1, <3>2 DEF Transition
      <4>2. /\ registry'.targets = mounts \ {j.target} /\ registry'.image = j.old
            /\ registry'.ready = TRUE
            /\ registry'.back # None => registry'.back.image \in images
        BY <1>5, <1>6, <1>7, <4>1 DEF ChangedTargets, Registry
      <4>3. CourseAt(j, m)'
        BY <1>1, <1>4, <1>6, <3>2, <4>2 DEF CourseAt, Point, CourseOfRemove, Known, Box, Valid
      <4> QED BY <1>6, <4>2, <4>3
    <3>3. CASE j.op = "update" /\ j.phase = "reuse"
      <4>1. registry' = [registry EXCEPT !.image = j.ref, !.ready = TRUE]
        BY <2>1, <3>3 DEF Transition
      <4>2. j.ref = j.old BY <1>4, <3>3 DEF Sensible
      <4>3. /\ registry'.targets = mounts /\ registry'.image = j.old
            /\ registry'.ready = TRUE /\ registry'.back = registry.back
        BY <1>5, <1>6, <4>1, <4>2 DEF Registry
      <4>4. CourseAt(j, m)'
        BY <1>1, <1>4, <1>6, <3>3, <4>3 DEF CourseAt, Point, Agreed, Known, Box, Valid
      <4> QED BY <1>3, <1>6, <4>3, <4>4 DEF CalmImages
    <3>4. CASE j.op = "update" /\ j.phase = "run"
      <4>1. registry' = [targets |-> registry.targets, image |-> j.candidate, known |-> TRUE,
                         ready |-> TRUE,
                         back |-> [image |-> j.old, targets |-> registry.targets]]
        BY <2>1, <3>4 DEF Transition
      <4>2. /\ registry'.targets = mounts /\ registry'.image = j.candidate
            /\ registry'.ready = TRUE /\ registry'.back.image = j.old
        BY <1>6, <4>1
      <4>3. CourseAt(j, m)'
        BY <1>1, <1>4, <1>6, <3>4, <4>2 DEF CourseAt, Point, CourseOfUpdate, Known, Box, Valid
      <4> QED BY <1>6, <3>4, <4>2, <4>3
    <3>5. CASE j.op = "rollback"
      <4>1. registry' = [targets |-> j.manifest, image |-> j.candidate, known |-> TRUE,
                         ready |-> TRUE,
                         back |-> [image |-> j.old, targets |-> registry.targets]]
        BY <2>1, <3>5 DEF Transition
      <4>2. /\ registry'.targets = j.manifest /\ registry'.image = j.candidate
            /\ registry'.ready = TRUE /\ registry'.back.image = j.old
        BY <4>1
      <4>3. CourseAt(j, m)'
        BY <1>1, <1>4, <1>6, <3>5, <4>2 DEF CourseAt, Point, CourseOfRollback, Known, Box, Valid
      <4> QED BY <1>6, <3>5, <4>2, <4>3
    <3> QED BY <1>6, <3>1, <3>2, <3>3, <3>4, <3>5
  <2>3. CalmImages' BY <1>1, <1>3, <2>2 DEF CalmImages
  <2> QED BY <1>1, <1>3, <1>4, <2>1, <2>2, <2>3, CalmAhead
<1> QED BY <1>8, <1>9

LEMMA PublishCalm ==
  ASSUME Typed, CalmCourse, Calm', NEW h \in Host, Publish(h), job[h].op # "stop"
  PROVE  CalmCourse'
<1>1. /\ lock' = lock /\ stopped' = stopped /\ crashes' = crashes /\ images' = images
      /\ active' = active /\ resident' = resident /\ registry' = registry
      /\ At(h, "publish")
  BY DEF Publish, boundVars, historyVars, dockerVars
<1>6. Advance(h) /\ mounts' = registry.targets /\ plan' = registry.back
  <2>1. faults \in Nat /\ faults' = 0
    BY ReplacementAssumption DEF Typed, CountersTyped, Calm
  <2>2. faults' # faults + 1 BY <2>1
  <2> QED BY <2>2, PublishMoves
<1>3. Advance(h) BY <1>6
<1>4. /\ CalmImages /\ CourseAt(job[h], Left(h)) /\ lock = h
      /\ Where(h, "publish") /\ Sensible(job[h]) /\ Left(h) \in Nat \ {0} /\ Ahead(h)
  BY <1>1, <1>3, CalmHere, Zenon
<1>5. PICK j, n, m : /\ j = job[h] /\ n = Left(h) /\ m = n - 1
                     /\ n \in Nat \ {0} /\ m \in Nat /\ m = Left(h) - 1
                     /\ CourseAt(j, n) /\ Point(j.op, j.phase, n, "publish", Route(h)) /\ Sensible(j)
  BY <1>4, CalmPoint, Zenon
<1>7. CourseAt(j, m)'
  <2>1. CASE j.op = "add" /\ j.phase = "run"
    <3>1. n = 2 /\ m = 1 BY <1>5, <2>1 DEF Point
    <3>2. CourseOfAdd(j, 2) BY <1>5, <2>1, <3>1 DEF CourseAt
    <3>3. CourseOfAdd(j, 1)' BY <1>1, <1>6, <3>2 DEF CourseOfAdd, Known, Box, Valid
    <3> QED BY <1>5, <2>1, <3>1, <3>3 DEF CourseAt
  <2>2. CASE j.op = "remove" /\ j.phase = "run"
    BY <1>1, <1>5, <1>6, <2>2
    DEF CourseAt, Point, CourseOfRemove, Known, Box, Valid
  <2>3. CASE j.op = "update" /\ j.phase = "run"
    BY <1>1, <1>5, <1>6, <2>3
    DEF CourseAt, Point, CourseOfUpdate, Known, Box, Valid
  <2>4. CASE j.op = "update" /\ j.phase = "reuse"
    BY <1>1, <1>5, <1>6, <2>4
    DEF CourseAt, Point, Agreed, Known, Box, Valid
  <2>5. CASE j.op = "rollback" /\ j.phase = "run"
    BY <1>1, <1>5, <1>6, <2>5
    DEF CourseAt, Point, CourseOfRollback, Known, Box, Valid
  <2> QED BY <1>5, <2>1, <2>2, <2>3, <2>4, <2>5 DEF Point, CourseAt
<1>8. CalmImages' BY <1>1, <1>4, <1>6 DEF CalmImages
<1> QED BY <1>1, <1>4, <1>5, <1>7, <1>8, CalmAhead

LEMMA BuildCalm ==
  ASSUME Typed, CalmCourse, Present, Calm', NEW h \in Host, Build(h), job[h].op # "stop"
  PROVE  CalmCourse'
<1>1. /\ lock' = lock /\ stopped' = stopped /\ crashes' = crashes /\ mounts' = mounts
      /\ active' = active /\ resident' = resident /\ registry' = registry /\ plan' = plan
      /\ At(h, "build")
  BY DEF Build, boundVars, historyVars, fileVars
<1>2. /\ Busy(h) /\ job[h].todo # <<>> /\ Sensible(job[h]) /\ job[h] \in Work
      /\ Left(h) \in Nat \ {0} /\ Where(h, "build")
  BY <1>1, AtHere, Zenon
<1>3. lock = h BY <1>2, Holder
<1>4. ~Fault(h) BY <1>1, <1>2, Moves DEF Calm
<1>5. PICK j, k : j = job[h] /\ k = job'[h] OBVIOUS
<1>17. faults' = faults /\ ~absent
  <2>1. faults' = faults BY <1>4 DEF Build
  <2> QED BY <2>1 DEF Present, Calm
<1>6. /\ faults' = faults /\ images' = images \cup {j.candidate}
      /\ \/ job' = [job EXCEPT ![h].todo = UpdateScript(resident # None), ![h].phase = "run",
                               ![h].ref = j.candidate, ![h].expect = j.candidate]
         \/ /\ j.candidate = active /\ Valid(active, mounts)
            /\ job' = [job EXCEPT ![h].todo = ReuseScript, ![h].phase = "reuse"]
  BY <1>4, <1>5, <1>17 DEF Build
<1>7. CalmImages /\ CourseAt(j, Left(h))
  <2>1. Calm BY <1>1, <1>6 DEF Calm
  <2> QED BY <1>3, <1>5, <2>1 DEF CalmCourse, Course
<1>8. j.op = "update" /\ j.phase = "build" /\ j.todo # <<>> /\ Sensible(j)
  BY <1>2, <1>5 DEF Where, Point
<1>9. Agreed /\ active = j.old /\ j.pending.image \in images BY <1>7, <1>8 DEF CourseAt
<1>10. Builds(j, k)
  <2>1. job \in [Host -> Work \cup {NoJob}] BY DEF Typed, Jobs
  <2> DEFINE s == UpdateScript(resident # None)
  <2> HIDE DEF s
  <2>2. CASE job' = [job EXCEPT ![h].todo = s, ![h].phase = "run",
                                ![h].ref = j.candidate, ![h].expect = j.candidate]
    <3>1. k = [j EXCEPT !.todo = s, !.phase = "run",
                        !.ref = j.candidate, !.expect = j.candidate]
      BY <1>5, <2>1, <2>2
    <3> QED BY <3>1 DEF Builds, s
  <2>3. CASE /\ j.candidate = active
             /\ job' = [job EXCEPT ![h].todo = ReuseScript, ![h].phase = "reuse"]
    <3>1. k = [j EXCEPT !.todo = ReuseScript, !.phase = "reuse"] BY <1>5, <2>1, <2>3
    <3> QED BY <1>9, <2>3, <3>1 DEF Builds
  <2> QED BY <1>6, <2>2, <2>3 DEF s
<1>11. Built(j, k) BY <1>8, <1>10, BuildJob
<1>12. /\ k.op = "update" /\ k.candidate = j.candidate /\ k.old = j.old /\ k.pending = j.pending
       /\ k.result = "ok" /\ Left(h)' = Len(k.todo)
       /\ \/ k.phase = "run" /\ Len(k.todo) = IF resident # None THEN 8 ELSE 6
          \/ k.phase = "reuse"
  BY <1>5, <1>8, <1>11 DEF Built, Kept, Left
<1>13. resident # None BY <1>9 DEF Agreed, Box, Valid
<1>14. Agreed' /\ active' = k.old BY <1>1, <1>9, <1>12 DEF Agreed, Known, Box, Valid
<1>15. CASE k.phase = "run"
  <2>1. Left(h)' = 8 BY <1>12, <1>13, <1>15
  <2>2. CourseAt(k, 8)'
    BY <1>6, <1>9, <1>12, <1>14, <1>15 DEF CourseAt, CourseOfUpdate, Agreed, Known, Box
  <2> QED BY <1>1, <1>3, <1>5, <1>6, <1>7, <2>1, <2>2, HostNotNone DEF CalmCourse, Course, CalmImages
<1>16. CASE k.phase = "reuse"
  <2>1. PICK n : n = Left(h)' OBVIOUS
  <2>2. CourseAt(k, n)' BY <1>6, <1>9, <1>12, <1>14, <1>16 DEF CourseAt
  <2> QED BY <1>1, <1>3, <1>5, <1>6, <1>7, <2>1, <2>2, HostNotNone DEF CalmCourse, Course, CalmImages
<1> QED BY <1>12, <1>15, <1>16

LEMMA PerformCalm ==
  ASSUME Typed, CalmCourse, Present, NEW h \in Host, Perform(h)
  PROVE  CalmCourse'
<1>1. CASE job[h].op = "stop"
  <2>1. Aside BY <1>1, StopAside
  <2> QED BY <2>1 DEF Aside, CalmCourse, Calm
<1>2. CASE ~Calm' BY <1>2 DEF CalmCourse
<1>3. CASE job[h].op # "stop" /\ Calm'
  <2>1. ~Halt(h)
    <3>1. ASSUME Halt(h) PROVE FALSE
      <4>1. Where(h, "halt") BY <3>1, AtHere, Zenon DEF Halt
      <4> QED BY <1>3, <4>1 DEF Where, Point
    <3> QED BY <3>1
  <2>2. \/ Build(h) \/ StopContainer(h) \/ RemoveContainer(h) \/ CreateContainer(h) \/ Boot(h)
        \/ Commit(h) \/ Ready(h) \/ Restore(h) \/ Publish(h) \/ Readback(h) \/ Record(h)
        \/ KeepPlan(h) \/ Reactivate(h) \/ DiscardImage(h)
    BY <2>1, Zenon DEF Perform
  <2> QED BY <1>3, <2>2, BuildCalm, StopCalm, RemoveCalm, CreateCalm, BootCalm, CommitCalm,
             ReadyCalm, RestoreCalm, PublishCalm, ReadbackCalm, RecordCalm, KeepPlanCalm,
             ReactivateCalm, DiscardCalm, Zenon
<1> QED BY <1>1, <1>2, <1>3

\* An operation begins where everything agrees.
LEMMA BeginCalm ==
  ASSUME Typed, CalmCourse, NEW h \in Host, NEW k, Begin(h, k), Sensible(k), k.op # "stop",
         retained' \subseteq images, k.old = active, k.result = "ok",
         Left(h)' = Len(k.todo), Len(k.todo) \in Nat,
         \/ k.phase = "unchanged" /\ k.op = "add"
         \/ k.op = "add" /\ k.phase = "run" /\ Len(k.todo) = 7
         \/ k.op = "remove" /\ k.phase = "run" /\ Len(k.todo) = 12
         \/ k.op = "update" /\ k.phase = "build" /\ k.pending.image = active
         \/ /\ k.op = "rollback" /\ k.phase = "run" /\ Len(k.todo) = 9
            /\ plan # None /\ k.candidate = plan.image
  PROVE  CalmCourse'
<1>1. /\ lock = None /\ lock' = h /\ job'[h] = k
      /\ UNCHANGED <<resident, images, fileVars, registry, historyVars>>
  BY BeginTyped
<1>2. /\ resident' = resident /\ images' = images /\ active' = active /\ mounts' = mounts
      /\ plan' = plan /\ registry' = registry /\ stopped' = stopped
      /\ faults' = faults /\ crashes' = crashes
  BY <1>1 DEF fileVars, historyVars, Begin
<1>3. CASE ~Calm' BY <1>3 DEF CalmCourse
<1>4. CASE Calm'
  <2>1. CalmImages /\ Agreed BY <1>1, <1>2, <1>4 DEF CalmCourse, Calm
  <2>2. CalmImages' /\ Agreed' BY <1>2, <2>1 DEF CalmImages, Agreed, Known, Box, Valid
  <2>3. CourseAt(k, Len(k.todo))'
    <3>1. CASE k.phase = "unchanged" /\ k.op = "add" BY <1>2, <2>2, <3>1 DEF CourseAt
    <3>2. CASE k.op = "add" /\ k.phase = "run" /\ Len(k.todo) = 7
      BY <1>2, <2>2, <3>2 DEF CourseAt, CourseOfAdd, Agreed, Known, Box
    <3>3. CASE k.op = "remove" /\ k.phase = "run" /\ Len(k.todo) = 12
      BY <1>2, <2>2, <3>3 DEF CourseAt, CourseOfRemove, Agreed, Known, Box
    <3>4. CASE k.op = "update" /\ k.phase = "build" /\ k.pending.image = active
      BY <1>2, <2>2, <3>4 DEF CourseAt, CalmImages
    <3>5. CASE /\ k.op = "rollback" /\ k.phase = "run" /\ Len(k.todo) = 9
               /\ plan # None /\ k.candidate = plan.image
      BY <1>2, <2>1, <2>2, <3>5 DEF CourseAt, CourseOfRollback, CalmImages, Agreed, Known, Box, Valid
    <3> QED BY <3>1, <3>2, <3>3, <3>4, <3>5
  <2>4. Course(h)' BY <1>1, <2>3 DEF Course
  <2> QED BY <1>1, <2>2, <2>4, HostNotNone DEF CalmCourse
<1> QED BY <1>3, <1>4

\* The end of a course is agreement.
LEMMA FinishCalm ==
  ASSUME Typed, CalmCourse, NEW h \in Host, Finish(h)
  PROVE  CalmCourse'
<1>1. UNCHANGED <<dockerVars, fileVars, registry, boundVars, faults>> /\ Done(h) BY DEF Finish
<1>2. /\ resident' = resident /\ images' = images /\ active' = active /\ mounts' = mounts
      /\ plan' = plan /\ registry' = registry /\ stopped' = stopped
      /\ faults' = faults /\ crashes' = crashes
  BY <1>1 DEF fileVars, dockerVars, boundVars, historyVars
<1>3. /\ (lock # h => lock' = lock) /\ (lock = h => lock' = None)
      /\ \A g \in Host \ {h} : job'[g] = job[g]
  BY FinishTyped
<1>4. CASE ~Calm' BY <1>4 DEF CalmCourse
<1>5. CASE Calm'
  <2>1. Calm BY <1>2, <1>5 DEF Calm
  <2>2. lock = h BY <1>1, <2>1 DEF Typed, Locked, Done, Calm
  <2>3. CourseAt(job[h], Left(h)) /\ CalmImages BY <2>1, <2>2 DEF CalmCourse, Course
  <2>4. Left(h) = 0 BY <1>1 DEF Left, Done
  <2>5. job[h] \in Work /\ Sensible(job[h]) BY <1>1 DEF Typed, Jobs, Sensible, Done
  <2>6. PICK j : j = job[h] OBVIOUS
  <2>7. /\ CourseAt(j, 0) /\ j.op \in {"add", "remove", "update", "rollback"}
        /\ j.phase \in {"run", "build", "reuse", "unchanged", "undo", "recover", "unhalt"}
    BY <1>1, <2>2, <2>3, <2>4, <2>5, <2>6 DEF Work, Typed, Locked, Done
  <2>8. Agreed
    <3>1. CASE j.phase \in {"unchanged", "build", "reuse"} BY <2>7, <3>1 DEF CourseAt
    <3>2. CASE j.phase = "recover"
      BY <2>7, <3>2 DEF CourseAt, CourseOfRefusal, Agreed, Known, Box
    <3>3. CASE j.phase = "run"
      <4>1. CASE j.op = "add" BY <2>7, <3>3, <4>1 DEF CourseAt, CourseOfAdd, Agreed, Known, Box
      <4>2. CASE j.op = "remove" BY <2>7, <3>3, <4>2 DEF CourseAt, CourseOfRemove, Agreed, Known, Box
      <4>3. CASE j.op = "update" BY <2>7, <3>3, <4>3 DEF CourseAt, CourseOfUpdate, Agreed, Known, Box
      <4>4. CASE j.op = "rollback" BY <2>7, <3>3, <4>4 DEF CourseAt, CourseOfRollback, Agreed, Known, Box
      <4> QED BY <2>7, <4>1, <4>2, <4>3, <4>4
    <3> QED BY <2>7, <3>1, <3>2, <3>3 DEF CourseAt
  <2>9. CalmImages' /\ Agreed' BY <1>2, <2>3, <2>8 DEF CalmImages, Agreed, Known, Box, Valid
  <2> QED BY <1>3, <2>2, <2>9, HostNotNone DEF CalmCourse
<1> QED BY <1>4, <1>5

----------------------------------------------------------------------------
(* The invariant.                                                          *)

LEMMA InvInit == Init => Inv
<1> SUFFICES ASSUME Init PROVE Inv OBVIOUS
<1>1. \A h \in Host : job[h] = NoJob /\ ~Busy(h) /\ lock # h
  <2>1. job = [h \in Host |-> NoJob] /\ lock = None BY DEF Init
  <2>2. NoJob.op = "none" BY DEF NoJob
  <2>3. \A h \in Host : job[h] = NoJob BY <2>1, Zenon
  <2> QED BY <2>1, <2>2, <2>3, HostNotNone, Zenon DEF Busy
<1>2. /\ resident \in Container /\ resident # None /\ resident.image = FirstImage
      /\ resident.mounts = {} /\ resident.up = TRUE
  BY ReplacementAssumption DEF Init, Container
<1>3. /\ registry.targets = {} /\ registry.image = FirstImage /\ registry.ready = TRUE
      /\ registry.back = None
  BY DEF Init
<1>8. Present BY DEF Init, Present
<1>4. Typed
  <2>1. registry \in Registry BY ReplacementAssumption DEF Init, Registry, Plan
  <2>2. exchange \in [targets : SUBSET Target, plan : Plan] BY DEF Init, Plan
  <2>3. FilesTyped
    BY <1>2, <2>1, <2>2, ReplacementAssumption DEF Init, FilesTyped, Plan
  <2>4. CountersTyped
    <3>1. 0 \in 0..MaxOps /\ 0 \in 0..MaxFaults /\ 0 \in 0..MaxCrashes
      BY ReplacementAssumption
    <3>2. FALSE \in BOOLEAN OBVIOUS
    <3> QED BY <3>1, <3>2, Zenon DEF Init, CountersTyped
  <2>5. Jobs /\ Locked BY <1>1 DEF Jobs, Locked, Init
  <2>6. lock \in Host \cup {None} BY DEF Init
  <2> QED BY <2>3, <2>4, <2>5, <2>6 DEF Typed
<1>5. ImagesExist BY <1>1, <1>2 DEF Init, ImagesExist, ActiveImageExists
<1>6. ActiveKept /\ InPlace /\ Running /\ Told
  BY <1>1 DEF ActiveKept, InPlace, Running, Told
<1>7. CalmCourse
  <2>1. CalmImages BY <1>3 DEF Init, CalmImages
  <2>2. Agreed BY <1>2, <1>3 DEF Init, Agreed, Known, Box, Valid
  <2> QED BY <1>1, <2>1, <2>2 DEF CalmCourse
<1> QED BY <1>4, <1>5, <1>6, <1>7, <1>8 DEF Inv

LEMMA BeginTargetCalm ==
  ASSUME Typed, CalmCourse, NEW h \in Host, NEW op \in {"add", "remove"}, NEW t \in Target,
         BeginTarget(h, op, t)
  PROVE  CalmCourse'
<1>1. retained' \subseteq images BY DEF BeginTarget, Typed, FilesTyped
<1>2. CASE /\ Unchanged(op, t)
           /\ Begin(h, [Job(op, t, active, <<>>) EXCEPT !.phase = "unchanged"])
  <2> DEFINE k == [Job(op, t, active, <<>>) EXCEPT !.phase = "unchanged"]
  <2>1. Sensible(k) /\ Fresh(k, op, t, active, active) /\ k.phase = "unchanged" /\ Len(k.todo) = 0
    BY UnchangedJob, Zenon
  <2>2. Begin(h, k) BY <1>2
  <2> HIDE DEF k
  <2>3. k.old = active /\ k.op = "add" /\ k.result = "ok"
    BY <1>2, <2>1 DEF Fresh, Unchanged
  <2>4. k.op # "stop" BY <2>3
  <2>5. job'[h] = k BY <1>1, <2>1, <2>2, <2>4, BeginTyped
  <2>6. Left(h)' = Len(k.todo) /\ Len(k.todo) \in Nat BY <2>1, <2>5 DEF Left
  <2> QED BY <1>1, <2>1, <2>2, <2>3, <2>4, <2>6, BeginCalm
<1>3. CASE Begin(h, Job(op, t, active, TargetScript(op)))
  <2> DEFINE k == Job(op, t, active, TargetScript(op))
  <2>1. /\ Sensible(k) /\ Fresh(k, op, t, active, active)
        /\ k.phase = "run" /\ Len(k.todo) = IF op = "add" THEN 7 ELSE 12
    BY TargetJob, Zenon
  <2>2. Begin(h, k) BY <1>3
  <2> HIDE DEF k
  <2>3. k.old = active /\ k.op = op /\ k.result = "ok" BY <2>1 DEF Fresh
  <2>4. k.op # "stop" BY <2>3
  <2>5. job'[h] = k BY <1>1, <2>1, <2>2, <2>4, BeginTyped
  <2>6. \/ k.op = "add" /\ Len(k.todo) = 7
        \/ k.op = "remove" /\ Len(k.todo) = 12
    BY <2>1, <2>3
  <2>7. Left(h)' = Len(k.todo) /\ Len(k.todo) \in Nat BY <2>5, <2>6 DEF Left
  <2> QED BY <1>1, <2>1, <2>2, <2>3, <2>4, <2>6, <2>7, BeginCalm
<1> QED BY <1>2, <1>3 DEF BeginTarget

LEMMA BeginUpdateCalm ==
  ASSUME Typed, CalmCourse, NEW h \in Host, NEW c \in Image, BeginUpdate(h, c)
  PROVE  CalmCourse'
<1> DEFINE k == [Job("update", None, c, On("exit", <<"build">>)) EXCEPT
                   !.phase = "build", !.pending = [image |-> active, targets |-> mounts]]
<1>1. retained' \subseteq images BY DEF BeginUpdate, Typed, FilesTyped
<1>2. /\ Sensible(k) /\ Fresh(k, "update", None, c, active)
      /\ k.phase = "build" /\ Len(k.todo) = 1 /\ k.pending.image = active
  BY UpdateJob, Zenon
<1>3. Begin(h, k) BY DEF BeginUpdate
<1> HIDE DEF k
<1>4. k.old = active /\ k.op = "update" /\ k.result = "ok" BY <1>2 DEF Fresh
<1>5. k.op # "stop" BY <1>4
<1>6. job'[h] = k BY <1>1, <1>2, <1>3, <1>5, BeginTyped
<1>7. Left(h)' = Len(k.todo) /\ Len(k.todo) \in Nat BY <1>2, <1>6 DEF Left
<1> QED BY <1>1, <1>2, <1>3, <1>4, <1>5, <1>7, BeginCalm

LEMMA BeginRollbackCalm ==
  ASSUME Typed, CalmCourse, NEW h \in Host, BeginRollback(h)
  PROVE  CalmCourse'
<1> DEFINE k == [Job("rollback", None, plan.image, RollbackScript) EXCEPT
                   !.ref = plan.image, !.expect = plan.image, !.manifest = plan.targets]
<1>1. retained' \subseteq images /\ plan # None BY DEF BeginRollback, Typed, FilesTyped
<1>2. /\ Sensible(k) /\ Fresh(k, "rollback", None, plan.image, plan.image)
      /\ k.phase = "run" /\ Len(k.todo) = 9
  BY <1>1, RollbackJob, Zenon
<1>3. Begin(h, k) BY DEF BeginRollback
<1> HIDE DEF k
<1>4. k.old = active /\ k.op = "rollback" /\ k.result = "ok" /\ k.candidate = plan.image
  BY <1>2 DEF Fresh
<1>5. k.op # "stop" BY <1>4
<1>6. job'[h] = k BY <1>1, <1>2, <1>3, <1>5, BeginTyped
<1>7. Left(h)' = Len(k.todo) /\ Len(k.todo) \in Nat BY <1>2, <1>6 DEF Left
<1> QED BY <1>1, <1>2, <1>3, <1>4, <1>5, <1>7, BeginCalm

LEMMA PresentNext ==
  ASSUME Typed, Present, [Next]_vars PROVE Present'
<1>1. faults \in Nat BY ReplacementAssumption DEF Typed, CountersTyped
<1> SUFFICES faults' \in {faults, faults + 1} /\ (absent' => absent \/ faults' = faults + 1)
  BY <1>1 DEF Present
<1>2. ASSUME NEW h \in Host, Perform(h)
      PROVE  faults' \in {faults, faults + 1} /\ (absent' => absent \/ faults' = faults + 1)
  <2>1. \/ Advance(h) \/ Fail(h) \/ Fault(h) => faults' \in {faults, faults + 1}
    BY DEF Advance, Fail, Fault
  <2>2. CASE Publish(h) BY <2>1, <2>2 DEF Publish, Advance
  <2>3. CASE Build(h) BY <2>3 DEF Build, Fault, fileVars
  <2>4. CASE StopContainer(h) \/ RemoveContainer(h) \/ CreateContainer(h) \/ Boot(h)
    <3>1. absent' = absent
      BY <2>4 DEF StopContainer, RemoveContainer, CreateContainer, Boot, fileVars
    <3>2. Advance(h) \/ Fail(h) \/ Fault(h)
      BY <2>4 DEF StopContainer, RemoveContainer, CreateContainer, Boot, Missing
    <3> QED BY <2>1, <3>1, <3>2
  <2>5. CASE Commit(h) \/ Ready(h) \/ Halt(h) \/ Restore(h)
    <3>1. absent' = absent BY <2>5 DEF Commit, Ready, Halt, Restore, fileVars
    <3>2. Advance(h) \/ Fail(h) \/ Fault(h) BY <2>5 DEF Commit, Ready, Halt, Restore, Call
    <3> QED BY <2>1, <3>1, <3>2
  <2>6. CASE \/ Readback(h) \/ Record(h) \/ KeepPlan(h) \/ Reactivate(h) \/ DiscardImage(h)
    <3>1. absent' = absent
      BY <2>6 DEF Readback, Record, KeepPlan, Reactivate, DiscardImage, fileVars
    <3>2. Advance(h) \/ Fail(h) \/ Fault(h)
      BY <2>6 DEF Readback, Record, KeepPlan, Reactivate, DiscardImage
    <3> QED BY <2>1, <3>1, <3>2
  <2> QED BY <1>2, <2>2, <2>3, <2>4, <2>5, <2>6 DEF Perform
<1>3. ASSUME NEW h \in Host, NEW k, Begin(h, k) PROVE faults' = faults /\ absent' = absent
  BY <1>3 DEF Begin, fileVars
<1>6. ASSUME NEW h \in Host,
             \/ \E t \in Target : BeginTarget(h, "add", t) \/ BeginTarget(h, "remove", t)
             \/ \E i \in Image : BeginUpdate(h, i)
             \/ BeginRollback(h)
      PROVE  faults' = faults /\ absent' = absent
  <2>1. \E k : Begin(h, k) BY <1>6, Zenon DEF BeginTarget, BeginUpdate, BeginRollback
  <2> QED BY <1>3, <2>1
<1>7. ASSUME NEW h \in Host, BeginStop(h) \/ Finish(h) \/ Crash(h)
      PROVE  faults' = faults /\ absent' = absent
  BY <1>7 DEF BeginStop, Finish, Crash, fileVars
<1>4. CASE Prepare BY <1>4 DEF Prepare
<1>5. CASE UNCHANGED vars BY <1>5 DEF vars, fileVars
<1>8. \/ \E h \in Host :
           \/ \E t \in Target : BeginTarget(h, "add", t) \/ BeginTarget(h, "remove", t)
           \/ \E i \in Image : BeginUpdate(h, i)
           \/ BeginRollback(h) \/ BeginStop(h)
           \/ Perform(h) \/ Finish(h) \/ Crash(h)
      \/ Prepare \/ UNCHANGED vars
  BY Zenon DEF Next, Rest
<1>9. CASE Prepare \/ UNCHANGED vars BY <1>4, <1>5, <1>9
<1>10. ASSUME NEW h \in Host,
              \/ \E t \in Target : BeginTarget(h, "add", t) \/ BeginTarget(h, "remove", t)
              \/ \E i \in Image : BeginUpdate(h, i)
              \/ BeginRollback(h) \/ BeginStop(h)
              \/ Perform(h) \/ Finish(h) \/ Crash(h)
       PROVE  faults' \in {faults, faults + 1} /\ (absent' => absent \/ faults' = faults + 1)
  <2>1. CASE faults' = faults /\ absent' = absent BY <2>1
  <2> QED BY <1>2, <1>6, <1>7, <1>10, <2>1
<1> QED BY <1>8, <1>9, <1>10

LEMMA InvNext == Inv /\ [Next]_vars => Inv'
<1> SUFFICES ASSUME Inv, [Next]_vars PROVE Inv' OBVIOUS
<1>1. Typed /\ Safe /\ ActiveKept /\ CalmCourse /\ Present BY DEF Inv, Safe
<1>0. Present' BY <1>1, PresentNext
<1> SUFFICES Typed' /\ Safe' /\ CalmCourse' BY <1>0 DEF Inv, Safe
<1>2. ASSUME NEW h \in Host, NEW t \in Target, BeginTarget(h, "add", t)
      PROVE  Typed' /\ Safe' /\ CalmCourse'
  BY <1>1, <1>2, BeginTargetSafe, BeginTargetCalm
<1>3. ASSUME NEW h \in Host, NEW t \in Target, BeginTarget(h, "remove", t)
      PROVE  Typed' /\ Safe' /\ CalmCourse'
  BY <1>1, <1>3, BeginTargetSafe, BeginTargetCalm
<1>4. ASSUME NEW h \in Host, NEW i \in Image, BeginUpdate(h, i)
      PROVE  Typed' /\ Safe' /\ CalmCourse'
  BY <1>1, <1>4, BeginUpdateSafe, BeginUpdateCalm
<1>5. ASSUME NEW h \in Host, BeginRollback(h) PROVE Typed' /\ Safe' /\ CalmCourse'
  BY <1>1, <1>5, BeginRollbackSafe, BeginRollbackCalm
<1>6. ASSUME NEW h \in Host, BeginStop(h) PROVE Typed' /\ Safe' /\ CalmCourse'
  <2>1. Aside BY <1>1, <1>6, BeginStopAside
  <2>2. Typed' BY <1>1, <1>6, BeginStopTyped
  <2> QED BY <1>1, <2>1, <2>2, AsideKeeps DEF Safe
<1>7. ASSUME NEW h \in Host, Perform(h) PROVE Typed' /\ Safe' /\ CalmCourse'
  BY <1>1, <1>7, PerformTyped, PerformSafe, PerformCalm
<1>8. ASSUME NEW h \in Host, Finish(h) PROVE Typed' /\ Safe' /\ CalmCourse'
  BY <1>1, <1>8, FinishSafe, FinishCalm
<1>9. ASSUME NEW h \in Host, Crash(h) PROVE Typed' /\ Safe' /\ CalmCourse'
  <2>1. crashes' # 0 BY <1>1, <1>9, CrashTyped
  <2> QED BY <1>1, <1>9, <2>1, CrashSafe DEF CalmCourse, Calm
<1>10. CASE UNCHANGED vars \/ Prepare
  <2>1. /\ resident' = resident /\ images' = images /\ retained' = retained /\ active' = active
        /\ mounts' = mounts /\ plan' = plan /\ exchange' = exchange /\ registry' = registry
        /\ lock' = lock /\ job' = job /\ ops' = ops /\ faults' = faults /\ crashes' = crashes
        /\ stopped' = stopped /\ unrestored' = unrestored
    <3>1. CASE UNCHANGED vars
      BY <3>1 DEF vars, dockerVars, fileVars, boundVars, historyVars
    <3>2. CASE Prepare
      BY <3>2 DEF Prepare, dockerVars, boundVars, historyVars
    <3> QED BY <1>10, <3>1, <3>2
  <2>8. absent' \in BOOLEAN
    <3>1. CASE UNCHANGED vars BY <1>1, <3>1 DEF Typed, FilesTyped, vars, fileVars
    <3>2. CASE Prepare BY <3>2 DEF Prepare
    <3> QED BY <1>10, <3>1, <3>2
  <2>2. Typed'
    BY <1>1, <2>1, <2>8 DEF Typed, FilesTyped, CountersTyped, Jobs, Locked, Busy
  <2>3. ImagesExist' /\ ActiveKept'
    BY <1>1, <2>1 DEF Safe, ImagesExist, ActiveImageExists, ActiveKept, Keeps, Left
  <2>4. InPlace' BY <1>1, <2>1 DEF Safe, InPlace, Places, Manifest, Is, Valid, Left
  <2>5. Running' BY <1>1, <2>1 DEF Safe, Running, Runs, Left
  <2>6. Told' BY <1>1, <2>1 DEF Safe, Told, Tells, Left
  <2>7. CalmCourse'
    <3>1. Agreed' <=> Agreed BY <2>1 DEF Agreed, Known, Box, Valid
    <3>2. CalmImages' <=> CalmImages BY <2>1 DEF CalmImages
    <3>3. \A j, n : CourseOfAdd(j, n)' <=> CourseOfAdd(j, n)
      BY <2>1 DEF CourseOfAdd, Known, Box, Valid
    <3>4. \A j, n : CourseOfRemove(j, n)' <=> CourseOfRemove(j, n)
      BY <2>1 DEF CourseOfRemove, Known, Box, Valid
    <3>5. \A j, n : CourseOfRefusal(j, n)' <=> CourseOfRefusal(j, n)
      BY <2>1 DEF CourseOfRefusal, Known, Box, Valid
    <3>6. \A j, n : CourseOfUpdate(j, n)' <=> CourseOfUpdate(j, n)
      BY <2>1 DEF CourseOfUpdate, Known, Box, Valid
    <3>7. \A j, n : CourseOfRollback(j, n)' <=> CourseOfRollback(j, n)
      BY <2>1 DEF CourseOfRollback, Known, Box, Valid
    <3>8. \A j, n : CourseAt(j, n)' <=> CourseAt(j, n)
      BY <2>1, <3>1, <3>3, <3>4, <3>5, <3>6, <3>7 DEF CourseAt
    <3>9. \A h : Course(h)' <=> Course(h) BY <2>1, <3>8 DEF Course, Left
    <3> QED BY <1>1, <2>1, <3>1, <3>2, <3>9 DEF CalmCourse, Calm
  <2> QED BY <2>2, <2>3, <2>4, <2>5, <2>6, <2>7 DEF Safe
<1> QED
  BY <1>2, <1>3, <1>4, <1>5, <1>6, <1>7, <1>8, <1>9, <1>10 DEF Next, Rest

\* The inductive invariant of the scripts: the state is typed, the images that
\* scripts go back to exist, and what each script has written, started and told
\* the controller is true of the disk, of the container and of its state from
\* the step on that makes it true; without failures it keeps to its course.
THEOREM ReplacementInv == Spec => []Inv
<1>1. Init => Inv BY InvInit
<1>2. Inv /\ [Next]_vars => Inv' BY InvNext
<1> QED BY <1>1, <1>2, PTL DEF Spec

\* A script that is done, and holds the lock.
LEMMA AtEnd ==
  ASSUME Inv, NEW h \in Host, Done(h)
  PROVE  /\ job[h] \in Work /\ Sensible(job[h]) /\ Left(h) = 0
         /\ job[h].op # "stop" => lock = h
         /\ lock = h => Keeps(job[h], 0) /\ Places(job[h], 0) /\ Tells(job[h], 0)
         /\ lock = h /\ ~stopped => Runs(job[h], 0)
<1>1. Busy(h) /\ Left(h) = 0 BY DEF Done, Left
<1>2. Sensible(job[h]) /\ job[h] \in Work BY <1>1 DEF Inv, Typed, Jobs, Sensible
<1>3. job[h].op # "stop" => lock = h BY <1>1 DEF Inv, Typed, Locked
<1> QED BY <1>1, <1>2, <1>3 DEF Inv, ActiveKept, InPlace, Told, Running

\* The state files, the container and the controller's state keep their types,
\* and replacement.lock is with the one script that is not a stop.
THEOREM ReplacementTyping == Spec => []TypeOK
<1>1. Inv => TypeOK BY TypedOK DEF Inv
<1> QED BY <1>1, ReplacementInv, PTL

\* Whenever a script may be killed, the image that active-image.tsv names exists,
\* unless a restoration has failed to write the record back
\* (entrypoint.sh:2871-2880).
THEOREM ActiveImageStays == Spec => []ActiveImageExists
<1>1. Inv => ActiveImageExists BY DEF Inv, ImagesExist
<1> QED BY <1>1, ReplacementInv, PTL

\* A target operation that succeeds, or reports a complete restoration, leaves
\* the resident as recorded and, if it was replaced, running.
THEOREM TargetSettles == Spec => []TargetSettled
<1>1. ASSUME Inv, NEW h \in Host, Done(h), job[h].op \in {"add", "remove"},
             job[h].result = "ok" \/ (job[h].phase = "recover" /\ job[h].result = "failed"),
             ~stopped
      PROVE  Valid(active, mounts) /\ (job[h].phase # "unchanged" => resident.up)
  <2>1. PICK j : j = job[h] OBVIOUS
  <2>2. /\ Sensible(j) /\ j.op \in {"add", "remove"} /\ ~stopped
        /\ j.result = "ok" \/ (j.phase = "recover" /\ j.result = "failed")
        /\ Keeps(j, 0) /\ Places(j, 0) /\ Runs(j, 0)
    BY <1>1, <2>1, AtEnd
  <2>3. active = j.old BY <2>2 DEF Keeps
  <2>4. Is(j.old, mounts)
    <3>1. j.manifest = None BY <2>2 DEF Sensible
    <3> QED BY <2>2, <3>1 DEF Places, Manifest
  <2>5. j.phase \in {"run", "unchanged", "recover"} /\ (j.phase = "recover" => j.result # "ok")
    BY <2>2 DEF Sensible
  <2>6. resident # None /\ (j.phase # "unchanged" => resident.up) BY <2>2, <2>5 DEF Runs
  <2> QED BY <2>1, <2>3, <2>4, <2>6 DEF Is
<1>2. Inv => TargetSettled BY <1>1 DEF TargetSettled
<1> QED BY <1>2, ReplacementInv, PTL

\* What add, update and rollback report as done is done: in mounts.tsv, the
\* record, the plan, the container and the controller's state.
THEOREM SuccessHolds == Spec => []SuccessTakesHold
<1>1. Inv => AddIsMounted
  <2>1. ASSUME Inv, NEW h \in Host, Succeeded(h, "add")
        PROVE  /\ job[h].target \in mounts
               /\ resident # None => job[h].target \in resident.mounts
    <3>1. PICK j : j = job[h] OBVIOUS
    <3>2. j.op = "add" /\ j.result = "ok" /\ Places(j, 0)
      BY <2>1, <3>1, AtEnd DEF Succeeded
    <3> QED BY <3>1, <3>2 DEF Places, Manifest, Is, Valid
  <2> QED BY <2>1 DEF AddIsMounted
<1>2. Inv => UpdateTakesHold
  <2>1. ASSUME Inv, NEW h \in Host, Succeeded(h, "update")
        PROVE  /\ active = job[h].candidate
               /\ ~stopped => registry.image = active
               /\ plan = job[h].pending
               /\ resident # None => Valid(active, job[h].backup)
               /\ job[h].projected => mounts = registry.targets
    <3>1. PICK j : j = job[h] OBVIOUS
    <3>2. /\ j.op = "update" /\ j.result = "ok" /\ Sensible(j)
          /\ Places(j, 0) /\ Tells(j, 0) /\ j.todo = <<>>
      BY <2>1, <3>1, AtEnd DEF Succeeded, Done
    <3>3. j.phase \in {"run", "reuse", "build"} BY <3>2 DEF Sensible
    <3>4. j.phase # "build" BY <3>2 DEF Tells
    <3>5. active = j.candidate /\ (~stopped => registry.image = j.candidate) /\ plan = j.pending
      BY <3>2, <3>3, <3>4 DEF Tells
    <3>6. Is(j.candidate, j.backup) /\ (j.projected => mounts = registry.targets)
      BY <3>2, <3>3, <3>4 DEF Places, Manifest
    <3> QED BY <3>1, <3>5, <3>6 DEF Is, Valid
  <2> QED BY <2>1 DEF UpdateTakesHold
<1>3. Inv => RollbackTakesHold
  <2>1. ASSUME Inv, NEW h \in Host, Succeeded(h, "rollback"), job[h].phase = "run"
        PROVE  /\ active = job[h].candidate
               /\ ~stopped => registry.image = active
               /\ registry.targets = job[h].manifest
               /\ resident # None => Valid(active, mounts)
    <3>1. PICK j : j = job[h] OBVIOUS
    <3>2. /\ j.op = "rollback" /\ j.result = "ok" /\ j.phase = "run" /\ Tells(j, 0)
          /\ Places(j, 0)
      BY <2>1, <3>1, AtEnd DEF Succeeded
    <3>3. Is(j.candidate, mounts) BY <3>2 DEF Places
    <3> QED BY <3>1, <3>2, <3>3 DEF Tells, Is
  <2> QED BY <2>1 DEF RollbackTakesHold
<1>4. Inv => SuccessTakesHold BY <1>1, <1>2, <1>3 DEF SuccessTakesHold
<1> QED BY <1>4, ReplacementInv, PTL

\* What fails, or restores, and does not report its restoration incomplete leaves
\* the record of the active image as it found it, and what is restored without
\* such a report runs again on its mounts and is what the controller knows.
THEOREM FailureLeaves == Spec => []FailureRestores
<1>1. Inv => FailureKeepsActive
  <2>1. ASSUME Inv, NEW h \in Host, Done(h), lock = h,
               job[h].result = "failed" \/ (job[h].phase = "recover" /\ job[h].result = "ok")
        PROVE  active = job[h].old
    <3>1. PICK j : j = job[h] OBVIOUS
    <3>2. /\ Keeps(j, 0) /\ (j.result = "failed" \/ (j.phase = "recover" /\ j.result = "ok"))
      BY <2>1, <3>1, AtEnd
    <3> QED BY <3>1, <3>2 DEF Keeps
  <2> QED BY <2>1 DEF FailureKeepsActive
<1>2. Inv => RestorationHolds
  <2>1. ASSUME Inv, NEW h \in Host, Done(h), lock = h,
               job[h].phase = "recover", job[h].result # "broken"
        PROVE  /\ resident # None => Valid(job[h].old, Manifest(job[h]))
               /\ ~stopped => resident # None /\ resident.up /\ registry.image = job[h].old
    <3>1. PICK j : j = job[h] OBVIOUS
    <3>2. /\ j.phase = "recover" /\ j.result # "broken" /\ Places(j, 0) /\ Tells(j, 0)
          /\ ~stopped => Runs(j, 0)
      BY <2>1, <3>1, AtEnd
    <3>3. Is(j.old, Manifest(j)) BY <3>2 DEF Places
    <3>4. ~stopped => resident # None /\ resident.up BY <3>2 DEF Runs
    <3>5. ~stopped => registry.image = j.old BY <3>2 DEF Tells
    <3> QED BY <3>1, <3>3, <3>4, <3>5 DEF Is
  <2> QED BY <2>1 DEF RestorationHolds
<1>3. Inv => FailureRestores BY <1>1, <1>2 DEF FailureRestores
<1> QED BY <1>3, ReplacementInv, PTL

\* Between operations, as long as nothing fails, is killed or is stopped, the
\* controller, mounts.tsv, the active record and the running resident agree.
THEOREM OperationsAgree == Spec => []Agreement
<1>1. ASSUME Inv, Quiet, faults = 0, crashes = 0, ~stopped
      PROVE  Agreed
  <2>1. lock = None BY <1>1 DEF Inv, Typed, Locked, Quiet
  <2> QED BY <1>1, <2>1 DEF Inv, CalmCourse, Calm
<1>2. Inv => Agreement BY <1>1 DEF Agreement, Agreed, Known, Box
<1> QED BY <1>2, ReplacementInv, PTL
=============================================================================
