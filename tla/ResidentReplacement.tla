------------------------ MODULE ResidentReplacement ------------------------
(***************************************************************************)
(* The host adapter, src/bootstrap/host/lifecycle/entrypoint.sh: target    *)
(* add and remove, update, rollback and stop.  Each is a script of docker  *)
(* calls, calls of the controller in the resident container and writes of  *)
(* state files; every step has its own way of failing (return, undo the    *)
(* candidate, restore the previous resident).  Target operations, update   *)
(* and rollback hold replacement.lock; stop holds nothing.  A script may   *)
(* be killed between any two steps.                                        *)
(* The controller is reduced to what the scripts see of it; its refusals   *)
(* that depend on generation names are among its failures.                 *)
(***************************************************************************)
EXTENDS Naturals, Sequences

CONSTANTS
  Host, Target, Image,
  FirstImage,                 \* the image installed at first
  None,
  MaxOps, MaxFaults, MaxCrashes  \* bounds

Container == [image : Image, mounts : SUBSET Target, up : BOOLEAN]
Snapshot  == [image : Image, targets : SUBSET Target]
Plan      == Snapshot \cup {None}

ASSUME ReplacementAssumption ==
  /\ FirstImage \in Image
  /\ None \notin Host \cup Target \cup Image
  /\ \A T \in SUBSET Target : T # None
  /\ (\A s \in Snapshot : s # None) /\ \A c \in Container : c # None
  /\ MaxOps \in Nat /\ MaxFaults \in Nat /\ MaxCrashes \in Nat

VARIABLES
  resident,   \* the named container, None when there is none
  images,     \* image IDs docker knows
  retained,   \* those that also have a rollback tag
  active,     \* host-state/active-image.tsv
  mounts,     \* mounts.tsv of the host, empty when there is none
  absent,     \* there is none: a publication removed it
  plan,       \* rollback-plan.tsv of the host
  exchange,   \* the last projection exported from the controller's volume
  registry,   \* the controller's state.json
  lock,       \* who holds replacement.lock
  job,        \* job[h]: the script h runs
  ops, faults, crashes,  \* counters, for the bounds
  stopped,    \* history: a stop has begun
  unrestored  \* history: a restoration could not write the record back

dockerVars == <<resident, images, retained>>
fileVars   == <<active, mounts, absent, plan, exchange>>
historyVars == <<stopped, unrestored>>
boundVars  == <<ops, crashes, historyVars>>
vars == <<dockerVars, fileVars, registry, lock, job, boundVars, faults>>

NoJob == [op |-> "none", todo |-> <<>>]
Busy(h) == job[h].op # "none"

\* todo is what is left of the script.  phase names the script: an operation
\* runs, or finds the resident unchanged; an update builds its image first and
\* may reuse the resident then; what fails is undone, restored or unhalted.
Job(op, target, candidate, todo) ==
  [op |-> op, target |-> target, candidate |-> candidate, todo |-> todo,
   old |-> active,          \* the image to go back to
   ref |-> active,          \* AGENT_CANON_IMAGE_REF
   expect |-> active,       \* AGENT_CANON_EXPECTED_IMAGE_ID
   manifest |-> None,       \* AGENT_CANON_ROLLBACK_MOUNTS_FILE, None: mounts.tsv
   backup |-> mounts,       \* .rollback-current-mounts
   pending |-> None,        \* .pending-rollback-plan.tsv
   projected |-> TRUE,      \* history: no publication of the script failed
   phase |-> "run", result |-> "ok"]

----------------------------------------------------------------------------
(* Scripts.  On(r, s): the steps s; a step that fails takes route r.       *)
On(route, steps) == [i \in DOMAIN steps |-> [do |-> steps[i], fails |-> route]]

Teardown == <<"stop", "remove">>
Ensure   == <<"create", "boot">>

\* How an update ends.  The projection has a plan of its own, which the plan
\* prepared by the host replaces.
Settle == <<"publish", "record", "keep">>

TargetScript(op) ==
  On("exit", Teardown) \o
  On("recover", Ensure \o <<"commit", "publish">> \o
     (IF op = "remove" THEN Teardown \o Ensure \o <<"ready">> ELSE <<>>) \o
     <<"readback">>)

\* What an update does once the candidate image is there.
UpdateScript(present) ==
  (IF present THEN On("exit", Teardown) ELSE <<>>) \o
  On("undo", Ensure) \o On("recover", <<"commit">> \o Settle)

\* The resident already runs the candidate: nothing to restore.
ReuseScript == On("exit", <<"commit">> \o Settle)

\* Mutant: the active image is not recorded.
RollbackScriptUnrecorded ==
  On("exit", Teardown \o Ensure) \o
  On("recover", <<"commit", "publish", "readback", "ready">>)

RollbackScript ==
  On("exit", Teardown \o Ensure) \o
  On("recover", <<"commit", "publish", "readback", "ready", "record">>)

StopScript == On("exit", <<"halt">>) \o On("unhalt", <<"stop">>) \o On("exit", <<"remove">>)

\* Mutant: the candidate image is removed while the record still names it.
EpilogueEager(op) ==
  On("note", <<"discard">> \o (IF op = "update" THEN <<"reactivate">> ELSE <<>>))

\* Mutant: the record is left as the failed candidate's.
EpilogueForgetful(op) == On("note", <<"discard">>)

Epilogue(op) ==
  On("note", (IF op = "update" THEN <<"reactivate">> ELSE <<>>) \o <<"discard">>)

\* restore_candidate_failure: what fails is noted and the rest is still done;
\* the controller is not started in a container that could not be ensured.
RecoveryScript(op) ==
  On("note", <<"restore">> \o Teardown) \o On("skip", Ensure) \o
  On("note", <<"ready">>) \o Epilogue(op)

UndoScript == On("exit", Teardown \o <<"discard">> \o Ensure \o <<"ready">>)

\* Undo goes back to the old image and leaves the expected image as it is.
Undo(j) == [j EXCEPT !.phase = "undo", !.result = "failed", !.ref = j.old, !.todo = UndoScript]

\* A rollback restores the targets it found, unless the controller itself
\* refused: then it reads mounts.tsv.  When only the last two steps failed, it
\* reports success after a complete restoration.
Recover(j) ==
  [j EXCEPT !.phase = "recover", !.ref = j.old, !.expect = j.old,
            !.todo = RecoveryScript(j.op),
            !.manifest = IF j.op = "rollback" /\ Head(j.todo).do # "commit"
                         THEN j.backup ELSE None,
            !.result = IF j.op = "rollback" /\ Head(j.todo).do \in {"ready", "record"}
                       THEN "ok" ELSE "failed"]

Failed(j) ==
  LET route == Head(j.todo).fails IN
  CASE route = "exit"    -> [j EXCEPT !.todo = <<>>, !.result = "failed"]
    [] route = "unhalt"  -> [j EXCEPT !.phase = "unhalt", !.result = "failed",
                                      !.todo = On("exit", <<"ready">>)]
    [] route = "undo"    -> Undo(j)
    [] route = "recover" -> Recover(j)
    [] route = "note"    -> [j EXCEPT !.todo = Tail(@), !.result = "broken"]
    [] route = "skip"    -> [j EXCEPT !.todo = Epilogue(j.op), !.result = "broken"]

At(h, step) == Busy(h) /\ job[h].todo # <<>> /\ Head(job[h].todo).do = step
Advance(h)  == job' = [job EXCEPT ![h].todo = Tail(@)] /\ UNCHANGED faults
Fail(h)     == job' = [job EXCEPT ![h] = Failed(@)]    /\ UNCHANGED faults
\* Docker, the controller or the file system fails.
Fault(h)    == /\ faults < MaxFaults /\ faults' = faults + 1
               /\ job' = [job EXCEPT ![h] = Failed(@)]

----------------------------------------------------------------------------
(* Beginning and end.                                                      *)
Valid(image, targets) ==
  resident # None /\ resident.image = image /\ resident.mounts = targets

\* The lock is waited for.
Begin(h, j) ==
  /\ ~Busy(h) /\ lock = None /\ ops < MaxOps
  /\ lock' = h /\ ops' = ops + 1
  /\ job' = [job EXCEPT ![h] = j]
  /\ UNCHANGED <<resident, images, fileVars, registry, faults, crashes, historyVars>>

Unchanged(op, t) == op = "add" /\ t \in mounts /\ Valid(active, mounts)

\* A target that is recorded and mounted already is left alone, whether the
\* resident runs or not.
BeginTarget(h, op, t) ==
  /\ \/ Unchanged(op, t) /\ Begin(h, [Job(op, t, active, <<>>) EXCEPT !.phase = "unchanged"])
     \/ ~Unchanged(op, t) /\ Begin(h, Job(op, t, active, TargetScript(op)))
  /\ UNCHANGED retained

\* The image in use is retained under a rollback tag, and must exist for it, and
\* the plan to go back to it is prepared.
BeginUpdate(h, candidate) ==
  /\ active \in images
  /\ Begin(h, [Job("update", None, candidate, On("exit", <<"build">>)) EXCEPT
                 !.phase = "build",
                 !.pending = [image |-> active, targets |-> mounts]])
  /\ retained' = retained \cup {active}

\* Only a resident that is as recorded is rolled back.
BeginRollback(h) ==
  /\ plan # None /\ ~absent /\ Valid(active, mounts)
  /\ Begin(h, [Job("rollback", None, plan.image, RollbackScript) EXCEPT
                 !.ref = plan.image, !.expect = plan.image, !.manifest = plan.targets])
  /\ UNCHANGED retained

\* stop takes no lock.
BeginStop(h) ==
  /\ ~Busy(h) /\ ops < MaxOps
  /\ Valid(active, mounts)
  /\ ops' = ops + 1 /\ stopped' = TRUE
  /\ job' = [job EXCEPT ![h] = Job("stop", None, active, StopScript)]
  /\ UNCHANGED <<dockerVars, fileVars, registry, lock, faults, crashes, unrestored>>

\* Every invocation begins with prepare_host_runtime, before it waits for the
\* lock: a mounts.tsv that is gone is made again, empty.
Prepare ==
  /\ absent /\ absent' = FALSE
  /\ UNCHANGED <<dockerVars, active, mounts, plan, exchange, registry, lock, job,
                 boundVars, faults>>

\* Mutant: a script gives back a lock it never took.
ReleaseAny(h) == lock' = None

Release(h) == lock' = IF lock = h THEN None ELSE lock

Done(h) == Busy(h) /\ job[h].todo = <<>>

Finish(h) ==
  /\ Done(h)
  /\ job' = [job EXCEPT ![h] = NoJob]
  /\ Release(h)
  /\ UNCHANGED <<dockerVars, fileVars, registry, boundVars, faults>>

\* A killed script gives the flock back and leaves everything as it is.
Crash(h) ==
  /\ Busy(h) /\ ~Done(h) /\ crashes < MaxCrashes
  /\ crashes' = crashes + 1
  /\ job' = [job EXCEPT ![h] = NoJob]
  /\ Release(h)
  /\ UNCHANGED <<dockerVars, fileVars, registry, ops, historyVars, faults>>

----------------------------------------------------------------------------
(* The steps.                                                              *)

\* The image is there already, or it is pulled or built.  Only then the script
\* looks at the resident again: one that is valid and runs the candidate under
\* the same reference is kept, and none is replaced without a mounts.tsv.
\* References are not modelled.
Build(h) ==
  /\ At(h, "build")
  /\ LET c == job[h].candidate IN
     \/ /\ images' = images \cup {c}
        /\ \/ /\ absent => resident = None
              /\ job' = [job EXCEPT ![h].todo = UpdateScript(resident # None),
                          ![h].phase = "run", ![h].ref = c, ![h].expect = c]
           \/ /\ ~absent /\ c = active /\ Valid(active, mounts)
              /\ job' = [job EXCEPT ![h].todo = ReuseScript, ![h].phase = "reuse"]
           \/ absent /\ resident # None /\ job' = [job EXCEPT ![h] = Failed(@)]
        /\ UNCHANGED faults
     \/ Fault(h) /\ UNCHANGED images
  /\ UNCHANGED <<resident, retained, fileVars, registry, lock, boundVars>>

\* When something is undone or restored, a container that is gone is skipped.
Missing(h) ==
  /\ resident = None
  /\ IF job[h].phase = "run" THEN Fail(h) ELSE Advance(h)
  /\ UNCHANGED resident

StopContainer(h) ==
  /\ At(h, "stop")
  /\ \/ Missing(h)
     \/ resident # None /\ resident' = [resident EXCEPT !.up = FALSE] /\ Advance(h)
     \/ resident # None /\ Fault(h) /\ UNCHANGED resident
  /\ UNCHANGED <<images, retained, fileVars, registry, lock, boundVars>>

RemoveContainer(h) ==
  /\ At(h, "remove")
  /\ \/ Missing(h)
     \/ resident # None /\ ~resident.up /\ resident' = None /\ Advance(h)
     \/ resident # None /\ resident.up /\ Fail(h) /\ UNCHANGED resident
     \/ resident # None /\ Fault(h) /\ UNCHANGED resident
  /\ UNCHANGED <<images, retained, fileVars, registry, lock, boundVars>>

\* The mounts file that is used.
Manifest(j) == IF j.manifest = None THEN mounts ELSE j.manifest

\* Mutant: the pending bind is still exported when the resident is restored.
WantedMountsKept(j) == Manifest(j) \cup
  (IF j.op = "add" THEN {j.target} ELSE {})

\* The target being added is mounted before the controller knows it, and only
\* in the container made for the controller to commit it.
WantedMounts(j) == Manifest(j) \cup
  (IF j.op = "add" /\ j.phase = "run" THEN {j.target} ELSE {})

\* A container that exists is not replaced; either way it must be the expected
\* one, and mounts.tsv is imported into the volume, even when the manifest is
\* another file.
CreateContainer(h) ==
  /\ At(h, "create")
  /\ LET j == job[h] IN
     \/ /\ resident = None /\ j.ref \in images /\ ~absent
        /\ resident' = [image |-> j.ref, mounts |-> WantedMounts(j), up |-> FALSE]
        /\ IF j.ref = j.expect THEN Advance(h) ELSE Fail(h)
     \/ /\ resident # None
        /\ IF Valid(j.expect, WantedMounts(j)) /\ ~absent THEN Advance(h) ELSE Fail(h)
        /\ UNCHANGED resident
     \/ resident = None /\ (j.ref \notin images \/ absent) /\ Fail(h) /\ UNCHANGED resident
     \/ Fault(h) /\ UNCHANGED resident
  /\ UNCHANGED <<images, retained, fileVars, registry, lock, boundVars>>

\* docker start, and the wait for a healthy container.
Boot(h) ==
  /\ At(h, "boot")
  /\ \/ resident # None /\ resident' = [resident EXCEPT !.up = TRUE] /\ (Advance(h) \/ Fault(h))
     \/ resident = None /\ Fail(h) /\ UNCHANGED resident
     \/ resident # None /\ Fault(h) /\ UNCHANGED resident
  /\ UNCHANGED <<images, retained, fileVars, registry, lock, boundVars>>

\* A call of the controller: it may fail before or after it wrote its state.
Call(h, accepted, effect) ==
  LET works == resident # None /\ resident.up /\ accepted IN
  \/ works /\ registry' = effect /\ (Advance(h) \/ Fault(h))
  \/ works /\ Fault(h) /\ UNCHANGED registry
  \/ ~works /\ Fail(h) /\ UNCHANGED registry

ChangedTargets(new) ==
  [registry EXCEPT !.targets = new, !.known = TRUE,
     !.back = IF registry.known THEN [image |-> registry.image, targets |-> registry.targets]
              ELSE None]

\* A target must be mounted to be changed, and registered to be removed.
Accepted(j) ==
  CASE j.op = "add"    -> j.target \in resident.mounts
    [] j.op = "remove" -> j.target \in registry.targets \cap resident.mounts
    [] OTHER           -> TRUE

Transition(j) ==
  CASE j.op = "add" ->
         IF j.target \in registry.targets THEN registry
         ELSE [ChangedTargets(registry.targets \cup {j.target}) EXCEPT !.ready = TRUE]
    [] j.op = "remove" -> ChangedTargets(registry.targets \ {j.target})
    [] j.op = "update" /\ j.phase = "reuse" ->
         [registry EXCEPT !.image = j.ref, !.ready = TRUE]
    [] OTHER ->
         [targets |-> IF j.op = "rollback" THEN j.manifest ELSE registry.targets,
          image |-> j.candidate, known |-> TRUE, ready |-> TRUE,
          back |-> [image |-> j.old, targets |-> registry.targets]]

Commit(h) ==
  /\ At(h, "commit")
  /\ Call(h, resident # None /\ Accepted(job[h]), Transition(job[h]))
  /\ UNCHANGED <<dockerVars, fileVars, lock, boundVars>>

\* start
Ready(h) ==
  /\ At(h, "ready")
  /\ Call(h, TRUE, [registry EXCEPT !.image = job[h].ref, !.ready = TRUE])
  /\ UNCHANGED <<dockerVars, fileVars, lock, boundVars>>

\* stop
Halt(h) ==
  /\ At(h, "halt")
  /\ Call(h, TRUE, [registry EXCEPT !.image = job[h].ref, !.ready = FALSE])
  /\ UNCHANGED <<dockerVars, fileVars, lock, boundVars>>

\* restore: only a rollback hands over targets, those of mounts.tsv, and must.
Restored(j) ==
  [targets |-> IF j.op = "rollback" THEN mounts ELSE registry.targets,
   image |-> j.old, known |-> TRUE, ready |-> TRUE,
   back |-> IF registry.image # j.old
            THEN [image |-> registry.image, targets |-> registry.targets] ELSE registry.back]

Restore(h) ==
  /\ At(h, "restore")
  /\ \/ resident = None /\ Advance(h) /\ UNCHANGED registry
     \/ /\ resident # None
        /\ Call(h, job[h].op = "rollback" => ~absent, Restored(job[h]))
  /\ UNCHANGED <<dockerVars, fileVars, lock, boundVars>>

\* What the controller has in its volume for the host.
Projection == [targets |-> registry.targets, plan |-> registry.back]

\* Mutant: only the rollback plan is projected, mounts.tsv stays the host's.
PublishPlan(h) ==
  /\ At(h, "publish") /\ Advance(h)
  /\ exchange' = Projection /\ plan' = exchange'.plan
  /\ UNCHANGED <<dockerVars, active, mounts, absent, registry, lock, boundVars>>

\* How far a publication that fails gets.  Without a staging directory, or once
\* it is given up, the files that follow count as absent from the projection:
\* they are removed, or stay where the removal fails as well.
PublishPartly ==
  \/ /\ mounts' = exchange'.targets /\ absent' = FALSE
     /\ plan' \in {exchange'.plan, plan, None}
  \/ /\ \/ UNCHANGED <<mounts, absent>>
        \/ mounts' = {} /\ absent' = TRUE
     /\ plan' \in {plan, None}

\* publish_controller_projection runs where errexit is off and its last command
\* succeeds, so no failure in it is noticed; where the export fails, the
\* previous one is published.
Publish(h) ==
  /\ At(h, "publish")
  /\ \/ /\ exchange' = Projection
        /\ mounts' = exchange'.targets /\ absent' = FALSE /\ plan' = exchange'.plan
        /\ Advance(h)
     \/ /\ faults < MaxFaults /\ faults' = faults + 1
        /\ exchange' \in {exchange, Projection} /\ PublishPartly
        /\ job' = [job EXCEPT ![h].todo = Tail(@), ![h].projected = FALSE]
  /\ UNCHANGED <<dockerVars, active, registry, lock, boundVars>>

Readback(h) ==
  /\ At(h, "readback")
  /\ \/ Valid(job[h].expect, mounts) /\ (Advance(h) \/ Fault(h))
     \/ ~Valid(job[h].expect, mounts) /\ Fail(h)
  /\ UNCHANGED <<dockerVars, fileVars, registry, lock, boundVars>>

\* record_active_container, and global links before it.
Record(h) ==
  /\ At(h, "record")
  /\ \/ resident # None /\ active' = resident.image /\ Advance(h)
     \/ resident = None /\ Fail(h) /\ UNCHANGED active
     \/ Fault(h) /\ UNCHANGED active
  /\ UNCHANGED <<dockerVars, mounts, absent, plan, exchange, registry, lock, boundVars>>

\* commit_pending_rollback_plan
KeepPlan(h) ==
  /\ At(h, "keep")
  /\ \/ plan' = job[h].pending /\ Advance(h)
     \/ Fault(h) /\ UNCHANGED plan
  /\ UNCHANGED <<dockerVars, active, mounts, absent, exchange, registry, lock, boundVars>>

Reactivate(h) ==
  /\ At(h, "reactivate")
  /\ \/ active' = job[h].old /\ Advance(h) /\ UNCHANGED unrestored
     \/ Fault(h) /\ UNCHANGED active /\ unrestored' = TRUE
  /\ UNCHANGED <<dockerVars, mounts, absent, plan, exchange, registry, lock,
                 ops, crashes, stopped>>

\* docker image rm of an ID is refused while a container uses the image, and
\* when the image has tags in several repositories.
DiscardImage(h) ==
  /\ At(h, "discard")
  /\ LET c == job[h].candidate
         free == c \in images /\ ~(resident # None /\ resident.image = c) IN
     \/ /\ c # job[h].old /\ free
        /\ images' = images \ {c} /\ retained' = retained \ {c}
        /\ Advance(h)
     \/ c = job[h].old /\ Advance(h) /\ UNCHANGED <<images, retained>>
     \/ c # job[h].old /\ (~free \/ c \in retained) /\ Fail(h) /\ UNCHANGED <<images, retained>>
     \/ c # job[h].old /\ Fault(h) /\ UNCHANGED <<images, retained>>
  /\ UNCHANGED <<resident, fileVars, registry, lock, boundVars>>

----------------------------------------------------------------------------
Init ==
  /\ resident = [image |-> FirstImage, mounts |-> {}, up |-> TRUE]
  /\ images = {FirstImage} /\ retained = {}
  /\ active = FirstImage
  /\ mounts = {} /\ absent = FALSE /\ plan = None
  /\ exchange = [targets |-> {}, plan |-> None]
  /\ registry = [targets |-> {}, image |-> FirstImage, known |-> FALSE, ready |-> TRUE,
                 back |-> None]
  /\ lock = None
  /\ job = [h \in Host |-> NoJob]
  /\ ops = 0 /\ faults = 0 /\ crashes = 0
  /\ stopped = FALSE /\ unrestored = FALSE

\* Everything has been asked for and answered.
Rest == ops = MaxOps /\ (\A h \in Host : ~Busy(h)) /\ UNCHANGED vars

Perform(h) ==
  \/ Build(h) \/ StopContainer(h) \/ RemoveContainer(h) \/ CreateContainer(h) \/ Boot(h)
  \/ Commit(h) \/ Ready(h) \/ Halt(h) \/ Restore(h)
  \/ Publish(h) \/ Readback(h) \/ Record(h) \/ KeepPlan(h) \/ Reactivate(h) \/ DiscardImage(h)

Next ==
  \/ \E h \in Host :
       \/ \E t \in Target : BeginTarget(h, "add", t) \/ BeginTarget(h, "remove", t)
       \/ \E i \in Image : BeginUpdate(h, i)
       \/ BeginRollback(h) \/ BeginStop(h)
       \/ Perform(h) \/ Finish(h) \/ Crash(h)
  \/ Prepare
  \/ Rest

Spec == Init /\ [][Next]_vars

----------------------------------------------------------------------------
(* Properties.  The history of stop is in their conditions: stop waits for *)
(* no lock and can take the container away, or write its old image into    *)
(* the controller's state, in the middle of any script.                    *)

Registry == [targets : SUBSET Target, image : Image, known : BOOLEAN, ready : BOOLEAN,
             back : Plan]

\* The state files, the container and the controller's state have their types,
\* and replacement.lock is with the one script that is not a stop.
TypeOK ==
  /\ resident \in Container \cup {None}
  /\ images \subseteq Image /\ retained \subseteq images
  /\ active \in Image /\ mounts \subseteq Target /\ absent \in BOOLEAN /\ plan \in Plan
  /\ exchange \in [targets : SUBSET Target, plan : Plan]
  /\ registry \in Registry
  /\ lock \in Host \cup {None}
  /\ \A h \in Host : Busy(h) =>
       /\ job[h].op \in {"add", "remove", "update", "rollback", "stop"}
       /\ job[h].op # "stop" <=> lock = h

Succeeded(h, op) == Done(h) /\ job[h].op = op /\ job[h].result = "ok"

\* The image that active-image.tsv names exists whenever a script may be killed,
\* so that the next operation has something to start: restore_candidate_failure
\* removes an image that the record may have named a moment ago.
ActiveImageExists == ~unrestored => active \in images

\* A target add that reports success has its target in mounts.tsv and mounted in
\* the resident, whatever failed on the way and whoever stops the container
\* meanwhile (a stopped container is gone, and recreated from mounts.tsv).
AddIsMounted ==
  \A h \in Host : Succeeded(h, "add") =>
    /\ job[h].target \in mounts
    /\ resident # None => job[h].target \in resident.mounts

\* A target operation that succeeds, or fails and reports its restoration
\* complete, leaves a resident of the active image with exactly the mounts of
\* mounts.tsv, and running if it was replaced.
TargetSettled ==
  \A h \in Host :
    /\ Done(h) /\ job[h].op \in {"add", "remove"}
    /\ job[h].result = "ok" \/ (job[h].phase = "recover" /\ job[h].result = "failed")
    /\ ~stopped
    => Valid(active, mounts) /\ (job[h].phase # "unchanged" => resident.up)

\* An update that reports success has recorded the candidate, told the
\* controller, left the plan it prepared (back to the image and the mounts it
\* found), and runs the candidate on the mounts it found.  They are those of
\* mounts.tsv too, unless its publication failed or an earlier target operation
\* had failed after the controller's commit: nothing is read back after either.
UpdateTakesHold ==
  \A h \in Host : Succeeded(h, "update") =>
    /\ active = job[h].candidate
    /\ ~stopped => registry.image = active
    /\ plan = job[h].pending
    /\ resident # None => Valid(active, job[h].backup)
    /\ job[h].projected => mounts = registry.targets

\* A rollback that reports success without having restored anything has
\* recorded the image of the plan, given the controller its targets, and runs
\* that image on the mounts of mounts.tsv.
RollbackTakesHold ==
  \A h \in Host : Succeeded(h, "rollback") /\ job[h].phase = "run" =>
    /\ active = job[h].candidate
    /\ ~stopped => registry.image = active
    /\ registry.targets = job[h].manifest
    /\ resident # None => Valid(active, mounts)

\* What an operation reports as done is done.
SuccessTakesHold == AddIsMounted /\ UpdateTakesHold /\ RollbackTakesHold

\* An operation that fails, or restores, and does not report that its
\* restoration was incomplete leaves the active image recorded as it found it,
\* also when it failed after it had recorded the candidate.
FailureKeepsActive ==
  \A h \in Host :
    /\ Done(h)
    /\ job[h].result = "failed" \/ (job[h].phase = "recover" /\ job[h].result = "ok")
    /\ lock = h
    => active = job[h].old

\* A restoration that is not reported incomplete has the image that was found
\* running again, on the mounts of the file it was given, and has told the
\* controller, whichever step had failed.
RestorationHolds ==
  \A h \in Host :
    Done(h) /\ lock = h /\ job[h].phase = "recover" /\ job[h].result # "broken" =>
      /\ resident # None => Valid(job[h].old, Manifest(job[h]))
      /\ ~stopped => resident # None /\ resident.up /\ registry.image = job[h].old

\* What an operation that fails leaves behind.
FailureRestores == FailureKeepsActive /\ RestorationHolds

Quiet == \A h \in Host : ~Busy(h)

\* Between operations, the controller's registry, mounts.tsv, the active record
\* and a running resident agree, as long as nothing failed and nobody stopped
\* the resident.
Agreement ==
  Quiet /\ faults = 0 /\ crashes = 0 /\ ~stopped =>
    /\ registry.targets = mounts /\ registry.image = active /\ registry.ready
    /\ Valid(active, mounts) /\ resident.up

=============================================================================
