------------------------ MODULE BootstrapController ------------------------
(***************************************************************************)
(* The resident controller of the bootstrap runtime                        *)
(* (src/tools/runtime/container/bootstrap_runtime.py).  Every operation    *)
(* takes lifecycle.lock, reads state.json, changes it and writes it back.  *)
(* An operation is one action, except `exec', which keeps the lock while   *)
(* its worker runs and so is split into a beginning and a return.  Workers *)
(* hold their task's process-lease.lock through an inherited descriptor,   *)
(* which is how a reservation survives the death of its controller.        *)
(*                                                                         *)
(* An operator whose comment begins with `Mutant' is a plausible mistake   *)
(* in the definition after it.  No action uses it: it is there to show     *)
(* that the properties notice.                                             *)
(***************************************************************************)
EXTENDS Integers, FiniteSets

CONSTANTS
  Task,           \* task identifiers
  Target,         \* digests of target roots
  Image,          \* image identities of the resident container
  Volatile,       \* targets whose root may disappear and come back
  MaxParallel,    \* manifest container.max_parallel_tasks
  MaxGeneration,  \* bound on generation_counter, for model checking only
  None            \* the null of state.json

ASSUME ControllerAssumption ==
  /\ IsFiniteSet(Task)
  /\ Volatile \subseteq Target
  /\ MaxParallel \in Nat \ {0}
  /\ MaxGeneration \in Nat
  /\ None \notin Task \cup Target \cup Image
  /\ \A ts \in SUBSET Target : ts # None

VARIABLES
  state,        \* "ready", "running" or "stopped"
  count,        \* active_task_count
  tasks,        \* Task -> NoTask, Finished or the record of an active task
  targets,      \* digests in the active mount registry
  generations,  \* generation name -> snapshot
  current,      \* current_generation
  rollback,     \* rollback_generation
  counter,      \* generation_counter
  image,        \* resources.image.id
  plan,         \* container-runtime/rollback-plan.tsv
  torn,         \* a controller died after state.json and before the plan
  lock,         \* lifecycle.lock: None or the task whose exec holds it
  leases,       \* tasks whose lease some process of their worker holds
  sources,      \* targets whose root is a directory inside the container
  cache,        \* the cache directory has entries
  reply         \* code, or exception, of the last admission

taskVars == <<state, count, tasks>>
genVars  == <<targets, generations, current, rollback, counter, image, plan, torn>>
procVars == <<lock, leases>>
vars     == <<taskVars, genVars, procVars, sources, cache, reply>>

----------------------------------------------------------------------------
\* A manual task (`task admit') has no process lease and needs no target.
\* A finished task, completed or cancelled, is unpinned and waits for gc.
NoTask   == [state |-> "absent", lease |-> "manual", target |-> None]
Finished == [NoTask EXCEPT !.state = "finished"]
Active(kind, t) == [state |-> "active", lease |-> kind, target |-> t]

TaskRecord == [state : {"absent", "active", "finished"},
               lease : {"manual", "process"}, target : Target \cup {None}]

AdmissionStates == {"ready", "running"}

ActiveIn(f) == {k \in Task : f[k].state = "active"}
ActiveTasks == ActiveIn(tasks)
NoTasks     == [k \in Task |-> NoTask]

\* Generation names: a counter for a target change, the image for an update.
ImageGeneration(i)   == <<"image", i>>
CounterGeneration(n) == <<"counter", n>>
Generation == {ImageGeneration(i) : i \in Image}
                \cup {CounterGeneration(n) : n \in 1..MaxGeneration}

\* `update' records the new generation without a copy of the targets (None).
Snapshot == [image : Image, targets : (SUBSET Target) \cup {None}]

\* The plan copies the snapshot's targets, or the registry's when it has none.
RollbackPlan == [image : Image, targets : SUBSET Target]

NoGenerations == [g \in {} |-> None]

With(gens, g, s) == [h \in DOMAIN gens \cup {g} |-> IF h = g THEN s ELSE gens[h]]

PlanOf(rb, gens, ts) ==
  IF rb = None
    THEN None
    ELSE [image   |-> gens[rb].image,
          targets |-> IF gens[rb].targets = None THEN ts ELSE gens[rb].targets]

\* Mutant: the plan is written before the new state is in place.
WritePlanEarly == plan' = PlanOf(rollback, generations, targets) /\ torn' = FALSE

\* The plan is written after state.json: a controller that dies in between
\* leaves the plan of an earlier rollback generation.
WritePlan ==
  \/ /\ plan' = PlanOf(rollback', generations', targets')
     /\ torn' = FALSE
  \/ /\ plan' = plan
     /\ torn' = TRUE

----------------------------------------------------------------------------
(* Reservations.                                                           *)

\* Mutant: nothing is reconciled.
NoDeadTasks == {}

\* Process-owned tasks whose lease can be locked: their worker is gone.
DeadTasks == {k \in ActiveTasks : tasks[k].lease = "process" /\ k \notin leases}

ReconciledTasks == [k \in Task |-> IF k \in DeadTasks THEN Finished ELSE tasks[k]]

Monus(m, n) == IF n >= m THEN 0 ELSE m - n

StateFor(n) == IF n = 0 THEN "ready" ELSE "running"

ReconciledCount == Monus(count, Cardinality(DeadTasks))
ReconciledState == IF DeadTasks = {} THEN state ELSE StateFor(ReconciledCount)

\* What becomes of an admission of target t beside the active tasks, whose
\* records are looked at in any order until one has t.  The record of a manual
\* task without a target stops it too: its null has no digest to compare.
TargetOutcomes(t) ==
  LET held == {ReconciledTasks[j].target : j \in ActiveIn(ReconciledTasks)}
  IN  IF t = None \/ held \cap {t, None} = {} THEN {"ok"}
      ELSE {IF h = None THEN "AttributeError" ELSE "target_busy" :
              h \in held \cap {t, None}}

\* The checks of an admission after the reconciliation, in their order.
AdmissionOutcomes(k, t) ==
  IF tasks[k] # NoTask THEN {"task_already_exists"}
  ELSE IF ReconciledCount >= MaxParallel THEN {"task_capacity_exhausted"}
  ELSE IF t \notin targets \cup {None} THEN {"target_not_registered"}
  ELSE TargetOutcomes(t)

\* An exec's identifier is random: one whose lease a process of a forgotten
\* task still holds is never drawn again.
Reserve(k, t, kind) ==
  /\ lock = None
  /\ k \notin leases
  /\ state \in AdmissionStates
  /\ "ok" \in AdmissionOutcomes(k, t)
  /\ tasks' = [ReconciledTasks EXCEPT ![k] = Active(kind, t)]
  /\ count' = ReconciledCount + 1
  /\ state' = "running"
  /\ reply' = "ok"
  /\ UNCHANGED <<genVars, sources, cache>>

\* task admit: no process owns the reservation.
AdmitTask(k, t) ==
  /\ Reserve(k, t, "manual")
  /\ UNCHANGED procVars

\* A refused or failed admission still commits the reconciliation before it.
\* A refusal because the state is closed precedes it and changes nothing.
RefuseAdmission(k, t) ==
  /\ lock = None
  /\ state \in AdmissionStates
  /\ tasks' = ReconciledTasks
  /\ count' = ReconciledCount
  /\ state' = ReconciledState
  /\ reply' \in AdmissionOutcomes(k, t) \ {"ok"}
  /\ UNCHANGED <<genVars, procVars, sources, cache>>

\* Mutant: a release of any task, with an unguarded decrement.
UnreserveAny(k) ==
  /\ tasks' = [tasks EXCEPT ![k] = Finished]
  /\ count' = count - 1
  /\ state' = StateFor(count - 1)

\* The record a release leaves, whoever releases.  The state is recomputed
\* from the count alone, whatever it was before.
Unreserve(k) ==
  /\ k \in ActiveTasks
  /\ tasks' = [tasks EXCEPT ![k] = Finished]
  /\ count' = Monus(count, 1)
  /\ state' = StateFor(Monus(count, 1))

\* Mutant: the lease is not tried before a release.
ReleaseAnyTask(k) ==
  /\ lock = None
  /\ Unreserve(k)
  /\ UNCHANGED <<genVars, procVars, sources, cache, reply>>

\* task release: refused while a process holds the lease.
ReleaseTask(k) ==
  /\ lock = None
  /\ Unreserve(k)
  /\ tasks[k].lease = "process" => k \notin leases
  /\ UNCHANGED <<genVars, procVars, sources, cache, reply>>

\* exec: the reservation is written, the worker inherits the lease and the
\* controller waits for it with the lifecycle lock held.
BeginExec(k, t) ==
  /\ t \in targets
  /\ Reserve(k, t, "process")
  /\ lock' = k
  /\ leases' = leases \cup {k}

\* exec returns when the command it started has exited or has been killed at
\* its timeout; a descendant of the command may live on and keep the lease.
ReturnExec(k) ==
  /\ lock = k
  /\ Unreserve(k)
  /\ lock' = None
  /\ leases' \in {leases, leases \ {k}}
  /\ cache' \in {cache, TRUE}
  /\ UNCHANGED <<genVars, sources, reply>>

\* The controller of an exec dies: the kernel drops its lifecycle lock.
ControllerDies ==
  /\ lock # None
  /\ lock' = None
  /\ UNCHANGED <<taskVars, genVars, leases, sources, cache, reply>>

\* The last process holding a lease exits.
WorkerExits(k) ==
  /\ k \in leases
  /\ leases' = leases \ {k}
  /\ UNCHANGED <<taskVars, genVars, lock, sources, cache, reply>>

\* The host stops and removes the container: every process in it dies.
ContainerStops ==
  /\ lock' = None
  /\ leases' = {}
  /\ UNCHANGED <<taskVars, genVars, sources, cache, reply>>

----------------------------------------------------------------------------
(* Lifecycle operations.  `i' is the image of the container they run in.   *)

\* install: controller state is rebuilt from nothing.
Install(i) ==
  /\ lock = None
  /\ state' = "ready"
  /\ count' = 0
  /\ tasks' = NoTasks
  /\ targets' = {}
  /\ generations' = NoGenerations
  /\ current' = None
  /\ rollback' = None
  /\ counter' = 0
  /\ image' = i
  /\ WritePlan
  /\ UNCHANGED <<procVars, sources, cache, reply>>

PrunedTargets     == targets \cap sources
PrunedGenerations ==
  [g \in DOMAIN generations |->
     IF generations[g].targets = None
       THEN generations[g]
       ELSE [generations[g] EXCEPT !.targets = @ \ (targets \ sources)]]

\* update: p is the image the host has just replaced, None when the resident
\* was kept.  A replacement makes a rollback generation and forgets the tasks.
Update(i, p) ==
  /\ lock = None
  /\ state' = "ready"
  /\ targets' = PrunedTargets
  /\ image' = i
  /\ IF p = None
       THEN /\ generations' = PrunedGenerations
            /\ UNCHANGED <<count, tasks, current, rollback>>
       ELSE LET previous == IF current # None THEN current ELSE ImageGeneration(p)
                old == [image |-> p, targets |-> PrunedTargets]
                new == [image |-> i, targets |-> None]
            IN  /\ generations' = With(With(PrunedGenerations, previous, old),
                                       ImageGeneration(i), new)
                /\ rollback' = previous
                /\ current' = ImageGeneration(i)
                /\ count' = 0
                /\ tasks' = NoTasks
  /\ WritePlan
  /\ UNCHANGED <<counter, procVars, sources, cache, reply>>

\* Mutant: start does not take lifecycle.lock and resets the reservations.
StartUnlocked(i) ==
  /\ state' = "ready"
  /\ image' = i
  /\ count' = 0
  /\ tasks' = NoTasks
  /\ UNCHANGED <<targets, generations, current, rollback, counter, plan, torn,
                 procVars, sources, cache, reply>>

Start(i) ==
  /\ lock = None
  /\ state' = "ready"
  /\ image' = i
  /\ UNCHANGED <<count, tasks, targets, generations, current, rollback, counter,
                 plan, torn, procVars, sources, cache, reply>>

Stop(i) ==
  /\ lock = None
  /\ state' = "stopped"
  /\ image' = i
  /\ UNCHANGED <<count, tasks, targets, generations, current, rollback, counter,
                 plan, torn, procVars, sources, cache, reply>>

NextGeneration == CounterGeneration(counter + 1)

\* Mutant: the generation kept for rollback gets the new targets.
ChangeTargetsLate(gens, old, new) ==
  /\ counter < MaxGeneration
  /\ counter' = counter + 1
  /\ targets' = new
  /\ generations' = With(IF current = None THEN gens
                          ELSE With(gens, current, [image |-> image, targets |-> new]),
                         NextGeneration, [image |-> image, targets |-> new])
  /\ current' = NextGeneration
  /\ rollback' = current

\* A target change makes a new current generation and keeps the old one, with
\* the targets it had, for rollback (_container_target_generation).
ChangeTargets(gens, old, new) ==
  LET kept == IF current = None
                THEN gens
                ELSE With(gens, current, [image |-> image, targets |-> old])
  IN  /\ counter < MaxGeneration
      /\ counter' = counter + 1
      /\ targets' = new
      /\ generations' = With(kept, NextGeneration, [image |-> image, targets |-> new])
      /\ current' = NextGeneration
      /\ rollback' = current

\* target add: stale targets are dropped first.  A target that is registered
\* already makes a generation too when its record (mode, allowed paths) differs;
\* with the same record, and nothing stale, nothing changes.  No task is waited
\* for.
TargetAdd(t) ==
  /\ lock = None
  /\ t \in sources
  /\ ChangeTargets(PrunedGenerations, PrunedTargets, PrunedTargets \cup {t})
  /\ state' = "ready"
  /\ WritePlan
  /\ UNCHANGED <<count, tasks, image, procVars, sources, cache, reply>>

TargetRemove(t) ==
  /\ lock = None
  /\ t \in targets \cap sources
  /\ ChangeTargets(generations, targets, targets \ {t})
  /\ WritePlan
  /\ UNCHANGED <<taskVars, image, procVars, sources, cache, reply>>

\* rollback: the host hands over the image and the targets of the plan, after
\* it has mounted them, and the two generations change places.
RollbackGeneration ==
  IF rollback # None THEN rollback ELSE ImageGeneration(plan.image)
DisplacedGeneration ==
  IF current # None THEN current ELSE ImageGeneration(image)

Rollback ==
  /\ lock = None
  /\ plan # None
  /\ plan.targets \subseteq sources
  /\ RollbackGeneration # DisplacedGeneration
  /\ generations' = With(With(generations, RollbackGeneration, plan),
                         DisplacedGeneration, [image |-> image, targets |-> targets])
  /\ image' = plan.image
  /\ targets' = plan.targets
  /\ rollback' = DisplacedGeneration
  /\ current' = RollbackGeneration
  /\ state' = "ready"
  /\ WritePlan
  /\ UNCHANGED <<count, tasks, counter, procVars, sources, cache, reply>>

\* restore: the host puts image p back after a candidate failed.  ts is the
\* target set it supplies, or the registry as it is when it supplies none.
Restore(p, ts) ==
  LET restored  == ImageGeneration(p)
      candidate == ImageGeneration(image)
      gens == With(generations, restored, [image |-> p, targets |-> ts])
  IN  /\ lock = None
      /\ targets' = ts
      /\ image' = p
      /\ IF candidate # restored
           THEN /\ generations' = With(gens, candidate,
                                       [image |-> image, targets |-> targets])
                /\ rollback' = candidate
           ELSE /\ generations' = gens
                /\ UNCHANGED rollback
      /\ current' = restored
      /\ state' = "ready"
      /\ WritePlan
      /\ UNCHANGED <<count, tasks, counter, procVars, sources, cache, reply>>

CacheAfterGc(cacheFull) == cache /\ ~(cacheFull /\ count = 0)

\* Mutant: only the current generation is preserved.
OnlyCurrent == {current}

Preserved == {current, rollback}

\* gc: `full' and `cacheFull' say which quota is at its high-water mark.
\* No lease is reconciled first: a dead task still counts as active.
Gc(full, cacheFull) ==
  /\ lock = None
  /\ full \/ cacheFull
  /\ cache' = CacheAfterGc(cacheFull)
  /\ IF full
       THEN /\ tasks' = [k \in Task |-> IF k \in ActiveTasks THEN tasks[k] ELSE NoTask]
            /\ generations' = [g \in DOMAIN generations \cap Preserved |->
                                 generations[g]]
       ELSE UNCHANGED <<tasks, generations>>
  /\ UNCHANGED <<state, count, targets, current, rollback, counter, image, plan,
                 torn, procVars, sources, reply>>

\* A target root disappears from, or comes back to, the host.
SourceChanges(t) ==
  /\ sources' = IF t \in sources THEN sources \ {t} ELSE sources \cup {t}
  /\ UNCHANGED <<taskVars, genVars, procVars, cache, reply>>

----------------------------------------------------------------------------
\* The state the first install of a runtime leaves.
Init ==
  /\ state = "ready"
  /\ count = 0
  /\ tasks = NoTasks
  /\ targets = {}
  /\ generations = NoGenerations
  /\ current = None
  /\ rollback = None
  /\ counter = 0
  /\ image \in Image
  /\ plan = None
  /\ torn = FALSE
  /\ lock = None
  /\ leases = {}
  /\ sources = Target
  /\ cache = FALSE
  /\ reply = "ok"

TaskStep ==
  \/ \E k \in Task, t \in Target \cup {None} : AdmitTask(k, t) \/ RefuseAdmission(k, t)
  \/ \E k \in Task, t \in Target : BeginExec(k, t)
  \/ \E k \in Task : ReturnExec(k) \/ ReleaseTask(k) \/ WorkerExits(k)
  \/ ControllerDies
  \/ ContainerStops

LifecycleStep ==
  \/ \E i \in Image : Install(i) \/ Start(i) \/ Stop(i)
  \/ \E i \in Image, p \in Image \cup {None} : Update(i, p)
  \/ \E t \in Target : TargetAdd(t) \/ TargetRemove(t)
  \/ Rollback
  \/ \E p \in Image : Restore(p, targets) \/ (plan # None /\ Restore(p, plan.targets))
  \/ \E full, cacheFull \in BOOLEAN : Gc(full, cacheFull)
  \/ \E t \in Volatile : SourceChanges(t)

Next == TaskStep \/ LifecycleStep

Spec == Init /\ [][Next]_vars

----------------------------------------------------------------------------
(* Properties.                                                             *)

\* Types of the controller's state, of the two locks and of the environment.
TypeOK ==
  /\ state \in {"ready", "running", "stopped"}
  /\ count \in Nat
  /\ tasks \in [Task -> TaskRecord]
  /\ targets \subseteq Target
  /\ DOMAIN generations \subseteq Generation
  /\ \A g \in DOMAIN generations : generations[g] \in Snapshot
  /\ current \in Generation \cup {None}
  /\ rollback \in Generation \cup {None}
  /\ counter \in 0..MaxGeneration
  /\ image \in Image
  /\ plan \in RollbackPlan \cup {None}
  /\ torn \in BOOLEAN
  /\ lock \in Task \cup {None}
  /\ leases \subseteq Task
  /\ sources \subseteq Target
  /\ cache \in BOOLEAN
  /\ reply \in {"ok", "task_already_exists", "task_capacity_exhausted",
                "target_not_registered", "target_busy", "AttributeError"}

\* active_task_count, which admission, release, reconciliation, install and
\* update each maintain by hand, is the number of active records, so `max(0,
\* count - 1)' never hides a lost or doubled release.
CountMatches == count = Cardinality(ActiveTasks)

\* However controllers die and leases are reconciled, no more tasks are active
\* than max_parallel_tasks.
CapacityRespected == Cardinality(ActiveTasks) <= MaxParallel

\* One target is never reserved by two active tasks.
TargetExclusive ==
  \A j, k \in ActiveTasks :
    j # k /\ tasks[j].target # None => tasks[j].target # tasks[k].target

\* The state "running" is never left behind when the last task is gone.
RunningHasTask == state = "running" => ActiveTasks # {}

\* What admission, release and reconciliation keep about the reservations.
ReservationsAgree ==
  CountMatches /\ CapacityRespected /\ TargetExclusive /\ RunningHasTask

\* The exec that holds the lifecycle lock still has its own reservation:
\* nothing forgets or releases a task whose controller is waiting for it.
ExecKeepsReservation ==
  lock # None => lock \in ActiveTasks /\ tasks[lock].lease = "process"

\* The generations that rollback depends on are never collected or dropped.
GenerationsRetained == {current, rollback} \ {None} \subseteq DOMAIN generations

\* The rollback plan the host will activate describes the rollback generation,
\* whatever sequence of operations led here, unless a controller died between
\* writing state.json and the plan.
PlanNamesRollback == ~torn => plan = PlanOf(rollback, generations, targets)

\* A target change or a rollback can be undone: unless the controller dies, the
\* plan it leaves is the image and the targets that were in force before it,
\* whatever happened to either generation's snapshot earlier.
PlanUndoesChange ==
  [][(Rollback \/ \E t \in Target : TargetAdd(t) \/ TargetRemove(t))
       /\ current # None /\ ~torn'
       => plan' \in [image : {image}, targets : {targets, PrunedTargets}]]_vars

\* While a process of a worker holds its lease, only the exec that started it
\* may finish the task: neither reconciliation nor a manual release can.
LeaseProtectsWorker ==
  [][\A k \in ActiveTasks :
       k \in leases /\ tasks'[k].state = "finished" => lock = k]_vars

\* What has to be the case when an admission of k for target t is refused, for
\* each answer.
HasReason(k, t) ==
  LET live == {j \in ActiveTasks' : tasks'[j].lease = "manual" \/ j \in leases'}
  IN  \/ reply' = "task_already_exists" /\ tasks[k] # NoTask
      \/ reply' = "target_not_registered" /\ t \notin targets
      \/ reply' = "task_capacity_exhausted" /\ Cardinality(live) >= MaxParallel
      \/ reply' = "target_busy" /\ \E j \in live : tasks'[j].target = t
      \/ reply' = "AttributeError" /\ \E j \in live : tasks'[j].target = None

\* Nobody is refused for want of a slot unless as many reservations are alive
\* as there are slots, nor for a busy target unless a live one has it: a dead
\* worker never blocks anybody.  A manual reservation counts as alive.  Beside
\* one without a target a free target is refused too, and only there.
RefusalIsHonest ==
  [][\A k \in Task, t \in Target \cup {None} :
       RefuseAdmission(k, t) => HasReason(k, t)]_vars

\* gc empties the cache only when no task at all is reserved.
CacheOutlivesReservations == [][cache /\ ~cache' => ActiveTasks = {}]_vars

=============================================================================
