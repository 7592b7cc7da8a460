--------------------- MODULE BootstrapControllerProofs ---------------------
(***************************************************************************)
(* Theorems about the resident controller, for every set of tasks, targets *)
(* and images and every capacity.  Two inductive invariants: the typing    *)
(* together with GenerationsRetained, without which the rollback plan      *)
(* would be read from a generation that is not there; and, on top of it,   *)
(* what the reservations promise.                                          *)
(***************************************************************************)
EXTENDS BootstrapController, FiniteSetTheorems, TLAPS

Typing == TypeOK /\ GenerationsRetained

\* Recording a snapshot keeps a store of generations well typed.
LEMMA WithTyped ==
  ASSUME NEW gens, NEW g \in Generation, NEW s \in Snapshot,
         DOMAIN gens \subseteq Generation,
         \A h \in DOMAIN gens : gens[h] \in Snapshot
  PROVE  /\ DOMAIN With(gens, g, s) = DOMAIN gens \cup {g}
         /\ \A h \in DOMAIN With(gens, g, s) : With(gens, g, s)[h] \in Snapshot
  BY DEF With

LEMMA PrunedTyped ==
  ASSUME TypeOK
  PROVE  /\ DOMAIN PrunedGenerations = DOMAIN generations
         /\ \A h \in DOMAIN PrunedGenerations : PrunedGenerations[h] \in Snapshot
         /\ PrunedTargets \in SUBSET Target
<1>1. DOMAIN PrunedGenerations = DOMAIN generations
  BY DEF PrunedGenerations
<1>2. PrunedTargets \in SUBSET Target
  BY DEF PrunedTargets, TypeOK
<1>3. ASSUME NEW h \in DOMAIN generations
      PROVE  PrunedGenerations[h] \in Snapshot
  <2>1. generations[h] \in Snapshot
    BY DEF TypeOK
  <2>2. CASE generations[h].targets = None
    BY <2>1, <2>2 DEF PrunedGenerations
  <2>3. CASE generations[h].targets # None
    <3>1. generations[h].targets \in SUBSET Target
      BY <2>1, <2>3 DEF Snapshot
    <3>2. PrunedGenerations[h]
            = [generations[h] EXCEPT !.targets = @ \ (targets \ sources)]
      BY <2>3 DEF PrunedGenerations
    <3>. QED BY <2>1, <3>1, <3>2 DEF Snapshot
  <2>. QED BY <2>2, <2>3
<1>. QED BY <1>1, <1>2, <1>3

\* The plan of a recorded generation, or of none, is well typed.
LEMMA PlanTyped ==
  ASSUME NEW gens, NEW rb, NEW ts \in SUBSET Target,
         rb # None => rb \in DOMAIN gens,
         \A h \in DOMAIN gens : gens[h] \in Snapshot
  PROVE  PlanOf(rb, gens, ts) \in RollbackPlan \cup {None}
<1>1. CASE rb # None
  <2>1. gens[rb] \in Snapshot
    BY <1>1
  <2>. QED BY <1>1, <2>1 DEF PlanOf, Snapshot, RollbackPlan
<1>. QED BY <1>1 DEF PlanOf

\* An operation that ends by writing the plan only has to establish the types
\* of what the plan is made of.
LEMMA WritePlanTyped ==
  ASSUME TypeOK, WritePlan, targets' \in SUBSET Target,
         rollback' # None => rollback' \in DOMAIN generations',
         \A h \in DOMAIN generations' : generations'[h] \in Snapshot
  PROVE  plan' \in RollbackPlan \cup {None} /\ torn' \in BOOLEAN
<1>1. CASE plan' = PlanOf(rollback', generations', targets') /\ torn' = FALSE
  <2>1. PlanOf(rollback', generations', targets') \in RollbackPlan \cup {None}
    BY PlanTyped
  <2>. QED BY <1>1, <2>1
<1>2. CASE plan' = plan /\ torn' = TRUE
  BY <1>2 DEF TypeOK
<1>. QED BY <1>1, <1>2 DEF WritePlan

LEMMA GenerationNames ==
  /\ \A i \in Image : ImageGeneration(i) \in Generation
  /\ \A n \in 1..MaxGeneration : CounterGeneration(n) \in Generation
  BY DEF Generation

LEMMA DeadTasksFinite ==
  /\ IsFiniteSet(DeadTasks)
  /\ Cardinality(DeadTasks) \in Nat
<1>1. DeadTasks \in SUBSET Task
  BY DEF DeadTasks, ActiveTasks, ActiveIn
<1>. QED BY <1>1, ControllerAssumption, FS_Subset, FS_CardinalityType

\* Reconciliation, successful or followed by a refusal, is well typed.
LEMMA ReconcileTyped ==
  ASSUME TypeOK
  PROVE  /\ ReconciledTasks \in [Task -> TaskRecord]
         /\ ReconciledCount \in Nat
         /\ ReconciledState \in {"ready", "running", "stopped"}
<1>1. Finished \in TaskRecord
  BY DEF Finished, NoTask, TaskRecord
<1>2. ReconciledCount \in Nat
  BY DeadTasksFinite DEF ReconciledCount, Monus, TypeOK
<1>. QED BY <1>1, <1>2 DEF ReconciledTasks, ReconciledState, StateFor, TypeOK

LEMMA ActiveTyped ==
  ASSUME NEW kind \in {"manual", "process"}, NEW t \in Target \cup {None}
  PROVE  Active(kind, t) \in TaskRecord
  BY DEF Active, TaskRecord

LEMMA OutcomesTyped ==
  ASSUME NEW k, NEW t
  PROVE  AdmissionOutcomes(k, t) \subseteq
           {"ok", "task_already_exists", "task_capacity_exhausted",
            "target_not_registered", "target_busy", "AttributeError"}
<1>1. TargetOutcomes(t) \subseteq {"ok", "target_busy", "AttributeError"}
  BY DEF TargetOutcomes
<1>. QED BY <1>1 DEF AdmissionOutcomes

\* What a reservation may count on when it is made.
LEMMA AdmissionGranted ==
  ASSUME NEW k, NEW t, "ok" \in AdmissionOutcomes(k, t)
  PROVE  /\ tasks[k] = NoTask
         /\ ~(ReconciledCount >= MaxParallel)
         /\ t # None => \A j \in ActiveIn(ReconciledTasks) : ReconciledTasks[j].target # t
<1>1. /\ tasks[k] = NoTask /\ ~(ReconciledCount >= MaxParallel)
      /\ "ok" \in TargetOutcomes(t)
  BY DEF AdmissionOutcomes
<1>2. ASSUME t # None, NEW j \in ActiveIn(ReconciledTasks), ReconciledTasks[j].target = t
      PROVE  FALSE
  BY <1>1, <1>2 DEF TargetOutcomes
<1>. QED BY <1>1, <1>2

\* The steps of tasks and workers touch neither targets nor generations.
LEMMA TaskStepFrame ==
  ASSUME TaskStep
  PROVE  UNCHANGED <<genVars, sources>>
  BY DEF TaskStep, AdmitTask, RefuseAdmission, BeginExec, ReturnExec, ReleaseTask,
         WorkerExits, ControllerDies, ContainerStops, Reserve

LEMMA ReserveTyped ==
  ASSUME TypeOK, NEW k \in Task, NEW t \in Target \cup {None},
         NEW kind \in {"manual", "process"}, Reserve(k, t, kind)
  PROVE  /\ state' = "running"
         /\ count' \in Nat
         /\ tasks' \in [Task -> TaskRecord]
         /\ cache' = cache /\ reply' = "ok"
  BY ReconcileTyped, ActiveTyped DEF Reserve

LEMMA UnreserveTyped ==
  ASSUME TypeOK, NEW k \in Task, Unreserve(k)
  PROVE  /\ state' \in {"ready", "running"}
         /\ count' \in Nat
         /\ tasks' \in [Task -> TaskRecord]
<1>1. Finished \in TaskRecord
  BY DEF Finished, NoTask, TaskRecord
<1>. QED BY <1>1 DEF Unreserve, Monus, StateFor, TypeOK

LEMMA TaskStepTyped ==
  ASSUME TypeOK, TaskStep
  PROVE  TypeOK'
<1>. SUFFICES /\ state' \in {"ready", "running", "stopped"}
              /\ count' \in Nat
              /\ tasks' \in [Task -> TaskRecord]
              /\ lock' \in Task \cup {None}
              /\ leases' \subseteq Task
              /\ cache' \in BOOLEAN
              /\ reply' \in {"ok", "task_already_exists", "task_capacity_exhausted",
                             "target_not_registered", "target_busy", "AttributeError"}
  BY TaskStepFrame DEF TypeOK, genVars, Snapshot, Generation, ImageGeneration,
     CounterGeneration, TaskRecord
<1>1. ASSUME NEW k \in Task, NEW t \in Target \cup {None}, AdmitTask(k, t)
      PROVE  /\ Reserve(k, t, "manual")
             /\ UNCHANGED <<lock, leases>>
  BY <1>1 DEF AdmitTask, procVars
<1>2. ASSUME NEW k \in Task, NEW t \in Target, BeginExec(k, t)
      PROVE  /\ Reserve(k, t, "process")
             /\ lock' = k
             /\ leases' = leases \cup {k}
  BY <1>2 DEF BeginExec
<1>3. CASE \E k \in Task, t \in Target \cup {None} : AdmitTask(k, t)
  BY <1>1, <1>3, ReserveTyped DEF TypeOK
<1>4. CASE \E k \in Task, t \in Target : BeginExec(k, t)
  <2>. PICK k \in Task, t \in Target : BeginExec(k, t)
    BY <1>4
  <2>. QED BY <1>2, ReserveTyped DEF TypeOK
<1>5. CASE \E k \in Task, t \in Target \cup {None} : RefuseAdmission(k, t)
  BY <1>5, ReconcileTyped, OutcomesTyped DEF RefuseAdmission, TypeOK, procVars
<1>6. CASE \E k \in Task : ReturnExec(k)
  BY <1>6, UnreserveTyped DEF ReturnExec, TypeOK
<1>7. CASE \E k \in Task : ReleaseTask(k)
  BY <1>7, UnreserveTyped DEF ReleaseTask, TypeOK, procVars
<1>8. CASE (\E k \in Task : WorkerExits(k)) \/ ControllerDies \/ ContainerStops
  BY <1>8 DEF WorkerExits, ControllerDies, ContainerStops, TypeOK, taskVars
<1>. QED BY <1>3, <1>4, <1>5, <1>6, <1>7, <1>8 DEF TaskStep

\* What every lifecycle operation owes to the typing: its effect on the
\* targets, the generations and the two pointers.
GenerationsTyped ==
  /\ targets \subseteq Target
  /\ DOMAIN generations \subseteq Generation
  /\ \A g \in DOMAIN generations : generations[g] \in Snapshot
  /\ current \in Generation \cup {None}
  /\ rollback \in Generation \cup {None}
  /\ counter \in 0..MaxGeneration
  /\ image \in Image
  /\ GenerationsRetained

LEMMA GenerationsTypedFact ==
  ASSUME Typing
  PROVE  GenerationsTyped
  BY DEF Typing, TypeOK, GenerationsTyped

LEMMA ChangeTargetsTyped ==
  ASSUME Typing, NEW gens, NEW old \in SUBSET Target, NEW new \in SUBSET Target,
         DOMAIN gens = DOMAIN generations,
         \A h \in DOMAIN gens : gens[h] \in Snapshot,
         ChangeTargets(gens, old, new), image' = image
  PROVE  GenerationsTyped'
<1>. DEFINE kept == IF current = None
                      THEN gens
                      ELSE With(gens, current, [image |-> image, targets |-> old])
<1>1. GenerationsTyped
  BY GenerationsTypedFact
<1>2. /\ counter + 1 \in 1..MaxGeneration
      /\ counter' = counter + 1 /\ counter' \in 0..MaxGeneration
  BY <1>1, ControllerAssumption DEF ChangeTargets, GenerationsTyped
<1>3. NextGeneration \in Generation
  BY <1>2, GenerationNames DEF NextGeneration
<1>4. /\ [image |-> image, targets |-> old] \in Snapshot
      /\ [image |-> image, targets |-> new] \in Snapshot
  BY <1>1 DEF GenerationsTyped, Snapshot
<1>5. /\ DOMAIN kept \subseteq Generation
      /\ \A h \in DOMAIN kept : kept[h] \in Snapshot
      /\ current # None => current \in DOMAIN kept
  <2>1. CASE current = None
    BY <1>1, <2>1 DEF GenerationsTyped
  <2>2. CASE current # None
    <3>1. current \in Generation
      BY <1>1, <2>2 DEF GenerationsTyped
    <3>2. /\ DOMAIN kept = DOMAIN gens \cup {current}
          /\ \A h \in DOMAIN kept : kept[h] \in Snapshot
      BY <1>1, <1>4, <2>2, <3>1, WithTyped DEF GenerationsTyped
    <3>. QED BY <1>1, <3>1, <3>2 DEF GenerationsTyped
  <2>. QED BY <2>1, <2>2
<1>6. generations' = With(kept, NextGeneration, [image |-> image, targets |-> new])
  BY DEF ChangeTargets
<1>7. /\ DOMAIN generations' = DOMAIN kept \cup {NextGeneration}
      /\ \A h \in DOMAIN generations' : generations'[h] \in Snapshot
  <2>. HIDE DEF kept
  <2>. QED BY <1>3, <1>4, <1>5, <1>6, WithTyped
<1>8. /\ targets' = new /\ current' = NextGeneration /\ rollback' = current
  BY DEF ChangeTargets
<1>. QED BY <1>1, <1>2, <1>3, <1>5, <1>7, <1>8
     DEF GenerationsTyped, GenerationsRetained

\* Two snapshots recorded, one of them made current, the other the rollback.
LEMMA TwoSnapshotsTyped ==
  ASSUME GenerationsTyped, NEW gens, NEW g \in Generation, NEW h \in Generation,
         NEW s \in Snapshot, NEW u \in Snapshot,
         DOMAIN gens = DOMAIN generations,
         \A x \in DOMAIN gens : gens[x] \in Snapshot,
         generations' = With(With(gens, g, s), h, u),
         {current', rollback'} = {g, h},
         targets' \subseteq Target, image' \in Image, counter' = counter
  PROVE  GenerationsTyped'
<1>. DEFINE first == With(gens, g, s)
<1>1. /\ DOMAIN gens \subseteq Generation
      /\ \A x \in DOMAIN gens : gens[x] \in Snapshot
  BY DEF GenerationsTyped
<1>2. /\ DOMAIN first = DOMAIN gens \cup {g}
      /\ \A x \in DOMAIN first : first[x] \in Snapshot
  BY <1>1, WithTyped
<1>3. DOMAIN first \subseteq Generation
  BY <1>1, <1>2
<1>4. generations' = With(first, h, u)
  OBVIOUS
<1>5. /\ DOMAIN generations' = DOMAIN first \cup {h}
      /\ \A x \in DOMAIN generations' : generations'[x] \in Snapshot
  <2>1. /\ DOMAIN With(first, h, u) = DOMAIN first \cup {h}
        /\ \A x \in DOMAIN With(first, h, u) : With(first, h, u)[x] \in Snapshot
    <3>. HIDE DEF first
    <3>. QED BY <1>2, <1>3, WithTyped
  <2>. QED BY <1>4, <2>1
<1>6. /\ current' \in {g, h} /\ rollback' \in {g, h}
      /\ {g, h} \subseteq DOMAIN generations' \cap Generation
  BY <1>2, <1>5
<1>7. DOMAIN generations' \subseteq Generation
  BY <1>3, <1>5
<1>8. /\ GenerationsRetained'
      /\ current' \in Generation \cup {None}
      /\ rollback' \in Generation \cup {None}
  BY <1>6 DEF GenerationsRetained
<1>9. counter' \in 0..MaxGeneration
  BY DEF GenerationsTyped
<1>. QED BY <1>5, <1>7, <1>8, <1>9 DEF GenerationsTyped

LEMMA TargetStepTyped ==
  ASSUME Typing, NEW t \in Target, TargetAdd(t) \/ TargetRemove(t)
  PROVE  GenerationsTyped'
<1>1. CASE TargetAdd(t)
  <2>1. /\ ChangeTargets(PrunedGenerations, PrunedTargets, PrunedTargets \cup {t})
        /\ image' = image
    BY <1>1 DEF TargetAdd
  <2>2. PrunedTargets \cup {t} \in SUBSET Target
    BY PrunedTyped DEF Typing
  <2>. QED BY <2>1, <2>2, PrunedTyped, ChangeTargetsTyped DEF Typing
<1>2. CASE TargetRemove(t)
  <2>1. ChangeTargets(generations, targets, targets \ {t}) /\ image' = image
    BY <1>2 DEF TargetRemove
  <2>2. /\ targets \in SUBSET Target
        /\ targets \ {t} \in SUBSET Target
        /\ \A h \in DOMAIN generations : generations[h] \in Snapshot
    BY DEF Typing, TypeOK
  <2>. QED BY <2>1, <2>2, ChangeTargetsTyped
<1>. QED BY <1>1, <1>2

LEMMA UpdateTyped ==
  ASSUME Typing, NEW i \in Image, NEW p \in Image \cup {None}, Update(i, p)
  PROVE  GenerationsTyped'
<1>1. GenerationsTyped
  BY GenerationsTypedFact
<1>2. /\ targets' = PrunedTargets /\ targets' \subseteq Target
      /\ image' \in Image /\ counter' = counter
  BY PrunedTyped DEF Update, Typing
<1>3. /\ DOMAIN PrunedGenerations = DOMAIN generations
      /\ \A h \in DOMAIN PrunedGenerations : PrunedGenerations[h] \in Snapshot
  BY PrunedTyped DEF Typing
<1>4. CASE p = None
  <2>1. generations' = PrunedGenerations /\ current' = current /\ rollback' = rollback
    BY <1>4 DEF Update
  <2>. QED BY <1>1, <1>2, <1>3, <2>1 DEF GenerationsTyped, GenerationsRetained
<1>5. CASE p # None
  <2>. DEFINE previous == IF current # None THEN current ELSE ImageGeneration(p)
              old == [image |-> p, targets |-> PrunedTargets]
              new == [image |-> i, targets |-> None]
  <2>1. /\ generations' = With(With(PrunedGenerations, previous, old),
                               ImageGeneration(i), new)
        /\ {current', rollback'} = {previous, ImageGeneration(i)}
    BY <1>5 DEF Update
  <2>2. previous \in Generation /\ ImageGeneration(i) \in Generation
    BY <1>1, <1>5, GenerationNames DEF GenerationsTyped
  <2>3. old \in Snapshot /\ new \in Snapshot
    BY <1>2, <1>5 DEF Snapshot
  <2>. HIDE DEF previous, old, new
  <2>. QED BY <1>1, <1>2, <1>3, <2>1, <2>2, <2>3, TwoSnapshotsTyped
<1>. QED BY <1>4, <1>5

LEMMA RollbackTyped ==
  ASSUME Typing, Rollback
  PROVE  GenerationsTyped'
<1>1. GenerationsTyped
  BY GenerationsTypedFact
<1>2. plan \in Snapshot /\ plan.targets \subseteq Target
  <2>1. plan \in RollbackPlan
    BY DEF Rollback, Typing, TypeOK
  <2>. QED BY <2>1 DEF RollbackPlan, Snapshot
<1>3. plan.image \in Image
  BY <1>2 DEF Snapshot
<1>4. RollbackGeneration \in Generation /\ DisplacedGeneration \in Generation
  BY <1>1, <1>3, GenerationNames
     DEF RollbackGeneration, DisplacedGeneration, GenerationsTyped
<1>5. [image |-> image, targets |-> targets] \in Snapshot
  BY <1>1 DEF GenerationsTyped, Snapshot
<1>6. /\ generations' = With(With(generations, RollbackGeneration, plan),
                             DisplacedGeneration, [image |-> image, targets |-> targets])
      /\ {current', rollback'} = {RollbackGeneration, DisplacedGeneration}
      /\ targets' = plan.targets /\ image' = plan.image /\ counter' = counter
  BY DEF Rollback
<1>7. \A x \in DOMAIN generations : generations[x] \in Snapshot
  BY <1>1 DEF GenerationsTyped
<1>. QED BY <1>1, <1>2, <1>3, <1>4, <1>5, <1>6, <1>7, TwoSnapshotsTyped

LEMMA RestoreTyped ==
  ASSUME Typing, NEW p \in Image, NEW ts \in SUBSET Target, Restore(p, ts)
  PROVE  GenerationsTyped'
<1>. DEFINE restored == ImageGeneration(p)
            candidate == ImageGeneration(image)
            gens == With(generations, restored, [image |-> p, targets |-> ts])
<1>1. GenerationsTyped
  BY GenerationsTypedFact
<1>2. restored \in Generation /\ candidate \in Generation
  BY <1>1, GenerationNames DEF GenerationsTyped
<1>3. /\ [image |-> p, targets |-> ts] \in Snapshot
      /\ [image |-> image, targets |-> targets] \in Snapshot
  BY <1>1 DEF GenerationsTyped, Snapshot
<1>4. /\ targets' = ts /\ image' = p /\ counter' = counter /\ current' = restored
  BY DEF Restore
<1>5. CASE candidate # restored
  <2>1. /\ generations' = With(gens, candidate, [image |-> image, targets |-> targets])
        /\ rollback' = candidate
    BY <1>5 DEF Restore
  <2>2. /\ {current', rollback'} = {restored, candidate}
        /\ targets' \subseteq Target /\ image' \in Image
        /\ \A x \in DOMAIN generations : generations[x] \in Snapshot
    BY <1>1, <1>4, <2>1 DEF GenerationsTyped
  <2>. HIDE DEF restored, candidate
  <2>. QED BY <1>1, <1>2, <1>3, <1>4, <2>1, <2>2, TwoSnapshotsTyped
<1>6. CASE candidate = restored
  <2>1. generations' = gens /\ rollback' = rollback
    BY <1>6 DEF Restore
  <2>2. /\ DOMAIN gens = DOMAIN generations \cup {restored}
        /\ \A h \in DOMAIN gens : gens[h] \in Snapshot
    <3>. HIDE DEF restored
    <3>. QED BY <1>1, <1>2, <1>3, WithTyped DEF GenerationsTyped
  <2>. HIDE DEF gens, restored
  <2>. QED BY <1>1, <1>2, <1>4, <2>1, <2>2 DEF GenerationsTyped, GenerationsRetained
<1>. QED BY <1>5, <1>6

LEMMA GcTyped ==
  ASSUME Typing, NEW full \in BOOLEAN, NEW cacheFull \in BOOLEAN, Gc(full, cacheFull)
  PROVE  /\ GenerationsTyped'
         /\ tasks' \in [Task -> TaskRecord]
         /\ cache' \in BOOLEAN
<1>1. NoTask \in TaskRecord
  BY DEF NoTask, TaskRecord
<1>2. tasks' \in [Task -> TaskRecord]
  <2>1. CASE full
    BY <1>1, <2>1 DEF Gc, Typing, TypeOK
  <2>2. CASE ~full
    BY <2>2 DEF Gc, Typing, TypeOK
  <2>. QED BY <2>1, <2>2
<1>3. UNCHANGED <<targets, current, rollback, counter, image>>
  BY DEF Gc
<1>4. GenerationsTyped
  BY GenerationsTypedFact
<1>5. CASE full
  <2>1. generations' = [g \in DOMAIN generations \cap {current, rollback} |-> generations[g]]
    BY <1>5 DEF Gc, Preserved
  <2>2. /\ DOMAIN generations' = DOMAIN generations \cap {current, rollback}
        /\ \A g \in DOMAIN generations' : generations'[g] = generations[g]
    BY <2>1
  <2>. QED BY <1>2, <1>3, <1>4, <2>2
       DEF GenerationsTyped, GenerationsRetained, Gc, CacheAfterGc, Typing, TypeOK
<1>6. CASE ~full
  <2>1. generations' = generations
    BY <1>6 DEF Gc
  <2>. QED BY <1>2, <1>3, <1>4, <2>1
       DEF GenerationsTyped, GenerationsRetained, Gc, CacheAfterGc, Typing, TypeOK
<1>. QED BY <1>5, <1>6

\* Every lifecycle step keeps the store typed and the two pointers recorded.
LEMMA LifecycleGenerationsTyped ==
  ASSUME Typing, LifecycleStep
  PROVE  GenerationsTyped'
<1>0. GenerationsTyped
  BY GenerationsTypedFact
<1>1. CASE \E i \in Image : Install(i)
  <2>. PICK i \in Image : Install(i)
    BY <1>1
  <2>1. /\ DOMAIN generations' = {} /\ targets' = {} /\ image' = i
        /\ current' = None /\ rollback' = None /\ counter' = 0
    BY DEF Install, NoGenerations
  <2>. QED BY <2>1, ControllerAssumption DEF GenerationsTyped, GenerationsRetained
<1>2. CASE \E i \in Image : Start(i) \/ Stop(i)
  <2>. PICK i \in Image : Start(i) \/ Stop(i)
    BY <1>2
  <2>1. /\ UNCHANGED <<targets, generations, current, rollback, counter>>
        /\ image' = i
    BY DEF Start, Stop
  <2>. QED BY <1>0, <2>1 DEF GenerationsTyped, GenerationsRetained
<1>3. CASE \E i \in Image, p \in Image \cup {None} : Update(i, p)
  BY <1>3, UpdateTyped
<1>4. CASE \E t \in Target : TargetAdd(t) \/ TargetRemove(t)
  BY <1>4, TargetStepTyped
<1>5. CASE Rollback
  BY <1>5, RollbackTyped
<1>6. CASE \E p \in Image : Restore(p, targets) \/ (plan # None /\ Restore(p, plan.targets))
  <2>1. targets \in SUBSET Target /\ (plan # None => plan.targets \in SUBSET Target)
    BY DEF Typing, TypeOK, RollbackPlan
  <2>. QED BY <1>6, <2>1, RestoreTyped
<1>7. CASE \E full, cacheFull \in BOOLEAN : Gc(full, cacheFull)
  BY <1>7, GcTyped
<1>8. CASE \E t \in Volatile : SourceChanges(t)
  <2>1. UNCHANGED <<targets, generations, current, rollback, counter, image>>
    BY <1>8 DEF SourceChanges, genVars
  <2>. QED BY <1>0, <2>1 DEF GenerationsTyped, GenerationsRetained
<1>. QED BY <1>1, <1>2, <1>3, <1>4, <1>5, <1>6, <1>7, <1>8 DEF LifecycleStep

\* The plan is written by every operation that moves a pointer, and by no other.
LEMMA LifecyclePlanTyped ==
  ASSUME Typing, LifecycleStep
  PROVE  plan' \in RollbackPlan \cup {None} /\ torn' \in BOOLEAN
<1>1. WritePlan \/ UNCHANGED <<plan, torn>>
  BY DEF LifecycleStep, Install, Start, Stop, Update, TargetAdd, TargetRemove,
         Rollback, Restore, Gc, SourceChanges, genVars
<1>2. CASE WritePlan
  <2>1. GenerationsTyped'
    BY LifecycleGenerationsTyped
  <2>2. /\ targets' \in SUBSET Target
        /\ rollback' # None => rollback' \in DOMAIN generations'
        /\ \A h \in DOMAIN generations' : generations'[h] \in Snapshot
    BY <2>1 DEF GenerationsTyped, GenerationsRetained
  <2>. QED BY <1>2, <2>2, WritePlanTyped DEF Typing
<1>3. CASE UNCHANGED <<plan, torn>>
  BY <1>3 DEF Typing, TypeOK
<1>. QED BY <1>1, <1>2, <1>3

\* The rest of the state under a lifecycle step.
LEMMA LifecycleRestTyped ==
  ASSUME Typing, LifecycleStep
  PROVE  /\ state' \in {"ready", "running", "stopped"}
         /\ count' \in Nat
         /\ tasks' \in [Task -> TaskRecord]
         /\ UNCHANGED <<lock, leases, reply>>
         /\ sources' \subseteq Target
         /\ cache' \in BOOLEAN
<1>1. NoTasks \in [Task -> TaskRecord]
  BY DEF NoTasks, NoTask, TaskRecord
<1>2. CASE \E i \in Image : Install(i) \/ Start(i) \/ Stop(i)
  BY <1>1, <1>2 DEF Install, Start, Stop, procVars, Typing, TypeOK
<1>3. CASE \E i \in Image, p \in Image \cup {None} : Update(i, p)
  BY <1>1, <1>3 DEF Update, procVars, Typing, TypeOK
<1>4. CASE \E t \in Target : TargetAdd(t) \/ TargetRemove(t)
  BY <1>4 DEF TargetAdd, TargetRemove, procVars, taskVars, Typing, TypeOK
<1>5. CASE Rollback
  BY <1>5 DEF Rollback, procVars, Typing, TypeOK
<1>6. CASE \E p \in Image : Restore(p, targets) \/ (plan # None /\ Restore(p, plan.targets))
  BY <1>6 DEF Restore, procVars, Typing, TypeOK
<1>7. CASE \E full, cacheFull \in BOOLEAN : Gc(full, cacheFull)
  <2>. PICK full \in BOOLEAN, cacheFull \in BOOLEAN : Gc(full, cacheFull)
    BY <1>7
  <2>1. UNCHANGED <<state, count, lock, leases, sources, reply>>
    BY DEF Gc, procVars
  <2>2. tasks' \in [Task -> TaskRecord] /\ cache' \in BOOLEAN
    BY GcTyped
  <2>. QED BY <2>1, <2>2 DEF Typing, TypeOK
<1>8. CASE \E t \in Volatile : SourceChanges(t)
  BY <1>8, ControllerAssumption DEF SourceChanges, taskVars, procVars, Typing, TypeOK
<1>. QED BY <1>2, <1>3, <1>4, <1>5, <1>6, <1>7, <1>8 DEF LifecycleStep

LEMMA TypingInit ==
  ASSUME Init
  PROVE  Typing
<1>1. NoTasks \in [Task -> TaskRecord]
  BY DEF NoTasks, NoTask, TaskRecord
<1>2. DOMAIN generations = {}
  BY DEF Init, NoGenerations
<1>3. /\ counter \in 0..MaxGeneration /\ count \in Nat
      /\ tasks \in [Task -> TaskRecord]
  BY <1>1, ControllerAssumption DEF Init
<1>4. TypeOK
  BY <1>2, <1>3 DEF Init, TypeOK
<1>5. GenerationsRetained
  BY DEF Init, GenerationsRetained
<1>. QED BY <1>4, <1>5 DEF Typing

LEMMA TypingStep ==
  ASSUME Typing, [Next]_vars
  PROVE  Typing'
<1>1. CASE TaskStep
  <2>1. TypeOK'
    BY <1>1, TaskStepTyped DEF Typing
  <2>2. UNCHANGED <<current, rollback, generations>>
    BY <1>1, TaskStepFrame DEF genVars
  <2>. QED BY <2>1, <2>2 DEF Typing, GenerationsRetained
<1>2. CASE LifecycleStep
  <2>1. GenerationsTyped'
    BY <1>2, LifecycleGenerationsTyped
  <2>2. plan' \in RollbackPlan \cup {None} /\ torn' \in BOOLEAN
    BY <1>2, LifecyclePlanTyped
  <2>3. /\ state' \in {"ready", "running", "stopped"}
        /\ count' \in Nat
        /\ tasks' \in [Task -> TaskRecord]
        /\ UNCHANGED <<lock, leases, reply>>
        /\ sources' \subseteq Target
        /\ cache' \in BOOLEAN
    BY <1>2, LifecycleRestTyped
  <2>. QED BY <2>1, <2>2, <2>3 DEF Typing, TypeOK, GenerationsTyped
<1>3. CASE UNCHANGED vars
  BY <1>3 DEF vars, taskVars, genVars, procVars, Typing, TypeOK, GenerationsRetained
<1>. QED BY <1>1, <1>2, <1>3 DEF Next

\* The controller's state is well typed, and the generations that a rollback
\* depends on are never dropped, by gc or by any other operation.
THEOREM TypingInvariant == Spec => [](TypeOK /\ GenerationsRetained)
<1>1. Init => Typing
  BY TypingInit
<1>2. Typing /\ [Next]_vars => Typing'
  BY TypingStep
<1>. QED BY <1>1, <1>2, PTL DEF Spec, Typing

----------------------------------------------------------------------------
(* Reservations.                                                           *)

\* A manual reservation has no worker, so nothing holds its lease.
LeasesAreProcess == \A k \in ActiveTasks \cap leases : tasks[k].lease = "process"

\* What active_task_count, the records and the lock promise together.  It is
\* inductive: the count is what the capacity check reads, and the state and
\* the lock change only with the records.
Reservations ==
  /\ CountMatches
  /\ CapacityRespected
  /\ TargetExclusive
  /\ RunningHasTask
  /\ ExecKeepsReservation
  /\ LeasesAreProcess

LEMMA ActiveFinite ==
  ASSUME NEW S \in SUBSET Task
  PROVE  IsFiniteSet(S) /\ Cardinality(S) \in Nat
  BY ControllerAssumption, FS_Subset, FS_CardinalityType

\* Reconciliation releases the dead tasks, no other, and counts them.
LEMMA ReconcileCounts ==
  ASSUME TypeOK, CountMatches
  PROVE  /\ ActiveIn(ReconciledTasks) = ActiveTasks \ DeadTasks
         /\ \A k \in ActiveIn(ReconciledTasks) : ReconciledTasks[k] = tasks[k]
         /\ ReconciledCount = Cardinality(ActiveIn(ReconciledTasks))
<1>1. Finished.state # "active"
  BY DEF Finished, NoTask
<1>2. ActiveIn(ReconciledTasks) = ActiveTasks \ DeadTasks
  BY <1>1 DEF ActiveIn, ActiveTasks, ReconciledTasks
<1>3. \A k \in ActiveIn(ReconciledTasks) : ReconciledTasks[k] = tasks[k]
  BY <1>2 DEF ActiveIn, ReconciledTasks
<1>4. DeadTasks \in SUBSET ActiveTasks /\ ActiveTasks \in SUBSET Task
  BY DEF DeadTasks, ActiveTasks, ActiveIn
<1>5. /\ Cardinality(ActiveTasks \ DeadTasks)
           = Cardinality(ActiveTasks) - Cardinality(ActiveTasks \cap DeadTasks)
      /\ ActiveTasks \cap DeadTasks = DeadTasks
      /\ Cardinality(DeadTasks) <= Cardinality(ActiveTasks)
  BY <1>4, ActiveFinite, FS_Difference, FS_Subset
<1>6. ReconciledCount = Cardinality(ActiveTasks \ DeadTasks)
  BY <1>4, <1>5, ActiveFinite DEF ReconciledCount, Monus, CountMatches
<1>. QED BY <1>2, <1>3, <1>6

\* A reservation adds one task, to a reconciled registry that has room for it
\* and no other task on its target.
LEMMA ReserveKeeps ==
  ASSUME Typing, Reservations, NEW k \in Task, NEW t \in Target \cup {None},
         NEW kind \in {"manual", "process"}, Reserve(k, t, kind)
  PROVE  /\ CountMatches' /\ CapacityRespected' /\ TargetExclusive' /\ RunningHasTask'
         /\ ActiveTasks' = ActiveIn(ReconciledTasks) \cup {k}
         /\ \A j \in ActiveIn(ReconciledTasks) : tasks'[j] = tasks[j]
         /\ tasks'[k].lease = kind
<1>. DEFINE R == ReconciledTasks
<1>1. /\ \A j \in ActiveIn(R) : R[j] = tasks[j]
      /\ ActiveIn(R) = ActiveTasks \ DeadTasks
      /\ ReconciledCount = Cardinality(ActiveIn(R))
  BY ReconcileCounts DEF Typing, Reservations
<1>2. /\ R \in [Task -> TaskRecord]
      /\ Active(kind, t).state = "active" /\ Active(kind, t).target = t
      /\ Active(kind, t).lease = kind
  BY ReconcileTyped DEF Typing, Active
<1>3. /\ tasks' = [R EXCEPT ![k] = Active(kind, t)]
      /\ count' = ReconciledCount + 1 /\ "ok" \in AdmissionOutcomes(k, t)
  BY DEF Reserve
<1>4. /\ tasks[k] = NoTask /\ ~(ReconciledCount >= MaxParallel)
      /\ t # None => \A j \in ActiveIn(R) : R[j].target # t
  BY <1>3, AdmissionGranted
<1>5. /\ ActiveTasks' = ActiveIn(R) \cup {k} /\ k \notin ActiveIn(R)
      /\ \A j \in ActiveIn(R) : tasks'[j] = tasks[j]
      /\ tasks'[k] = Active(kind, t)
  <2>1. tasks[k].state # "active"
    BY <1>4 DEF NoTask
  <2>2. k \notin ActiveIn(R)
    BY <1>1, <2>1 DEF ActiveTasks, ActiveIn
  <2>3. \A j \in Task : tasks'[j] = IF j = k THEN Active(kind, t) ELSE R[j]
    BY <1>2, <1>3
  <2>. HIDE DEF R
  <2>. QED BY <1>1, <1>2, <2>2, <2>3 DEF ActiveTasks, ActiveIn
<1>6. /\ ActiveIn(R) \in SUBSET Task /\ IsFiniteSet(ActiveIn(R))
      /\ Cardinality(ActiveIn(R)) \in Nat
  BY ActiveFinite DEF ActiveIn
<1>7. Cardinality(ActiveTasks') = Cardinality(ActiveIn(R)) + 1
  BY <1>5, <1>6, FS_AddElement
<1>8. CountMatches' /\ CapacityRespected'
  BY <1>1, <1>3, <1>4, <1>6, <1>7, ControllerAssumption
     DEF CountMatches, CapacityRespected
<1>9. TargetExclusive'
  <2>. SUFFICES ASSUME NEW i \in ActiveTasks', NEW j \in ActiveTasks',
                       i # j, tasks'[i].target # None
                PROVE  tasks'[i].target # tasks'[j].target
    BY DEF TargetExclusive
  <2>1. CASE i \in ActiveIn(R) /\ j \in ActiveIn(R)
    BY <1>1, <1>5, <2>1 DEF Reservations, TargetExclusive
  <2>2. CASE i = k /\ j \in ActiveIn(R)
    BY <1>1, <1>2, <1>4, <1>5, <2>2
  <2>3. CASE j = k /\ i \in ActiveIn(R)
    BY <1>1, <1>2, <1>4, <1>5, <2>3
  <2>. QED BY <1>5, <2>1, <2>2, <2>3
<1>10. RunningHasTask'
  BY <1>5 DEF RunningHasTask
<1>. QED BY <1>2, <1>5, <1>8, <1>9, <1>10

\* A release removes one task.
LEMMA UnreserveKeeps ==
  ASSUME Typing, Reservations, NEW k \in Task, Unreserve(k)
  PROVE  CountMatches' /\ CapacityRespected' /\ TargetExclusive' /\ RunningHasTask'
<1>1. Finished.state # "active"
  BY DEF Finished, NoTask
<1>2. /\ ActiveTasks' = ActiveTasks \ {k} /\ k \in ActiveTasks
      /\ \A j \in ActiveTasks' : tasks'[j] = tasks[j]
  BY <1>1 DEF Unreserve, ActiveTasks, ActiveIn, Typing, TypeOK
<1>3. /\ IsFiniteSet(ActiveTasks) /\ Cardinality(ActiveTasks) \in Nat
      /\ ActiveTasks' \in SUBSET Task /\ IsFiniteSet(ActiveTasks')
      /\ Cardinality(ActiveTasks') \in Nat
  BY <1>2, ActiveFinite DEF ActiveTasks, ActiveIn
<1>4. Cardinality(ActiveTasks') = Cardinality(ActiveTasks) - 1
  BY <1>2, <1>3, FS_RemoveElement
<1>5. count = Cardinality(ActiveTasks) /\ Cardinality(ActiveTasks) <= MaxParallel
  BY DEF Reservations, CountMatches, CapacityRespected
<1>6. count' = Cardinality(ActiveTasks')
  BY <1>3, <1>4, <1>5 DEF Unreserve, Monus
<1>7. CountMatches' /\ CapacityRespected'
  BY <1>3, <1>4, <1>5, <1>6, ControllerAssumption DEF CountMatches, CapacityRespected
<1>8. TargetExclusive'
  BY <1>2 DEF Reservations, TargetExclusive
<1>9. RunningHasTask'
  <2>1. state' = StateFor(count')
    BY DEF Unreserve
  <2>2. state' = "running" => Cardinality(ActiveTasks') # 0
    BY <1>6, <2>1 DEF StateFor
  <2>3. Cardinality({}) = 0
    BY FS_EmptySet
  <2>. QED BY <2>2, <2>3 DEF RunningHasTask
<1>. QED BY <1>7, <1>8, <1>9

\* A refusal leaves the registry reconciled.
LEMMA RefuseKeeps ==
  ASSUME Typing, Reservations, NEW k, NEW t, RefuseAdmission(k, t)
  PROVE  /\ CountMatches' /\ CapacityRespected' /\ TargetExclusive' /\ RunningHasTask'
         /\ ActiveTasks' = ActiveTasks \ DeadTasks
         /\ \A j \in ActiveTasks' : tasks'[j] = tasks[j]
<1>1. /\ tasks' = ReconciledTasks /\ count' = ReconciledCount
      /\ state' = ReconciledState
  BY DEF RefuseAdmission
<1>2. ActiveTasks' = ActiveIn(ReconciledTasks)
  BY <1>1 DEF ActiveTasks, ActiveIn
<1>3. /\ ActiveTasks' = ActiveTasks \ DeadTasks
      /\ \A j \in ActiveTasks' : tasks'[j] = tasks[j]
      /\ count' = Cardinality(ActiveTasks')
  BY <1>1, <1>2, ReconcileCounts DEF Typing, Reservations
<1>4. /\ ActiveTasks \in SUBSET Task /\ IsFiniteSet(ActiveTasks)
      /\ Cardinality(ActiveTasks) \in Nat /\ Cardinality(ActiveTasks') \in Nat
      /\ Cardinality(ActiveTasks') <= Cardinality(ActiveTasks)
  BY <1>3, ActiveFinite, FS_Subset DEF ActiveTasks, ActiveIn
<1>5. CountMatches' /\ CapacityRespected'
  BY <1>3, <1>4, ControllerAssumption
     DEF Reservations, CountMatches, CapacityRespected
<1>6. TargetExclusive'
  BY <1>3 DEF Reservations, TargetExclusive
<1>7. RunningHasTask'
  <2>1. CASE DeadTasks = {}
    BY <1>1, <1>3, <2>1 DEF ReconciledState, Reservations, RunningHasTask
  <2>2. CASE DeadTasks # {}
    <3>1. state' = StateFor(count')
      BY <1>1, <2>2 DEF ReconciledState
    <3>2. Cardinality({}) = 0
      BY FS_EmptySet
    <3>. QED BY <1>3, <3>1, <3>2 DEF StateFor, RunningHasTask
  <2>. QED BY <2>1, <2>2
<1>. QED BY <1>3, <1>5, <1>6, <1>7

\* A step that neither adds, changes nor drops an active record.
LEMMA SameTasksKeeps ==
  ASSUME Typing, Reservations, count' = count, ActiveTasks' = ActiveTasks,
         \A j \in ActiveTasks : tasks'[j] = tasks[j],
         state' = "running" => state = "running",
         lock' \in {lock, None}, leases' \subseteq leases
  PROVE  Reservations'
<1>1. CountMatches' /\ CapacityRespected' /\ TargetExclusive' /\ RunningHasTask'
  BY DEF Reservations, CountMatches, CapacityRespected, TargetExclusive, RunningHasTask
<1>2. ExecKeepsReservation' /\ LeasesAreProcess'
  BY DEF Reservations, ExecKeepsReservation, LeasesAreProcess
<1>. QED BY <1>1, <1>2 DEF Reservations

\* A step that forgets every task, while no exec is waiting.
LEMMA ForgetKeeps ==
  ASSUME count' = 0, tasks' = NoTasks, state' = "ready", lock' = None
  PROVE  Reservations'
<1>1. ActiveTasks' = {}
  BY DEF ActiveTasks, ActiveIn, NoTasks, NoTask
<1>2. Cardinality({}) = 0
  BY FS_EmptySet
<1>. QED BY <1>1, <1>2, ControllerAssumption
     DEF Reservations, CountMatches, CapacityRespected, TargetExclusive,
         RunningHasTask, ExecKeepsReservation, LeasesAreProcess

LEMMA TaskStepKeeps ==
  ASSUME Typing, Reservations, TaskStep
  PROVE  Reservations'
<1>1. ASSUME NEW k \in Task, NEW t \in Target \cup {None}, AdmitTask(k, t)
      PROVE  Reservations'
  <2>1. Reserve(k, t, "manual") /\ UNCHANGED <<lock, leases>>
        /\ lock = None /\ k \notin leases
    BY <1>1 DEF AdmitTask, Reserve, procVars
  <2>2. ActiveIn(ReconciledTasks) \subseteq ActiveTasks
    BY ReconcileCounts DEF Typing, Reservations
  <2>3. ExecKeepsReservation' /\ LeasesAreProcess'
    BY <2>1, <2>2, ReserveKeeps DEF Reservations, ExecKeepsReservation, LeasesAreProcess
  <2>. QED BY <2>1, <2>3, ReserveKeeps DEF Reservations
<1>2. ASSUME NEW k \in Task, NEW t \in Target, BeginExec(k, t)
      PROVE  Reservations'
  <2>1. Reserve(k, t, "process") /\ lock' = k /\ leases' = leases \cup {k}
    BY <1>2 DEF BeginExec
  <2>2. ActiveIn(ReconciledTasks) \subseteq ActiveTasks
    BY ReconcileCounts DEF Typing, Reservations
  <2>3. ExecKeepsReservation' /\ LeasesAreProcess'
    BY <2>1, <2>2, ReserveKeeps DEF Reservations, ExecKeepsReservation, LeasesAreProcess
  <2>. QED BY <2>1, <2>3, ReserveKeeps DEF Reservations
<1>3. ASSUME NEW k, NEW t, RefuseAdmission(k, t)
      PROVE  Reservations'
  <2>1. lock = None /\ UNCHANGED <<lock, leases>>
    BY <1>3 DEF RefuseAdmission, procVars
  <2>2. ExecKeepsReservation' /\ LeasesAreProcess'
    BY <1>3, <2>1, RefuseKeeps DEF Reservations, ExecKeepsReservation, LeasesAreProcess
  <2>. QED BY <1>3, <2>2, RefuseKeeps DEF Reservations
<1>4. ASSUME NEW k \in Task, ReturnExec(k) \/ ReleaseTask(k)
      PROVE  Reservations'
  <2>1. Unreserve(k) /\ lock' = None /\ leases' \subseteq leases
    BY <1>4 DEF ReturnExec, ReleaseTask, procVars
  <2>2. ActiveTasks' \subseteq ActiveTasks /\ \A j \in ActiveTasks' : tasks'[j] = tasks[j]
    BY <2>1 DEF Unreserve, Finished, NoTask, ActiveTasks, ActiveIn, Typing, TypeOK
  <2>3. ExecKeepsReservation' /\ LeasesAreProcess'
    BY <2>1, <2>2 DEF Reservations, ExecKeepsReservation, LeasesAreProcess
  <2>. QED BY <2>1, <2>3, UnreserveKeeps DEF Reservations
<1>5. ASSUME (\E k \in Task : WorkerExits(k)) \/ ControllerDies \/ ContainerStops
      PROVE  Reservations'
  <2>1. /\ UNCHANGED <<state, count, tasks>>
        /\ lock' \in {lock, None} /\ leases' \subseteq leases
    BY <1>5 DEF WorkerExits, ControllerDies, ContainerStops, taskVars
  <2>2. ActiveTasks' = ActiveTasks
    BY <2>1 DEF ActiveTasks, ActiveIn
  <2>. QED BY <2>1, <2>2, SameTasksKeeps
<1>. QED BY <1>1, <1>2, <1>3, <1>4, <1>5 DEF TaskStep

LEMMA LifecycleStepKeeps ==
  ASSUME Typing, Reservations, LifecycleStep
  PROVE  Reservations'
<1>1. ASSUME NEW i \in Image, Install(i)
      PROVE  Reservations'
  <2>1. count' = 0 /\ tasks' = NoTasks /\ state' = "ready" /\ lock' = None
    BY <1>1 DEF Install, procVars
  <2>. QED BY <2>1, ForgetKeeps
<1>2. ASSUME NEW i \in Image, NEW p \in Image \cup {None}, Update(i, p), p # None
      PROVE  Reservations'
  <2>1. count' = 0 /\ tasks' = NoTasks /\ state' = "ready" /\ lock' = None
    BY <1>2 DEF Update, procVars
  <2>. QED BY <2>1, ForgetKeeps
<1>3. ASSUME \/ \E i \in Image : Start(i) \/ Stop(i) \/ Update(i, None)
             \/ \E t \in Target : TargetAdd(t) \/ TargetRemove(t)
             \/ Rollback
             \/ \E p \in Image : Restore(p, targets) \/ Restore(p, plan.targets)
             \/ \E t \in Volatile : SourceChanges(t)
      PROVE  Reservations'
  <2>1. /\ UNCHANGED <<count, tasks, lock, leases>>
        /\ state' \in {state, "ready", "stopped"}
    BY <1>3 DEF Start, Stop, Update, TargetAdd, TargetRemove, Rollback, Restore,
                SourceChanges, taskVars, procVars
  <2>2. ActiveTasks' = ActiveTasks
    BY <2>1 DEF ActiveTasks, ActiveIn
  <2>. QED BY <2>1, <2>2, SameTasksKeeps
<1>4. ASSUME NEW full \in BOOLEAN, NEW cacheFull \in BOOLEAN, Gc(full, cacheFull)
      PROVE  Reservations'
  <2>1. UNCHANGED <<state, count, lock, leases>>
    BY <1>4 DEF Gc, procVars
  <2>2. \/ tasks' = tasks
        \/ tasks' = [k \in Task |-> IF k \in ActiveTasks THEN tasks[k] ELSE NoTask]
    BY <1>4 DEF Gc
  <2>3. ActiveTasks' = ActiveTasks /\ \A j \in ActiveTasks : tasks'[j] = tasks[j]
    BY <2>2 DEF ActiveTasks, ActiveIn, NoTask
  <2>. QED BY <2>1, <2>3, SameTasksKeeps
<1>. QED BY <1>1, <1>2, <1>3, <1>4 DEF LifecycleStep

LEMMA ReservationsInit ==
  ASSUME Init
  PROVE  Reservations
<1>1. ActiveTasks = {}
  BY DEF Init, ActiveTasks, ActiveIn, NoTasks, NoTask
<1>2. Cardinality({}) = 0
  BY FS_EmptySet
<1>. QED BY <1>1, <1>2, ControllerAssumption
     DEF Init, Reservations, CountMatches, CapacityRespected, TargetExclusive,
         RunningHasTask, ExecKeepsReservation, LeasesAreProcess

LEMMA ReservationsStep ==
  ASSUME Typing, Reservations, [Next]_vars
  PROVE  Reservations'
<1>1. CASE UNCHANGED vars
  <2>1. UNCHANGED <<state, count, tasks, lock, leases>>
    BY <1>1 DEF vars, taskVars, procVars
  <2>2. ActiveTasks' = ActiveTasks
    BY <2>1 DEF ActiveTasks, ActiveIn
  <2>. QED BY <2>1, <2>2, SameTasksKeeps
<1>. QED BY <1>1, TaskStepKeeps, LifecycleStepKeeps DEF Next

\* Whatever controllers and workers do and whichever of them die, the count is
\* the number of reservations, which never exceeds the capacity and never
\* gives one target to two tasks; "running" means that there is a reservation
\* and an exec that is waiting still has its own.
THEOREM ReservationInvariant ==
  Spec => [](ReservationsAgree /\ ExecKeepsReservation)
<1>1. Init => Typing /\ Reservations
  BY TypingInit, ReservationsInit
<1>2. Typing /\ Reservations /\ [Next]_vars => Typing' /\ Reservations'
  BY TypingStep, ReservationsStep
<1>3. Reservations => ReservationsAgree /\ ExecKeepsReservation
  BY DEF Reservations, ReservationsAgree
<1>. QED BY <1>1, <1>2, <1>3, PTL DEF Spec

\* The reservation of a task outlives the exec that waits for it: nothing but
\* its own release gives it back, not even another controller's reconciliation
\* of dead workers or a lifecycle operation.
THEOREM ExecReservation == Spec => []ExecKeepsReservation
<1>. QED BY ReservationInvariant, PTL

LEMMA LeaseProtectsStep ==
  ASSUME Typing, Reservations, [Next]_vars,
         NEW k \in ActiveTasks, k \in leases, tasks'[k].state = "finished"
  PROVE  lock = k
<1>. SUFFICES ASSUME lock # k
              PROVE  FALSE
  OBVIOUS
<1>1. /\ k \in Task /\ tasks[k].state = "active"
      /\ tasks[k].lease = "process"
      /\ tasks \in [Task -> TaskRecord]
  BY DEF ActiveTasks, ActiveIn, Reservations, LeasesAreProcess, Typing, TypeOK
<1>2. tasks[k] # NoTask /\ ReconciledTasks[k] = tasks[k]
  BY <1>1 DEF NoTask, ReconciledTasks, DeadTasks
<1>3. ASSUME NEW j \in Task, NEW t, NEW kind, Reserve(j, t, kind)
      PROVE  FALSE
  <2>1. tasks[j] = NoTask
    BY <1>3, AdmissionGranted DEF Reserve
  <2>2. tasks'[k] = tasks[k]
    BY <1>1, <1>2, <1>3, <2>1, ReconcileTyped DEF Reserve, Typing
  <2>. QED BY <1>1, <2>2
<1>4. ASSUME NEW j, NEW t, RefuseAdmission(j, t)
      PROVE  FALSE
  BY <1>1, <1>2, <1>4 DEF RefuseAdmission
<1>5. ASSUME NEW j \in Task, Unreserve(j), j # k
      PROVE  FALSE
  BY <1>1, <1>5 DEF Unreserve
<1>6. ASSUME NEW j \in Task, ReturnExec(j) \/ ReleaseTask(j)
      PROVE  FALSE
  BY <1>1, <1>5, <1>6 DEF ReturnExec, ReleaseTask
<1>7. CASE TaskStep
  <2>1. ASSUME (\E j \in Task : WorkerExits(j)) \/ ControllerDies \/ ContainerStops
        PROVE  FALSE
    BY <1>1, <2>1 DEF WorkerExits, ControllerDies, ContainerStops, taskVars
  <2>. QED BY <1>3, <1>4, <1>6, <1>7, <2>1 DEF TaskStep, AdmitTask, BeginExec
<1>8. CASE LifecycleStep
  <2>1. tasks' = tasks \/ tasks' = NoTasks \/ tasks'[k] = tasks[k]
    BY <1>1, <1>8 DEF LifecycleStep, Install, Start, Stop, Update, TargetAdd, TargetRemove,
       Rollback, Restore, Gc, SourceChanges, taskVars
  <2>. QED BY <1>1, <2>1 DEF NoTasks, NoTask
<1>9. CASE UNCHANGED vars
  BY <1>1, <1>9 DEF vars, taskVars
<1>. QED BY <1>7, <1>8, <1>9 DEF Next

\* While a process of a worker is alive, only the exec that started the worker
\* can finish its task.
THEOREM LeaseProtection == Spec => LeaseProtectsWorker
<1>1. Init => Typing /\ Reservations
  BY TypingInit, ReservationsInit
<1>2. Typing /\ Reservations /\ [Next]_vars => Typing' /\ Reservations'
  BY TypingStep, ReservationsStep
<1>3. Typing /\ Reservations /\ [Next]_vars
        => [\A k \in ActiveTasks :
              k \in leases /\ tasks'[k].state = "finished" => lock = k]_vars
  BY LeaseProtectsStep
<1>. QED BY <1>1, <1>2, <1>3, PTL DEF Spec, LeaseProtectsWorker

LEMMA RefusalStep ==
  ASSUME Typing, Reservations, NEW k \in Task, NEW t \in Target \cup {None},
         RefuseAdmission(k, t)
  PROVE  HasReason(k, t)
<1>. DEFINE R    == ReconciledTasks
            live == {j \in ActiveTasks' : tasks'[j].lease = "manual" \/ j \in leases'}
<1>1. /\ tasks' = R /\ leases' = leases /\ reply' \in AdmissionOutcomes(k, t)
      /\ reply' # "ok" /\ ActiveTasks' = ActiveIn(R)
  BY DEF RefuseAdmission, procVars, ActiveTasks, ActiveIn
<1>2. /\ \A j \in ActiveIn(R) : R[j] = tasks[j]
      /\ ActiveIn(R) = ActiveTasks \ DeadTasks
      /\ ReconciledCount = Cardinality(ActiveIn(R))
  BY ReconcileCounts DEF Typing, Reservations
<1>3. ASSUME NEW j \in ActiveTasks'
      PROVE  tasks'[j].lease = "manual" \/ j \in leases'
  <2>1. /\ j \in ActiveTasks /\ j \notin DeadTasks /\ tasks'[j] = tasks[j]
    BY <1>1, <1>2, <1>3
  <2>2. tasks[j].lease \in {"manual", "process"}
    BY <2>1 DEF ActiveTasks, ActiveIn, Typing, TypeOK, TaskRecord
  <2>. QED BY <1>1, <2>1, <2>2 DEF DeadTasks
<1>4. live = ActiveIn(R)
  BY <1>1, <1>3
<1>5. CASE reply' \in TargetOutcomes(t)
  <2>1. \/ reply' = "target_busy" /\ \E j \in ActiveIn(R) : R[j].target = t
        \/ reply' = "AttributeError" /\ \E j \in ActiveIn(R) : R[j].target = None
    BY <1>1, <1>5 DEF TargetOutcomes
  <2>. QED BY <1>1, <1>4, <2>1 DEF HasReason
<1>6. CASE reply' \notin TargetOutcomes(t)
  <2>1. \/ reply' = "task_already_exists" /\ tasks[k] # NoTask
        \/ reply' = "task_capacity_exhausted" /\ ReconciledCount >= MaxParallel
        \/ reply' = "target_not_registered" /\ t \notin targets
    BY <1>1, <1>6 DEF AdmissionOutcomes
  <2>. QED BY <1>2, <1>4, <2>1 DEF HasReason
<1>. QED BY <1>5, <1>6

\* A dead worker never makes an admission fail, and neither does a live one that
\* is not in the way of it, but for one without a target.
THEOREM HonestRefusal == Spec => RefusalIsHonest
<1>1. Init => Typing /\ Reservations
  BY TypingInit, ReservationsInit
<1>2. Typing /\ Reservations /\ [Next]_vars => Typing' /\ Reservations'
  BY TypingStep, ReservationsStep
<1>3. Typing /\ Reservations
        => [\A k \in Task, t \in Target \cup {None} :
              RefuseAdmission(k, t) => HasReason(k, t)]_vars
  BY RefusalStep
<1>. QED BY <1>1, <1>2, <1>3, PTL DEF Spec, RefusalIsHonest

\* gc, which reconciles no lease, empties the cache only when its count is that
\* of no reservation at all.
THEOREM CacheProtection == Spec => CacheOutlivesReservations
<1>1. Init => Typing /\ Reservations
  BY TypingInit, ReservationsInit
<1>2. Typing /\ Reservations /\ [Next]_vars => Typing' /\ Reservations'
  BY TypingStep, ReservationsStep
<1>3. Typing /\ Reservations /\ [Next]_vars
        => [cache /\ ~cache' => ActiveTasks = {}]_vars
  <2>. SUFFICES ASSUME Typing, Reservations, Next, cache, ~cache'
                PROVE  ActiveTasks = {}
    OBVIOUS
  <2>1. CASE TaskStep
    BY <2>1 DEF TaskStep, AdmitTask, BeginExec, RefuseAdmission, Reserve, ReturnExec,
                ReleaseTask, Unreserve, WorkerExits, ControllerDies, ContainerStops
  <2>2. CASE \E full, cacheFull \in BOOLEAN : Gc(full, cacheFull)
    <3>1. count = 0
      BY <2>2 DEF Gc, CacheAfterGc
    <3>2. IsFiniteSet(ActiveTasks)
      <4>1. ActiveTasks \in SUBSET Task
        BY DEF ActiveTasks, ActiveIn
      <4>. QED BY <4>1, ActiveFinite
    <3>. QED BY <3>1, <3>2, FS_EmptySet DEF Reservations, CountMatches
  <2>3. CASE LifecycleStep /\ ~\E full, cacheFull \in BOOLEAN : Gc(full, cacheFull)
    BY <2>3 DEF LifecycleStep, Install, Start, Stop, Update, TargetAdd, TargetRemove,
                Rollback, Restore, SourceChanges
  <2>. QED BY <2>1, <2>2, <2>3 DEF Next
<1>. QED BY <1>1, <1>2, <1>3, PTL DEF Spec, CacheOutlivesReservations

----------------------------------------------------------------------------
(* The rollback plan.                                                      *)

LEMMA PlanNamesStep ==
  ASSUME Typing, PlanNamesRollback, [Next]_vars
  PROVE  PlanNamesRollback'
<1>1. CASE WritePlan
  BY <1>1 DEF WritePlan, PlanNamesRollback, PlanOf
<1>2. ASSUME UNCHANGED <<plan, torn, rollback, targets>>,
             rollback # None => generations'[rollback] = generations[rollback]
      PROVE  PlanNamesRollback'
  BY <1>2 DEF PlanNamesRollback, PlanOf
<1>3. CASE TaskStep
  <2>1. UNCHANGED <<plan, torn, rollback, targets, generations>>
    BY <1>3, TaskStepFrame DEF genVars, TaskStep, AdmitTask, BeginExec, RefuseAdmission,
       Reserve, ReturnExec, ReleaseTask, Unreserve, WorkerExits, ControllerDies,
       ContainerStops, taskVars
  <2>. QED BY <1>2, <2>1
<1>4. CASE LifecycleStep
  <2>1. CASE \E full, cacheFull \in BOOLEAN : Gc(full, cacheFull)
    <3>. PICK full \in BOOLEAN, cacheFull \in BOOLEAN : Gc(full, cacheFull)
      BY <2>1
    <3>1. UNCHANGED <<plan, torn, rollback, targets>>
      BY DEF Gc
    <3>2. rollback # None => rollback \in DOMAIN generations
      BY DEF Typing, GenerationsRetained
    <3>3. rollback # None => generations'[rollback] = generations[rollback]
      BY <3>2 DEF Gc, Preserved
    <3>. QED BY <1>2, <3>1, <3>3
  <2>2. CASE \E i \in Image : Start(i) \/ Stop(i)
    BY <1>2, <2>2 DEF Start, Stop
  <2>3. CASE \E t \in Volatile : SourceChanges(t)
    BY <1>2, <2>3 DEF SourceChanges, genVars
  <2>. QED BY <1>1, <1>4, <2>1, <2>2, <2>3
       DEF LifecycleStep, Install, Update, TargetAdd, TargetRemove, Rollback, Restore
<1>5. CASE UNCHANGED vars
  BY <1>2, <1>5 DEF vars, genVars, taskVars
<1>. QED BY <1>3, <1>4, <1>5 DEF Next

\* The plan that a rollback will activate is that of the rollback generation,
\* unless a controller died between state.json and the plan.
THEOREM PlanFollowsState == Spec => []PlanNamesRollback
<1>1. Init => Typing /\ PlanNamesRollback
  BY TypingInit DEF Init, PlanNamesRollback, PlanOf
<1>2. Typing /\ PlanNamesRollback /\ [Next]_vars => Typing' /\ PlanNamesRollback'
  BY TypingStep, PlanNamesStep
<1>. QED BY <1>1, <1>2, PTL DEF Spec

\* No generation in use has a number that target changes have yet to give out.
NumbersGivenOut ==
  \A n \in Nat : CounterGeneration(n) \in {current, rollback} \ {None} => n <= counter

LEMMA NumbersStep ==
  ASSUME Typing, NumbersGivenOut, [Next]_vars
  PROVE  NumbersGivenOut'
<1>. USE DEF CounterGeneration, ImageGeneration
<1>1. CASE UNCHANGED <<current, rollback, counter>>
  BY <1>1 DEF NumbersGivenOut
<1>2. CASE TaskStep
  BY <1>1, <1>2, TaskStepFrame DEF genVars
<1>3. CASE \E i \in Image : Install(i) \/ Start(i) \/ Stop(i)
  BY <1>1, <1>3 DEF Install, Start, Stop, NumbersGivenOut
<1>4. CASE \E i \in Image, p \in Image \cup {None} : Update(i, p)
  BY <1>4 DEF Update, NumbersGivenOut
<1>5. ASSUME NEW gens, NEW old, NEW new, ChangeTargets(gens, old, new)
      PROVE  NumbersGivenOut'
  <2>1. counter \in Nat BY DEF Typing, TypeOK
  <2>2. counter' = counter + 1 /\ current' = <<"counter", counter + 1>>
        /\ rollback' = current
    BY <1>5 DEF ChangeTargets, NextGeneration
  <2>. QED BY <2>1, <2>2 DEF NumbersGivenOut
<1>6. CASE \E t \in Target : TargetAdd(t) \/ TargetRemove(t)
  BY <1>5, <1>6 DEF TargetAdd, TargetRemove
<1>7. CASE Rollback
  BY <1>7 DEF Rollback, RollbackGeneration, DisplacedGeneration, NumbersGivenOut
<1>8. CASE \E p \in Image : Restore(p, targets) \/ (plan # None /\ Restore(p, plan.targets))
  BY <1>8 DEF Restore, NumbersGivenOut
<1>9. CASE \E full, cacheFull \in BOOLEAN : Gc(full, cacheFull)
  BY <1>1, <1>9 DEF Gc
<1>10. CASE \E t \in Volatile : SourceChanges(t)
  BY <1>1, <1>10 DEF SourceChanges, genVars
<1>11. CASE UNCHANGED vars
  BY <1>1, <1>11 DEF vars, genVars
<1>. QED BY <1>2, <1>3, <1>4, <1>6, <1>7, <1>8, <1>9, <1>10, <1>11
     DEF Next, LifecycleStep

\* The plan of a generation that was just recorded with its targets.
LEMMA PlanOfRecorded ==
  ASSUME NEW gens, NEW g, NEW ts \in SUBSET Target, NEW other, g # None,
         gens[g] = [image |-> image, targets |-> ts]
  PROVE  PlanOf(g, gens, other) = [image |-> image, targets |-> ts]
  BY ControllerAssumption DEF PlanOf

LEMMA ChangeIsUndone ==
  ASSUME Typing, NumbersGivenOut, current # None, ~torn',
         NEW gens, NEW old \in SUBSET Target, NEW new,
         ChangeTargets(gens, old, new), WritePlan
  PROVE  plan' = [image |-> image, targets |-> old]
<1>1. counter \in Nat BY DEF Typing, TypeOK
<1>2. current # NextGeneration
  BY <1>1 DEF NextGeneration, CounterGeneration, NumbersGivenOut
<1>3. rollback' = current
      /\ generations'[current] = [image |-> image, targets |-> old]
  BY <1>2 DEF ChangeTargets, With
<1>4. plan' = PlanOf(current, generations', targets')
  BY <1>3 DEF WritePlan
<1>. QED BY <1>3, <1>4, PlanOfRecorded

LEMMA RollbackIsUndone ==
  ASSUME Typing, current # None, ~torn', Rollback
  PROVE  plan' = [image |-> image, targets |-> targets]
<1>1. rollback' = current
      /\ generations'[current] = [image |-> image, targets |-> targets]
  <2> DEFINE first == With(generations, RollbackGeneration, plan)
  <2>1. DisplacedGeneration = current BY DEF DisplacedGeneration
  <2>2. /\ rollback' = DisplacedGeneration
        /\ generations' = With(first, DisplacedGeneration, [image |-> image, targets |-> targets])
    BY DEF Rollback
  <2> HIDE DEF first
  <2> QED BY <2>1, <2>2 DEF With
<1>2. plan' = PlanOf(current, generations', targets')
  <2>1. WritePlan BY DEF Rollback
  <2> QED BY <1>1, <2>1 DEF WritePlan
<1>3. targets \in SUBSET Target BY DEF Typing, TypeOK
<1>4. ASSUME NEW gens, NEW other, gens[current] = [image |-> image, targets |-> targets]
      PROVE  PlanOf(current, gens, other) = [image |-> image, targets |-> targets]
  BY <1>3, <1>4, PlanOfRecorded
<1>. QED BY <1>1, <1>2, <1>4

\* A target change or a rollback can be undone: unless its controller dies, the
\* plan it leaves holds the image and the targets that it replaced, whatever
\* gc, updates and earlier rollbacks did to the snapshots.
THEOREM ChangesCanBeUndone == Spec => PlanUndoesChange
<1>1. Init => Typing /\ NumbersGivenOut
  BY TypingInit DEF Init, NumbersGivenOut
<1>2. Typing /\ NumbersGivenOut /\ [Next]_vars => Typing' /\ NumbersGivenOut'
  BY TypingStep, NumbersStep
<1>3. Typing /\ NumbersGivenOut
        => ((Rollback \/ \E t \in Target : TargetAdd(t) \/ TargetRemove(t))
              /\ current # None /\ ~torn'
              => plan' \in [image : {image}, targets : {targets, PrunedTargets}])
  <2>1. SUFFICES ASSUME Typing, NumbersGivenOut, current # None, ~torn',
                        Rollback \/ \E t \in Target : TargetAdd(t) \/ TargetRemove(t)
                 PROVE  plan' \in [image : {image}, targets : {targets, PrunedTargets}]
    OBVIOUS
  <2>2. targets \in SUBSET Target /\ PrunedTargets \in SUBSET Target
    BY <2>1 DEF Typing, TypeOK, PrunedTargets
  <2>3. CASE Rollback
    BY <2>1, <2>3, RollbackIsUndone
  <2>4. CASE \E t \in Target : TargetAdd(t)
    <3>1. plan' = [image |-> image, targets |-> PrunedTargets]
      BY <2>1, <2>2, <2>4, ChangeIsUndone DEF TargetAdd
    <3>. QED BY <3>1
  <2>5. CASE \E t \in Target : TargetRemove(t)
    <3>1. plan' = [image |-> image, targets |-> targets]
      BY <2>1, <2>2, <2>5, ChangeIsUndone DEF TargetRemove
    <3>. QED BY <3>1
  <2>. QED BY <2>1, <2>3, <2>4, <2>5
<1>. QED BY <1>1, <1>2, <1>3, PTL DEF Spec, PlanUndoesChange

=============================================================================
