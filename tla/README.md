# Formal models of AgentCanon

AgentCanon is a toolkit that agents and people install beside their
repositories: a bootstrap runtime that lives in a resident container, execution
tools for GPU experiments, an archive of what hooks and runs record, publishers
to GitHub, and a large body of checkers, routers and documents. Most of it
computes a result from files and stops. A smaller part keeps state that several
processes share, that outlives crashes, and that has to be right in every order
of events. This directory models that part in TLA+, checks it with TLC and
proves its most important properties with TLAPS.

Every definition is a translation of source code; `PROJECT.json` (`map`) names
the lines. Operators whose comment begins with "Mutant" are mistakes one could
make in the definition after them. No action uses them: substituting one for
that definition makes TLC find the property listed beside it (`mutants`)
violated, so that each property is known to say something about the code.

## 1. Inventory

### Parts of the system

| Part | State it keeps | Operations | What is hard about it |
| --- | --- | --- | --- |
| **Resident controller** `src/tools/runtime/container/bootstrap_runtime.py` | `state.json`: admission state, `active_task_count`, task records, target registry, generations with current/rollback pointers and a counter, image; `rollback-plan.tsv`; `lifecycle.lock`; one `process-lease.lock` per task | install, update, start, stop, uninstall, target add/remove, rollback, restore, gc, task admit/release, exec | controllers and workers die at any point; leases are inherited by workers; the count is kept beside the records; the plan is written after the state; generation names come from two sources |
| **Host adapter** `src/bootstrap/host/lifecycle/entrypoint.sh` | replacement lock, container, images, `active-image.tsv`, `mounts.tsv`, rollback plan, exchange directory | the same lifecycle, from outside: builds, replaces and verifies the container, then calls the controller inside | several failing steps with compensation; the stop path takes no replacement lock |
| **GPU reservation** `GpuReservationTransaction` in `src/tools/experiments/execution/execution_resource_plan.py` | one lock file per GPU UUID: `flock` and a JSON record | try_reserve, close | partial acquisition, rollback in reverse order, death with an active record, torn writes |
| **UUID lease store** `UUIDReservationStore`, same file | a lease record per UUID | acquire, activate, release, reclaim stale | no production caller passes a store |
| **GPU planner**, same file | none | builds and validates a plan | pure |
| **Direct GPU runner** `DirectGpuCommandRunner` in `src/tools/experiments/execution/gpu_command_admission.py` | stage of one command | observe, reserve, observe again, launch, wait, release | stale observations; a command outlives its runner and its locks; interrupts |
| **Subreaper executor** `LinuxSubreaperCommandExecutor`, same file | tracked descendants | scan /proc, scope, reap, wait | the scan is not atomic; descendants move and orphan |
| **Log archive and hook spool** `src/tools/runtime/archive/runtime_log_archive_git.py`, `src/.codex/hooks/hook_event_log.py` | spool files of a host; projections, index and cursor in a work tree; a git branch that hosts share | append, ingest, commit, rebase, push, read back, delete | three files written one after the other; lost answers to pushes; merges line by line; a crash anywhere |
| **Runtime event publication**, same file | one event file per run; observations in the spool of an attempt; receipts beside the event | publish, reconcile | what can be read may not survive a loss of power; two attempts want one name |
| **Native release** `src/tools/runtime/dispatch/agent-canon/src/native_release.rs` | on GitHub: releases with assets, a tag | find or create a draft, upload, verify, publish, read back | lost answers, late requests of killed jobs, half-done uploads, a tag that appears meanwhile |
| **GitHub issue sync** `src/tools/repository/github/issue_sync.py` | Issues; pending packets; receipts | publish, defer, `--sync-pending` | searches that miss a new Issue, no lock between publishers, people who edit |
| **Managed experiments** `run_managed_experiment.py` | run directory, child processes | reserve, start, supervise | undoing a reservation that is no longer one's own |
| **Update lifecycle contract** (Python and Rust) | none | validates the record of an update | two implementations of one check |
| **Private feedback** `private_feedback.rs` and the host adapter | spool, a private log repository | append, publish | as the archive, one file per entry |
| **Status, publication, pull requests** | receipts; labels, branches | compare with the expected remote state, one request | an unreliable remote |
| **Experiment results** | a pair of pointer files | update | the pair is not atomic |
| **Workspace, clones, orphans** | directories, git refs | create, remove | crash points |
| **Authority, hooks, routing, monitors, analysis, CI, documents** | none or one process' files | decisions and reports | pure functions |

### How they interact

The host adapter is the only caller of the controller's lifecycle operations.
It starts the container the controller runs in, mounts the targets listed in
the controller's registry, and passes image identities and target digests in
environment variables. The controller never calls Docker. It leaves
`rollback-plan.tsv` and the mount manifest for the host, which reads them at the
next rollback. Controllers (one process per operation) exclude each other with
`lifecycle.lock`; tasks and their workers are tied to a controller only through
the lease descriptor they inherit.

The GPU runner builds a plan, locks UUIDs through `GpuReservationTransaction`,
starts the command with the subreaper executor, and releases when the executor
says that nothing of the command is left. Runners of different processes meet
only in the lock files and in what `nvidia-smi` shows.

Hooks leave event files in the spool of their host and never wait. A timer of
the host starts `sync`, which is the only reader of the spool and meets the
syncs of other hosts in the log branch. `materialize-runtime-event` meets its
own repetitions, and processes with another snapshot of the source, in the
directory of the run. The release workflow starts one publication job per tag
at a time; jobs, dead jobs' requests and maintainers meet in GitHub's releases
and tags. Publishers of findings leave packets in the archive's `pending/`,
which the host's `--sync-pending` empties.

### What makes each part correct

- *Controller*: count, records and leases agree; slots and targets are exclusive;
  a live worker keeps its reservation and a dead one does not block anybody; the
  plan on disk is the generation a rollback will claim to activate; a target
  change can be undone; collected state is never needed again.
- *Host adapter*: what an operation reports holds of container, files and controller; a
  failure of any one step ends in the previous resident, or says that it does not; the
  recorded image exists whenever the script may be killed.
- *Reservation*: a lock is held exactly as long as the transaction knows of it; a
  reservation is complete or empty; an active record protects its GPU even when
  its owner is dead; nobody waits for a lock.
- *Runner*: two live commands never share a GPU; locks of an ended command return;
  locks are not released before the command has ended.
- *Executor*: the wait ends when, and only when, the command has.
- *Archive*: a spool file is deleted only when its event is on the branch; nothing
  published is lost, doubled or uncertified; a spooled event gets there.
- *Event publication*: "committed" is recorded and reported only of what a loss of
  power cannot take; the records of an attempt form one chain; a repetition
  completes what a crash has left.
- *Release*: only a complete release of one build becomes public, it is the tag's,
  and it never changes; what a job reports is true; a rerun finishes.
- *Issue sync*: one Issue for a finding; a packet is removed only when its Issue has
  a receipt; a packet that can be resolved is.

The hazards, each at its line and with the properties that watch it, are listed
in `PROJECT.json` (`hazards`).

## 2. Modules

| Module | Models | Built on |
| --- | --- | --- |
| `BootstrapController`, `BootstrapControllerProofs` | the resident controller; theorems | |
| `ResidentReplacement`, `ResidentReplacementProofs` | the host adapter's scripts on one resident container; theorems | |
| `GpuReservation` | `GpuReservationTransaction`, many processes | |
| `GpuExclusion` | abstract: what GPU admission promises | |
| `DirectGpuCommand`, `DirectGpuCommandProofs` | the runner, its command and other users; theorems about it and the reservation, and the refinement proof | `GpuReservation`; implements `GpuExclusion` |
| `SubreaperQuiescence`, `SubreaperProofs` | the executor against a tree of processes; theorems | |
| `EventLog` | abstract: what the archive promises of an event | |
| `SpoolArchive`, `SpoolArchiveProofs` | hook spools, work trees and the log branch; theorems and the refinement proof | implements `EventLog` |
| `EventPublication`, `EventPublicationProofs` | publication of one runtime event; theorems | |
| `NativeRelease`, `NativeReleaseProofs` | release jobs against GitHub; theorems | |
| `IssueSync`, `IssueSyncProofs` | publishers and retries against GitHub Issues; theorems | |
| `MC*` | instances for TLC | |

### BootstrapController

`state`, `count`, `tasks`, `targets`, `generations`, `current`, `rollback`,
`counter` and `image` are the fields of `state.json`; `plan` is
`rollback-plan.tsv` and `torn` a history variable: the last controller that
changed the state died before it wrote the plan. `lock` is `lifecycle.lock` and
`leases` the set of task leases that some process holds. `sources` says which
target roots exist, `cache` whether the cache has entries, `reply` is the result
of the last admission.

An operation holds `lifecycle.lock` from its read of `state.json` to its last
write, and `state.json` is replaced atomically, so an operation is one action.
There are two exceptions. `exec` keeps the lock while its command runs, so it is
`BeginExec` and `ReturnExec`, between which the controller may die
(`ControllerDies`), the container may be stopped (`ContainerStops`), and worker
processes come to an end (`WorkerExits`). And the plan is a second file: `WritePlan`
either writes it or leaves the old one with `torn` set.

| Action | Code |
| --- | --- |
| `AdmitTask`, `BeginExec`, `RefuseAdmission` | `admit_task`, `exec`, `_admit_task_locked`: reconcile, then the checks in their order (`AdmissionOutcomes`; `TargetOutcomes` for the scan of the active records, which fails on one without a target) |
| `ReleaseTask`, `ReturnExec` | `release_task`, the `finally` of `exec`, `_release_task_locked` |
| `Install`, `Update`, `Start`, `Stop` | the branches of `_container_control_run` |
| `TargetAdd`, `TargetRemove` | `target add/remove` with `_container_target_generation` and `_prune_stale_targets` |
| `Rollback`, `Restore` | the branches of the same names; the host's arguments come from the plan |
| `Gc` | `BootstrapRuntime.gc` without its archive branch |

The record of a task keeps what admission and release look at: state, kind of
lease, target. Completed and cancelled tasks are one kind (`Finished`): nothing
but a report tells them apart. A target is its digest. A snapshot is an image and
a set of targets. Generation names are pairs, so that a name made from the image
and a name made from the counter are different, as they are in the code for any
image digest with a letter or more digits than the counter.

### ResidentReplacement

An operation is a script, and `job[h]` holds what is left of the one `h` runs (`todo`) with
the shell variables that decide how it goes on: the previous image (`old`), the image reference and the
expected image ID (`ref`, `expect`), the manifest new containers are made from, the
pending plan. A step is a pair: what it does and the route the script takes when it
fails. `exit` returns; `undo` is the branch of `replace_resident_locked` for a candidate that does not
come up; `recover` is `restore_candidate_failure`, in which a failure is noted and the rest
is still done (`note`, `skip`); `unhalt` starts the controller again after a failed stop. `phase` names
the script: `build` until an update has its image, `reuse` when it keeps the resident, `run`, `undo`, `recover`,
`unhalt`, or `unchanged` for a target add that has nothing to do.

| Step | Code |
| --- | --- |
| `Build` | `_agent_canon_image`, and the decision to keep a resident that already runs the candidate |
| `StopContainer`, `RemoveContainer` | `docker stop`, `docker rm` |
| `CreateContainer`, `Boot` | `ensure_container` up to the validation, and its start and health wait |
| `Commit`, `Ready`, `Halt`, `Restore` | calls of the controller (`run_controller`): the operation itself, start, stop, restore |
| `Publish` | `publish_controller_projection`: in full, or as far as a failure lets it get (`PublishPartly`), which the script does not notice |
| `Readback`, `Record`, `KeepPlan` | `validate_existing_container`, `record_active_container`, `commit_pending_rollback_plan` |
| `Reactivate`, `DiscardImage` | the last two parts of `restore_candidate_failure` |

`resident`, `images` and `retained` are Docker's; `active`, `mounts`, `plan` and `exchange`
the host's files; `registry` is as much of `state.json` as the scripts can tell: targets, image, whether a
generation is current, the rollback snapshot, ready or stopped. The controller is not
`BootstrapController` here: composing the two would multiply their states, and the names of generations, on
which its refusals depend, are covered there. Any call of it may fail before or after it
has written. A script that is refused before it changes anything is no action: an update, for one,
whose active image does not exist, since it cannot be tagged for the rollback (2408-2411).
`unrestored` is history for the properties: a `Reactivate` has failed; so is `projected` of a job: its publications have not failed. `absent` says
that a publication has removed `mounts.tsv`; no container is made or validated then, until the next invocation makes an empty one (`Prepare`, a part of every
invocation before it asks for the lock).
`stop` holds no lock, so its steps come between those of any other script. Image references
are dropped: whether an update to the current image keeps the resident is open. Targets' sources
do not disappear here.

### GpuReservation

`phase` is the transaction's `_state` and position inside `try_reserve`; `held`
is `_held`; `pending` is the candidate whose descriptor is open and not counted
yet; `flock` and `record` are the kernel's lock and the content of each file.
One candidate is `Lock` or `SkipBusy`, `CheckRecord` (identity, previous record,
truncation) or `RefuseRecord`, `WriteActive` or `WriteFails`; running out is
`Exhaust`; `close` is `Close`, `ReleaseLast` for each lock, `FinishClose`. `Die`
may hit every phase: it drops the locks, and a file that was being written is
left as it was, empty, or torn. The order in which candidates are tried is any
order: callers sort them, and no property depends on it. A descriptor whose
`close()` itself fails (`close_ambiguous`) is not modelled: Linux has released
the lock by then.

### DirectGpuCommand and GpuExclusion

`stage` is the position in `run()`. `work[r]` is the set of GPUs that live
processes of `r`'s command may touch. It is not the runner's state: a command
keeps running when its runner dies or is interrupted. `seen` says whether the
driver lists it yet, `foreign` where other users are. `Interrupt` is a signal that
ends the executor's wait (finding 1): the stage is then `aborted`, and the
command is no longer `protected`. The refinement maps `user` of `GpuExclusion` to
`protected`: the promise is kept for every command whose own runner was not
interrupted, whatever happens to the others.

A member of `Runner` is a process together with its command: it is reused when
that command is gone. Lock files therefore never carry the record of a process
that cannot be told from the present one, as in the code, where a record holds
a fresh reservation identity.

### SubreaperQuiescence

Processes of the command fork, exit, leave the session (and with it the process
group) and reap children; orphans go to the runner. A scan is `List` (the
directory is read in one call) and one `ReadStat` for each entry, in any order;
`Scope` is the fixpoint of `_descendant_scope`; `Watch` and `Drain` are the two
loops of `execute`. A process identity is never reused, which is what the pair
of PID and start time gives. `forked` is a history variable: some process forked since
the listing. A scan that fails as a whole is repeated by the code and changes nothing;
an entry whose `stat` cannot be read although the process exists is not modelled.

### SpoolArchive

`spool[h]` are the event files of a host, `work[h]` the *checkpoint* in its work tree: what
the projections hold (`proj`), what the index lists (`index`), and the index whose hash the
cursor carries (`cursor`). A row pairs an event with the projection it went to, which is named
after the commit of the AgentCanon source. `log` is the branch, `head[h]` the head of the clone:
the commit of the branch it forks from, whether it has commits of its own, its checkpoint. `run[h]` is the
command that holds the host's archive lock, with the snapshot of events it answers for (`covered`).

| Action | Code |
| --- | --- |
| `Hook` | `HookLogContext.append`: a new immutable file |
| `Sync`, `PushCommand`, `SyncWithoutPush` | `command_sync` (snapshot, `ingest_hook_event_spool`, commit), `command_push`, `sync --no-push` or a sync that fails before its commit |
| `IngestIsTorn` | a kill, or a failed write whose restoration fails too, between the three writes |
| `Compare` | one turn of `_compare_and_push` up to the push: fetch, and `_rebase_to_remote` if the branch moved |
| `Push`, `PushFails` | the push without force, refused when the branch moved; a failure reported before or after its effect; up to `PUBLICATION_RETRY_LIMIT` turns |
| `Finalize`, `FinalizeIsCut` | the readback and `finalize_hook_spool_readback` |
| `Stops` | a kill, or a failure of git or the disk; in a rebase it may leave a detached head (`jammed`) |
| `OtherPush` | other files committed to the branch by somebody else |

`Merged` is git's three-way merge with the union of lines that the code writes for `.jsonl` conflicts;
the cursor is a `.json` file, so that two different changes of it are a `Conflict`, which aborts the rebase.
The lock makes one command of a host at a time; ingest and commit are one action because no other
process reads the work tree between them, and a cut between them has actions of its own. `torn` is a history variable: after
which of the three writes ingests have been cut off.

`EventLog` is what all hosts together promise: an event is written, delivered for good and then forgotten. The refinement maps `spooled` to the events in
some spool (`inSpool`) and `published` to those whose row the tip of the branch certifies (`onBranch`).

### EventPublication

An attempt is the identity of the event's bytes, which depend on the snapshot of the source. `seen` is
what processes can read in the run's and the attempts' directories: the event (whose, at most one), observations,
receipts. `safe` is the part that a loss of power cannot take, because its directory has been synced since. `proc[p]` is the
position in `reconcile_runtime_event_publication` under the lock of its attempt.

| Action | Code |
| --- | --- |
| `Begin`, `Read` | the lock; the records are read, checked (`Coherent`) and confirmed by a sync; then `NextStep` |
| `PublishEvent`, `SyncEvent`, `Classify` | `_secure_publish_noreplace` and its sync, `_publish_runtime_event_noreplace`, `classify_publication_outcome` |
| `Adopt`, `Recover` | an event found without records: an uncertain observation; an uncertain one alone: the committed second |
| `Observe`, `SyncObservation` | `spool_publication_outcome` |
| `Attest`, `SyncReceipt` | the receipt in the directory of the run |
| `Dies`, `PowerLoss` | a kill or a failed sync; any part of what is not `safe` goes |

A file of one name is either there in full or not, since it is renamed into place; its content is fixed by
attempt, sequence and outcome. Context certificates and the legacy receipt format are validated and never written here.

### NativeRelease

`releases` are the releases for the tag in the order of their creation, each with the commit it is bound to and
its uploads (asset, build, whole or cut off); `tag` is the commit of the tag, if there is one. A *build* is a commit
and one of its packagings, because packaging twice need not give the same bytes. `job` is the job that runs, `flight`
the requests of killed jobs that may still take effect.

| Action | Code |
| --- | --- |
| `Begin`, `FindRelease` | the first tag check; `release_for_tag`, `validate_release`, `missing_assets`; a release that is already public is only compared |
| `Create`, `FindAgain` | the POST of a draft, and the second look after one that failed |
| `UploadNext`, `Verify` | uploads in the order of names, and the draft read again |
| `CheckTag`, `Patch`, `ReadBack` | the tag once more, `draft=false`, and the comparison of what is public |
| `Killed`, `Arrives` | a dead job, and its last request when it takes effect late or never |
| `PushTag` | a maintainer, or another workflow, makes the tag |

GitHub is external: an asset is never replaced, one release of a tag is public, publishing makes the tag unless
there is one, a list may not show a new draft yet. The workflow's concurrency group
(`.github/workflows/agent-canon-native-release.yml:264`) runs the jobs of a tag one after the other, so there is one job.
Assets with other names, prereleases and `check_only` are left out.

### IssueSync

`issues` are the Issues by number, with the finding they are about, what the code asks of their text (`exact`: the text of the
packet; `linked`: that with links to other Issues; `cohesive`: another text with the finding's responsibility and fix;
`loose`: neither), open or closed, and whether searches show them yet. `packet[f]` is the input mode of the pending packet of a finding, `receipts` the Issues with a staged
receipt, `actor[a]` the position of a publisher or of a `--sync-pending` with the packets it has still to do.

| Action | Code |
| --- | --- |
| `BeginPublish`, `Search` | `IssueWorker.publish`, `plan_publication`: of any qualified finding, by any publisher, as often as it is run |
| `Create`, `Edit`, `Reopen`, `EditSource` | the requests of the plan, each answered, failed without effect or failed after it |
| `Stage` | the receipt |
| `BeginSync`, `NextPacket`, `Retry`, `Unlink` | `--sync-pending`, `sync_pending_packet`, which goes by the mode of the packet it has read: an Issue with a receipt, an exact Issue, or a new one for an initial packet |
| `Error` (part of the above) | a publisher leaves a deferred packet; a retry ends, with this packet and all later ones pending |
| `Killed`, `Index`, `People` | kills and failing reads; search results; people who write, close, reopen and change Issues |

`missed[f]` is history for `NoDuplicate`: how many searches of one who may create found nothing although an Issue about `f` was there or
being made. One counter bounds publications, kills, failed requests and edits together (`Event`), so that they come in every mixture.

## 3. Checks

Sizes are distinct states. The bounds are named constants of the modules.

| Run | Instance | Shows |
| --- | --- | --- |
| `tasks` | 3 tasks, 1 target, 2 slots, 1 image; 130,992 | reservations, leases and refusals through every mixture of deaths, releases, lifecycle operations and gc |
| `generations` | no tasks, 2 images, 1 volatile target, 2 target changes; 149,320 | plan, snapshots and pointers through every sequence of updates, changes, rollbacks and restores |
| `replacement` | 2 hosts, 1 target, 2 images, 3 operations, 2 failures, 1 killed script; 983,561 with hosts interchangeable | what the scripts report and what they restore, through every failure, with stop between any two steps |
| `command` | 2 runners wanting 1 and 2 of 2 GPUs, foreign processes on one of them, deaths, interrupts; 149,184 | the lock protocol, exclusion, refinement, that no scan waits and that locks return |
| `subreaper` | 3 processes, forks at any time, sessions left; 49,248 | what was tracked is gone, what forks did not hide is gone, and the wait ends |
| `archive` | 2 hosts, 2 events, 2 projections, 2 faults, 1 other commit, `RetryLimit` 2; 1,568,374 | nothing is lost, doubled or deleted early, the branch certifies itself, refinement of `EventLog` |
| `delivery` | 2 hosts, 2 events, 1 projection, 1 fault, 1 other commit; 345,532 | every spooled event is delivered, or its host is wedged in one of three ways |
| `publication` | 2 processes, 2 attempts, 4 faults; 7,880 | what is committed and reported survives, and repetition completes it |
| `release` | 2 commits with 2 packagings, 2 assets, 2 faults; 56,504 | only complete releases become public and stay; a rerun publishes unless something is in its way |
| `issues` | 1 publisher, 1 retrying host, 1 qualified and 1 offline finding, 3 publications, kills, failed requests and edits together; 460,522 | no duplicate that no search has missed, no packet removed early, every packet resolved unless the queue is blocked |
| `release_after_quiescence`, `offline_published` | as `command`; 1 host and 1 offline finding | two documented statements that the code does not keep (section 5) |

Why the bounds are enough. Three tasks and two slots are the least that fill the
slots with a dead worker among them and have one more wanting in; one target is
enough for a conflict, and `BeginExec`, `AdmitTask` and refusals of a target
that is not registered all occur. Reservations and generations share only
`state`, `targets` and the resets, so they are enumerated in separate runs, each
with the other part small: in `generations` no task exists, in `tasks` one image and
one target change remain. Two target changes, two images and a target
that disappears cover every pair of name sources and every snapshot that is
overwritten, pruned or exchanged before it is used; `MaxGeneration` stops the
counter there. Two processes wanting one and two of two GPUs are the least in
which each can hold a part of what the other wants. Three processes of a command
give a parent that exits, a child that orphans, and a scan that reads them in either
order.

Two hosts are needed for a stop beside a replacement; three operations let a target be added,
changed by a failing operation and met by the next one, and an update be rolled back after a
change. Two failures per behaviour reach every failure route and then every failure inside
each of them (`undo` and `recover` also start from calls the controller
refuses and containers that stop took, without a failure). One killed script leaves every
intermediate state to the operations after it.
Nothing tells one host from another, so the run uses their symmetry.

Two hosts and two events are the least for a merge of two checkpoints; two projections let one event reach two of
them; two faults let a torn ingest meet a kill or a lost push, or both turns of a push be lost; the other
publisher makes a host rebase without a conflict. `delivery` has one fault, because liveness is checked on the graph
without symmetry, and one projection, which no condition of `Wedged` depends on. In `publication`, four faults let a crash hit the event, its
observation, the recovery and a record of it; two attempts collide. In `release`, two commits may claim the tag, two packagings of one commit
make a rerun differ from the draft it finds, two assets leave one missing, and two faults let a late request meet a rerun that has
lost an answer too. In `issues` one finding has each way to become a packet, and the offline one comes after it in the queue. Three events are a publication, a lost answer and a second
publication, or a publication, a failure and an edit that gives a packet what it lacks or takes it away, or edits alone. A publisher that is run again stands
for a second one; two creations that overlap are those of a publisher and of a retry of an initial packet.

`CHECK_DEADLOCK FALSE` is stated for the controller, where nothing has to happen
once the counter is at its bound; for the executor, which stops when the
wait has ended; for the archive, which stops when every host is left in the middle of a rebase and every event
is written; and for issue sync, which has nothing to do when no packet is pending. In the other runs there is always a next step.

Fairness. The controller and the host adapter have none and no liveness property: an operation happens
when a user asks for it, and a script is finite. A transaction is weakly fair in its own scan and its own release
(`Scan`, `Release`; `ReserveStep` in `DirectGpuCommand`): a running process goes
on, and it never blocks, because locks are tried with `LOCK_NB`. The runner is
also weakly fair in `Quiesce`, the return of the executor: its loop has no exit
other than quiescence. The executor is weakly fair in `Scan`; no process of the command has to exit.
In the archive, the publication and the release a command that is not killed goes on (WF), and so does `--sync-pending`; publishers of Issues owe nothing. What starts
them again is outside of them: the timer of a host starts `sync` periodically, and since a lock that is busy
refuses and is free again and again, some of these starts succeed (SF of `Sync`). `materialize-runtime-event` is repeated for its snapshot (SF of
`Begin`, whose lock is refused while it is held), and a failed release job is rerun (SF of `Begin`), which is what its
message asks for. `--sync-pending` is run by the host again and again (WF: nothing else excludes it), and searches show a new Issue at last (WF of
`Index`). Kills, failures, losses of power, pushes of others and people are always possible and never required.

## 4. Proofs

All are for every value of the constants that meets the named assumptions
(`ControllerAssumption`, `ReservationAssumption` and so on, each in the module that declares the constants).

| Theorem | States |
| --- | --- |
| `TypingInvariant` | `TypeOK` and `GenerationsRetained` of the controller |
| `ReservationInvariant` | `ReservationsAgree` (`CountMatches`, `CapacityRespected`, `TargetExclusive`, `RunningHasTask`) and `ExecKeepsReservation` |
| `LeaseProtection`, `HonestRefusal` | `LeaseProtectsWorker`, `RefusalIsHonest` |
| `ExecReservation` | `ExecKeepsReservation` |
| `PlanFollowsState`, `ChangesCanBeUndone` | `PlanNamesRollback`, `PlanUndoesChange` |
| `CacheProtection` | `CacheOutlivesReservations` |
| `ReservationSafety`, `RecordProtection` | `ReservationTypeOK`, `AllOrNothing` (`LocksAccounted`, `ReservationComplete`); `ActiveRecordStays` |
| `CommandSafety` | `TypeOK`, `WorkIsRecorded`, `GpuNotShared` of the runner |
| `Refinement` | `DirectGpuCommand` implements `GpuExclusion` (`ImplementsExclusion`) |
| `ReplacementTyping`, `ActiveImageStays`, `TargetSettles` | `TypeOK`, `ActiveImageExists`, `TargetSettled` of the host adapter |
| `SuccessHolds`, `FailureLeaves`, `OperationsAgree` | `SuccessTakesHold`, `FailureRestores` (`FailureKeepsActive`, `RestorationHolds`), `Agreement` |
| `QuiescenceSafety`, `SessionQuiescence` | `TypeOK`, `TrackedAreGone`; `SessionIsGone` of the executor |
| `NothingIsLost`, `HistoryIsKept` | `DeletedIsPublished`, `HistoryGrows` |
| `EventsArePublishedOnce`, `BranchCertified` | `PublishedOnce`, `BranchIsCertified` |
| `ArchiveImplementsLog` | `SpoolArchive` implements `EventLog` (`ImplementsEventLog`) |
| `CommittedEvents`, `MonotoneChain`, `BackedReceipts`, `DurableReturns` | `CommittedIsDurable`, `ChainIsMonotone`, `ReceiptsAreBacked`, `ReturnedIsDurable` |
| `CompleteReleases`, `BoundReleases`, `HonestReports`, `PublicStaysPublic` | `PublishedIsComplete`, `PublishedIsBound`, `ReportedIsPublic`, `PublishedIsKept` |
| `IssueTypes`, `NoSecondIssue`, `ResolvedPackets` | `TypeOK`, `NoDuplicate`, `ResolvedIsPublished` |

`ReplacementInv`, `OrderInvariant`, `ArchiveInvariant`, `Invariant`, `ReleaseInvariant` and `IssueInvariant` are the inductive invariants behind them.
The type invariants of the modules with proofs are proved and, but for `ResidentReplacement`'s, not run again; `CountMatches`, `WorkIsRecorded`, `GpuNotShared` and
`CacheOutlivesReservations` are parts of what the runs check, or of what the proofs rest on, and stand on their own for a reader.

*Controller.* `TypeOK` alone is not inductive: `PlanOf` applies `generations` to the
rollback name, so the name must be in its domain. `GenerationsRetained` says so, and
the two are proved together. The reservation properties are inductive as a group
on top of them. The count is the crux: reconciliation takes the dead tasks off at once
(`ReconcileCounts`: the number of active tasks minus the number of dead ones, which are among
the active ones, so the subtraction never hits zero early), and an admission adds one
after that. `TargetExclusive` needs nothing of leases, since admission compares
with every active record. `ExecKeepsReservation` needs that an exec holds its
lease while it holds the lock, so that reconciliation cannot finish it; the
inductive invariant has that conjunct. The action properties follow from the
invariant, one action at a time: `CacheProtection` from the count, which is zero
only when nothing is reserved. `PlanNamesRollback` is inductive over the typing: every action
either writes the plan from the state it leaves, or sets `torn`, or changes nothing the plan depends on.
`PlanUndoesChange` needs that the generation which a target change creates is not the one it keeps, or its
snapshot would overwrite the kept one: `NumbersGivenOut` says that no generation in use has a number above
`generation_counter`, and an image is never a number. `PlanOf` reads the snapshot without targets as "those of the registry", so
the null must not be a set of targets; `ControllerAssumption` says so.

*Host adapter.* A script only ever loses its first step or is replaced by another one, so the operation, the phase and the number of
steps left say where it is: `Point` is the table of all scripts by that number, `Follows` says that the rest of a script is what the
table has from there, and `FollowsTail` that it stays so. What has been made true at some step of a script, and is kept until its
end, is a condition on the number of steps left: `Keeps` for the record of the active image, `Places` for the container
(its image, its mounts and `mounts.tsv`), `Runs` for its being up, `Tells` for the controller's state, the record and the plan at the end of an update or a rollback.
The invariant is the conjunction of these for the script that holds the lock, the typing of every script, `CalmCourse` (below), `Present` (`mounts.tsv` is only absent after a failure), and `ImagesExist`: the container's image, the
record's and the one the script goes back to are there. What a publication leaves of `mounts.tsv` is a condition of a script only while its publications have not failed (`projected`)
or where a readback compares the file with the container later. None of the
six properties is inductive: each speaks of the end of a script, and what is true there was made true up to nine steps earlier. Whatever fails
and wherever a script dies, it is the same four conditions that the next script finds or drops, since every script makes true again what it relies on.
`stop` runs beside all of them without the lock. It stops the container or takes it away and writes the controller's image and ready state, and
touches nothing else (`AsideKeeps`), so the conditions allow that there is no container, and those that need it
up, or need the controller's image, have `~stopped`. `Agreement` speaks of states between two operations, where no
script is left to say anything; `CalmCourse` follows each script, without failures, from one agreement to the next.
The proof has a lemma for each step of the scripts and each part of the invariant; `TransitionTells`
and `CommitSafe` carry what the controller does at its commit.

*Reservation.* The inductive invariant says for each phase what the pending
candidate is and how many locks are held (fewer than wanted while scanning,
exactly as many when held), that `held` has no duplicate and none of it is a
candidate still to be tried, that locks and knowledge of locks agree, and that every held file
has its owner's active record until the release of that file. `Cardinality(HeldBy)
= Len(held)` is the lemma `DistinctCount`.

*Runner.* Protected work is either under a complete reservation or has a dead
owner; in both cases the record on the file names the owner and `ActiveRecordStays`
keeps it, so two protected commands on one GPU would need one file with two
owners. The refinement needs in addition that a launch takes exactly `Wanted` GPUs, from
`ReservationComplete`, and that an interrupt looks like a stop.

*Executor.* Reading is not atomic, so the invariant says what a half-read table is still worth: a
process that is live now, and was tracked before the scan, is unread or has been read as live; the
same holds for the session as long as nobody forked; a record of a zombie is about a process that is
dead for good; and a record says "in the session" of everyone who still is. When the table is complete
and shows nobody live, the first three leave nobody.

*Archive.* `Below` orders checkpoints by what they have published. `OrderInv` says that the commits of the branch, the
head that forks from one of them, and the work tree of the head's clone are ascending; hence a push without force only
adds (`HistoryIsKept`), and an event that a readback finds in the local head is on the branch
(`NothingIsLost`, which also needs that an event is in one spool only). For the other two theorems, all checkpoints
that exist anywhere (`Trees`: work trees, heads, commits) are looked at together, and every step either adds
none, or one that an ingest has made, or one that a rebase has merged (`StepKinds`). `RowInv`: an event
has one row in all of them, because only its own host ingests it and finds its earlier row in its work tree.
`CertInv`: a rebase merges two sealed checkpoints above a sealed base, and without a conflict one side's cursor is
the base's; then this side has added no row, and the other side's cursor is that of the merged index. A torn ingest ends each of the
two, as the conditions of the properties say. With all three, every step is one of `EventLog`: what is on the branch has been written (`RowInv`), what is written
and in no spool is on the branch (`SpoolInv`), so a step that moves the branch delivers what some spool still has, and one that empties
a spool forgets what the branch has. Nothing of it is conditional: a torn ingest can publish an event twice, but not lose it or bring it back.

*Event publication.* The files do not tell why a record may be written. `Grounds` says, for each step of a process,
what its lock and the syncs before that step have made sure of: that nothing has been observed of its attempt while it publishes; that the event is
safe before it is classified; that the uncertain first record and its receipt are safe before a second one; and that
all observations are safe before a receipt. A loss of power keeps what is safe and stops every process, so that it keeps the invariant.

*Release.* Assets are never replaced, so a release that is complete for one build stays so (`Grown`). `Checked` says
that whoever may publish, the job after its verification or a late request of a dead job, does it to a complete release; `TagChecked` that
the tag fits what may be published, came when nobody looked, or another public release refuses it anyway; `TagKept`
that a tag a job has seen at its start stays.

*Issue sync.* A creation starts from a search that found nothing, made by one who may create (`EntitledSearch`: a publisher, or the retry
of an initial packet). `PaidFor` counts, for each finding, its Issues and the processes that are making one: together at most one more than
`missed`. A search that finds nothing adds one maker; if there was an Issue or a maker already, it is a miss and is counted, and if there
was none, the sum was zero. A creation turns a maker into an Issue, or into nothing. `NoDuplicate` is `PaidFor` without the makers. `BackedUnlink` says of every process that is about to remove a packet that its receipt is there; it needs
`KnownIssue`, that what is changed and acknowledged is an Issue about the finding. Both last because an Issue is never
about something else later (`IssuesKept`), whatever people do to it.

Every safety and action property that a run checks is a theorem. Only model-checked are the liveness properties (`ReservationTerminates`, `LocksReturned`,
`QuiescenceReached`, `DeliveredOrWedged`, `EventIsCommitted`, `JobResumes`, `PacketIsResolved`): liveness under fairness and `ENABLED`
are out of this prover's reach, as are inductions over data and recursive operators, of which these modules have none.

## 5. Findings and observations

A finding is a run whose single property states what the repository says.

1. *An interrupt of the wait releases the GPU of a running command*
   (`release_after_quiescence`). The executor's sleeps are outside its `try`, so a
   `KeyboardInterrupt` in one of them reaches `run` as if no child had started, against
   `documents/experiments/gpu-direct-command.md:190`.
2. *An offline packet is never published* (`offline_published`). `--offline-title` writes a packet of mode
   `structured-log`; a retry finds no Issue with its text and may only create one for the mode
   `issue-publication-initial`, against `documents/conventions/REVIEW_PROCESS.md:249`.

The conditions of the checked properties mark further weaknesses. They are no runs, since no single sentence of the
repository excludes them or the models that showed them have been narrowed to what they check now.

*Controller.* Target changes and rollback do not wait for tasks, although `documents/runtime/bootstrap-runtime.md` requires
zero active tasks and names a result, `mount_update_blocked`, that no code produces. An update
names its generation after the image: going back to an image whose generation is current, which a rollback or a restore brings about,
records current and rollback under one name, and every later rollback fails with `rollback_generation_invalid`. When the command of an `exec` exits or times out with a
descendant still holding the lease, slot and target are given away; `release_task` refuses the same situation, and no property here forbids it: they speak of records. The
record of a manual task without `--root` has a null target (1655), whose `.get` at 1632 raises an `AttributeError`: beside such a task every admission with a target, and
every `exec`, fails although slot and target are free (`HasReason` names the case).

*Host adapter.* `publish_controller_projection` runs where `errexit` is off and ends in `|| true`, so no failure in it is noticed. After a failed export the exchange
directory of the previous one is published again, and `target remove` reads the resident back against the stale manifest. Where `mktemp` fails, the staging directory has no name, and
where a copy into it fails or a row is refused, it is deleted and the loops go on: in both cases the projection counts as empty, and `mounts.toml`, `mounts.tsv` and `rollback-plan.tsv` of the
host are removed (1732-1741). Where a move fails, those before it are published and those after it removed. An update then still reports success (`projected` in `UpdateTakesHold`). The next
invocation makes an empty `mounts.tsv` (637-638), so that the targets are no longer mounted while the controller has them registered; an invocation that had passed that point and waited for the lock takes the resident down and
cannot make a new one. An update whose candidate does not
come up does not restore the old resident: the expected image ID stays the candidate's, and the old container is created, refused and
left stopped. An update that fails after it has written the record, and whose write-back of the record fails too (2871-2875), removes the image
that the record names (2876-2880), and the next update cannot tag it; `ActiveImageExists` excepts it (`unrestored`). A target add that fails after the controller's commit restores
the resident and leaves the target registered: the next update succeeds with a registered
target that is not mounted. A rollback whose last two steps fail
restores the current resident and still prints `previous_generation_restored`, and it hands the controller `mounts.tsv`, already the
rollback's, as the targets to restore. An update to the image in use replaces the rollback plan by that
image. And `stop`, which waits for nobody, writes the image it started with
into the controller's state of a new container. The conditions of `AddIsMounted`, `UpdateTakesHold`, `RollbackTakesHold` and `FailureRestores` leave these outcomes out.

*Executor.* One quiet scan does not prove quiescence: a listed process forks and exits before its entry is read; and a process
that left the session, whose parents were reaped untracked and which is read before it is adopted, is not in scope. `SessionIsGone` says what the scan does prove.

*Archive.* `Wedged` names three states that no later command leaves, although
`documents/runtime/runtime-log-archive.md:135` expects pending evidence to make progress. A second
host that has ingested events of its own before it sees the first one's conflicts in the cursor on every rebase, for only `.jsonl`
conflicts are merged (6871). A kill between index and cursor leaves a checkpoint that every later `sync` refuses, and `push`
publishes it as it is. A kill in a rebase leaves a detached head. And a kill between projection and index, followed by an advance of the
source commit, leaves the event in two projections.

*Release.* A tag pushed between the last check and the PATCH is published under although it has another commit; the job then
fails at its readback and the release is public (`unseen` in `PublishedIsBound`). A cut-off upload, or a packaging with other bytes, blocks every rerun until
somebody deletes the draft (`Obstructed`).

*Issue sync.* A retry run ends at its first failing packet, so that one that cannot be resolved keeps all later ones pending. After a
reorganisation that failed half-way the destination is worded with links, and a deferred packet finds no exact Issue. Nothing stops a second
publication of a finding: a rerun after a lost answer, or another publisher, whose search (1360-1364) does not show the fresh Issue yet creates a second one at 1382, although
the docstring of `plan_publication` (1146) promises no duplicate where a destination is present; so does the retry of a packet of the mode `issue-publication-initial`, which nothing in production writes. Each such search is
counted in `missed`, and `NoDuplicate` says that there is no other way. A retry of any other packet never creates.

## 6. Not modelled

Receipts, logs and messages; parsing and validation of arguments and manifests;
install, start, uninstall, gc and sync of the host adapter; uninstall of the controller (the host removes the runtime without it) and the archive
branch of its gc; the evaluations, legacy imports and agent reports of the archive, whose files take the same way to the branch; context
certificates; crashes inside an atomic replacement of
one file; a loss of power that takes the directory of a new publication attempt itself (`runtime_log_archive_git.py:2650-2660`), where `EventPublication` lets it take the files in it; the planner and all pure checkers (their inputs are files of arbitrary
shape; tests serve them better); reuse of process identities; and the rows marked
`not_modelled` in `PROJECT.json`, each with its reason there. By lines, most of the repository is of the last two kinds:
parsers, renderers, validators and reports, which hold no state between two calls.

Composition. The runner is composed with its reservation. The controller and the host adapter are not, because their
product is out of TLC's reach; each has the other's answers as choices. The archive, the publication of events and issue sync share a work tree
but no file: events, spooled records and `pending/` are in directories of their own, and the archive commits all of them alike.

## 7. Plan

What is left, in order of what can go wrong most.

1. `ResidentReplacement`: install with its snapshot and `start`, which share the steps
   there are.
2. `PrivateFeedback`: the archive's protocol with one file per entry, as a second implementation of `EventLog`.
3. The archive branch of the controller's gc, joined to `SpoolArchive`.
4. `UuidLeaseStore` when production passes one.
