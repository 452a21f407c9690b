# TLA+ models of the PBS operator

Formal models of the Proxmox Backup Server (PBS) operator: its four controllers
(`src/internal/controller`), the agents its Jobs run (`src/internal/agent`), and the
way of the data between them (`src/internal/backup`, `src/internal/pbs`). What TLC
checks about them on small instances, and what TLAPS proves for all instances.

## The system

| Part | State | Operations | Talks to |
|---|---|---|---|
| PBSRepo controller | `Ready` condition and `lastProbeTime` of a PBSRepo | merge credentials, probe the PBS, bootstrap its namespace, record, requeue | PBS over REST; the other controllers read `Ready` |
| PBSBackup controller | `status` of a PBSBackup; one Job per node; secret copy; staging ConfigMap; Prometheus vecs | gates, placement, pre-hooks, get-or-create of Jobs, phase from Job states, results from termination logs | cached client, API server, hooked pods, agents |
| PBSSchedule controller | `status` of a PBSSchedule; one PBSBackup per slot | gates, catch-up to the latest missed slot, fire, active list | cached client, API server, clock |
| PBSRestore controller | `status` of a PBSRestore; a pipeline of Jobs; `<name>-api` ConfigMap; namespace, secret copy, RBAC | gates, four steps of `ensureJob`, volume plan, phase from the pipeline | cached client, API server, agents |
| pbs-agent | termination log, exit code; PBS snapshots; restored volumes | `backup`, `restore-volume`, `apply-manifests` | PBS, `kubectl` |
| Serializer, restore planner | none (functions of the namespace's objects, of `api.yaml`) | render a namespace, parse and bucket it, find claims and nodes | used by the controllers and the restore agent |
| Job builders, placement, hooks | none | build Job specs, find the nodes of claims, exec in pods | used by the controllers |

The controllers never call each other; they meet in the API server. What makes
them hard:

* **Stale reads.** Every `Get` and `List` is answered by an informer cache, every
  write goes to the API server, and status patches are merge patches without an
  optimistic lock. A reconcile may decide on a status older than its own last
  write. The caches of different kinds lag independently.
* **Partial work.** A reconcile that returns an error, or a restart of the
  operator, may leave hooks executed, Jobs created and metrics not counted.
* **Jobs vanish.** Finished Jobs are collected after an hour
  (`ttlSecondsAfterFinished`), others may be deleted by hand.
* **A moving cluster.** Repos lose readiness, claims move, nodes join, backups are
  deleted, schedules are edited, all between two reconciles.
* **Time.** Slots are missed, become due exactly now, or are served twice; a repo is
  probed by a timer, and a status patch wakes the controller that wrote it.
* **Moving data.** Objects are edited, volumes written, snapshots uploaded and pruned
  while a backup selects, serializes, mounts, archives and looks for its snapshot.

`PROJECT.json` lists every hazard at its line with the properties aimed at it.

What makes each part correct: a *backup* that says Completed can be restored and
its terminal phase is final, its hooks prepare the workload before a Job reads it,
its metrics tell the truth, and it ends; a *schedule* serves each slot once, in
order, never early, and does not lose the last one; a *restore* applies workloads
only on volumes that are full, says Completed only then, never goes back, and ends; a
*repo* is Ready exactly while its PBS can be used, found out without a hot loop; and
what a restore brings back is what the backup it names has seen.

## Modules

| Module | Models |
|---|---|
| `Informer` | the cached client: a kind is a *stream* of versions, whose head is what the cache shows and whose last element is what the API server stores; the lag is a parameter (1 is never stale). External: modelled from its use. |
| `PBSBackup` | the PBSBackup controller with Job controller, agents, faults |
| `BackupLifecycle` | the abstract promise of a backup: phases move forward, Completed means secured |
| `PBSSchedule` | the PBSSchedule controller with clock, backups, faults |
| `PBSRestore` | the PBSRestore controller with agents, volumes, faults |
| `PBSRepo` | the PBSRepo controller with its work queue, timer, Secrets and the PBS |
| `Manifests` | documents and the pure functions on them: serializer and restore planner |
| `DataPath` | several backups and a restore: ConfigMap, pods, backup agents, snapshots, restore agents (composes `Manifests`) |
| `MCPBSBackup`, `MCPBSSchedule`, `MCPBSRestore`, `MCPBSRepo`, `MCDataPath` | instances for TLC |
| `InformerTheorems` | facts about streams, for every type of version, lag and order |
| `PBSBackupProofs`, `PBSBackupSafety`, `PBSBackupPromises` | theorems about `PBSBackup`: types and finality; what holds for every lag; what a fresh status promises, with the refinement |
| `PBSScheduleProofs`, `PBSRestoreProofs`, `PBSRepoProofs`, `DataPathProofs` | theorems about the modules of these names |

The four controller modules are about *control*: what is done when, and what the
status says. `DataPath` is about *data*: it keeps the order of a backup's and a
restore's steps, leaves out gates, holds, retries and caches, and follows what each
step reads and writes.

Each controller module follows one object. A `Reconcile` is a sequence of actions,
split exactly at the calls between which another party can act; `rec` holds its
local variables. The workqueue never runs two reconciles of one object at once, so
there is one `rec`. A reconcile may start whenever the controller is idle, since a
`RequeueAfter` timer may fire late. `status`, `jobs`, `pods`, `cm`, `sched` and
`backups` are streams; `world` is the part of the cluster that is only read.

*PBSBackup.* Gates: `HoldRepoNotReady`, `HoldSecretCopy`, `HoldSelection`,
`HoldNothing`, `HoldUnplaceable`, else `Place`. Hooks (`runPreHooks`): `RunHook`,
`FailHook`, `RejectHook` in pod order. The Job loop, in node order: `FindJob`,
`HoldJobDeleted`, `CreateJob`, `LoseCreateRace`. Job states to phase: `FailOnJob`,
`RunBackup`, `CompleteBackup`, `FailOnResult`, followed by `ObserveFailed` or
`ObserveCompleted` for the metrics. `MergePatch` is what `client.MergeFrom` does:
the fields that differ from what was read overwrite what is stored by now.
Data: claims and nodes are numbers in alphabetical order; an annotation is absent,
valid or invalid; the serialized namespace is empty or not; the Ready condition is
its reason. Each claim is mounted by one pod of its own, in the order of the claims.
A message is not kept, here and in `PBSRestore`: a patch that changes only the message of
a condition rewrites the condition in the code and not in the model, which no guard of
these controllers and no property can tell. (For a repo the message does matter, see
RepoHotLoop.) `metrics.lost` is history: the patch of a terminal phase was stored, and
its metric will never be set.

*PBSSchedule.* `HoldCron`, `HoldRepo`, or `StartFire`/`StartRefresh`, which read the
schedule and the clock; `FireBackup`, where AlreadyExists is ignored; `RefreshStatus`.
The cron expression is the set `Slots` of its fire times.

*PBSRestore.* Gates, then `EnterPipeline`; the walk through the Jobs is `PassJob`,
`AwaitJob`, `FailOnJob`, `HoldJobDeleted`, `CreateJob` on the step `Current` points
at, with `HoldManifest`/`ReadManifest` after the fetch and
`FailManifest`/`HoldUnplaceable`/`PlanVolumes` before the volumes; `Record` lists the
Jobs and patches the status. The agents fetch, apply a bucket, and empty and fill
volumes (`EmptyVolume` is a step of its own: that is when data can be lost). A pod runs
only if a node it may run on is there (`Schedulable`): for a volume Job that is the node
of its required affinity, which may be missing from the start or leave later. The pod then
stays Pending, or fails if it was running.

*PBSRepo.* `FailSecret` or `StartPing`, `PingFails`/`PingSucceeds`,
`FailBootstrapSecret`/`Bootstrap`/`BootstrapFails`, `Record`. Unlike the others this
controller is not started at will: only its own events and its timer queue it, so
`queued` and `timer` are state, every stored version is an event, and the age of
`lastProbeTime` is kept in minutes. A setting is absent, right or wrong for the
server; `MissingLists` chooses what the PBS answers to a list in a namespace it does
not have.

*Manifests.* A document is a record. `Catalog` lists the keys objects may have in the
order of the serializer, and `api.yaml` is a function from some of its positions to
documents: a sequence with gaps, on which the planner keeps or drops positions and
takes the first match by the least one, as the code does by index. A name is the tuple of its dash-separated segments, since
`stsClaimTemplate` takes names apart by prefix. `Restorable` and `Mounts` say what
Kubernetes and the user mean, independently of the code, and are what the code's
functions are compared with.

*DataPath.* `SelectPVCs`, `Stage`, `Launch` are the reconciles of a backup (later ones
only rewrite the ConfigMap), `Mount` the kubelet, `Upload`, `List`, `Report` the backup
agent; `BeginRestore`, `Fetch`, `ApplyPre`, `FillVolume`, `ApplyWorkload` the restore.
`seen` and `steady` are history: the objects that existed at some time, or all the
time, until the upload.

*Faults* are actions guarded by `Faults` and a budget `MaxFaults`: an API error in the
middle of a reconcile (`abort`), a restart (`crash`), an outage longer than the Job
TTL (`outage`), deletion of a Job or a backup (`delete`), collection of a finished Job
(`ttl`), loss of a pod, of the repo, of the secret copy, of the ConfigMap, a spec
edit, claims that move (`drift`), nodes that join or leave. Reaping takes an hour, so
that a finished Job is recorded before it is collected, unless the operator is down that
long (`outage`) or the restore is on hold that long (`longHold`): a hold records no Jobs.

## Runs

All instances have two nodes; two is where "one of several Jobs" and "another node"
begin, and every property quantifies over at most two nodes or claims at a time.

| Run | Bounds | Checks |
|---|---|---|
| BackupGates | 3 claims, selector on two, one broken hook; every initial world; caches fresh; one repo loss or drift | `HooksAtMostOnce`, `HookFailureLeavesNoJobs`, `UnreadableBlamesAgent`, `UnselectedUntouched`, `TypeOK` |
| BackupStale | 2 claims, one appears late and on either node; all caches one write behind; one fault of five kinds | `JobsPrepared`, `CompletedIsRestorable`, `RefIsWholeBackup`, and `Settles` under `FairSpec` |
| BackupFresh | PBSBackup cache fresh, Job and Pod cache one behind; two faults of seven kinds | `TerminalFinal`, `RecordedNotRecreated`, `MetricsMatchOutcome`, `OutcomeInv`, `NoJobLeftBehind`, refinement of `BackupLifecycle` |
| Schedule | slots 1 and 3 of 3 ticks; caches one behind; two faults or edits of five kinds | `NeverBackfills`, `LastWasServed`, `FireInv`, `TypeOK`; `OncePerSlot`, `LastSlotServed`, `ActiveConverges` under `FairSpec` |
| RestoreFresh | 2 volumes, one pinned; every initial world, missing nodes included; two faults of nine kinds, long holds and leaving nodes among them | `PhaseMonotone`, `RestoreSettles`, `TypeOK` |
| RestoreStale | 2 pinned volumes; all caches one behind; two of abort, crash, ttl, a node that joins or leaves | `WorkloadOnFullVolumes`, `CompletedIsRestored`, `RestoreEnds` |
| Repo | 5 specs, 4 Secrets, 3 bootstrap Secrets, server up or down, namespace there or not; caches one behind; two changes or faults of seven kinds | `ReadyIsBootstrapped`, `ProbeTimeForward`, `TypeOK`; `ReadyTracksTruth`, `QuietBetweenProbes` under `FairSpec` |
| RoundTrip | 2 backups side by side and an older snapshot; 10 objects of 9 kinds; two of edit, write, prune, client failure; `dropKinds` and `keepKinds` that overlap | `ReportsOwn`, `RestoreWorks`, `RestoredIsBackup`, `PodsFindVolumes`, `TypeOK` |

Two slots with a gap are enough for a schedule: one is served, or missed until the
other becomes due, and there is time in between in which nothing is due. A repo has two changes: one that makes a verdict stale and one that
happens while the new one is found. In RoundTrip one backup is restored and the other
interferes; two events are one before and one after any given step.

Four runs show a disagreement between the code and its own text:

* **ReapedJob**: a backup on two nodes whose first Job is collected while the second
  still runs holds on `JobDeleted` for ever (`pbsbackup_controller.go:325`); the
  restore controller handles the case.
* **RepoHotLoop**: if the error text of a failed ping differs from one attempt to the
  next, as those of `net` with a local port do, every attempt patches the condition and
  the patch's event starts the next attempt at once (`pbsrepo_controller.go:112`).
* **SharedGroup**: two backups of the same name in two namespaces, on one node and with
  one repo, share the backup group; the agent that uploads first may report the other's
  snapshot (`agent/backup.go:166`).
* **PartialRestore**: `api.yaml` holds all claims of the namespace, the snapshot only
  the archives of the selected ones; the restore of such a backup fails
  (`restore_plan.go:195`).

What the bounds of the passing runs leave out on purpose, because TLC finds a
counterexample beyond them:

* `ImplementsLifecycle`, `TerminalFinal` and the metrics need a fresh PBSBackup cache:
  with `StatusLag = 2` a hold decided from a stale New status writes Scheduled over
  Running, and one stale read writes a terminal status twice, although "terminal
  phases are final" (`pbsbackup_controller.go:196`).
* `HooksAtMostOnce` and `HookFailureLeavesNoJobs` need fresh caches and no `abort`: an
  error after the hooks, or a stale status, executes them again, and the second
  execution may fail while Jobs run.
* `UnreadableBlamesAgent` needs the Pod cache to be as fresh as the Job cache: seen the
  other way round, a complete Job has no terminated pod yet.
* `NoJobLeftBehind` needs the claims to stay in place: after a `drift` the Job of the
  old node is forgotten.
* `OncePerSlot` needs that nobody deletes the slot's backup while lastScheduleTime is
  stale; the property says so.
* `WorkloadOnFullVolumes` excludes `outage`, `delete` and `longHold`: an operator that is
  down, or a restore that is on hold, for over an hour after a volume Job was created, and
  before the status lists it, creates the Job again, which empties its volumes.
* `RestoreEnds` excludes `longHold`: a Job that is recorded active, and that ends and is
  collected while the gate is closed, holds the restore for ever.
* `WorkloadOnFullVolumes` and `CompletedIsRestored` are about pinned volumes. The fallback
  node of an unpinned one is the first of the nodes there are *now*, although the comment
  at `pbsrestore_controller.go:441-443` calls it deterministic across reconciles. With one
  unpinned volume and one node that leaves, the volume moves to the group of a Job that was
  created without it, and TLC finds a restore that says Completed with the volume empty; with
  one node that joins and sorts first, it finds the volume emptied again under the workload.
* `RestoreSettles` and `RestoreEnds` say nothing of a volume whose pinned node is gone: the
  pod stays Pending and the restore in RestoringVolumes (`job.go:325-337`), with neither a
  deadline nor a reason in the status.
* `RestoreWorks` needs the claims of the source to stay: one created between selection
  and serialization is in `api.yaml` and has no archive.
* `PodsFindVolumes` has no pinned CronJob, whose pod template the planner does not
  find, and no two StatefulSets of which one's name continues the other's.
* `ReadyTracksTruth` is about a PBS that lists a missing namespace as empty. With
  `MissingLists = FALSE` the ping fails before the bootstrap could create it, and the
  repo is Unreachable for good.

`MaxCount` caps counters at 2: no property tells more than "once" from "more often".

Three properties name an exception of the code rather than hide it behind a bound:

* `MetricsMatchOutcome` says that a Failed backup is counted exactly once and that a
  Completed one sets the success time, except if the patch of the phase was stored and its
  response was lost, or the process restarted: the retry returns at the terminal phase
  (`pbsbackup_controller.go:196`) and the count is lost for good, although "errors_total
  counts Failed transitions" (`:102`).
* `ReadyIsBootstrapped` is about the condition as the gates read it, without its
  observedGeneration (`pbsbackup_controller.go:210`): after an edit that asks for a
  namespace the Ready of the old spec lets backups through, but only until the Reconcile
  of that edit, which is pending or under way, has recorded its verdict.
* `PhaseMonotone` says that no hold moves the phase back, a terminal phase stays, and no step
  that is recorded as complete is returned to. The phase does go back if the restore runs
  a Job of an earlier step that the status does not list as complete: one of a volume that
  moved with the nodes, or one that was removed before it was recorded.

Deadlock is checked for PBSRepo, which always has a timer to wait for; not for the
others, since a finished object with no faults left has nothing to do.

**Fairness.** `WF(Reconcile)`: every outcome of a reconcile is an error (rate-limited
retry), a `RequeueAfter` or a terminal phase. `WF` of the deliveries: informers
resume their watches. `WF` of an agent ending and of the Job controller; in PBSRestore
the agent's pod must be schedulable for that, and stay so. For PBSRepo
`WF(Reconcile)` holds of a queued object only (a worker takes it, its calls time out
after 15 s), and `WF(Tick)`: time passes. A minute ends while work is pending only if
that work began within it, since a reconcile and the events it causes take less than a
minute; without this a stamp could be outrun by the clock for ever. Nothing is
assumed of `Recover`, of the users or of the faults; the liveness properties start from
"the gates stay open from some time on", and for a restore from "the nodes of its plan
stay" too (`Runnable`). A Job without a deadline whose client hangs is
outside these assumptions.

## Theorems

Every theorem is proved for all values of the constants that satisfy the named ASSUMEs
(which TLC evaluates in every run): any nodes, claims, slots, specs, any budget of
faults, any lag of the caches, unless a condition is part of the theorem. A condition is
named (`NoDrift`, `JobsKept`, ...) and speaks about the constants only: which faults
happen and how stale a cache is, or for `DataPath` which objects, edits and names there
are. Each is there because TLC finds a counterexample
without it, for some lag and some faults that it excludes (not for all of them); what
happens is told below the tables. The proofs follow one pattern: lemmas
say what each kind of step does to the variables an invariant is about, the invariant
is shown to survive each kind, and PTL puts the parts together. TLC has checked every
inductive invariant on an instance before it was proved.

`InformerTheorems` is what they rest on: a write stays within the lag and stores its
value, a delivery or a new list moves the cache and not the store, a property of all
versions survives (`StreamsMonotone`), and so does an order between them (`Ordered`).

### PBSBackup

| Theorem | Condition | Inductive invariant |
|---|---|---|
| `TypeCorrect` | none | `TypeOK` |
| `LeftOutIsUntouched` (`UnselectedUntouched`) | none | `UntouchedInv`: what a Reconcile selected, a Job archives and a hook was run for are claims that are not left out |
| `JobsArePrepared` (`JobsPrepared`) | the selection is fixed: `spec.pvcs` is set or there is no drift | `PreparedInv`: a Reconcile past the hooks has run those of all claims it selected, for good |
| `RefIsWhole` (`RefIsWholeBackup`), `CompletedIsSecured` (every selected claim is uploaded once the phase is Completed) | no drift | `DataInv`: the archives of a Job are the selected claims of its node, a pod that reported has uploaded them, a reference names such a pod's snapshot; for every version a cache may show |
| `TerminalIsFinal`, `RecordedIsNotRecreated`, `MetricsCorrect`, `OutcomeIsTracked` | fresh PBSBackup cache | `OutcomeInv`: while a Reconcile works, what it read is what is stored and is not terminal; between its terminal patch and its metric the stored phase is that one and nothing has been counted; a terminal phase without its metric has it still to come or lost |
| `CompletedKeepsPromise` (`CompletedIsRestorable`) | fresh PBSBackup cache, no drift | `OutcomeInv`, `DataInv` |
| `LifecycleImplemented` (`ImplementsLifecycle`) | the same | the same: initial states map to initial states, every step to a step or a stutter of `BackupLifecycle` |
| `HooksRunOnce`, `HookFailureIsClean` | fresh PBSBackup cache, no abort, no restart | `HookInv`: as long as the status lists no Job and no Reconcile works, nothing has been launched and no hook executed |
| `NothingLeftBehind` (`NoJobLeftBehind`) | fresh PBSBackup cache, no drift, and a fresh Job cache or no Job removed | `LeftInv`: Jobs are launched on target nodes only, and no cached version shows a Job complete that is not |

Beyond the conditions TLC finds:

* Drift: a claim that appears after the hooks have run is archived unprepared, or one
  that is selected by now was never uploaded, or the Job of a node that is no target any
  more still runs; every theorem that excludes drift fails.
* `StatusLag` 2: a Reconcile that reads a status from before the terminal patch overwrites
  the phase, counts a metric again, recreates a Job that was deleted and runs the hooks again.
* `StatusLag` 3: after such a Job was recreated and an error was returned, a Reconcile that
  reads an old Running rewrites `status.jobs` under Completed and `CompletedIsRestorable` fails
  (two nodes, a deletion and an error), although every selected claim *has* been uploaded.
  With lag 2 and three such faults it held.
* An error or a restart between the hooks and the first status patch runs the hooks again;
  if one fails then, it leaves the Jobs of the first attempt.
* A Pod cache behind the Job cache, a deleted or reaped Job, or a collected pod makes the
  controller blame an agent that did report.
* `NoJobLeftBehind` with a stale Job cache takes `ObjectLag` 4, an error and a deletion: the
  cache passes over the whole life of a Job that was deleted while its successor runs. With
  lags 2 and 3 it held for up to three or four faults.

### PBSSchedule

`ScheduleTypeCorrect`, `RecordedSlotsWereServed`, `SlotsServedInOrder`, `FireIsLatest`
and `OneBackupPerSlot`, all without a condition. The inductive invariant is
`TypeOK /\ FireInv /\ LastWasServed`: the slot a reconcile is about to fire was the latest
one when it read the clock, and nothing is created in between, so that a stale
lastScheduleTime is harmless; what it is about to record exists. `OneBackupPerSlot` adds
that a backup is only created where the API server stores none.

### PBSRestore

| Theorem | Condition | Inductive invariant |
|---|---|---|
| `RestoreTypeCorrect` | none | `TypeOK` |
| `CompletedAppliesBoth` | none | `ApplyInv`: a Job that a cache or a status shows as succeeded has succeeded, and the workload Job exists only after the pre-apply was seen to succeed |
| `WorkloadAfterVolumes` (`WorkloadOnFullVolumes`) | the placement is fixed (no node joins or leaves, or all volumes are pinned) and `JobsKept` | `PlaceInv`: every volume Job that exists, is cached or is planned has the volumes of the one plan; `VolumeInv`: the volumes of a step that is done are full, and no Reconcile can take that step for one to be done |
| `CompletedKeepsPromise` (`CompletedIsRestored`) | fixed placement, and no Job is removed or `RemovalsSeen` | `CompletedInv`: a volume Job that a version of the Jobs or the status shows complete, or that the walk has passed, is not at work and its volumes are full; from the cached to the stored version a Job is made or goes away at most once |
| `PhasesInOrder` (`PhaseMonotone`, and without its exception) | fixed placement, `JobsKept` and a fresh PBSRestore cache | `PhaseInv`: a Job is recorded as done before it can be gone, and what a Reconcile walks past stays walked past |

`JobsKept` says that no Job is removed, at any lag, or that only the TTL controller removes
Jobs, while the status is read fresh and no hold lasts an hour; gates may close, and pinned
nodes may leave and come back. `RemovalsSeen` is weaker: the
status is read fresh, and nobody deletes a Job by hand or the Job cache is at most two
writes behind (`ObjectLag` 3). Outages, long holds and reaped Jobs that were never recorded
are allowed: such a Job is made again and empties its volumes under the workload, which
breaks `WorkloadOnFullVolumes`, but no Reconcile says Completed before they are full again,
because the one that does walks past every volume Job and none is made while it walks.
Otherwise TLC finds:

* `WorkloadOnFullVolumes` fails, and the phase moves back, after errors if a Job is deleted, or
  reaped during an outage or a long hold, before the status lists it: it is created
  a second time, and its agent empties the volume.
* With `StatusLag` 2, reaped Jobs and a ConfigMap that somebody wrote, the first also fails: a
  restore that failed on the bad ConfigMap is taken up again from a stale status, and a
  volume Job that is reaped while the cache shows that failure is created again.
* With `StatusLag` 2, a closed gate and an error, a stale hold moves a Failed restore back.
* An unpinned volume whose node leaves, or before which a node joins, is given to a second
  Job or to none.
* `CompletedIsRestored` with `StatusLag` 2, a gate that is closed for an hour and two restarts: a
  Job reaped before it was recorded is created again by a Reconcile that reads the status
  from before Completed.
* `CompletedIsRestored` with `ObjectLag` 4, an error and a deletion: the cache passes over the
  whole life of a deleted Job while its successor is at work, and shows the first one complete.

### PBSRepo

`RepoTypeCorrect`, `ReadyMeansBootstrapped` and `ProbeTimeIsHonest`, all without a
condition. `PastInv` says that whatever can be read is a past version of what is stored:
generations and probe times only grow, a generation has one spec, a verdict is about
a generation that existed. So a verdict patched onto a newer version is either about its
spec or about an older generation. `SeenInv` adds that a generation without a
verdict is on its way to the controller: its event is undelivered, queued or being worked on, so
that an old Ready does not stay. For the probe time `StampInv` is
needed: the merge patch leaves out a condition equal to the one that was read, so a stale
read could renew the time beside a condition that says Unreachable. It cannot, because a
version that would be confirmed (`Ripe`) is never one the cache still has to reach, and is
read by one Reconcile only: the queue is empty, and the timer does not run, until the
patch of that Reconcile has been delivered. This is where the proof uses that a minute does
not end over a pending event.

### DataPath

| Theorem | Condition | Inductive invariant |
|---|---|---|
| `BackupsReportTheirOwn` (`ReportsOwn`) | `DistinctGroups`: no two backups share a backup group | `OwnInv`: every snapshot but the one of the past is in the group of the backup that took it, and once a backup has uploaded, the one of the past is not the newest of its group, since the PBS prunes from the oldest end |
| `RestoredVolumesAreTheBackups` (the last conjunct of `RestoredIsBackup`) | `DistinctGroups` | `FillInv`: a restore reads the snapshot its backup took, and a volume it has filled holds what that snapshot has |
| `DataPathTypes` (`TypeOK`) | none | `TypeInv`: a version of a volume counts the writes, each of which used up a fault; the snapshots and the backups that have yet to upload are at most `MaxTime`; no reference is ahead of the snapshots |
| `RestoreBringsBackTheBackup` (`RestoredIsBackup`) | `DistinctGroups`; `SeparateTarget`: the target is not itself backed up | `TypeInv`, `OwnInv`, `FillInv`, and `ObjectsInv`, `CaptureInv`, `TargetInv`, below |
| `RestoresWork` (`RestoreWorks`) | `SeparateTarget`; `ClaimsCovered`: a backup names every claim its namespace may have, or names none and no claim is created, replaced or deleted | `ObjectsInv`, `CaptureInv`, `TargetInv` and `WorksInv`: every claim of the namespace is selected, archived and in the snapshot |
| `PodsFindTheirVolumes` (`PodsFindVolumes`) | `SeparateTarget`; `PinsAgree`: pinned workloads that `ClaimsVolume` gives one claim are pinned to one node, none is a CronJob, none is in the target beforehand | `ObjectsInv`, `CaptureInv`, `TargetInv` and `NodeInv`: a filled volume is where the plan puts it |

The argument follows an object from the source to the target. `ObjectsInv`: until a
backup has uploaded, what lasted through it (`steady`) is in the namespace, and what is
in the namespace has been seen (`seen`). `CaptureInv`: what is staged for its Job, what
the pod has mounted and what is in a snapshot is a rendering of objects seen, and has
all that lasted (`Captured`). Staging replaces the ConfigMap while the pod may already
have mounted it, so the two are separate conjuncts, and what is staged after the upload
is left open. `TargetInv`: the target is what it was, with the buckets applied so far.
Lemmas on the serializer and the planner say what each returns (`SerializeRenders`,
`ParsedDocs`, `NodeOfClaim`, ...); they need no induction, because a list of documents
is a function on positions of the catalog.

Only `RestoredIsBackup` needs distinct groups: a backup that reported another one's
snapshot still has a restore that works and pods that find their volumes, with the
wrong data. The ASSUMEs of `DataPath` say that the objects and the edits of the instance
have keys of the catalog, one object per key and namespace, and that versions and
snapshots have room for all writes and backups.

Beyond the conditions TLC finds:

* Two backups in one group (run SharedGroup), with one write between their uploads: a
  restore brings back the other one's data.
* A target that is a source: an edit in the target is in the way of what was applied.
* A claim that is created while a backup runs, or one that is not selected (run
  PartialRestore): `api.yaml` lists it, no archive has it, the restore fails.
* A Deployment edited to another node than the StatefulSet that shares its claim: the
  volume goes to the node of the first.

### Only model-checked

Everything under fairness: `Settles`, `LastSlotServed`, `ActiveConverges`,
`RestoreSettles`, `RestoreEnds`, `ReadyTracksTruth`, `QuietBetweenProbes`. Liveness is out
of the prover's reach. `UnreadableBlamesAgent` is only checked as well: what could break it
is excluded by its instance, and a theorem would say no more. Every other invariant and action
property of the passing runs is stated by a theorem, under its conditions.

## Not modelled

* Events, texts, argv, pod templates, YAML, JSON and TLS details; `tasks.go`, which the
  operator does not call; flag parsing and wiring (`cmd`); generated code and charts.
* PV node-affinity terms (`ResolveNode` is its result per claim) and the SPDY stream of
  the hooks (an exec succeeds or fails).
* Owner references, except that a secret copy may be collected: a restored claim whose
  owner is a custom resource keeps a reference to a UID that is not in the target.
* Kinds whose list the API server refuses, which the serializer skips.
* Deletion of the object itself while it is worked on (its Jobs go with it).
* The ConfigMap mount switched while the client walks it; the archive is of one version.
* A backup and a restore of the same name, which share `<name>-api` (`Tamper` is the
  effect on the restore), and Job names that collide because backup and node are joined
  by a dash.
* A cron expression that never fires, and a client that hangs: Jobs have no deadline.

## Open questions

* `PBSRestore`: whether `WorkloadOnFullVolumes` and `PhaseForward` also hold, with a status
  that is read fresh, if only Jobs the status lists are deleted.
* `CompletedIsRestored` with a stale status when the TTL controller is the only one to remove
  Jobs and no hold lasts an hour (run RestoreStale): no counterexample, no proof.
