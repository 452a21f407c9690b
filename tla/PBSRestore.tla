----------------------------- MODULE PBSRestore -----------------------------
(***************************************************************************)
(* The PBSRestore controller (internal/controller/                         *)
(* pbsrestore_controller.go) working on one PBSRestore: a pipeline of Jobs *)
(* in the target namespace, each get-or-created by ensureJob,              *)
(*                                                                         *)
(*     api-fetch -> api-pre -> vol-<node> for each node -> api-workload    *)
(*                                                                         *)
(* together with the agents in the Job pods, the Job controller and the    *)
(* caches (Informer) between the controller and the API server.            *)
(*                                                                         *)
(* Every Reconcile walks the pipeline from the start: it passes the Jobs   *)
(* that are done and stops at the first that is not.  It is split at the   *)
(* calls between which others can act: each ensureJob, the read of the api *)
(* ConfigMap, the list of the nodes, and the list of the Jobs that goes    *)
(* into the status patch.                                                  *)
(***************************************************************************)
EXTENDS Integers, FiniteSets, Informer

CONSTANTS
    Nodes,        \* cluster nodes, as positive numbers in alphabetical order
    Volumes,      \* PVCs of the snapshot's api.yaml
    Pins,         \* [Volumes -> Nodes \cup {0}]: the consumer's hostname, or none
    InitWorlds,   \* cluster states in which the PBSRestore may be created
    StatusLag,    \* versions the PBSRestore cache may be behind, plus one
    ObjectLag,    \* the same for the Job and the ConfigMap cache
    Faults,       \* kinds of environment faults that may happen
    MaxFaults     \* how many of them may happen in one behaviour

\* The Jobs of the pipeline; the Job vol-<node> is the node.
Fetch == -2
Pre == -1
Workload == 0
Steps == Nodes \cup {Fetch, Pre, Workload}

\* What the reconciler and the agents only read.  `manifest` is the api.yaml in
\* the snapshot; `terminating` and `secret` are about the target namespace and
\* the credentials of the repo.
World == [valid : BOOLEAN, ready : BOOLEAN, secret : BOOLEAN, terminating : BOOLEAN,
          nodes : SUBSET Nodes, manifest : {"good", "bad"}]

ASSUME RestoreNodes == Nodes \subseteq Nat \ {0} /\ IsFiniteSet(Nodes)
ASSUME RestorePins == Pins \in [Volumes -> Nodes \cup {0}] /\ InitWorlds \subseteq World
ASSUME RestoreBounds ==
    /\ StatusLag \in Nat \ {0} /\ ObjectLag \in Nat \ {0} /\ MaxFaults \in Nat
    /\ Faults \subseteq {"abort", "crash", "delete", "ttl", "outage", "repoLoss",
                         "longHold", "tamper", "join", "leave"}

Terminal == {"Completed", "Failed"}
Phases == {"New", "StagingAPI", "RestoringVolumes", "ApplyingWorkloads"} \cup Terminal
HoldReasons == {"RepoNotReady", "TargetNamespaceTerminating", "SecretCopyFailed",
                "ApiManifestMissing", "PlacementFailed", "JobDeleted"}
Reasons == HoldReasons \cup {"", "InvalidSpec", "Failed", "Running", "Completed"}
JobStates == {"none", "active", "complete", "failed"}

\* PBSRestoreStatus: Jobs[] by step, and whether the time stamps are set.
Status == [phase : Phases, reason : Reasons, jobs : [Steps -> JobStates],
           started : BOOLEAN, completed : BOOLEAN]
NoJobs == [j \in Steps |-> "none"]
NewStatus == [phase |-> "New", reason |-> "", jobs |-> NoJobs,
              started |-> FALSE, completed |-> FALSE]

\* A Job and, for a volume Job, the PVCs it fills.
Job == [state : JobStates, volumes : SUBSET Volumes]
NoJob == [state |-> "none", volumes |-> {}]

VARIABLES
    status,    \* stream of Status: the PBSRestore object
    jobs,      \* stream of [Steps -> Job]: the Jobs labelled pbsrestore=<name>
    cm,        \* stream of Manifests: the ConfigMap <name>-api
    scaffold,  \* target namespace, repo secret copy and Job RBAC exist
    rec,       \* the Reconcile in progress
    world,     \* the rest of the cluster
    data,      \* [Volumes -> {"empty", "full"}]: what is on the restored PVCs
    applied,   \* the buckets the apply agents have applied
    fuel       \* faults left

vars == <<status, jobs, cm, scaffold, rec, world, data, applied, fuel>>

Manifests == {"none", "good", "bad"}

\* Local variables of Reconcile: the status it read, the ConfigMap it read, the
\* volume groups still to ensure, and the outcome it is about to record.
NoGroups == [n \in Nodes |-> {}]
Idle == [pc |-> "idle", before |-> NewStatus, manifest |-> "none",
         groups |-> NoGroups, phase |-> "New", reason |-> ""]
Rec == [pc : {"idle", "fetch", "manifest", "pre", "plan", "volumes", "record"},
        before : Status, manifest : Manifests, groups : [Nodes -> SUBSET Volumes],
        phase : Phases, reason : Reasons]

Init ==
    /\ status = Listed(NewStatus)
    /\ jobs = Listed([j \in Steps |-> NoJob])
    /\ cm = Listed("none")
    /\ scaffold = [namespace |-> FALSE, secret |-> FALSE, rbac |-> FALSE]
    /\ rec = Idle
    /\ world \in InitWorlds
    /\ data = [v \in Volumes |-> "empty"]
    /\ applied = {}
    /\ fuel = MaxFaults

-----------------------------------------------------------------------------
(* Outcomes: what a Reconcile records before it returns.                   *)

First(S) == {x \in S : \A y \in S : x <= y}

\* Mutant of HoldPhase: a hold starts over.
HoldPhaseStaging(phase) == "StagingAPI"
\* The phase a hold leaves.
HoldPhase(phase) == IF phase = "New" THEN "StagingAPI" ELSE phase

\* Reconcile is about to record the phase and the reason.
Finish(before, phase, reason) ==
    rec' = [Idle EXCEPT !.pc = "record", !.before = before,
                        !.phase = phase, !.reason = reason]
HoldRestore(before, reason) == Finish(before, HoldPhase(before.phase), reason)
\* Mutant of FailRestore: the phase is the one of its twin completeRestore.
FailRestoreCompletes(before, reason) == Finish(before, "Completed", reason)
FailRestore(before, reason) == Finish(before, "Failed", reason)

\* The Jobs a List finds; those that are gone keep the state last recorded.
LiveJobs(before) ==
    [j \in Steps |-> IF Cached(jobs)[j].state # "none" THEN Cached(jobs)[j].state
                     ELSE before.jobs[j]]

\* The recorded status; a hold leaves jobs[] alone.
Recorded(live) ==
    [phase |-> rec.phase, reason |-> rec.reason,
     jobs |-> IF rec.reason \in HoldReasons THEN rec.before.jobs ELSE live,
     started |-> rec.before.started \/ rec.reason = "Running",
     completed |-> rec.before.completed \/ rec.phase \in Terminal]

\* The JSON merge patch against what was read, as in PBSBackup, messages left out.
Overwrite(stored, before, after) == IF after # before THEN after ELSE stored
MergePatch(stored, before, after) ==
    [phase |-> Overwrite(stored.phase, before.phase, after.phase),
     reason |-> Overwrite(stored.reason, before.reason, after.reason),
     jobs |-> Overwrite(stored.jobs, before.jobs, after.jobs),
     started |-> Overwrite(stored.started, before.started, after.started),
     completed |-> Overwrite(stored.completed, before.completed, after.completed)]

RecordRestore(live) ==
    /\ rec.pc = "record"
    /\ status' = Write(status, MergePatch(Stored(status), rec.before, Recorded(live)),
                       StatusLag)
    /\ rec' = Idle
    /\ UNCHANGED <<jobs, cm, scaffold, world, data, applied>>

Record == RecordRestore(LiveJobs(rec.before)) /\ UNCHANGED fuel

-----------------------------------------------------------------------------
(* The gates of Reconcile.                                                 *)

\* Mutant of Begin: the workload Job is the last one, nothing is left to do.
BeginUnlessApplying ==
    rec.pc = "idle" /\ Cached(status).phase \notin Terminal \cup {"ApplyingWorkloads"}
\* Read a PBSRestore that is not terminal.
Begin == rec.pc = "idle" /\ Cached(status).phase \notin Terminal

FailSpec ==
    /\ Begin /\ ~world.valid
    /\ FailRestore(Cached(status), "InvalidSpec")
    /\ UNCHANGED <<status, jobs, cm, scaffold, world, data, applied, fuel>>

HoldRepo ==
    /\ Begin /\ world.valid /\ ~world.ready
    /\ HoldRestore(Cached(status), "RepoNotReady")
    /\ UNCHANGED <<status, jobs, cm, scaffold, world, data, applied, fuel>>

HoldNamespace ==
    /\ Begin /\ world.valid /\ world.ready /\ world.terminating
    /\ HoldRestore(Cached(status), "TargetNamespaceTerminating")
    /\ UNCHANGED <<status, jobs, cm, scaffold, world, data, applied, fuel>>

HoldSecret ==
    /\ Begin /\ world.valid /\ world.ready /\ ~world.terminating /\ ~world.secret
    /\ HoldRestore(Cached(status), "SecretCopyFailed")
    /\ scaffold' = [scaffold EXCEPT !.namespace = TRUE]
    /\ UNCHANGED <<status, jobs, cm, world, data, applied, fuel>>

\* All gates are open and the reconciler may walk the pipeline.
GatesOpen == world.valid /\ world.ready /\ ~world.terminating /\ world.secret

EnterPipeline ==
    /\ Begin /\ GatesOpen
    /\ scaffold' = [namespace |-> TRUE, secret |-> TRUE, rbac |-> TRUE]
    /\ rec' = [Idle EXCEPT !.pc = "fetch", !.before = Cached(status)]
    /\ UNCHANGED <<status, jobs, cm, world, data, applied, fuel>>

-----------------------------------------------------------------------------
(* ensureJob, on the step the walk has come to.                            *)

Pending == {n \in Nodes : rec.groups[n] # {}}

Current(j) ==
    \/ rec.pc = "fetch" /\ j = Fetch
    \/ rec.pc = "pre" /\ j = Pre
    \/ rec.pc = "volumes" /\ j \in First(Pending)
    \/ rec.pc = "volumes" /\ Pending = {} /\ j = Workload

\* Mutant of PhaseOf: the fetch step leaves the phase at the zero value.
PhaseOfUnset(j) ==
    IF j = Fetch THEN "" ELSE IF j = Pre THEN "StagingAPI"
    ELSE IF j = Workload THEN "ApplyingWorkloads" ELSE "RestoringVolumes"
\* The phase Reconcile passes to ensureJob with the step.
PhaseOf(j) ==
    IF j \in {Fetch, Pre} THEN "StagingAPI"
    ELSE IF j = Workload THEN "ApplyingWorkloads" ELSE "RestoringVolumes"

FoundState(j) == Cached(jobs)[j].state

\* Mutant of JobDone: a Job that is gone is never done.
JobDoneIfFound(j) == FoundState(j) = "complete"
\* Complete, or recorded as complete and reaped since.
JobDone(j) ==
    \/ FoundState(j) = "complete"
    \/ FoundState(j) = "none" /\ rec.before.jobs[j] = "complete"

\* Mutant of Passed: the walk does not wait for the volume Jobs of other nodes.
PassedFirst(j) ==
    IF j = Fetch THEN [rec EXCEPT !.pc = "manifest"]
    ELSE IF j = Pre THEN [rec EXCEPT !.pc = "plan"]
    ELSE [rec EXCEPT !.groups = NoGroups]
\* Where the walk goes from a step that is done and not the last.
Passed(j) ==
    IF j = Fetch THEN [rec EXCEPT !.pc = "manifest"]
    ELSE IF j = Pre THEN [rec EXCEPT !.pc = "plan"]
    ELSE [rec EXCEPT !.groups[j] = {}]

PassJob(j) ==
    /\ Current(j) /\ JobDone(j) /\ j # Workload
    /\ rec' = Passed(j)
    /\ UNCHANGED <<status, jobs, cm, scaffold, world, data, applied, fuel>>

CompleteRestore ==
    /\ Current(Workload) /\ JobDone(Workload)
    /\ Finish(rec.before, "Completed", "Completed")
    /\ UNCHANGED <<status, jobs, cm, scaffold, world, data, applied, fuel>>

AwaitJob(j) ==
    /\ Current(j) /\ FoundState(j) = "active"
    /\ Finish(rec.before, PhaseOf(j), "Running")
    /\ UNCHANGED <<status, jobs, cm, scaffold, world, data, applied, fuel>>

FailOnJob(j) ==
    /\ Current(j) /\ FoundState(j) = "failed"
    /\ FailRestore(rec.before, "Failed")
    /\ UNCHANGED <<status, jobs, cm, scaffold, world, data, applied, fuel>>

HoldJobDeleted(j) ==
    /\ Current(j) /\ FoundState(j) = "none"
    /\ rec.before.jobs[j] # "none" /\ ~JobDone(j)
    /\ HoldRestore(rec.before, "JobDeleted")
    /\ UNCHANGED <<status, jobs, cm, scaffold, world, data, applied, fuel>>

SetJob(j, job) == jobs' = Write(jobs, [Stored(jobs) EXCEPT ![j] = job], ObjectLag)

\* AlreadyExists is ignored: the next reconcile finds the Job.
CreateJob(j) ==
    /\ Current(j) /\ FoundState(j) = "none" /\ rec.before.jobs[j] = "none"
    /\ IF Stored(jobs)[j].state = "none"
       THEN SetJob(j, [state |-> "active",
                       volumes |-> IF j \in Nodes THEN rec.groups[j] ELSE {}])
       ELSE UNCHANGED jobs
    /\ Finish(rec.before, PhaseOf(j), "Running")
    /\ UNCHANGED <<status, cm, scaffold, world, data, applied, fuel>>

-----------------------------------------------------------------------------
(* Between the Jobs: the api ConfigMap and the volume plan.                *)

HoldManifest ==
    /\ rec.pc = "manifest" /\ Cached(cm) = "none"
    /\ HoldRestore(rec.before, "ApiManifestMissing")
    /\ UNCHANGED <<status, jobs, cm, scaffold, world, data, applied, fuel>>

ReadManifest ==
    /\ rec.pc = "manifest" /\ Cached(cm) # "none"
    /\ rec' = [rec EXCEPT !.pc = "pre", !.manifest = Cached(cm)]
    /\ UNCHANGED <<status, jobs, cm, scaffold, world, data, applied, fuel>>

\* ParseAPIManifests of the ConfigMap that was read before the pre step.
FailManifest ==
    /\ rec.pc = "plan" /\ rec.manifest = "bad"
    /\ FailRestore(rec.before, "InvalidSpec")
    /\ UNCHANGED <<status, jobs, cm, scaffold, world, data, applied, fuel>>

\* NodeForPVC, else firstNode; {} if the cluster has no nodes.
NodeFor(v) == IF Pins[v] # 0 THEN {Pins[v]} ELSE First(world.nodes)
Placeable == \A v \in Volumes : NodeFor(v) # {}

HoldUnplaceable ==
    /\ rec.pc = "plan" /\ rec.manifest = "good" /\ ~Placeable
    /\ HoldRestore(rec.before, "PlacementFailed")
    /\ UNCHANGED <<status, jobs, cm, scaffold, world, data, applied, fuel>>

Groups == [n \in Nodes |-> {v \in Volumes : n \in NodeFor(v)}]

PlanVolumes ==
    /\ rec.pc = "plan" /\ rec.manifest = "good" /\ Placeable
    /\ rec' = [rec EXCEPT !.pc = "volumes", !.groups = Groups]
    /\ UNCHANGED <<status, jobs, cm, scaffold, world, data, applied, fuel>>

Reconcile ==
    \/ FailSpec \/ HoldRepo \/ HoldNamespace \/ HoldSecret \/ EnterPipeline
    \/ \E j \in Steps : \/ PassJob(j) \/ AwaitJob(j) \/ FailOnJob(j)
                        \/ HoldJobDeleted(j) \/ CreateJob(j)
    \/ HoldManifest \/ ReadManifest \/ FailManifest \/ HoldUnplaceable \/ PlanVolumes
    \/ CompleteRestore \/ Record

-----------------------------------------------------------------------------
(* The agents.  backoffLimit 0: one pod per Job.                           *)

\* What the pod mounts is there.
Started(j) ==
    /\ Stored(jobs)[j].state = "active"
    /\ scaffold.secret /\ scaffold.rbac
    /\ j \in {Pre, Workload} => Stored(cm) # "none"
    /\ j \in Nodes => "pre" \in applied

\* A node the pod may run on is there: for a volume Job the one of the required
\* node affinity, and none other.
Schedulable(j) == IF j \in Nodes THEN j \in world.nodes ELSE world.nodes # {}

Mounted(j) == Started(j) /\ Schedulable(j)
\* A pod also fails if its node leaves under it.
Breakable(j) == Started(j) /\ (Schedulable(j) \/ "leave" \in Faults)

EndJob(j, state) == SetJob(j, [Stored(jobs)[j] EXCEPT !.state = state])

Upload == cm' = Write(cm, world.manifest, ObjectLag)

\* RunRestoreVolume of the fetch Job: extract, upload as ConfigMap.
FetchSucceeds ==
    /\ Mounted(Fetch) /\ Upload /\ EndJob(Fetch, "complete")
    /\ UNCHANGED <<status, scaffold, rec, world, data, applied, fuel>>
FetchFails ==
    /\ Breakable(Fetch) /\ (Upload \/ UNCHANGED cm) /\ EndJob(Fetch, "failed")
    /\ UNCHANGED <<status, scaffold, rec, world, data, applied, fuel>>

Bucket(j) == IF j = Pre THEN "pre" ELSE "workload"

\* RunApplyManifests: the mounted api.yaml must parse; apply is an upsert.  A
\* failure may come after some documents were applied.
ApplySucceeds(j) ==
    /\ j \in {Pre, Workload} /\ Mounted(j) /\ Stored(cm) = "good"
    /\ applied' = applied \cup {Bucket(j)}
    /\ EndJob(j, "complete")
    /\ UNCHANGED <<status, cm, scaffold, rec, world, data, fuel>>
ApplyFails(j) ==
    /\ j \in {Pre, Workload} /\ Breakable(j)
    /\ \/ UNCHANGED applied
       \/ Stored(cm) = "good" /\ applied' = applied \cup {Bucket(j)}
    /\ EndJob(j, "failed")
    /\ UNCHANGED <<status, cm, scaffold, rec, world, data, fuel>>

\* RunRestoreVolume of a volume Job empties each target before it extracts.
EmptyVolume(n, v) ==
    /\ Mounted(n) /\ v \in Stored(jobs)[n].volumes /\ data[v] = "full"
    /\ data' = [data EXCEPT ![v] = "empty"]
    /\ UNCHANGED <<status, jobs, cm, scaffold, rec, world, applied, fuel>>

VolumesSucceed(n) ==
    /\ Mounted(n)
    /\ data' = [v \in Volumes |-> IF v \in Stored(jobs)[n].volumes THEN "full" ELSE data[v]]
    /\ EndJob(n, "complete")
    /\ UNCHANGED <<status, cm, scaffold, rec, world, applied, fuel>>
\* A failure leaves the volumes it got to, up to the one it was emptying.
VolumesFail(n) ==
    /\ Breakable(n)
    /\ \E filled \in SUBSET Stored(jobs)[n].volumes :
          data' = [v \in Volumes |->
                     IF v \in filled THEN "full"
                     ELSE IF v \in Stored(jobs)[n].volumes THEN "empty" ELSE data[v]]
    /\ EndJob(n, "failed")
    /\ UNCHANGED <<status, cm, scaffold, rec, world, applied, fuel>>

AgentEnds(j) ==
    \/ j = Fetch /\ (FetchSucceeds \/ FetchFails)
    \/ ApplySucceeds(j) \/ ApplyFails(j)
    \/ j \in Nodes /\ (VolumesSucceed(j) \/ VolumesFail(j))

-----------------------------------------------------------------------------
(* Faults.  Each uses up one unit of fuel.                                 *)

Fault(kind) == kind \in Faults /\ fuel > 0 /\ fuel' = fuel - 1

\* An API call fails and Reconcile returns the error.
Abort ==
    /\ Fault("abort") /\ rec.pc # "idle"
    /\ rec' = Idle
    /\ UNCHANGED <<status, jobs, cm, scaffold, world, data, applied>>

\* An API call of the gates fails, after the namespace was created or after the
\* secret was copied too.
AbortInGates ==
    /\ Fault("abort") /\ Begin /\ world.valid /\ world.ready /\ ~world.terminating
    /\ \/ scaffold' = [scaffold EXCEPT !.namespace = TRUE]
       \/ world.secret /\ scaffold' = [scaffold EXCEPT !.namespace = TRUE, !.secret = TRUE]
    /\ UNCHANGED <<status, jobs, cm, rec, world, data, applied>>

\* The List of the Jobs fails: the last snapshot is kept.
RecordUnlisted == Fault("abort") /\ RecordRestore(rec.before.jobs)

\* The operator restarts with fresh caches.
Restart(js) ==
    /\ rec' = Idle
    /\ status' = Listed(Stored(status)) /\ jobs' = Listed(js) /\ cm' = Listed(Stored(cm))
    /\ UNCHANGED <<scaffold, world, data, applied>>

Crash == Fault("crash") /\ Restart(Stored(jobs))

Finished(j) == Stored(jobs)[j].state \in {"complete", "failed"}

\* The operator is down for more than an hour, the TTL of finished Jobs.
Outage ==
    /\ Fault("outage")
    /\ Restart([j \in Steps |-> IF Finished(j) THEN NoJob ELSE Stored(jobs)[j]])

DeleteJob(j) ==
    /\ Fault("delete") /\ Stored(jobs)[j].state # "none"
    /\ SetJob(j, NoJob)
    /\ UNCHANGED <<status, cm, scaffold, rec, world, data, applied>>

\* The TTL controller collects a finished Job after an hour.  No Reconcile and no
\* watch event takes that long: by then the controller has seen the Job end, and
\* the status lists it as complete or the restore is over.
Settled(s, j) == s.jobs[j] = "complete" \/ s.phase \in Terminal

ReapJob(j) ==
    /\ Fault("ttl") /\ Finished(j) /\ Cached(jobs)[j] = Stored(jobs)[j]
    /\ Settled(Cached(status), j) /\ (rec.pc = "idle" \/ Settled(rec.before, j))
    /\ SetJob(j, NoJob)
    /\ UNCHANGED <<status, cm, scaffold, rec, world, data, applied>>

\* A hold leaves jobs[] alone: what holds the restore for an hour lets the TTL
\* controller collect a Job whose end was never recorded.
Held(reason) ==
    \/ ~GatesOpen
    \/ reason = "ApiManifestMissing" /\ Stored(cm) = "none"
    \/ reason = "PlacementFailed" /\ ~Placeable
    \/ reason = "JobDeleted"

ReapUnrecorded(j) ==
    /\ Fault("longHold") /\ Finished(j) /\ Cached(jobs)[j] = Stored(jobs)[j]
    /\ rec.pc = "idle" /\ ~Stale(status)
    /\ Stored(status).reason \in HoldReasons /\ Held(Stored(status).reason)
    /\ SetJob(j, NoJob)
    /\ UNCHANGED <<status, cm, scaffold, rec, world, data, applied>>

LoseRepo ==
    /\ Fault("repoLoss")
    /\ \/ world.ready /\ world' = [world EXCEPT !.ready = FALSE]
       \/ world.secret /\ world' = [world EXCEPT !.secret = FALSE]
    /\ UNCHANGED <<status, jobs, cm, scaffold, rec, data, applied>>

\* Somebody writes or deletes the ConfigMap <name>-api.
Tamper ==
    /\ Fault("tamper")
    /\ \E m \in {"none", "bad"} : m # Stored(cm) /\ cm' = Write(cm, m, ObjectLag)
    /\ UNCHANGED <<status, jobs, scaffold, rec, world, data, applied>>

\* A node leaves or joins.
Drift ==
    /\ \E n \in Nodes :
          \/ Fault("leave") /\ n \in world.nodes /\ world' = [world EXCEPT !.nodes = @ \ {n}]
          \/ Fault("join") /\ n \notin world.nodes /\ world' = [world EXCEPT !.nodes = @ \cup {n}]
    /\ UNCHANGED <<status, jobs, cm, scaffold, rec, data, applied>>

-----------------------------------------------------------------------------
(* Everybody else.                                                         *)

\* What a hold waits for.
Recover ==
    /\ \/ ~world.ready /\ world' = [world EXCEPT !.ready = TRUE]
       \/ ~world.secret /\ world' = [world EXCEPT !.secret = TRUE]
       \/ world.terminating /\ world' = [world EXCEPT !.terminating = FALSE]
       \/ world.nodes = {} /\ \E n \in Nodes : world' = [world EXCEPT !.nodes = {n}]
    /\ UNCHANGED <<status, jobs, cm, scaffold, rec, data, applied, fuel>>

DeliverStatus ==
    /\ Stale(status) /\ status' = Deliver(status)
    /\ UNCHANGED <<jobs, cm, scaffold, rec, world, data, applied, fuel>>
DeliverJobs ==
    /\ Stale(jobs) /\ jobs' = Deliver(jobs)
    /\ UNCHANGED <<status, cm, scaffold, rec, world, data, applied, fuel>>
DeliverManifest ==
    /\ Stale(cm) /\ cm' = Deliver(cm)
    /\ UNCHANGED <<status, jobs, scaffold, rec, world, data, applied, fuel>>

Next ==
    \/ Reconcile
    \/ \E j \in Steps : AgentEnds(j) \/ DeleteJob(j) \/ ReapJob(j) \/ ReapUnrecorded(j)
    \/ \E n \in Nodes, v \in Volumes : EmptyVolume(n, v)
    \/ Abort \/ AbortInGates \/ RecordUnlisted \/ Crash \/ Outage
    \/ LoseRepo \/ Tamper \/ Drift
    \/ Recover \/ DeliverStatus \/ DeliverJobs \/ DeliverManifest

Spec == Init /\ [][Next]_vars

\* A returned error, RequeueAfter and Owns(Job) bring the next Reconcile, watch
\* events arrive, and an agent ends if a node stays that its pod may run on.
Fairness ==
    /\ WF_vars(Reconcile)
    /\ WF_vars(DeliverStatus) /\ WF_vars(DeliverJobs) /\ WF_vars(DeliverManifest)
    /\ \A j \in Steps : WF_vars(Schedulable(j) /\ AgentEnds(j))

FairSpec == Spec /\ Fairness

-----------------------------------------------------------------------------
(* Properties.                                                             *)

\* Every variable has its type; the caches are no staler than the lag allows.
TypeOK ==
    /\ status \in Streams(Status, StatusLag)
    /\ jobs \in Streams([Steps -> Job], ObjectLag)
    /\ cm \in Streams(Manifests, ObjectLag)
    /\ scaffold \in [namespace : BOOLEAN, secret : BOOLEAN, rbac : BOOLEAN]
    /\ rec \in Rec
    /\ world \in World
    /\ data \in [Volumes -> {"empty", "full"}]
    /\ applied \subseteq {"pre", "workload"}
    /\ fuel \in 0..MaxFaults

\* "applied last, after volume data is back": once the workload documents are
\* applied every volume of the snapshot holds its data, and no volume Job empties
\* one again under the running pods.
WorkloadOnFullVolumes ==
    "workload" \in applied => \A v \in Volumes : data[v] = "full"

\* Completed means restored: both buckets are applied and every volume is full.
CompletedIsRestored ==
    Stored(status).phase = "Completed" =>
        applied = {"pre", "workload"} /\ \A v \in Volumes : data[v] = "full"

Rank == [New |-> 0, StagingAPI |-> 1, RestoringVolumes |-> 2, ApplyingWorkloads |-> 3,
         Completed |-> 4, Failed |-> 4]

PhaseForward ==
    LET now == Stored(status).phase  next == Stored(status').phase
    IN now = next \/ Rank[now] < Rank[next]

\* The restore runs a Job the status does not list as complete.
RunsUnfinished ==
    /\ Stored(status).phase \notin Terminal /\ Stored(status').reason = "Running"
    /\ \E j \in Steps : /\ Stored(status).jobs[j] # "complete"
                        /\ Stored(status').phase = PhaseOf(j)

\* "the phase stays monotonic": a terminal phase stays, no hold moves the stored
\* phase back, and no step that was recorded as complete is gone back to.  What may
\* move it back is a Job of an earlier step that is not done: an unpinned volume
\* moves to another node when the nodes change, or a Job is removed unrecorded.
PhaseMonotone == [][PhaseForward \/ RunsUnfinished]_vars

\* The gates are open, and the nodes the plan gives the volumes to are there.
Runnable == GatesOpen /\ world.nodes # {} /\ \A v \in Volumes : NodeFor(v) \subseteq world.nodes

\* Once the gates stay open and the nodes of the plan stay, the restore ends for
\* good, or holds on a Job or on the api ConfigMap that was deleted.
RestoreSettles ==
    <>[]Runnable => <>[](\/ Stored(status).phase \in Terminal
                         \/ Stored(status).reason \in {"JobDeleted", "ApiManifestMissing"})

\* "counts as done, or a long restore wedges at this step forever": as long as
\* nobody deletes a Job by hand the restore reaches a terminal phase, however
\* often the TTL controller collects finished Jobs.
RestoreEnds == <>[]Runnable => <>(Stored(status).phase \in Terminal)
=============================================================================
