------------------------------ MODULE PBSBackup ------------------------------
(***************************************************************************)
(* The PBSBackup controller (internal/controller/pbsbackup_controller.go)  *)
(* working on one PBSBackup, together with what it works against: the API  *)
(* server behind the manager's caches, the Job controller, the backup      *)
(* agents in the Job pods, the hooked workload pods, and the Proxmox       *)
(* Backup Server the agents upload to.                                     *)
(*                                                                         *)
(* The controller runs one Reconcile of the object at a time (the          *)
(* workqueue guarantees it) and may start one whenever it is idle: a       *)
(* RequeueAfter timer of an earlier reconcile stays in the workqueue even  *)
(* after a terminal one.  A Reconcile is split at the calls between which  *)
(* another party can act: each hook exec, each Job Get/Create, the status  *)
(* patch and the metric update that follows it.                            *)
(***************************************************************************)
EXTENDS Integers, FiniteSets, FiniteSetsExt, Informer

CONSTANTS
    Nodes,        \* cluster nodes, as positive numbers in alphabetical order
    Claims,       \* PVC names of the namespace, in the order of the one pod
                  \* that mounts each
    Hook,         \* [Claims -> HookKinds]: pre-backup annotations of that pod
    SpecPVCs,     \* spec.pvcs
    Selector,     \* spec.selector: "nil", "valid" or "invalid"
    Labelled,     \* the claims a valid selector matches
    InitWorlds,   \* cluster states in which the PBSBackup may be created
    StatusLag,    \* versions the PBSBackup cache may be behind, plus one
    ObjectLag,    \* the same for the Job and the Pod cache
    Faults,       \* kinds of environment faults that may happen
    MaxFaults,    \* how many of them may happen in one behaviour
    MaxCount      \* hook executions and errors_total above it are not told apart

HookKinds == {"none", "valid", "invalid"}
FaultKinds == {"abort", "crash", "delete", "ttl", "outage", "podLoss", "repoLoss",
               "collect", "drift"}

Unplaceable == 0     \* unbound PVC, missing PV, or no affinity and no pod
Absent == -1         \* no such PVC
API == 0             \* the api.pxar archive; the others are named by claims
Archives == Claims \cup {API}

\* The parts of the cluster the reconciler only reads.
World == [ready   : BOOLEAN,      \* the PBSRepo exists with Ready=True
          secret  : BOOLEAN,      \* its credentials secret exists
          home    : [Claims -> Nodes \cup {Unplaceable, Absent}],
          nodes   : SUBSET Nodes, \* Node objects
          objects : BOOLEAN]      \* the serialized namespace is not empty

ASSUME NodesAssumption == Nodes \subseteq Nat \ {0} /\ IsFiniteSet(Nodes)
ASSUME ClaimsAssumption == Claims \subseteq Nat \ {0} /\ IsFiniteSet(Claims)
ASSUME SpecAssumption ==
    /\ Hook \in [Claims -> HookKinds]
    /\ SpecPVCs \subseteq Claims
    /\ Selector \in {"nil", "valid", "invalid"}
    /\ Labelled \subseteq Claims
    /\ InitWorlds \subseteq World
ASSUME BoundsAssumption ==
    /\ StatusLag \in Nat \ {0} /\ ObjectLag \in Nat \ {0}
    /\ Faults \subseteq FaultKinds
    /\ MaxFaults \in Nat /\ MaxCount \in Nat \ {0}

Phases == {"New", "Scheduled", "Running", "Completed", "Failed"}
Terminal == {"Completed", "Failed"}
Reasons == {"", "RepoNotReady", "SecretCopyFailed", "PlacementFailed",
            "NoPVCsSelected", "JobDeleted", "Running", "HookInvalid",
            "HookFailed", "Failed", "ResultUnreadable", "Completed"}

\* batch/v1 Job conditions as jobState reads them; "none" is no such Job.
JobStates == {"none", "active", "complete", "failed"}
\* What the Job's pod carries once its agent has ended: the success JSON with
\* exit code 0, no termination log with exit code 0, or a non-zero exit code.
PodStates == {"none", "reported", "silent", "failed"}

\* PBSBackupStatus: Jobs[] by node ("none": no entry; "ok": "ok:<ref>"),
\* whether the time stamps are set, and the node whose snapshot is SnapshotRef
\* (0: empty).  The Ready condition is represented by its reason.
Status == [phase : Phases, reason : Reasons, jobs : [Nodes -> JobStates \cup {"ok"}],
           started : BOOLEAN, completed : BOOLEAN, ref : Nodes \cup {0}]

NoJobs == [n \in Nodes |-> "none"]
NewStatus == [phase |-> "New", reason |-> "", jobs |-> NoJobs,
              started |-> FALSE, completed |-> FALSE, ref |-> 0]

VARIABLES
    status,    \* stream of Status: the PBSBackup object
    jobs,      \* stream of [Nodes -> Job]: the controller-owned Jobs
    pods,      \* stream of [Nodes -> PodStates]: the Jobs' pods
    scaffold,  \* the secret copy pbsrepo-<repo> and the staging ConfigMap exist
    rec,       \* the Reconcile in progress
    metrics,   \* the Prometheus vecs of this operator process
    world,     \* the rest of the cluster
    uploaded,  \* [Nodes -> SUBSET Archives]: what a node's agents put on the PBS
    execs,     \* [Claims -> 0..MaxCount]: how often the claim's hook was executed
    fuel       \* faults left

vars == <<status, jobs, pods, scaffold, rec, metrics, world, uploaded, execs, fuel>>

Job == [state : JobStates, archives : SUBSET Archives]
NoJob == [state |-> "none", archives |-> {}]

\* errors_total, and whether last_success and duration are set.  `lost` is a history
\* variable: the outcome was stored, and the process did not come to count it or
\* restarted since.
Metrics == [errors : 0..MaxCount, success : BOOLEAN, duration : BOOLEAN, lost : BOOLEAN]
NoMetrics == [errors |-> 0, success |-> FALSE, duration |-> FALSE, lost |-> FALSE]

\* Local variables of Reconcile: the status it read, the archives each node's
\* Job is to hold (the keys of `groups` are targets), the hooks still to run,
\* and the state of each Job it found or created.
Idle == [pc |-> "idle", before |-> NewStatus, targets |-> {},
         want |-> [n \in Nodes |-> {}], todo |-> {}, seen |-> NoJobs]
Rec == [pc : {"idle", "work", "failed", "completed"}, before : Status,
        targets : SUBSET Nodes, want : [Nodes -> SUBSET Archives],
        todo : SUBSET Claims, seen : [Nodes -> JobStates]]

Init ==
    /\ status = Listed(NewStatus)
    /\ jobs = Listed([n \in Nodes |-> NoJob])
    /\ pods = Listed([n \in Nodes |-> "none"])
    /\ scaffold = [secret |-> FALSE, staging |-> FALSE]
    /\ rec = Idle
    /\ metrics = NoMetrics
    /\ world \in InitWorlds
    /\ uploaded = [n \in Nodes |-> {}]
    /\ execs = [c \in Claims |-> 0]
    /\ fuel = MaxFaults

-----------------------------------------------------------------------------
(* Reads of the cluster.                                                   *)

\* The first of S in alphabetical order, as a set: {} if S is empty.
First(S) == {x \in S : \A y \in S : x <= y}

Existing(w) == {c \in Claims : w.home[c] # Absent}

\* selectPVCs: spec.pvcs, else spec.selector, else every PVC of the namespace.
SelectionProblem(w) ==
    \/ SpecPVCs # {} /\ ~(SpecPVCs \subseteq Existing(w))
    \/ SpecPVCs = {} /\ Selector = "invalid"
\* Mutant of Selected: the selector is not passed to the List.
SelectedUnfiltered(w) == IF SpecPVCs # {} THEN SpecPVCs ELSE Existing(w)
Selected(w) ==
    IF SpecPVCs # {} THEN SpecPVCs
    ELSE IF Selector # "nil" THEN Existing(w) \cap Labelled ELSE Existing(w)

\* Mutant of Placeable: an unbound claim goes to the node named "".
PlaceableUnbound(w) == Selected(w) # {} \/ w.nodes # {}

\* placePVC finds a node for every selected claim; an API-only backup needs a
\* Node object to exist.
Placeable(w) ==
    IF Selected(w) = {} THEN w.nodes # {}
    ELSE \A c \in Selected(w) : w.home[c] \in Nodes

\* The nodes to run a Job on: those of the selected claims, or the first one.
Targets(w) ==
    IF Selected(w) = {} THEN First(w.nodes) ELSE {w.home[c] : c \in Selected(w)}

\* What the Job of node n archives: its claims, and the API objects if staged.
Group(w, n) ==
    {c \in Selected(w) : w.home[c] = n} \cup (IF w.objects THEN {API} ELSE {})

-----------------------------------------------------------------------------
(* Status writes.                                                          *)

\* The JSON merge patch client.MergeFrom(before) makes of after, applied to the
\* stored status: the fields that differ from before are overwritten, whatever
\* the API server holds by now; there is no optimistic lock.  A condition is its
\* reason: that a new message under the same reason also rewrites the condition is
\* left out, since no guard of the controller reads a reason or a message.
Overwrite(stored, before, after) == IF after # before THEN after ELSE stored
MergePatch(stored, before, after) ==
    [phase     |-> Overwrite(stored.phase, before.phase, after.phase),
     reason    |-> Overwrite(stored.reason, before.reason, after.reason),
     jobs      |-> Overwrite(stored.jobs, before.jobs, after.jobs),
     started   |-> Overwrite(stored.started, before.started, after.started),
     completed |-> Overwrite(stored.completed, before.completed, after.completed),
     ref       |-> Overwrite(stored.ref, before.ref, after.ref)]

RecordOutcome(before, after) ==
    status' = Write(status, MergePatch(Stored(status), before, after), StatusLag)

\* Mutant of HoldStatus: every hold is Scheduled.
HoldStatusScheduled(b, reason) == [b EXCEPT !.phase = "Scheduled", !.reason = reason]
HoldStatus(b, reason) ==
    [b EXCEPT !.phase = IF b.phase = "Running" THEN "Running" ELSE "Scheduled",
              !.reason = reason]

RunStatus(b, seen) ==
    [b EXCEPT !.phase = "Running", !.reason = "Running", !.started = TRUE,
              !.jobs = seen]

FailStatus(b, reason, seen) ==
    [b EXCEPT !.phase = "Failed", !.reason = reason, !.completed = TRUE,
              !.jobs = seen]

\* Mutant of CompleteStatus: one of several snapshots is published as the backup's.
CompleteStatusAnyRef(b, targets) ==
    [b EXCEPT !.phase = "Completed", !.reason = "Completed", !.completed = TRUE,
              !.jobs = [n \in Nodes |-> IF n \in targets THEN "ok" ELSE "none"],
              !.ref = CHOOSE n \in Nodes : n \in targets]
CompleteStatus(b, targets) ==
    [b EXCEPT !.phase = "Completed", !.reason = "Completed", !.completed = TRUE,
              !.jobs = [n \in Nodes |-> IF n \in targets THEN "ok" ELSE "none"],
              !.ref = IF \E n \in Nodes : targets = {n}
                      THEN CHOOSE n \in Nodes : targets = {n} ELSE b.ref]

-----------------------------------------------------------------------------
(* Reconcile up to the hooks: the gates, in the order of the code.         *)

\* Mutants of Begin: a terminal test that forgets a phase, one too many.
BeginUnlessFailed == rec.pc = "idle" /\ Cached(status).phase # "Failed"
BeginUnlessCompleted == rec.pc = "idle" /\ Cached(status).phase # "Completed"
BeginUnlessRunning ==
    rec.pc = "idle" /\ Cached(status).phase \notin Terminal \cup {"Running"}

\* Read a PBSBackup that is not terminal.
Begin == rec.pc = "idle" /\ Cached(status).phase \notin Terminal

RepoUsable == world.ready /\ world.secret
NothingToBackUp == Selected(world) = {} /\ ~world.objects

\* ensureRepoSecret, and ensureStagingConfigMap for a non-empty serialization.
CopySecret == scaffold' = [scaffold EXCEPT !.secret = TRUE]
CopySecretAndStage ==
    scaffold' = [secret |-> TRUE, staging |-> scaffold.staging \/ world.objects]

Hold(before, reason) ==
    /\ RecordOutcome(before, HoldStatus(before, reason))
    /\ rec' = Idle
    /\ UNCHANGED <<jobs, pods, metrics, world, uploaded, execs, fuel>>

HoldRepoNotReady ==
    /\ Begin
    /\ ~world.ready
    /\ Hold(Cached(status), "RepoNotReady")
    /\ UNCHANGED scaffold

HoldSecretCopy ==
    /\ Begin
    /\ world.ready /\ ~world.secret
    /\ Hold(Cached(status), "SecretCopyFailed")
    /\ UNCHANGED scaffold

HoldSelection ==
    /\ Begin
    /\ RepoUsable /\ SelectionProblem(world)
    /\ CopySecret
    /\ Hold(Cached(status), "PlacementFailed")

HoldNothing ==
    /\ Begin
    /\ RepoUsable /\ ~SelectionProblem(world) /\ NothingToBackUp
    /\ CopySecret
    /\ Hold(Cached(status), "NoPVCsSelected")

HoldUnplaceable ==
    /\ Begin
    /\ RepoUsable /\ ~SelectionProblem(world) /\ ~NothingToBackUp
    /\ ~Placeable(world)
    /\ CopySecretAndStage
    /\ Hold(Cached(status), "PlacementFailed")

\* Mutants of HooksDue: decided by the phase, or on every reconcile.
HooksDueIfNew(before) ==
    IF before.phase = "New" THEN {c \in Selected(world) : Hook[c] # "none"} ELSE {}
HooksDueAlways(before) == {c \in Selected(world) : Hook[c] # "none"}

\* All gates pass.  Hooks are due only if the status read lists no Job.
HooksDue(before) ==
    IF before.jobs = NoJobs THEN {c \in Selected(world) : Hook[c] # "none"} ELSE {}

Place ==
    /\ Begin
    /\ RepoUsable /\ ~SelectionProblem(world) /\ ~NothingToBackUp
    /\ Placeable(world)
    /\ CopySecretAndStage
    /\ rec' = [pc |-> "work", before |-> Cached(status),
               targets |-> Targets(world),
               want |-> [n \in Nodes |-> Group(world, n)],
               todo |-> HooksDue(Cached(status)), seen |-> NoJobs]
    /\ UNCHANGED <<status, jobs, pods, metrics, world, uploaded, execs, fuel>>

-----------------------------------------------------------------------------
(* Pre-backup hooks, one pod at a time in pod-name order.                  *)

HookPending(c) == rec.pc = "work" /\ c \in First(rec.todo)

Bump(count) == IF count < MaxCount THEN count + 1 ELSE count
Executed(c) == [execs EXCEPT ![c] = Bump(@)]

\* failBackup: the metric is counted by ObserveFailed once the patch succeeded.
FailBackup(reason, seen) ==
    /\ RecordOutcome(rec.before, FailStatus(rec.before, reason, seen))
    /\ rec' = [Idle EXCEPT !.pc = "failed"]

RunHook(c) ==
    /\ HookPending(c) /\ Hook[c] = "valid"
    /\ execs' = Executed(c)
    /\ rec' = [rec EXCEPT !.todo = @ \ {c}]
    /\ UNCHANGED <<status, jobs, pods, scaffold, metrics, world, uploaded, fuel>>

FailHook(c) ==
    /\ HookPending(c) /\ Hook[c] = "valid"
    /\ execs' = Executed(c)
    /\ FailBackup("HookFailed", NoJobs)
    /\ UNCHANGED <<jobs, pods, scaffold, metrics, world, uploaded, fuel>>

RejectHook(c) ==
    /\ HookPending(c) /\ Hook[c] = "invalid"
    /\ FailBackup("HookInvalid", NoJobs)
    /\ UNCHANGED <<jobs, pods, scaffold, metrics, world, uploaded, execs, fuel>>

-----------------------------------------------------------------------------
(* One Job per node, in node order.                                        *)

Unseen == {n \in rec.targets : rec.seen[n] = "none"}

\* Mutant of JobPending: Jobs are created before the hooks have run.
JobPendingEarly(n) == rec.pc = "work" /\ n \in First(Unseen)
JobPending(n) == rec.pc = "work" /\ rec.todo = {} /\ n \in First(Unseen)
Found(n) == Cached(jobs)[n].state # "none"

\* Mutant of Known: only a Job recorded as active counts.
KnownActive(n) == rec.before.jobs[n] = "active"
Known(n) == rec.before.jobs[n] # "none"

SetJob(n, job) == jobs' = Write(jobs, [Stored(jobs) EXCEPT ![n] = job], ObjectLag)
SetPod(n, pod) == pods' = Write(pods, [Stored(pods) EXCEPT ![n] = pod], ObjectLag)

FindJob(n) ==
    /\ JobPending(n) /\ Found(n)
    /\ rec' = [rec EXCEPT !.seen[n] = Cached(jobs)[n].state]
    /\ UNCHANGED <<status, jobs, pods, scaffold, metrics, world, uploaded, execs, fuel>>

HoldJobDeleted(n) ==
    /\ JobPending(n) /\ ~Found(n) /\ Known(n)
    /\ Hold(rec.before, "JobDeleted")
    /\ UNCHANGED scaffold

CreateJob(n) ==
    /\ JobPending(n) /\ ~Found(n) /\ ~Known(n)
    /\ Stored(jobs)[n].state = "none"
    /\ SetJob(n, [state |-> "active", archives |-> rec.want[n]])
    /\ rec' = [rec EXCEPT !.seen[n] = "active"]
    /\ UNCHANGED <<status, pods, scaffold, metrics, world, uploaded, execs, fuel>>

\* Create answers AlreadyExists, and the re-Get still reads the stale cache:
\* Reconcile returns the NotFound error.
LoseCreateRace(n) ==
    /\ JobPending(n) /\ ~Found(n) /\ ~Known(n)
    /\ Stored(jobs)[n].state # "none"
    /\ rec' = Idle
    /\ UNCHANGED <<status, jobs, pods, scaffold, metrics, world, uploaded, execs, fuel>>

-----------------------------------------------------------------------------
(* Job states to phase, and the metric of a terminal phase.                *)

AllSeen == rec.pc = "work" /\ rec.todo = {} /\ Unseen = {}
SeenIn(state) == {n \in rec.targets : rec.seen[n] = state}

\* jobResult: the agent's success JSON, read through the pod cache.
Readable(n) == Cached(pods)[n] = "reported"

FailOnJob ==
    /\ AllSeen /\ SeenIn("failed") # {}
    /\ FailBackup("Failed", rec.seen)
    /\ UNCHANGED <<jobs, pods, scaffold, metrics, world, uploaded, execs, fuel>>

RunBackup ==
    /\ AllSeen /\ SeenIn("failed") = {} /\ SeenIn("active") # {}
    /\ RecordOutcome(rec.before, RunStatus(rec.before, rec.seen))
    /\ rec' = Idle
    /\ UNCHANGED <<jobs, pods, scaffold, metrics, world, uploaded, execs, fuel>>

\* Mutant of CompleteBackup: the first complete Job completes the backup.
CompleteBackupOnFirst ==
    /\ AllSeen /\ SeenIn("complete") # {}
    /\ \A n \in SeenIn("complete") : Readable(n)
    /\ RecordOutcome(rec.before, CompleteStatus(rec.before, rec.targets))
    /\ rec' = [Idle EXCEPT !.pc = "completed"]
    /\ UNCHANGED <<jobs, pods, scaffold, metrics, world, uploaded, execs, fuel>>

CompleteBackup ==
    /\ AllSeen /\ SeenIn("complete") = rec.targets
    /\ \A n \in rec.targets : Readable(n)
    /\ RecordOutcome(rec.before, CompleteStatus(rec.before, rec.targets))
    /\ rec' = [Idle EXCEPT !.pc = "completed"]
    /\ UNCHANGED <<jobs, pods, scaffold, metrics, world, uploaded, execs, fuel>>

\* Mutant of FailOnResult: results are collected while a Job is active.
FailOnResultEarly ==
    /\ AllSeen /\ SeenIn("failed") = {}
    /\ \E n \in rec.targets : ~Readable(n)
    /\ FailBackup("ResultUnreadable", rec.seen)
    /\ UNCHANGED <<jobs, pods, scaffold, metrics, world, uploaded, execs, fuel>>

FailOnResult ==
    /\ AllSeen /\ SeenIn("complete") = rec.targets
    /\ \E n \in rec.targets : ~Readable(n)
    /\ FailBackup("ResultUnreadable", rec.seen)
    /\ UNCHANGED <<jobs, pods, scaffold, metrics, world, uploaded, execs, fuel>>

\* Mutant of ObserveFailed: the failure is not counted.
ObserveFailedUncounted ==
    /\ rec.pc = "failed"
    /\ rec' = Idle
    /\ UNCHANGED <<status, jobs, pods, scaffold, metrics, world, uploaded, execs, fuel>>
ObserveFailed ==
    /\ rec.pc = "failed"
    /\ rec' = Idle
    /\ metrics' = [metrics EXCEPT !.errors = Bump(@)]
    /\ UNCHANGED <<status, jobs, pods, scaffold, world, uploaded, execs, fuel>>

\* The object the patch returned decides whether the duration is known.
ObserveCompleted ==
    /\ rec.pc = "completed"
    /\ rec' = Idle
    /\ metrics' = [metrics EXCEPT !.success = TRUE,
                                  !.duration = @ \/ Stored(status).started]
    /\ UNCHANGED <<status, jobs, pods, scaffold, world, uploaded, execs, fuel>>

Reconcile ==
    \/ HoldRepoNotReady \/ HoldSecretCopy \/ HoldSelection
    \/ HoldNothing \/ HoldUnplaceable \/ Place
    \/ \E c \in Claims : RunHook(c) \/ FailHook(c) \/ RejectHook(c)
    \/ \E n \in Nodes : FindJob(n) \/ HoldJobDeleted(n) \/ CreateJob(n) \/ LoseCreateRace(n)
    \/ FailOnJob \/ RunBackup \/ CompleteBackup \/ FailOnResult
    \/ ObserveFailed \/ ObserveCompleted

-----------------------------------------------------------------------------
(* Faults.  Each uses up one unit of fuel.                                 *)

Fault(kind) == kind \in Faults /\ fuel > 0 /\ fuel' = fuel - 1

\* An API call of Reconcile fails and the error is returned.  After the patch
\* of a terminal phase it is the response that was lost: no metric is counted, and
\* the next Reconcile returns at the terminal phase.
Abort ==
    /\ Fault("abort")
    /\ rec.pc # "idle"
    /\ rec' = Idle
    /\ metrics' = [metrics EXCEPT !.lost = @ \/ rec.pc \in {"failed", "completed"}]
    /\ UNCHANGED <<status, jobs, pods, scaffold, world, uploaded, execs>>

\* An API call of the gates fails, after the secret was copied or after the
\* staging ConfigMap was written too.
AbortInGates ==
    /\ Fault("abort")
    /\ Begin /\ RepoUsable
    /\ \/ CopySecret
       \/ ~SelectionProblem(world) /\ CopySecretAndStage
    /\ UNCHANGED <<status, jobs, pods, rec, metrics, world, uploaded, execs>>

\* The operator restarts: fresh caches, fresh metrics.
Crash ==
    /\ Fault("crash")
    /\ rec' = Idle
    /\ status' = Listed(Stored(status))
    /\ jobs' = Listed(Stored(jobs))
    /\ pods' = Listed(Stored(pods))
    /\ metrics' = [NoMetrics EXCEPT !.lost = Stored(status).phase \in Terminal]
    /\ UNCHANGED <<scaffold, world, uploaded, execs>>

\* A Job and its pod disappear: somebody deletes them, or the TTL controller
\* collects a finished Job (ttlSecondsAfterFinished).
RemoveJob(n) == SetJob(n, NoJob) /\ SetPod(n, "none")

DeleteJob(n) ==
    /\ Fault("delete")
    /\ Stored(jobs)[n].state # "none"
    /\ RemoveJob(n)
    /\ UNCHANGED <<status, scaffold, rec, metrics, world, uploaded, execs>>

\* The TTL is an hour, a hundred requeues: the status has caught up with the Job
\* by then, unless there is an "outage" of the operator.
ReapJob(n) ==
    /\ Fault("ttl")
    /\ Stored(jobs)[n].state \in {"complete", "failed"}
    /\ Stored(status).jobs[n] = Stored(jobs)[n].state \/ "outage" \in Faults
    /\ RemoveJob(n)
    /\ UNCHANGED <<status, scaffold, rec, metrics, world, uploaded, execs>>

\* The pod of a finished Job is deleted, the Job stays.
LosePod(n) ==
    /\ Fault("podLoss")
    /\ Stored(jobs)[n].state \in {"complete", "failed"} /\ Stored(pods)[n] # "none"
    /\ SetPod(n, "none")
    /\ UNCHANGED <<status, jobs, scaffold, rec, metrics, world, uploaded, execs>>

LoseRepo ==
    /\ Fault("repoLoss")
    /\ \/ world.ready /\ world' = [world EXCEPT !.ready = FALSE]
       \/ world.secret /\ world' = [world EXCEPT !.secret = FALSE]
    /\ UNCHANGED <<status, jobs, pods, scaffold, rec, metrics, uploaded, execs>>

\* The secret copy is garbage-collected with another PBSBackup that owns it.
CollectCopy ==
    /\ Fault("collect")
    /\ scaffold.secret
    /\ scaffold' = [scaffold EXCEPT !.secret = FALSE]
    /\ UNCHANGED <<status, jobs, pods, rec, metrics, world, uploaded, execs>>

\* The workload changes under the backup: a claim moves, appears or goes away,
\* or a node joins or leaves.
Drift ==
    /\ Fault("drift")
    /\ \/ \E c \in Claims, h \in Nodes \cup {Unplaceable, Absent} :
             h # world.home[c] /\ world' = [world EXCEPT !.home[c] = h]
       \/ \E n \in Nodes : world' = [world EXCEPT !.nodes = SymDiff(@, {n})]
    /\ UNCHANGED <<status, jobs, pods, scaffold, rec, metrics, uploaded, execs>>

-----------------------------------------------------------------------------
(* Everybody else.                                                         *)

\* What a hold waits for: the repo becomes Ready, its secret appears, a claim
\* is bound, a claim of spec.pvcs, the workload's API objects or the first node
\* appear.
Recover ==
    /\ \/ ~world.ready /\ world' = [world EXCEPT !.ready = TRUE]
       \/ ~world.secret /\ world' = [world EXCEPT !.secret = TRUE]
       \/ ~world.objects /\ world' = [world EXCEPT !.objects = TRUE]
       \/ world.nodes = {} /\ \E n \in Nodes : world' = [world EXCEPT !.nodes = {n}]
       \/ \E c \in Claims, n \in Nodes :
             /\ \/ world.home[c] = Unplaceable
                \/ c \in SpecPVCs /\ world.home[c] = Absent
             /\ world' = [world EXCEPT !.home[c] = n]
    /\ UNCHANGED <<status, jobs, pods, scaffold, rec, metrics, uploaded, execs, fuel>>

DeliverStatus ==
    /\ Stale(status) /\ status' = Deliver(status)
    /\ UNCHANGED <<jobs, pods, scaffold, rec, metrics, world, uploaded, execs, fuel>>
DeliverJobs ==
    /\ Stale(jobs) /\ jobs' = Deliver(jobs)
    /\ UNCHANGED <<status, pods, scaffold, rec, metrics, world, uploaded, execs, fuel>>
DeliverPods ==
    /\ Stale(pods) /\ pods' = Deliver(pods)
    /\ UNCHANGED <<status, jobs, scaffold, rec, metrics, world, uploaded, execs, fuel>>

\* The agent's container runs: its Job is active and what it mounts exists.
Started(n) ==
    /\ Stored(jobs)[n].state = "active" /\ Stored(pods)[n] = "none"
    /\ scaffold.secret
    /\ API \in Stored(jobs)[n].archives => scaffold.staging

Upload(n) == uploaded' = [uploaded EXCEPT ![n] = @ \cup Stored(jobs)[n].archives]

\* RunBackup of the agent ends with exit code 0 after the upload.  Writing the
\* termination log may fail; the exit code does not tell.
AgentSucceeds(n) ==
    /\ Started(n)
    /\ Upload(n)
    /\ \E log \in {"reported", "silent"} : SetPod(n, log)
    /\ UNCHANGED <<status, jobs, scaffold, rec, metrics, world, execs, fuel>>

\* It fails before the upload, or in the snapshot listing after it.
AgentFails(n) ==
    /\ Started(n)
    /\ Upload(n) \/ UNCHANGED uploaded
    /\ SetPod(n, "failed")
    /\ UNCHANGED <<status, jobs, scaffold, rec, metrics, world, execs, fuel>>

\* The Job controller sees the pod end; backoffLimit 0 leaves no second try.
FinishJob(n) ==
    /\ Stored(jobs)[n].state = "active" /\ Stored(pods)[n] # "none"
    /\ SetJob(n, [Stored(jobs)[n] EXCEPT !.state =
                     IF Stored(pods)[n] = "failed" THEN "failed" ELSE "complete"])
    /\ UNCHANGED <<status, pods, scaffold, rec, metrics, world, uploaded, execs, fuel>>

Next ==
    \/ Reconcile
    \/ Abort \/ AbortInGates \/ Crash \/ LoseRepo \/ CollectCopy \/ Drift
    \/ Recover \/ DeliverStatus \/ DeliverJobs \/ DeliverPods
    \/ \E n \in Nodes : \/ DeleteJob(n) \/ ReapJob(n) \/ LosePod(n)
                        \/ AgentSucceeds(n) \/ AgentFails(n) \/ FinishJob(n)

Spec == Init /\ [][Next]_vars

\* A returned error and RequeueAfter both bring the next Reconcile, watch events
\* arrive, the client process of an agent ends, and the Job controller runs.
Fairness ==
    /\ WF_vars(Reconcile)
    /\ WF_vars(DeliverStatus) /\ WF_vars(DeliverJobs) /\ WF_vars(DeliverPods)
    /\ \A n \in Nodes : /\ WF_vars(AgentSucceeds(n) \/ AgentFails(n))
                         /\ WF_vars(FinishJob(n))

FairSpec == Spec /\ Fairness

-----------------------------------------------------------------------------
(* Properties.                                                             *)

\* Every variable has its type; the caches are no staler than the lag allows.
TypeOK ==
    /\ status \in Streams(Status, StatusLag)
    /\ jobs \in Streams([Nodes -> Job], ObjectLag)
    /\ pods \in Streams([Nodes -> PodStates], ObjectLag)
    /\ scaffold \in [secret : BOOLEAN, staging : BOOLEAN]
    /\ rec \in Rec
    /\ metrics \in Metrics
    /\ world \in World
    /\ uploaded \in [Nodes -> SUBSET Archives]
    /\ execs \in [Claims -> 0..MaxCount]
    /\ fuel \in 0..MaxFaults

Launched == {n \in Nodes : Stored(jobs)[n].state # "none"}
Recorded == {n \in Nodes : Stored(status).jobs[n] # "none"}

\* A Job starts only on a prepared workload, whatever is stale, retried or
\* restarted: the hook of every claim it archives has run, and the ConfigMap it
\* archives exists (runPreHooks and ensureStaging come before the first Create).
JobsPrepared ==
    \A n \in Launched :
        /\ \A c \in Stored(jobs)[n].archives \ {API} :
              Hook[c] # "none" => Hook[c] = "valid" /\ execs[c] > 0
        /\ API \in Stored(jobs)[n].archives => scaffold.staging

\* A claim the spec leaves out is left alone: its pod's hook is not run and its
\* data is not uploaded, also if its node is visited for another claim.
LeftOut == IF SpecPVCs # {} THEN Claims \ SpecPVCs
           ELSE IF Selector = "valid" THEN Claims \ Labelled ELSE {}
UnselectedUntouched ==
    \A c \in LeftOut :
        execs[c] = 0 /\ \A n \in Nodes : c \notin uploaded[n]

\* Completed is a promise about the data: every selected claim is on the PBS,
\* uploaded from a node whose Job the status records as ok.
CompletedIsRestorable ==
    Stored(status).phase = "Completed" =>
        \A c \in Selected(world) : \E n \in Nodes :
            Stored(status).jobs[n] = "ok" /\ c \in uploaded[n]

\* Status.SnapshotRef is what a restore reads, so the snapshot it names holds
\* every selected claim (a multi-node backup publishes none), even if a later
\* stale write moved the phase on.
RefIsWholeBackup ==
    Stored(status).ref # 0 => Selected(world) \subseteq uploaded[Stored(status).ref]

\* "any Failed -> Failed; any active -> Running; all Complete -> collect": a
\* completed backup leaves no Job behind that is running or has failed.
NoJobLeftBehind ==
    Stored(status).phase = "Completed" =>
        \A n \in Launched : Stored(jobs)[n].state = "complete"

\* "Terminal phases are final: no requeue, no Job resurrection": once the stored
\* phase is terminal no step changes the status or starts a Job.
StaysTerminal ==
    Stored(status).phase \in Terminal =>
        /\ Stored(status') = Stored(status)
        /\ \A n \in Nodes : Stored(jobs')[n].state = "active"
                              => Stored(jobs)[n].state = "active"
TerminalFinal == [][StaysTerminal]_vars

\* "never recreate a Job that vanished mid-run": a Job the stored status lists
\* and that is gone is never created again.
StaysGone == Recorded \cap Launched' \subseteq Launched
RecordedNotRecreated == [][StaysGone]_vars

\* "errors_total counts Failed transitions": a Failed backup exactly once,
\* a Completed one never, and only a Completed one sets the success time.  Between
\* the patch and the counter the count is still to come; it never comes if the
\* patch is stored and its response lost, or if the process restarts.
MetricsMatchOutcome ==
    /\ metrics.errors <= 1
    /\ metrics.errors = 1 => Stored(status).phase = "Failed"
    /\ metrics.success => Stored(status).phase = "Completed"
    /\ metrics.duration => metrics.success
    /\ Stored(status).phase = "Failed" =>
          metrics.errors = 1 \/ rec.pc = "failed" \/ metrics.lost
    /\ Stored(status).phase = "Completed" =>
          metrics.success \/ rec.pc = "completed" \/ metrics.lost

\* Why the three properties above hold with a fresh PBSBackup cache: a Reconcile
\* works on the stored status, which is not terminal, until its own patch; and
\* what is still to be counted after a terminal patch has not been counted yet.
OutcomeInv ==
    /\ rec.pc = "work" => rec.before = Stored(status)
                          /\ Stored(status).phase \notin Terminal
    /\ rec.pc = "failed" => Stored(status).phase = "Failed" /\ metrics.errors = 0
    /\ rec.pc = "completed" => Stored(status).phase = "Completed"
    /\ MetricsMatchOutcome

\* "hooks run at most once per backup".
HooksAtMostOnce == \A c \in Claims : execs[c] <= 1

\* "Any hook problem is terminal (Failed, no Jobs, no requeue)": a backup that
\* failed on a hook has no Job.
HookFailureLeavesNoJobs ==
    Stored(status).reason \in {"HookInvalid", "HookFailed"} => Launched = {}

\* A missing or unreadable result is an "agent contract violation": the backup
\* fails with ResultUnreadable only if an agent wrote no result.
UnreadableBlamesAgent ==
    Stored(status).reason = "ResultUnreadable" =>
        \E n \in Nodes : Stored(pods)[n] = "silent"

\* The controller implements the promise of BackupLifecycle: with a PBSBackup
\* cache that is never stale and a workload that stays in place, phases only
\* move forward and Completed comes after the last upload, under every fault.
Lifecycle == INSTANCE BackupLifecycle WITH
    Items <- Claims,
    phase <- Stored(status).phase,
    wanted <- Selected(world),
    secured <- (UNION {uploaded[n] : n \in Nodes}) \ {API}
ImplementsLifecycle == Lifecycle!LSpec

\* Every gate of Reconcile lets the backup pass.
Runnable(w) ==
    /\ w.ready /\ w.secret
    /\ ~SelectionProblem(w)
    /\ Selected(w) # {} \/ w.objects
    /\ Placeable(w)

\* Once the gates stay open, the backup ends in a terminal phase for good, or
\* holds on a Job that was deleted.
Settles ==
    <>[]Runnable(world) =>
        <>[](Stored(status).phase \in Terminal \/ Stored(status).reason = "JobDeleted")

\* The controller "tracks the Jobs to a terminal phase": if nobody deletes a Job
\* by hand, the backup reaches one.
ReachesTerminal == <>[]Runnable(world) => <>(Stored(status).phase \in Terminal)
=============================================================================
