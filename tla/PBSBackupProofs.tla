--------------------------- MODULE PBSBackupProofs ---------------------------
(* Theorems about PBSBackup, for all nodes, claims, lags and faults. *)
EXTENDS PBSBackup, InformerTheorems

\* The assumptions on the constants, in the form the proofs use.
LEMMA Constants ==
    /\ Nodes \subseteq Nat /\ 0 \notin Nodes /\ Claims \subseteq Nat
    /\ Hook \in [Claims -> HookKinds]
    /\ SpecPVCs \subseteq Claims /\ Labelled \subseteq Claims
    /\ InitWorlds \subseteq World
    /\ StatusLag \in Nat \ {0} /\ ObjectLag \in Nat \ {0}
    /\ MaxFaults \in Nat /\ MaxCount \in Nat \ {0}
<1>1. Nodes \subseteq Nat /\ 0 \notin Nodes
  BY NodesAssumption
<1>2. Claims \subseteq Nat /\ 0 \notin Claims
  BY ClaimsAssumption
<1>3. /\ Hook \in [Claims -> HookKinds] /\ InitWorlds \subseteq World
      /\ SpecPVCs \subseteq Claims /\ Labelled \subseteq Claims
  BY SpecAssumption
<1>4. /\ StatusLag \in Nat \ {0} /\ ObjectLag \in Nat \ {0}
      /\ MaxFaults \in Nat /\ MaxCount \in Nat \ {0}
  BY BoundsAssumption
<1> QED BY <1>1, <1>2, <1>3, <1>4

-----------------------------------------------------------------------------
(* The helpers of the model have their types.                              *)

\* What recordOutcome's callers write is a status.
LEMMA StatusTypes ==
    ASSUME NEW b \in Status, NEW seen \in [Nodes -> JobStates],
           NEW reason \in Reasons, NEW targets
    PROVE  /\ HoldStatus(b, reason) \in Status
           /\ RunStatus(b, seen) \in Status
           /\ FailStatus(b, reason, seen) \in Status
           /\ CompleteStatus(b, targets) \in Status
<1>1. HoldStatus(b, reason) \in Status
  BY DEF HoldStatus, Status, Phases
<1>2. seen \in [Nodes -> JobStates \cup {"ok"}]
  OBVIOUS
<1>3. RunStatus(b, seen) \in Status
  BY <1>2 DEF RunStatus, Status, Phases, Reasons
<1>4. FailStatus(b, reason, seen) \in Status
  BY <1>2 DEF FailStatus, Status, Phases
<1>5. [n \in Nodes |-> IF n \in targets THEN "ok" ELSE "none"]
        \in [Nodes -> JobStates \cup {"ok"}]
  BY DEF JobStates
<1>6. (IF \E n \in Nodes : targets = {n}
       THEN CHOOSE n \in Nodes : targets = {n} ELSE b.ref) \in Nodes \cup {0}
  BY DEF Status
<1>7. CompleteStatus(b, targets) \in Status
  BY <1>5, <1>6 DEF CompleteStatus, Status, Phases, Reasons
<1> QED BY <1>1, <1>3, <1>4, <1>7

\* A merge patch of statuses is a status; if nothing was written since it was
\* computed, it stores exactly what the controller wanted.
LEMMA MergePatchType ==
    ASSUME NEW stored \in Status, NEW before \in Status, NEW after \in Status
    PROVE  /\ MergePatch(stored, before, after) \in Status
           /\ stored = before => MergePatch(stored, before, after) = after
<1>1. MergePatch(stored, before, after) \in Status
  BY DEF MergePatch, Overwrite, Status
<1>2. MergePatch(before, before, after) = after
  BY DEF MergePatch, Overwrite, Status
<1> QED BY <1>1, <1>2

\* recordOutcome keeps the stream and stores the merge patch.
LEMMA RecordOutcomeStores ==
    ASSUME status \in Streams(Status, StatusLag),
           NEW before \in Status, NEW after \in Status,
           RecordOutcome(before, after)
    PROVE  /\ status' \in Streams(Status, StatusLag)
           /\ Stored(status') = MergePatch(Stored(status), before, after)
<1>1. Stored(status) \in Status
  BY StreamElements, Constants
<1>2. MergePatch(Stored(status), before, after) \in Status
  BY <1>1, MergePatchType
<1> QED BY <1>2, WriteStream, Constants DEF RecordOutcome

\* What Reconcile computes from the cluster has the type of its local variables.
LEMMA PlacementTypes ==
    ASSUME NEW w \in World
    PROVE  /\ Selected(w) \subseteq Claims
           /\ Placeable(w) => Targets(w) \subseteq Nodes
           /\ \A n \in Nodes : Group(w, n) \in SUBSET Archives
<1>1. Selected(w) \subseteq Claims
  BY Constants DEF Selected, Existing
<1>2. ASSUME Placeable(w) PROVE Targets(w) \subseteq Nodes
  BY <1>1, <1>2 DEF Targets, Placeable, First, World
<1>3. \A n \in Nodes : Group(w, n) \in SUBSET Archives
  BY <1>1 DEF Group, Archives
<1> QED BY <1>1, <1>2, <1>3

\* Setting one Job or one pod keeps the stream.
LEMMA SetJobType ==
    ASSUME jobs \in Streams([Nodes -> Job], ObjectLag), NEW n \in Nodes,
           NEW job \in Job, SetJob(n, job)
    PROVE  /\ jobs' \in Streams([Nodes -> Job], ObjectLag)
           /\ Stored(jobs') = [Stored(jobs) EXCEPT ![n] = job]
<1>1. Stored(jobs) \in [Nodes -> Job]
  BY StreamElements, Constants
<1>2. [Stored(jobs) EXCEPT ![n] = job] \in [Nodes -> Job]
  BY <1>1
<1> DEFINE T == [Nodes -> Job]
           v == [Stored(jobs) EXCEPT ![n] = job]
<1>3. jobs \in Streams(T, ObjectLag) /\ v \in T /\ jobs' = Write(jobs, v, ObjectLag)
  BY <1>2 DEF SetJob
<1> HIDE DEF T, v
<1>4. jobs' \in Streams(T, ObjectLag) /\ Stored(jobs') = v
  BY <1>3, WriteStream, Constants
<1> QED BY <1>4 DEF T, v

\* The same for a pod.
LEMMA SetPodType ==
    ASSUME pods \in Streams([Nodes -> PodStates], ObjectLag), NEW n \in Nodes,
           NEW pod \in PodStates, SetPod(n, pod)
    PROVE  /\ pods' \in Streams([Nodes -> PodStates], ObjectLag)
           /\ Stored(pods') = [Stored(pods) EXCEPT ![n] = pod]
<1>1. Stored(pods) \in [Nodes -> PodStates]
  BY StreamElements, Constants
<1>2. [Stored(pods) EXCEPT ![n] = pod] \in [Nodes -> PodStates]
  BY <1>1
<1> DEFINE T == [Nodes -> PodStates]
           v == [Stored(pods) EXCEPT ![n] = pod]
<1>3. pods \in Streams(T, ObjectLag) /\ v \in T /\ pods' = Write(pods, v, ObjectLag)
  BY <1>2 DEF SetPod
<1> HIDE DEF T, v
<1>4. pods' \in Streams(T, ObjectLag) /\ Stored(pods') = v
  BY <1>3, WriteStream, Constants
<1> QED BY <1>4 DEF T, v

\* The initial values of the local variables and of the status have their types.
LEMMA IdleType == Idle \in Rec /\ NewStatus \in Status /\ NoJobs \in [Nodes -> JobStates]
<1>1. NoJobs \in [Nodes -> JobStates]
  BY DEF NoJobs, JobStates
<1>2. NewStatus \in Status
  BY <1>1 DEF NewStatus, Status, Phases, Reasons
<1>3. Idle \in Rec
  BY <1>1, <1>2 DEF Idle, Rec
<1> QED BY <1>1, <1>2, <1>3

-----------------------------------------------------------------------------
(* Type correctness.                                                       *)

\* What a cache shows and what the API server stores are versions of the kind.
LEMMA StreamTypes ==
    ASSUME TypeOK
    PROVE  /\ Cached(status) \in Status /\ Stored(status) \in Status
           /\ Cached(jobs) \in [Nodes -> Job] /\ Stored(jobs) \in [Nodes -> Job]
           /\ Cached(pods) \in [Nodes -> PodStates]
           /\ Stored(pods) \in [Nodes -> PodStates]
BY StreamElements, Constants DEF TypeOK

\* A hold keeps the types, whatever it read and whatever it wrote before.
LEMMA HoldType ==
    ASSUME TypeOK, NEW before \in Status, NEW reason \in Reasons,
           Hold(before, reason), scaffold' \in [secret : BOOLEAN, staging : BOOLEAN]
    PROVE  TypeOK'
<1>1. HoldStatus(before, reason) \in Status
  BY StatusTypes, IdleType
<1>2. status' \in Streams(Status, StatusLag)
  BY <1>1, RecordOutcomeStores DEF Hold, TypeOK
<1> QED BY <1>2, IdleType DEF Hold, TypeOK

\* So does failBackup.
LEMMA FailBackupType ==
    ASSUME TypeOK, NEW reason \in Reasons, NEW seen \in [Nodes -> JobStates],
           FailBackup(reason, seen)
    PROVE  status' \in Streams(Status, StatusLag) /\ rec' \in Rec
<1>1. rec.before \in Status
  BY DEF TypeOK, Rec
<1>2. FailStatus(rec.before, reason, seen) \in Status
  BY <1>1, StatusTypes
<1>3. status' \in Streams(Status, StatusLag)
  BY <1>1, <1>2, RecordOutcomeStores DEF FailBackup, TypeOK
<1>4. rec' \in Rec
  BY IdleType DEF FailBackup, Rec
<1> QED BY <1>3, <1>4

\* One lemma per part of Next: the gates of Reconcile ...
LEMMA TypeGates ==
    ASSUME TypeOK,
           \/ HoldRepoNotReady \/ HoldSecretCopy \/ HoldSelection
           \/ HoldNothing \/ HoldUnplaceable \/ Place
    PROVE  TypeOK'
<1>1. Cached(status) \in Status
  BY StreamTypes
<1>2. {"RepoNotReady", "SecretCopyFailed", "PlacementFailed", "NoPVCsSelected"}
        \subseteq Reasons
  BY DEF Reasons
<1>3. CASE HoldRepoNotReady
  BY <1>1, <1>2, <1>3, HoldType DEF HoldRepoNotReady, TypeOK
<1>4. CASE HoldSecretCopy
  BY <1>1, <1>2, <1>4, HoldType DEF HoldSecretCopy, TypeOK
<1>5. CASE HoldSelection
  BY <1>1, <1>2, <1>5, HoldType DEF HoldSelection, CopySecret, TypeOK
<1>6. CASE HoldNothing
  BY <1>1, <1>2, <1>6, HoldType DEF HoldNothing, CopySecret, TypeOK
<1>7. CASE HoldUnplaceable
  BY <1>1, <1>2, <1>7, HoldType
     DEF HoldUnplaceable, CopySecretAndStage, TypeOK, World
<1>8. CASE Place
  <2>1. Targets(world) \in SUBSET Nodes
    BY <1>8, PlacementTypes DEF Place, TypeOK
  <2>2. [n \in Nodes |-> Group(world, n)] \in [Nodes -> SUBSET Archives]
    BY PlacementTypes DEF TypeOK
  <2>3. HooksDue(Cached(status)) \in SUBSET Claims
    BY PlacementTypes DEF HooksDue, TypeOK
  <2>4. rec' \in Rec
    BY <1>1, <1>8, <2>1, <2>2, <2>3, IdleType DEF Place, Rec
  <2>5. scaffold' \in [secret : BOOLEAN, staging : BOOLEAN]
    BY <1>8 DEF Place, CopySecretAndStage, TypeOK, World
  <2> QED BY <1>8, <2>4, <2>5 DEF Place, TypeOK
<1> QED BY <1>3, <1>4, <1>5, <1>6, <1>7, <1>8

\* ... the hooks ...
LEMMA TypeHooks ==
    ASSUME TypeOK, NEW c \in Claims, RunHook(c) \/ FailHook(c) \/ RejectHook(c)
    PROVE  TypeOK'
<1>1. Executed(c) \in [Claims -> 0..MaxCount]
  BY Constants DEF Executed, Bump, TypeOK
<1>2. CASE RunHook(c)
  <2>1. rec' \in Rec
    BY <1>2 DEF RunHook, TypeOK, Rec
  <2> QED BY <1>1, <1>2, <2>1 DEF RunHook, TypeOK
<1>3. CASE FailHook(c)
  <2>1. "HookFailed" \in Reasons
    BY DEF Reasons
  <2>2. status' \in Streams(Status, StatusLag) /\ rec' \in Rec
    BY <1>3, <2>1, FailBackupType, IdleType DEF FailHook
  <2> QED BY <1>1, <1>3, <2>2 DEF FailHook, TypeOK
<1>4. CASE RejectHook(c)
  <2>1. "HookInvalid" \in Reasons
    BY DEF Reasons
  <2>2. status' \in Streams(Status, StatusLag) /\ rec' \in Rec
    BY <1>4, <2>1, FailBackupType, IdleType DEF RejectHook
  <2> QED BY <1>4, <2>2 DEF RejectHook, TypeOK
<1> QED BY <1>2, <1>3, <1>4

\* ... the Jobs ...
LEMMA TypeJobs ==
    ASSUME TypeOK, NEW n \in Nodes,
           FindJob(n) \/ HoldJobDeleted(n) \/ CreateJob(n) \/ LoseCreateRace(n)
    PROVE  TypeOK'
<1>1. CASE FindJob(n)
  <2>1. Cached(jobs)[n].state \in JobStates
    BY StreamTypes DEF Job
  <2>2. rec' \in Rec
    BY <1>1, <2>1 DEF FindJob, TypeOK, Rec
  <2> QED BY <1>1, <2>2 DEF FindJob, TypeOK
<1>2. CASE HoldJobDeleted(n)
  <2>1. rec.before \in Status /\ "JobDeleted" \in Reasons
    BY DEF TypeOK, Rec, Reasons
  <2> QED BY <1>2, <2>1, HoldType DEF HoldJobDeleted, TypeOK
<1>3. CASE CreateJob(n)
  <2>1. rec.want[n] \in SUBSET Archives
    BY DEF TypeOK, Rec
  <2>2. [state |-> "active", archives |-> rec.want[n]] \in Job
    BY <2>1 DEF Job, JobStates
  <2>3. jobs' \in Streams([Nodes -> Job], ObjectLag)
    BY <1>3, <2>2, SetJobType DEF CreateJob, TypeOK
  <2>4. rec' \in Rec
    BY <1>3 DEF CreateJob, TypeOK, Rec, JobStates
  <2> QED BY <1>3, <2>3, <2>4 DEF CreateJob, TypeOK
<1>4. CASE LoseCreateRace(n)
  BY <1>4, IdleType DEF LoseCreateRace, TypeOK
<1> QED BY <1>1, <1>2, <1>3, <1>4

\* ... the outcome and its metric ...
LEMMA TypeOutcome ==
    ASSUME TypeOK,
           \/ FailOnJob \/ RunBackup \/ CompleteBackup \/ FailOnResult
           \/ ObserveFailed \/ ObserveCompleted
    PROVE  TypeOK'
<1>1. rec.before \in Status /\ rec.seen \in [Nodes -> JobStates]
  BY DEF TypeOK, Rec
<1>2. CASE FailOnJob
  <2>1. status' \in Streams(Status, StatusLag) /\ rec' \in Rec
    BY <1>1, <1>2, FailBackupType DEF FailOnJob, Reasons
  <2> QED BY <1>2, <2>1 DEF FailOnJob, TypeOK
<1>3. CASE RunBackup
  <2>1. RunStatus(rec.before, rec.seen) \in Status
    BY <1>1, StatusTypes DEF Reasons
  <2>2. status' \in Streams(Status, StatusLag)
    BY <1>1, <1>3, <2>1, RecordOutcomeStores DEF RunBackup, TypeOK
  <2> QED BY <1>3, <2>2, IdleType DEF RunBackup, TypeOK
<1>4. CASE CompleteBackup
  <2>1. CompleteStatus(rec.before, rec.targets) \in Status
    BY <1>1, StatusTypes DEF Reasons
  <2>2. status' \in Streams(Status, StatusLag)
    BY <1>1, <1>4, <2>1, RecordOutcomeStores DEF CompleteBackup, TypeOK
  <2>3. rec' \in Rec
    BY <1>4, IdleType DEF CompleteBackup, Rec
  <2> QED BY <1>4, <2>2, <2>3 DEF CompleteBackup, TypeOK
<1>5. CASE FailOnResult
  <2>1. status' \in Streams(Status, StatusLag) /\ rec' \in Rec
    BY <1>1, <1>5, FailBackupType DEF FailOnResult, Reasons
  <2> QED BY <1>5, <2>1 DEF FailOnResult, TypeOK
<1>6. CASE ObserveFailed
  BY <1>6, IdleType, Constants DEF ObserveFailed, Bump, TypeOK, Metrics
<1>7. CASE ObserveCompleted
  BY <1>7, IdleType, StreamTypes DEF ObserveCompleted, TypeOK, Status, Metrics
<1> QED BY <1>2, <1>3, <1>4, <1>5, <1>6, <1>7

\* ... the faults of the operator process and of the cluster ...
LEMMA TypeFaults ==
    ASSUME TypeOK, Abort \/ AbortInGates \/ Crash \/ LoseRepo \/ CollectCopy \/ Drift
    PROVE  TypeOK'
<1>1. ASSUME NEW kind, Fault(kind) PROVE fuel' \in 0..MaxFaults
  BY <1>1, Constants DEF Fault, TypeOK
<1>2. CASE Abort
  BY <1>1, <1>2, IdleType DEF Abort, TypeOK, Metrics
<1>3. CASE AbortInGates
  <2>1. scaffold' \in [secret : BOOLEAN, staging : BOOLEAN]
    <3>1. CASE CopySecret
      BY <3>1 DEF CopySecret, TypeOK
    <3>2. CASE CopySecretAndStage
      BY <3>2 DEF CopySecretAndStage, TypeOK, World
    <3> QED BY <1>3, <3>1, <3>2 DEF AbortInGates
  <2> QED BY <1>1, <1>3, <2>1 DEF AbortInGates, TypeOK
<1>4. CASE Crash
  <2>1. /\ status' \in Streams(Status, StatusLag)
        /\ jobs' \in Streams([Nodes -> Job], ObjectLag)
        /\ pods' \in Streams([Nodes -> PodStates], ObjectLag)
    BY <1>4, StreamTypes, ListedStream, Constants DEF Crash
  <2>2. metrics' \in Metrics
    <3> DEFINE over == Stored(status).phase \in Terminal
    <3>1. over \in BOOLEAN
      OBVIOUS
    <3>2. NoMetrics \in Metrics
      BY Constants DEF Metrics, NoMetrics
    <3>3. metrics' = [NoMetrics EXCEPT !.lost = over]
      BY <1>4 DEF Crash
    <3> HIDE DEF over
    <3> QED BY <3>1, <3>2, <3>3 DEF Metrics
  <2> QED BY <1>1, <1>4, <2>1, <2>2, IdleType DEF Crash, TypeOK
<1>5. CASE LoseRepo
  <2>1. world' \in World
    BY <1>5 DEF LoseRepo, TypeOK, World
  <2> QED BY <1>1, <1>5, <2>1 DEF LoseRepo, TypeOK
<1>6. CASE CollectCopy
  BY <1>1, <1>6 DEF CollectCopy, TypeOK
<1>7. CASE Drift
  <2>1. world' \in World
    BY <1>7 DEF Drift, TypeOK, World, SymDiff
  <2> QED BY <1>1, <1>7, <2>1 DEF Drift, TypeOK
<1> QED BY <1>2, <1>3, <1>4, <1>5, <1>6, <1>7

\* ... the Jobs, their pods and their agents ...
LEMMA TypeNode ==
    ASSUME TypeOK, NEW n \in Nodes,
           \/ DeleteJob(n) \/ ReapJob(n) \/ LosePod(n)
           \/ AgentSucceeds(n) \/ AgentFails(n) \/ FinishJob(n)
    PROVE  TypeOK'
<1>1. ASSUME NEW kind, Fault(kind) PROVE fuel' \in 0..MaxFaults
  BY <1>1, Constants DEF Fault, TypeOK
<1>2. ASSUME RemoveJob(n)
      PROVE  /\ jobs' \in Streams([Nodes -> Job], ObjectLag)
             /\ pods' \in Streams([Nodes -> PodStates], ObjectLag)
  <2>1. NoJob \in Job /\ "none" \in PodStates
    BY DEF NoJob, Job, JobStates, PodStates
  <2> QED BY <1>2, <2>1, SetJobType, SetPodType DEF RemoveJob, TypeOK
<1>3. ASSUME NEW pod \in PodStates, SetPod(n, pod)
      PROVE  pods' \in Streams([Nodes -> PodStates], ObjectLag)
  BY <1>3, SetPodType DEF TypeOK
<1>4. ASSUME Upload(n) PROVE uploaded' \in [Nodes -> SUBSET Archives]
  <2>1. Stored(jobs)[n].archives \in SUBSET Archives
    BY StreamTypes DEF Job
  <2> QED BY <1>4, <2>1 DEF Upload, TypeOK
<1>5. CASE DeleteJob(n)
  BY <1>1, <1>2, <1>5 DEF DeleteJob, TypeOK
<1>6. CASE ReapJob(n)
  BY <1>1, <1>2, <1>6 DEF ReapJob, TypeOK
<1>7. CASE LosePod(n)
  BY <1>1, <1>3, <1>7 DEF LosePod, TypeOK, PodStates
<1>8. CASE AgentSucceeds(n)
  BY <1>3, <1>4, <1>8 DEF AgentSucceeds, TypeOK, PodStates
<1>9. CASE AgentFails(n)
  BY <1>3, <1>4, <1>9 DEF AgentFails, TypeOK, PodStates
<1>10. CASE FinishJob(n)
  <2> DEFINE job == [Stored(jobs)[n] EXCEPT !.state =
                       IF Stored(pods)[n] = "failed" THEN "failed" ELSE "complete"]
  <2>1. job \in Job
    BY StreamTypes DEF Job, JobStates
  <2>2. SetJob(n, job)
    BY <1>10 DEF FinishJob
  <2>3. jobs' \in Streams([Nodes -> Job], ObjectLag)
    BY <2>1, <2>2, SetJobType DEF TypeOK
  <2> QED BY <1>10, <2>3 DEF FinishJob, TypeOK
<1> QED BY <1>5, <1>6, <1>7, <1>8, <1>9, <1>10

\* ... and the rest of the cluster.
LEMMA TypeOthers ==
    ASSUME TypeOK, Recover \/ DeliverStatus \/ DeliverJobs \/ DeliverPods
    PROVE  TypeOK'
<1>1. CASE Recover
  <2>1. world' \in World
    <3>1. world \in World
      BY DEF TypeOK
    <3>2. CASE \E c \in Claims, n \in Nodes : world' = [world EXCEPT !.home[c] = n]
      BY <3>1, <3>2 DEF World
    <3>3. CASE \E n \in Nodes : world' = [world EXCEPT !.nodes = {n}]
      BY <3>1, <3>3 DEF World
    <3>4. CASE \/ world' = [world EXCEPT !.ready = TRUE]
               \/ world' = [world EXCEPT !.secret = TRUE]
               \/ world' = [world EXCEPT !.objects = TRUE]
      BY <3>1, <3>4 DEF World
    <3> QED BY <1>1, <3>2, <3>3, <3>4 DEF Recover
  <2> QED BY <1>1, <2>1 DEF Recover, TypeOK
<1>2. CASE DeliverStatus
  <2>1. status' \in Streams(Status, StatusLag)
    BY <1>2, DeliverStream, Constants DEF DeliverStatus, TypeOK
  <2> QED BY <1>2, <2>1 DEF DeliverStatus, TypeOK
<1>3. CASE DeliverJobs
  <2>1. jobs' \in Streams([Nodes -> Job], ObjectLag)
    BY <1>3, DeliverStream, Constants DEF DeliverJobs, TypeOK
  <2> QED BY <1>3, <2>1 DEF DeliverJobs, TypeOK
<1>4. CASE DeliverPods
  <2>1. pods' \in Streams([Nodes -> PodStates], ObjectLag)
    BY <1>4, DeliverStream, Constants DEF DeliverPods, TypeOK
  <2> QED BY <1>4, <2>1 DEF DeliverPods, TypeOK
<1> QED BY <1>1, <1>2, <1>3, <1>4

\* The initial states have the types,
LEMMA TypeInit == Init => TypeOK
<1> SUFFICES ASSUME Init PROVE TypeOK
  OBVIOUS
<1>1. [n \in Nodes |-> NoJob] \in [Nodes -> Job]
  BY DEF NoJob, Job, JobStates
<1>2. [n \in Nodes |-> "none"] \in [Nodes -> PodStates]
  BY DEF PodStates
<1>3. /\ status \in Streams(Status, StatusLag)
      /\ jobs \in Streams([Nodes -> Job], ObjectLag)
      /\ pods \in Streams([Nodes -> PodStates], ObjectLag)
  BY <1>1, <1>2, IdleType, ListedStream, Constants DEF Init
<1>4. metrics \in Metrics
  BY Constants DEF Init, Metrics, NoMetrics
<1> QED BY <1>3, <1>4, IdleType, Constants DEF Init, TypeOK

\* and every step keeps them.
LEMMA TypeStep == TypeOK /\ [Next]_vars => TypeOK'
<1> SUFFICES ASSUME TypeOK, [Next]_vars PROVE TypeOK'
  OBVIOUS
<1>1. CASE Reconcile
  BY <1>1, TypeGates, TypeHooks, TypeJobs, TypeOutcome DEF Reconcile
<1>2. CASE Abort \/ AbortInGates \/ Crash \/ LoseRepo \/ CollectCopy \/ Drift
  BY <1>2, TypeFaults
<1>3. CASE Recover \/ DeliverStatus \/ DeliverJobs \/ DeliverPods
  BY <1>3, TypeOthers
<1>4. CASE \E n \in Nodes : \/ DeleteJob(n) \/ ReapJob(n) \/ LosePod(n)
                           \/ AgentSucceeds(n) \/ AgentFails(n) \/ FinishJob(n)
  BY <1>4, TypeNode
<1>5. CASE UNCHANGED vars
  BY <1>5 DEF vars, TypeOK
<1> QED BY <1>1, <1>2, <1>3, <1>4, <1>5 DEF Next

\* Every reachable state of the backup controller is well typed, and no cache
\* is further behind than its lag, for every number of nodes and claims.
THEOREM TypeCorrect == Spec => []TypeOK
BY TypeInit, TypeStep, PTL DEF Spec

-----------------------------------------------------------------------------
(* A cache of the PBSBackup that is never stale (StatusLag = 1) makes every *)
(* reconcile decide on the stored status: terminal phases are final,        *)
(* recorded Jobs are not recreated, and the metrics match the outcome.      *)

\* A PBSBackup cache of lag 1 shows what is stored.
LEMMA FreshStatus ==
    ASSUME TypeOK, StatusLag = 1
    PROVE  Cached(status) = Stored(status)
BY FreshStream DEF TypeOK

\* With nothing written in between, a patch stores what was computed.
LEMMA FreshPatch ==
    ASSUME TypeOK, NEW after \in Status, RecordOutcome(Stored(status), after)
    PROVE  Stored(status') = after
BY StreamTypes, RecordOutcomeStores, MergePatchType DEF TypeOK

\* Nobody but CreateJob makes a Job active or brings one back.
NoNewJob ==
    \A n \in Nodes : /\ Stored(jobs')[n].state = "active"
                        => Stored(jobs)[n].state = "active"
                     /\ Stored(jobs')[n].state # "none"
                        => Stored(jobs)[n].state # "none"

\* The action properties hold of a step that writes no status and starts no Job.
LEMMA NoNewJobSuffices ==
    ASSUME NoNewJob, Stored(status).phase \in Terminal => Stored(status') = Stored(status)
    PROVE  StaysTerminal /\ StaysGone
BY DEF NoNewJob, StaysTerminal, StaysGone, Recorded, Launched

\* A step that leaves the stored status alone, starts no Job, and keeps the Reconcile
\* and the metrics, or ends a Reconcile that has nothing to count, is harmless; and
\* so is one that ends it and notes that the count is lost.
LEMMA QuietStep ==
    ASSUME TypeOK, OutcomeInv, NoNewJob, Stored(status') = Stored(status),
           \/ UNCHANGED <<rec, metrics>>
           \/ rec.pc = "work" /\ rec' = Idle /\ metrics' = metrics
           \/ /\ rec' = Idle
              /\ metrics' = [metrics EXCEPT !.lost = @ \/ rec.pc \in {"failed", "completed"}]
           \/ /\ rec' = Idle
              /\ metrics' = [NoMetrics EXCEPT !.lost = Stored(status).phase \in Terminal]
    PROVE  OutcomeInv' /\ StaysTerminal /\ StaysGone
<1>1. MetricsMatchOutcome'
  <2>1. CASE UNCHANGED <<rec, metrics>>
    BY <2>1 DEF OutcomeInv, MetricsMatchOutcome
  <2>2. CASE rec.pc = "work" /\ rec' = Idle /\ metrics' = metrics
    BY <2>2 DEF OutcomeInv, MetricsMatchOutcome, Terminal
  <2>3. CASE rec' = Idle /\ metrics' = [metrics EXCEPT
                                         !.lost = @ \/ rec.pc \in {"failed", "completed"}]
    <3>1. /\ metrics'.errors = metrics.errors /\ metrics'.success = metrics.success
          /\ metrics'.duration = metrics.duration
          /\ metrics.lost \/ rec.pc \in {"failed", "completed"} => metrics'.lost
      BY <2>3 DEF TypeOK, Metrics
    <3> QED BY <3>1 DEF OutcomeInv, MetricsMatchOutcome
  <2>4. CASE rec' = Idle /\ metrics' = [NoMetrics EXCEPT
                                         !.lost = Stored(status).phase \in Terminal]
    <3>1. /\ metrics'.errors = 0 /\ ~metrics'.success /\ ~metrics'.duration
          /\ Stored(status).phase \in Terminal => metrics'.lost
      BY <2>4 DEF NoMetrics
    <3> QED BY <3>1 DEF MetricsMatchOutcome, Terminal
  <2> QED BY <2>1, <2>2, <2>3, <2>4
<1>2. OutcomeInv'
  BY <1>1 DEF OutcomeInv, Idle
<1> QED BY <1>2, NoNewJobSuffices

\* The patch of a reconcile that ends in a phase that is not terminal.
LEMMA OpenPatch ==
    ASSUME TypeOK, OutcomeInv, Stored(status).phase \notin Terminal,
           NEW after \in Status, after.phase \notin Terminal,
           RecordOutcome(Stored(status), after), rec' = Idle, metrics' = metrics,
           jobs' = jobs
    PROVE  OutcomeInv' /\ StaysTerminal /\ StaysGone
<1>1. Stored(status') = after
  BY FreshPatch
<1>2. metrics.errors = 0 /\ metrics.success = FALSE /\ metrics.duration = FALSE
  BY DEF OutcomeInv, MetricsMatchOutcome, TypeOK, Metrics, Terminal
<1>3. OutcomeInv'
  BY <1>1, <1>2 DEF OutcomeInv, MetricsMatchOutcome, Idle, Terminal
<1> QED BY <1>3, NoNewJobSuffices DEF NoNewJob

\* The patch of a reconcile that ends in a terminal phase; its metric comes next.
LEMMA TerminalPatch ==
    ASSUME TypeOK, OutcomeInv, Stored(status).phase \notin Terminal,
           NEW after \in Status, RecordOutcome(Stored(status), after),
           metrics' = metrics, jobs' = jobs,
           \/ after.phase = "Failed" /\ rec' = [Idle EXCEPT !.pc = "failed"]
           \/ after.phase = "Completed" /\ rec' = [Idle EXCEPT !.pc = "completed"]
    PROVE  OutcomeInv' /\ StaysTerminal /\ StaysGone
<1>1. Stored(status') = after
  BY FreshPatch
<1>2. metrics.errors = 0 /\ metrics.success = FALSE /\ metrics.duration = FALSE
  BY DEF OutcomeInv, MetricsMatchOutcome, TypeOK, Metrics, Terminal
<1>3. OutcomeInv'
  BY <1>1, <1>2 DEF OutcomeInv, MetricsMatchOutcome, Idle, Terminal
<1> QED BY <1>3, NoNewJobSuffices DEF NoNewJob

\* A hold that works on the stored status keeps the outcome invariant ...
LEMMA HoldFresh ==
    ASSUME TypeOK, OutcomeInv, NEW reason \in Reasons,
           Stored(status).phase \notin Terminal, Hold(Stored(status), reason)
    PROVE  OutcomeInv' /\ StaysTerminal /\ StaysGone
<1>1. Stored(status) \in Status
  BY StreamTypes
<1>2. HoldStatus(Stored(status), reason) \in Status
  BY <1>1, StatusTypes, IdleType
<1>3. HoldStatus(Stored(status), reason).phase \notin Terminal
  BY <1>1 DEF HoldStatus, Status, Terminal
<1> QED BY <1>2, <1>3, OpenPatch DEF Hold

\* ... and so does failBackup.
LEMMA FailFresh ==
    ASSUME TypeOK, OutcomeInv, rec.pc = "work", NEW reason \in Reasons,
           NEW seen \in [Nodes -> JobStates], FailBackup(reason, seen),
           metrics' = metrics, jobs' = jobs
    PROVE  OutcomeInv' /\ StaysTerminal /\ StaysGone
<1>1. rec.before = Stored(status) /\ Stored(status).phase \notin Terminal
  BY DEF OutcomeInv
<1>2. Stored(status) \in Status
  BY StreamTypes
<1>3. /\ FailStatus(Stored(status), reason, seen) \in Status
      /\ FailStatus(Stored(status), reason, seen).phase = "Failed"
  BY <1>2, StatusTypes DEF FailStatus, Status
<1> QED BY <1>1, <1>3, TerminalPatch DEF FailBackup

\* One lemma per part of Next again, for the outcome invariant and the two action
\* properties: the gates of Reconcile ...
LEMMA FreshGates ==
    ASSUME TypeOK, OutcomeInv, StatusLag = 1,
           \/ HoldRepoNotReady \/ HoldSecretCopy \/ HoldSelection
           \/ HoldNothing \/ HoldUnplaceable \/ Place
    PROVE  OutcomeInv' /\ StaysTerminal /\ StaysGone
<1>1. Cached(status) = Stored(status)
  BY FreshStatus
<1>2. Begin => Stored(status).phase \notin Terminal
  BY <1>1 DEF Begin
<1>3. {"RepoNotReady", "SecretCopyFailed", "PlacementFailed", "NoPVCsSelected"}
        \subseteq Reasons
  BY DEF Reasons
<1>4. CASE HoldRepoNotReady
  BY <1>1, <1>2, <1>3, <1>4, HoldFresh DEF HoldRepoNotReady
<1>5. CASE HoldSecretCopy
  BY <1>1, <1>2, <1>3, <1>5, HoldFresh DEF HoldSecretCopy
<1>6. CASE HoldSelection
  BY <1>1, <1>2, <1>3, <1>6, HoldFresh DEF HoldSelection
<1>7. CASE HoldNothing
  BY <1>1, <1>2, <1>3, <1>7, HoldFresh DEF HoldNothing
<1>8. CASE HoldUnplaceable
  BY <1>1, <1>2, <1>3, <1>8, HoldFresh DEF HoldUnplaceable
<1>9. CASE Place
  <2>1. rec'.pc = "work" /\ rec'.before = Stored(status)
    BY <1>1, <1>9 DEF Place
  <2>2. OutcomeInv'
    BY <1>2, <1>9, <2>1 DEF Place, Begin, OutcomeInv, MetricsMatchOutcome, Terminal
  <2>3. NoNewJob
    BY <1>9 DEF Place, NoNewJob
  <2> QED BY <1>9, <2>2, <2>3, NoNewJobSuffices DEF Place
<1> QED BY <1>4, <1>5, <1>6, <1>7, <1>8, <1>9

\* ... the hooks ...
LEMMA FreshHooks ==
    ASSUME TypeOK, OutcomeInv, NEW c \in Claims,
           RunHook(c) \/ FailHook(c) \/ RejectHook(c)
    PROVE  OutcomeInv' /\ StaysTerminal /\ StaysGone
<1>1. CASE RunHook(c)
  <2>1. rec'.pc = rec.pc /\ rec'.before = rec.before
    BY <1>1 DEF RunHook, TypeOK, Rec
  <2>2. OutcomeInv'
    BY <1>1, <2>1 DEF RunHook, OutcomeInv, MetricsMatchOutcome
  <2>3. NoNewJob
    BY <1>1 DEF RunHook, NoNewJob
  <2> QED BY <1>1, <2>2, <2>3, NoNewJobSuffices DEF RunHook
<1>2. CASE FailHook(c)
  BY <1>2, FailFresh, IdleType DEF FailHook, HookPending, Reasons
<1>3. CASE RejectHook(c)
  BY <1>3, FailFresh, IdleType DEF RejectHook, HookPending, Reasons
<1> QED BY <1>1, <1>2, <1>3

\* ... the Jobs ...
LEMMA FreshJobs ==
    ASSUME TypeOK, OutcomeInv, NEW n \in Nodes,
           FindJob(n) \/ HoldJobDeleted(n) \/ CreateJob(n) \/ LoseCreateRace(n)
    PROVE  OutcomeInv' /\ StaysTerminal /\ StaysGone
<1>1. JobPending(n) => rec.before = Stored(status) /\ Stored(status).phase \notin Terminal
  BY DEF JobPending, OutcomeInv
<1>2. CASE FindJob(n)
  <2>1. rec'.pc = rec.pc /\ rec'.before = rec.before
    BY <1>2 DEF FindJob, TypeOK, Rec
  <2>2. OutcomeInv'
    BY <1>2, <2>1 DEF FindJob, OutcomeInv, MetricsMatchOutcome
  <2>3. NoNewJob
    BY <1>2 DEF FindJob, NoNewJob
  <2> QED BY <1>2, <2>2, <2>3, NoNewJobSuffices DEF FindJob
<1>3. CASE HoldJobDeleted(n)
  BY <1>1, <1>3, HoldFresh DEF HoldJobDeleted, Reasons
<1>4. CASE CreateJob(n)
  <2>1. rec'.pc = rec.pc /\ rec'.before = rec.before
    BY <1>4 DEF CreateJob, TypeOK, Rec
  <2>2. OutcomeInv'
    BY <1>4, <2>1 DEF CreateJob, OutcomeInv, MetricsMatchOutcome
  <2>3. [state |-> "active", archives |-> rec.want[n]] \in Job
    BY DEF TypeOK, Rec, Job, JobStates
  <2>4. \A m \in Nodes \ {n} : Stored(jobs')[m] = Stored(jobs)[m]
    BY <1>4, <2>3, SetJobType, StreamTypes DEF CreateJob, TypeOK
  <2>5. n \notin Recorded
    BY <1>1, <1>4 DEF CreateJob, Known, Recorded
  <2>6. StaysGone
    BY <2>4, <2>5 DEF StaysGone, Recorded, Launched
  <2> QED BY <1>1, <1>4, <2>2, <2>6 DEF CreateJob, StaysTerminal
<1>5. CASE LoseCreateRace(n)
  BY <1>5, QuietStep DEF LoseCreateRace, JobPending, NoNewJob
<1> QED BY <1>2, <1>3, <1>4, <1>5

\* ... the outcome and its metric ...
LEMMA FreshOutcome ==
    ASSUME TypeOK, OutcomeInv,
           \/ FailOnJob \/ RunBackup \/ CompleteBackup \/ FailOnResult
           \/ ObserveFailed \/ ObserveCompleted
    PROVE  OutcomeInv' /\ StaysTerminal /\ StaysGone
<1>1. AllSeen => rec.before = Stored(status) /\ Stored(status).phase \notin Terminal
  BY DEF AllSeen, OutcomeInv
<1>2. Stored(status) \in Status /\ rec.seen \in [Nodes -> JobStates]
  BY StreamTypes DEF TypeOK, Rec
<1>3. CASE FailOnJob
  BY <1>2, <1>3, FailFresh DEF FailOnJob, AllSeen, Reasons
<1>4. CASE FailOnResult
  BY <1>2, <1>4, FailFresh DEF FailOnResult, AllSeen, Reasons
<1>5. CASE RunBackup
  <2>1. RunStatus(Stored(status), rec.seen) \in Status
    BY <1>2, StatusTypes DEF Reasons
  <2>2. RunStatus(Stored(status), rec.seen).phase \notin Terminal
    BY <1>2 DEF RunStatus, Status, Terminal
  <2> QED BY <1>1, <1>5, <2>1, <2>2, OpenPatch DEF RunBackup
<1>6. CASE CompleteBackup
  <2>1. CompleteStatus(Stored(status), rec.targets) \in Status
    BY <1>2, StatusTypes DEF Reasons
  <2>2. CompleteStatus(Stored(status), rec.targets).phase = "Completed"
    BY <1>2 DEF CompleteStatus, Status
  <2> QED BY <1>1, <1>6, <2>1, <2>2, TerminalPatch DEF CompleteBackup
<1>7. CASE ObserveFailed
  <2>1. metrics'.errors = 1 /\ metrics'.success = metrics.success
        /\ metrics'.duration = metrics.duration
    BY <1>7, Constants DEF ObserveFailed, OutcomeInv, Bump, TypeOK, Metrics
  <2>2. MetricsMatchOutcome'
    BY <1>7, <2>1 DEF ObserveFailed, OutcomeInv, MetricsMatchOutcome
  <2>3. OutcomeInv'
    BY <1>7, <2>2 DEF ObserveFailed, OutcomeInv, Idle
  <2> QED BY <1>7, <2>3, NoNewJobSuffices DEF ObserveFailed, NoNewJob
<1>8. CASE ObserveCompleted
  <2>1. metrics'.errors = metrics.errors /\ metrics'.success = TRUE
    BY <1>8 DEF ObserveCompleted, TypeOK, Metrics
  <2>2. MetricsMatchOutcome'
    BY <1>8, <2>1 DEF ObserveCompleted, OutcomeInv, MetricsMatchOutcome
  <2>3. OutcomeInv'
    BY <1>8, <2>2 DEF ObserveCompleted, OutcomeInv, Idle
  <2> QED BY <1>8, <2>3, NoNewJobSuffices DEF ObserveCompleted, NoNewJob
<1> QED BY <1>3, <1>4, <1>5, <1>6, <1>7, <1>8

\* ... the faults, and the events of the caches ...
LEMMA FreshFaults ==
    ASSUME TypeOK, OutcomeInv,
           \/ Abort \/ AbortInGates \/ Crash \/ LoseRepo \/ CollectCopy \/ Drift
           \/ Recover \/ DeliverStatus \/ DeliverJobs \/ DeliverPods
    PROVE  OutcomeInv' /\ StaysTerminal /\ StaysGone
<1>1. CASE Abort \/ AbortInGates \/ LoseRepo \/ CollectCopy \/ Drift \/ Recover \/ DeliverPods
  BY <1>1, QuietStep
     DEF Abort, AbortInGates, LoseRepo, CollectCopy, Drift, Recover, DeliverPods, NoNewJob
<1>2. CASE Crash
  <2>1. Stored(status') = Stored(status) /\ Stored(jobs') = Stored(jobs)
    BY <1>2 DEF Crash, Listed, Stored
  <2> QED BY <1>2, <2>1, QuietStep DEF Crash, NoNewJob
<1>3. CASE DeliverStatus
  <2>1. Stored(status') = Stored(status)
    BY <1>3, DeliverStream, Constants DEF DeliverStatus, TypeOK
  <2> QED BY <1>3, <2>1, QuietStep DEF DeliverStatus, NoNewJob
<1>4. CASE DeliverJobs
  <2>1. Stored(jobs') = Stored(jobs)
    BY <1>4, DeliverStream, Constants DEF DeliverJobs, TypeOK
  <2> QED BY <1>4, <2>1, QuietStep DEF DeliverJobs, NoNewJob
<1> QED BY <1>1, <1>2, <1>3, <1>4

\* ... and the Jobs, their pods and their agents.
LEMMA FreshNode ==
    ASSUME TypeOK, OutcomeInv, NEW n \in Nodes,
           \/ DeleteJob(n) \/ ReapJob(n) \/ LosePod(n)
           \/ AgentSucceeds(n) \/ AgentFails(n) \/ FinishJob(n)
    PROVE  OutcomeInv' /\ StaysTerminal /\ StaysGone
<1>1. ASSUME NEW job \in Job, SetJob(n, job),
             job.state = "none" \/ Stored(jobs)[n].state = "active"
      PROVE  NoNewJob
  BY <1>1, SetJobType, StreamTypes DEF TypeOK, NoNewJob
<1>2. CASE DeleteJob(n) \/ ReapJob(n)
  <2>1. NoJob \in Job /\ NoJob.state = "none"
    BY DEF NoJob, Job, JobStates
  <2>2. NoNewJob
    BY <1>1, <1>2, <2>1 DEF DeleteJob, ReapJob, RemoveJob
  <2> QED BY <1>2, <2>2, QuietStep DEF DeleteJob, ReapJob
<1>3. CASE LosePod(n) \/ AgentSucceeds(n) \/ AgentFails(n)
  BY <1>3, QuietStep DEF LosePod, AgentSucceeds, AgentFails, NoNewJob
<1>4. CASE FinishJob(n)
  <2> DEFINE job == [Stored(jobs)[n] EXCEPT !.state =
                       IF Stored(pods)[n] = "failed" THEN "failed" ELSE "complete"]
  <2>1. job \in Job
    BY StreamTypes DEF Job, JobStates
  <2>2. SetJob(n, job) /\ Stored(jobs)[n].state = "active"
    BY <1>4 DEF FinishJob
  <2>3. NoNewJob
    BY <1>1, <2>1, <2>2
  <2> QED BY <1>4, <2>3, QuietStep DEF FinishJob
<1> QED BY <1>2, <1>3, <1>4

\* Together: with a fresh cache every step is a good one.
LEMMA FreshStep ==
    ASSUME TypeOK, OutcomeInv, StatusLag = 1, [Next]_vars
    PROVE  OutcomeInv' /\ StaysTerminal /\ StaysGone
<1>1. CASE Reconcile
  BY <1>1, FreshGates, FreshHooks, FreshJobs, FreshOutcome DEF Reconcile
<1>2. CASE \/ Abort \/ AbortInGates \/ Crash \/ LoseRepo \/ CollectCopy \/ Drift
           \/ Recover \/ DeliverStatus \/ DeliverJobs \/ DeliverPods
  BY <1>2, FreshFaults
<1>3. CASE \E n \in Nodes : \/ DeleteJob(n) \/ ReapJob(n) \/ LosePod(n)
                           \/ AgentSucceeds(n) \/ AgentFails(n) \/ FinishJob(n)
  BY <1>3, FreshNode
<1>4. CASE UNCHANGED vars
  BY <1>4, QuietStep DEF vars, NoNewJob
<1> QED BY <1>1, <1>2, <1>3, <1>4 DEF Next

\* The outcome invariant holds at the start: nothing is under way.
LEMMA FreshInit == Init => OutcomeInv
<1> SUFFICES ASSUME Init PROVE OutcomeInv
  OBVIOUS
<1>1. rec.pc = "idle"
  BY DEF Init, Idle
<1>2. Stored(status).phase = "New"
  BY DEF Init, NewStatus, Listed, Stored
<1> QED BY <1>1, <1>2 DEF Init, NoMetrics, OutcomeInv, MetricsMatchOutcome

\* With a fresh PBSBackup cache, terminal phases are final whatever else is
\* stale, fails, restarts or drifts: no later status write, no Job started.
THEOREM TerminalIsFinal == StatusLag = 1 => (Spec => TerminalFinal)
<1> SUFFICES ASSUME StatusLag = 1 PROVE Spec => TerminalFinal
  OBVIOUS
<1>1. TypeOK /\ OutcomeInv /\ [Next]_vars => OutcomeInv' /\ [StaysTerminal]_vars
  BY FreshStep
<1> QED BY <1>1, TypeCorrect, FreshInit, PTL DEF Spec, TerminalFinal

\* Under the same condition, a Job the status lists is never created again.
THEOREM RecordedIsNotRecreated == StatusLag = 1 => (Spec => RecordedNotRecreated)
<1> SUFFICES ASSUME StatusLag = 1 PROVE Spec => RecordedNotRecreated
  OBVIOUS
<1>1. TypeOK /\ OutcomeInv /\ [Next]_vars => OutcomeInv' /\ [StaysGone]_vars
  BY FreshStep
<1> QED BY <1>1, TypeCorrect, FreshInit, PTL DEF Spec, RecordedNotRecreated

\* Under the same condition, errors_total counts a Failed backup exactly once, unless
\* the response of the patch is lost or the process restarts; and only a Completed
\* backup sets the success time.
THEOREM MetricsCorrect == StatusLag = 1 => (Spec => []MetricsMatchOutcome)
<1> SUFFICES ASSUME StatusLag = 1 PROVE Spec => []MetricsMatchOutcome
  OBVIOUS
<1>1. TypeOK /\ OutcomeInv /\ [Next]_vars => OutcomeInv'
  BY FreshStep
<1>2. OutcomeInv => MetricsMatchOutcome
  BY DEF OutcomeInv
<1> QED BY <1>1, <1>2, TypeCorrect, FreshInit, PTL DEF Spec
=============================================================================
