--------------------------- MODULE PBSRestoreProofs ---------------------------
(* Theorems about PBSRestore, for all nodes, volumes, lags and numbers of    *)
(* faults: types, placement, what Completed means, and the order of phases.  *)
EXTENDS PBSRestore, InformerTheorems

\* The assumptions on the constants, as the proofs use them.
LEMMA RestoreConstants ==
    /\ Nodes \subseteq Nat /\ 0 \notin Nodes
    /\ Fetch \notin Nodes /\ Pre \notin Nodes /\ Workload \notin Nodes
    /\ Fetch # Pre /\ Fetch # Workload /\ Pre # Workload
    /\ Nodes \subseteq Steps /\ Fetch \in Steps /\ Pre \in Steps /\ Workload \in Steps
    /\ Pins \in [Volumes -> Nodes \cup {0}] /\ InitWorlds \subseteq World
    /\ StatusLag \in Nat \ {0} /\ ObjectLag \in Nat \ {0} /\ MaxFaults \in Nat
BY RestoreNodes, RestorePins, RestoreBounds DEF Fetch, Pre, Workload, Steps

-----------------------------------------------------------------------------
(* The helpers of the model have their types.                              *)

\* A new restore and an idle reconciler.
LEMMA IdleRestoreType ==
    /\ NewStatus \in Status /\ NewStatus.phase = "New" /\ NewStatus.jobs = NoJobs
    /\ \A j \in Steps : NoJobs[j] = "none"
    /\ Idle \in Rec /\ Idle.pc = "idle" /\ Idle.before = NewStatus
    /\ Idle.groups = NoGroups /\ Idle.phase = "New"
    /\ NoGroups \in [Nodes -> SUBSET Volumes]
    /\ NoJob \in Job /\ NoJob.state = "none" /\ NoJob.volumes = {}
<1>1. NoJobs \in [Steps -> JobStates] /\ \A j \in Steps : NoJobs[j] = "none"
  BY DEF NoJobs, JobStates
<1>2. NewStatus \in Status /\ NewStatus.phase = "New" /\ NewStatus.jobs = NoJobs
  BY <1>1 DEF NewStatus, Status, Phases, Reasons
<1>3. NoGroups \in [Nodes -> SUBSET Volumes]
  BY DEF NoGroups
<1>4. /\ Idle \in Rec /\ Idle.pc = "idle" /\ Idle.before = NewStatus
      /\ Idle.groups = NoGroups /\ Idle.phase = "New"
  BY <1>2, <1>3 DEF Idle, Rec, Manifests, Phases, Reasons
<1>5. NoJob \in Job /\ NoJob.state = "none" /\ NoJob.volumes = {}
  BY DEF NoJob, Job, JobStates
<1> QED BY <1>1, <1>2, <1>3, <1>4, <1>5

\* What a reconcile is about to record.
LEMMA FinishType ==
    ASSUME NEW before \in Status, NEW phase \in Phases, NEW reason \in Reasons,
           Finish(before, phase, reason)
    PROVE  /\ rec' \in Rec /\ rec'.pc = "record" /\ rec'.before = before
           /\ rec'.phase = phase /\ rec'.reason = reason /\ rec'.groups = NoGroups
<1>1. rec' = [Idle EXCEPT !.pc = "record", !.before = before,
                          !.phase = phase, !.reason = reason]
  BY DEF Finish
<1> QED BY <1>1, IdleRestoreType DEF Rec

\* A hold leaves the phase of a status it read, unless that was new.
LEMMA HoldType ==
    ASSUME NEW before \in Status, NEW reason \in HoldReasons,
           HoldRestore(before, reason)
    PROVE  /\ rec' \in Rec /\ rec'.pc = "record" /\ rec'.before = before
           /\ rec'.phase = HoldPhase(before.phase) /\ rec'.reason = reason
           /\ HoldPhase(before.phase) \in Phases
<1>1. HoldPhase(before.phase) \in Phases /\ reason \in Reasons
  BY DEF HoldPhase, Status, Phases, Reasons
<1> QED BY <1>1, FinishType DEF HoldRestore

\* Setting one Job keeps the stream.
LEMMA SetJobType ==
    ASSUME jobs \in Streams([Steps -> Job], ObjectLag),
           NEW j \in Steps, NEW job \in Job, SetJob(j, job)
    PROVE  /\ jobs' \in Streams([Steps -> Job], ObjectLag)
           /\ Stored(jobs') = [Stored(jobs) EXCEPT ![j] = job]
<1> DEFINE T == [Steps -> Job]
           v == [Stored(jobs) EXCEPT ![j] = job]
<1>1. Stored(jobs) \in T
  BY StreamElements, RestoreConstants
<1>2. v \in T /\ jobs' = Write(jobs, v, ObjectLag) /\ jobs \in Streams(T, ObjectLag)
  BY <1>1 DEF SetJob
<1> HIDE DEF T, v
<1>3. jobs' \in Streams(T, ObjectLag) /\ Stored(jobs') = v
  BY <1>2, WriteStream, RestoreConstants
<1> QED BY <1>3 DEF T, v

\* The end of a Job sets its state and keeps its volumes.
LEMMA EndJobType ==
    ASSUME jobs \in Streams([Steps -> Job], ObjectLag),
           NEW j \in Steps, NEW state \in JobStates, EndJob(j, state)
    PROVE  /\ jobs' \in Streams([Steps -> Job], ObjectLag)
           /\ [Stored(jobs)[j] EXCEPT !.state = state] \in Job
           /\ Stored(jobs') = [Stored(jobs) EXCEPT ![j] = [@ EXCEPT !.state = state]]
<1> DEFINE T == [Steps -> Job]
<1>1. Stored(jobs) \in T
  BY StreamElements, RestoreConstants
<1>2. [Stored(jobs)[j] EXCEPT !.state = state] \in Job
  BY <1>1 DEF Job
<1>3. SetJob(j, [Stored(jobs)[j] EXCEPT !.state = state])
  BY DEF EndJob
<1> QED BY <1>2, <1>3, SetJobType

\* The jobs a reconcile lists, and the status it records, have their types.
LEMMA RecordedType ==
    ASSUME TypeOK, rec.pc = "record",
           NEW live \in {LiveJobs(rec.before), rec.before.jobs}
    PROVE  /\ live \in [Steps -> JobStates]
           /\ MergePatch(Stored(status), rec.before, Recorded(live)) \in Status
<1> USE RestoreConstants
<1>1. Stored(status) \in Status /\ rec.before \in Status
  BY StreamElements DEF TypeOK, Rec
<1>2. Cached(jobs) \in [Steps -> Job]
  BY StreamElements DEF TypeOK
<1>3. rec.before.jobs \in [Steps -> JobStates]
  BY <1>1 DEF Status
<1>4. LiveJobs(rec.before) \in [Steps -> JobStates]
  BY <1>2, <1>3 DEF LiveJobs, Job
<1>5. live \in [Steps -> JobStates]
  BY <1>3, <1>4
<1>6. rec.phase \in Phases /\ rec.reason \in Reasons
  BY DEF TypeOK, Rec
<1>7. Recorded(live) \in Status
  BY <1>1, <1>3, <1>5, <1>6 DEF Recorded, Status
<1>8. MergePatch(Stored(status), rec.before, Recorded(live)) \in Status
  BY <1>1, <1>7 DEF MergePatch, Overwrite, Status
<1> QED BY <1>5, <1>8

\* Recording keeps the stream and stores the patched status.
LEMMA RecordStores ==
    ASSUME TypeOK, NEW live \in {LiveJobs(rec.before), rec.before.jobs},
           RecordRestore(live)
    PROVE  /\ status' \in Streams(Status, StatusLag)
           /\ Stored(status') = MergePatch(Stored(status), rec.before, Recorded(live))
<1>1. rec.pc = "record"
  BY DEF RecordRestore
<1> DEFINE v == MergePatch(Stored(status), rec.before, Recorded(live))
<1>2. v \in Status /\ status' = Write(status, v, StatusLag)
  BY <1>1, RecordedType DEF RecordRestore
<1> HIDE DEF v
<1>3. status' \in Streams(Status, StatusLag) /\ Stored(status') = v
  BY <1>2, WriteStream, RestoreConstants DEF TypeOK
<1> QED BY <1>3 DEF v

-----------------------------------------------------------------------------
(* Which actions disturb which variable.                                   *)

\* A Reconcile ends at a gate, at a step of the pipeline, or between two.
EndsAtGate == FailSpec \/ HoldRepo \/ HoldNamespace \/ HoldSecret
EndsAtStep(j) == AwaitJob(j) \/ FailOnJob(j) \/ HoldJobDeleted(j) \/ CreateJob(j)
EndsBetween == HoldManifest \/ FailManifest \/ HoldUnplaceable \/ CompleteRestore

\* Steps of a Reconcile, and those of the environment that write no object.
Walks == EnterPipeline \/ ReadManifest \/ PlanVolumes \/ \E j \in Steps : PassJob(j)
Quiet == \/ Abort \/ AbortInGates \/ Crash \/ LoseRepo \/ Drift \/ Recover
         \/ DeliverStatus \/ DeliverJobs \/ DeliverManifest \/ UNCHANGED vars
Records == Record \/ RecordUnlisted

\* The TTL controller collects a Job.
Reaped(j) == ReapJob(j) \/ ReapUnrecorded(j)

\* Every step is one of these.
LEMMA NextCases ==
    ASSUME [Next]_vars
    PROVE  \/ Walks \/ EndsAtGate \/ EndsBetween \/ (\E j \in Steps : EndsAtStep(j))
           \/ Records \/ Quiet \/ Outage \/ Tamper
           \/ (\E j \in Steps : AgentEnds(j) \/ DeleteJob(j) \/ Reaped(j))
           \/ (\E n \in Nodes, v \in Volumes : EmptyVolume(n, v))
BY DEF Next, Reconcile, Walks, EndsAtGate, EndsAtStep, EndsBetween, Records, Quiet,
   Reaped

\* Only the end of a Reconcile patches the status.
LEMMA StatusSteps ==
    ASSUME [Next]_vars PROVE CacheMove(status, status') \/ Records
<1>1. CASE Walks \/ EndsAtGate \/ EndsBetween \/ (\E j \in Steps : EndsAtStep(j))
  BY <1>1 DEF CacheMove, Walks, EnterPipeline, ReadManifest, PlanVolumes, PassJob,
     EndsAtGate, FailSpec, HoldRepo, HoldNamespace, HoldSecret, EndsBetween,
     HoldManifest, FailManifest, HoldUnplaceable, CompleteRestore, EndsAtStep,
     AwaitJob, FailOnJob, HoldJobDeleted, CreateJob
<1>2. CASE Quiet \/ Outage \/ Tamper
  BY <1>2 DEF CacheMove, Quiet, Abort, AbortInGates, Crash, LoseRepo, Drift, Recover,
     DeliverStatus, DeliverJobs, DeliverManifest, vars, Outage, Restart, Tamper
<1>3. CASE \/ \E j \in Steps : AgentEnds(j) \/ DeleteJob(j) \/ Reaped(j)
           \/ \E n \in Nodes, v \in Volumes : EmptyVolume(n, v)
  BY <1>3 DEF CacheMove, AgentEnds, FetchSucceeds, FetchFails, ApplySucceeds,
     ApplyFails, VolumesSucceed, VolumesFail, DeleteJob, Reaped, ReapJob, ReapUnrecorded,
     EmptyVolume
<1> QED BY <1>1, <1>2, <1>3, NextCases

\* A Job is created by its step and otherwise only ends or goes away.
LEMMA JobSteps ==
    ASSUME [Next]_vars
    PROVE  \/ CacheMove(jobs, jobs') \/ Outage
           \/ \E j \in Steps : CreateJob(j) \/ AgentEnds(j) \/ DeleteJob(j) \/ Reaped(j)
<1>1. CASE Walks \/ EndsAtGate \/ EndsBetween
  BY <1>1 DEF CacheMove, Walks, EnterPipeline, ReadManifest, PlanVolumes, PassJob,
     EndsAtGate, FailSpec, HoldRepo, HoldNamespace, HoldSecret, EndsBetween,
     HoldManifest, FailManifest, HoldUnplaceable, CompleteRestore
<1>2. CASE \E j \in Steps : EndsAtStep(j)
  BY <1>2 DEF CacheMove, EndsAtStep, AwaitJob, FailOnJob, HoldJobDeleted
<1>3. CASE Quiet \/ Tamper \/ Records
  BY <1>3 DEF CacheMove, Quiet, Abort, AbortInGates, Crash, LoseRepo, Drift, Recover,
     DeliverStatus, DeliverJobs, DeliverManifest, vars, Restart, Tamper, Records,
     Record, RecordUnlisted, RecordRestore
<1>4. CASE \E n \in Nodes, v \in Volumes : EmptyVolume(n, v)
  BY <1>4 DEF CacheMove, EmptyVolume
<1> QED BY <1>1, <1>2, <1>3, <1>4, NextCases

\* The api ConfigMap is written by the fetch agent and by nobody else of ours.
LEMMA ManifestSteps ==
    ASSUME [Next]_vars
    PROVE  CacheMove(cm, cm') \/ Tamper \/ Upload
<1>1. CASE Walks \/ EndsAtGate \/ EndsBetween \/ (\E j \in Steps : EndsAtStep(j))
  BY <1>1 DEF CacheMove, Walks, EnterPipeline, ReadManifest, PlanVolumes, PassJob,
     EndsAtGate, FailSpec, HoldRepo, HoldNamespace, HoldSecret, EndsBetween,
     HoldManifest, FailManifest, HoldUnplaceable, CompleteRestore, EndsAtStep,
     AwaitJob, FailOnJob, HoldJobDeleted, CreateJob
<1>2. CASE Quiet \/ Outage \/ Records
  BY <1>2 DEF CacheMove, Quiet, Abort, AbortInGates, Crash, LoseRepo, Drift, Recover,
     DeliverStatus, DeliverJobs, DeliverManifest, vars, Outage, Restart,
     Records, Record, RecordUnlisted, RecordRestore
<1>3. CASE \/ \E j \in Steps : AgentEnds(j) \/ DeleteJob(j) \/ Reaped(j)
           \/ \E n \in Nodes, v \in Volumes : EmptyVolume(n, v)
  BY <1>3 DEF CacheMove, AgentEnds, FetchSucceeds, FetchFails, ApplySucceeds,
     ApplyFails, VolumesSucceed, VolumesFail, DeleteJob, Reaped, ReapJob, ReapUnrecorded,
     EmptyVolume
<1> QED BY <1>1, <1>2, <1>3, NextCases

\* Where a Reconcile can be after a step.
LEMMA RecSteps ==
    ASSUME [Next]_vars
    PROVE  \/ rec' = rec \/ rec' = Idle \/ Walks
           \/ EndsAtGate \/ EndsBetween \/ \E j \in Steps : EndsAtStep(j)
<1>1. CASE Quiet \/ Outage \/ Tamper \/ Records
  BY <1>1 DEF Quiet, Abort, AbortInGates, Crash, LoseRepo, Drift, Recover,
     DeliverStatus, DeliverJobs, DeliverManifest, vars, Outage, Restart, Tamper,
     Records, Record, RecordUnlisted, RecordRestore
<1>2. CASE \/ \E j \in Steps : AgentEnds(j) \/ DeleteJob(j) \/ Reaped(j)
           \/ \E n \in Nodes, v \in Volumes : EmptyVolume(n, v)
  BY <1>2 DEF AgentEnds, FetchSucceeds, FetchFails, ApplySucceeds,
     ApplyFails, VolumesSucceed, VolumesFail, DeleteJob, Reaped, ReapJob, ReapUnrecorded,
     EmptyVolume
<1> QED BY <1>1, <1>2, NextCases

\* The agents fill and empty the volumes and apply the buckets; everybody else
\* leaves both alone.
LEMMA DataSteps ==
    ASSUME [Next]_vars
    PROVE  \/ UNCHANGED <<data, applied>>
           \/ (\E j \in Steps : AgentEnds(j))
           \/ (\E n \in Nodes, v \in Volumes : EmptyVolume(n, v))
<1>1. CASE Walks \/ EndsAtGate \/ EndsBetween \/ (\E j \in Steps : EndsAtStep(j))
  BY <1>1 DEF Walks, EnterPipeline, ReadManifest, PlanVolumes, PassJob,
     EndsAtGate, FailSpec, HoldRepo, HoldNamespace, HoldSecret, EndsBetween,
     HoldManifest, FailManifest, HoldUnplaceable, CompleteRestore, EndsAtStep,
     AwaitJob, FailOnJob, HoldJobDeleted, CreateJob
<1>2. CASE Quiet \/ Outage \/ Records \/ Tamper
  BY <1>2 DEF Quiet, Abort, AbortInGates, Crash, LoseRepo, Drift, Recover,
     DeliverStatus, DeliverJobs, DeliverManifest, vars, Outage, Restart, Tamper,
     Records, Record, RecordUnlisted, RecordRestore
<1>3. CASE \E j \in Steps : DeleteJob(j) \/ Reaped(j)
  BY <1>3 DEF DeleteJob, Reaped, ReapJob, ReapUnrecorded
<1> QED BY <1>1, <1>2, <1>3, NextCases

\* The cluster changes only by its own.
LEMMA WorldSteps ==
    ASSUME [Next]_vars PROVE world' = world \/ LoseRepo \/ Drift \/ Recover
<1>1. CASE Walks \/ EndsAtGate \/ EndsBetween \/ (\E j \in Steps : EndsAtStep(j))
  BY <1>1 DEF Walks, EnterPipeline, ReadManifest, PlanVolumes, PassJob,
     EndsAtGate, FailSpec, HoldRepo, HoldNamespace, HoldSecret, EndsBetween,
     HoldManifest, FailManifest, HoldUnplaceable, CompleteRestore, EndsAtStep,
     AwaitJob, FailOnJob, HoldJobDeleted, CreateJob
<1>2. CASE Quiet \/ Outage \/ Records \/ Tamper
  BY <1>2 DEF Quiet, Abort, AbortInGates, Crash,
     DeliverStatus, DeliverJobs, DeliverManifest, vars, Outage, Restart, Tamper,
     Records, Record, RecordUnlisted, RecordRestore
<1>3. CASE \/ \E j \in Steps : AgentEnds(j) \/ DeleteJob(j) \/ Reaped(j)
           \/ \E n \in Nodes, v \in Volumes : EmptyVolume(n, v)
  BY <1>3 DEF AgentEnds, FetchSucceeds, FetchFails, ApplySucceeds,
     ApplyFails, VolumesSucceed, VolumesFail, DeleteJob, Reaped, ReapJob, ReapUnrecorded,
     EmptyVolume
<1> QED BY <1>1, <1>2, <1>3, NextCases

-----------------------------------------------------------------------------
(* How a Reconcile ends and how it goes on.                                *)

\* It ends with the status it started from, and with a phase that is Failed, that
\* of the step, the one a hold leaves, or, after the workload Job, Completed.
LEMMA EndsWith ==
    ASSUME TypeOK
    PROVE  /\ EndsAtGate =>
                /\ Begin /\ rec' \in Rec /\ rec'.pc = "record"
                /\ rec'.before = Cached(status)
                /\ rec'.phase \in {"Failed", HoldPhase(Cached(status).phase)}
           /\ \A j \in Steps : EndsAtStep(j) =>
                /\ Current(j) /\ rec' \in Rec /\ rec'.pc = "record"
                /\ rec'.before = rec.before
                /\ rec'.phase \in {"Failed", PhaseOf(j), HoldPhase(rec.before.phase)}
                /\ rec'.phase = PhaseOf(j) => FoundState(j) = "active" \/ CreateJob(j)
                                              \/ PhaseOf(j) = HoldPhase(rec.before.phase)
           /\ EndsBetween =>
                /\ rec.pc # "idle" /\ rec' \in Rec /\ rec'.pc = "record"
                /\ rec'.before = rec.before
                /\ \/ CompleteRestore /\ rec'.phase = "Completed"
                   \/ rec'.phase \in {"Failed", HoldPhase(rec.before.phase)}
<1> USE RestoreConstants
<1>1. Cached(status) \in Status /\ rec.before \in Status
  BY StreamElements DEF TypeOK, Rec
<1>2. /\ "Failed" \in Phases /\ "Completed" \in Phases
      /\ {"InvalidSpec", "Failed", "Running", "Completed"} \subseteq Reasons
      /\ {"RepoNotReady", "TargetNamespaceTerminating", "SecretCopyFailed",
          "ApiManifestMissing", "PlacementFailed", "JobDeleted"} \subseteq HoldReasons
      /\ \A j \in Steps : PhaseOf(j) \in Phases /\ PhaseOf(j) # "Failed"
  BY DEF Phases, Terminal, Reasons, HoldReasons, PhaseOf
<1>3. ASSUME EndsAtGate
      PROVE  /\ Begin /\ rec' \in Rec /\ rec'.pc = "record"
             /\ rec'.before = Cached(status)
             /\ rec'.phase \in {"Failed", HoldPhase(Cached(status).phase)}
  <2>1. \/ FailRestore(Cached(status), "InvalidSpec")
        \/ \E reason \in HoldReasons : HoldRestore(Cached(status), reason)
    BY <1>2, <1>3 DEF EndsAtGate, FailSpec, HoldRepo, HoldNamespace, HoldSecret
  <2>2. Begin
    BY <1>3 DEF EndsAtGate, FailSpec, HoldRepo, HoldNamespace, HoldSecret
  <2> QED BY <1>1, <1>2, <2>1, <2>2, FinishType, HoldType DEF FailRestore
<1>4. ASSUME NEW j \in Steps, EndsAtStep(j)
      PROVE  /\ Current(j) /\ rec' \in Rec /\ rec'.pc = "record"
             /\ rec'.before = rec.before
             /\ rec'.phase \in {"Failed", PhaseOf(j), HoldPhase(rec.before.phase)}
             /\ rec'.phase = PhaseOf(j) => FoundState(j) = "active" \/ CreateJob(j)
                                           \/ PhaseOf(j) = HoldPhase(rec.before.phase)
  <2>1. CASE AwaitJob(j) \/ CreateJob(j)
    BY <1>1, <1>2, <2>1, FinishType DEF AwaitJob, CreateJob
  <2>2. CASE FailOnJob(j)
    BY <1>1, <1>2, <2>2, FinishType DEF FailOnJob, FailRestore
  <2>3. CASE HoldJobDeleted(j)
    BY <1>1, <1>2, <2>3, HoldType DEF HoldJobDeleted
  <2> QED BY <1>4, <2>1, <2>2, <2>3 DEF EndsAtStep
<1>5. ASSUME EndsBetween
      PROVE  /\ rec.pc # "idle" /\ rec' \in Rec /\ rec'.pc = "record"
             /\ rec'.before = rec.before
             /\ \/ CompleteRestore /\ rec'.phase = "Completed"
                \/ rec'.phase \in {"Failed", HoldPhase(rec.before.phase)}
  <2>1. CASE HoldManifest \/ HoldUnplaceable
    BY <1>1, <1>2, <2>1, HoldType DEF HoldManifest, HoldUnplaceable
  <2>2. CASE FailManifest
    BY <1>1, <1>2, <2>2, FinishType DEF FailManifest, FailRestore
  <2>3. CASE CompleteRestore
    BY <1>1, <1>2, <2>3, FinishType DEF CompleteRestore, Current
  <2> QED BY <1>5, <2>1, <2>2, <2>3 DEF EndsBetween
<1> QED BY <1>3, <1>4, <1>5

\* A walk keeps the status it read; it enters, passes a done Job, reads the api
\* ConfigMap, or plans the volumes.
LEMMA WalksWith ==
    ASSUME TypeOK, Walks
    PROVE  /\ rec' \in Rec
           /\ \/ /\ Begin /\ rec'.pc = "fetch" /\ rec'.before = Cached(status)
                 /\ rec'.groups = NoGroups
              \/ /\ rec.pc # "idle" /\ rec'.before = rec.before
                 /\ \/ ReadManifest /\ rec'.pc = "pre" /\ rec'.groups = rec.groups
                    \/ PlanVolumes /\ rec'.pc = "volumes" /\ rec'.groups = Groups
                    \/ PassJob(Fetch) /\ rec'.pc = "manifest" /\ rec'.groups = rec.groups
                    \/ PassJob(Pre) /\ rec'.pc = "plan" /\ rec'.groups = rec.groups
                    \/ \E n \in Nodes :
                         /\ PassJob(n) /\ rec'.pc = "volumes" /\ rec.pc = "volumes"
                         /\ rec'.groups = [rec.groups EXCEPT ![n] = {}]
<1> USE RestoreConstants
<1>1. Cached(status) \in Status /\ rec.before \in Status /\ rec \in Rec
  BY StreamElements DEF TypeOK, Rec
<1>2. CASE EnterPipeline
  <2>1. rec' = [Idle EXCEPT !.pc = "fetch", !.before = Cached(status)] /\ Begin
    BY <1>2 DEF EnterPipeline
  <2> QED BY <1>1, <2>1, IdleRestoreType DEF Rec
<1>3. CASE ReadManifest
  <2>1. rec' = [rec EXCEPT !.pc = "pre", !.manifest = Cached(cm)] /\ rec.pc = "manifest"
    BY <1>3 DEF ReadManifest
  <2>2. Cached(cm) \in Manifests
    BY StreamElements DEF TypeOK
  <2> QED BY <1>1, <1>3, <2>1, <2>2 DEF Rec
<1>4. CASE PlanVolumes
  <2>1. rec' = [rec EXCEPT !.pc = "volumes", !.groups = Groups] /\ rec.pc = "plan"
    BY <1>4 DEF PlanVolumes
  <2>2. Groups \in [Nodes -> SUBSET Volumes]
    BY DEF Groups
  <2> QED BY <1>1, <1>4, <2>1, <2>2 DEF Rec
<1>5. ASSUME NEW j \in Steps, PassJob(j)
      PROVE  /\ rec' \in Rec /\ rec.pc # "idle" /\ rec'.before = rec.before
             /\ j = Fetch => rec'.pc = "manifest" /\ rec'.groups = rec.groups
             /\ j = Pre => rec'.pc = "plan" /\ rec'.groups = rec.groups
             /\ j \notin {Fetch, Pre} =>
                  /\ j \in Nodes /\ rec.pc = "volumes" /\ rec'.pc = "volumes"
                  /\ rec'.groups = [rec.groups EXCEPT ![j] = {}]
  <2>1. Current(j) /\ j # Workload /\ rec' = Passed(j)
    BY <1>5 DEF PassJob
  <2>2. CASE j = Fetch
    BY <1>1, <2>1, <2>2 DEF Passed, Rec, Current
  <2>3. CASE j = Pre
    BY <1>1, <2>1, <2>3 DEF Passed, Rec, Current
  <2>4. CASE j \notin {Fetch, Pre}
    <3>1. j \in Nodes /\ rec.pc = "volumes"
      BY <2>1, <2>4 DEF Steps, Current
    <3>2. rec' = [rec EXCEPT !.groups = [rec.groups EXCEPT ![j] = {}]]
      BY <1>1, <2>1, <2>4 DEF Passed
    <3>3. [rec.groups EXCEPT ![j] = {}] \in [Nodes -> SUBSET Volumes]
      BY <1>1, <3>1 DEF Rec
    <3> QED BY <1>1, <2>4, <3>1, <3>2, <3>3 DEF Rec
  <2> QED BY <2>2, <2>3, <2>4
<1>6. CASE \E j \in Steps : PassJob(j)
  <2>1. PICK j \in Steps : PassJob(j)
    BY <1>6
  <2> QED BY <1>5, <2>1
<1> QED BY <1>2, <1>3, <1>4, <1>6 DEF Walks

-----------------------------------------------------------------------------
(* What a step does to a stored Job.                                       *)

\* The agent of a Job that is running ends it.
Ended(j, old, new) ==
    /\ AgentEnds(j) /\ Started(j) /\ old.state = "active"
    /\ new.state \in {"complete", "failed"} /\ new.volumes = old.volumes
    /\ new.state = "complete" =>
         /\ j = Pre => "pre" \in applied'
         /\ j = Workload => "workload" \in applied'
         /\ j \in Nodes =>
              data' = [v \in Volumes |-> IF v \in old.volumes THEN "full" ELSE data[v]]

\* ensureJob makes it.
Made(j, old, new) ==
    /\ CreateJob(j) /\ old.state = "none" /\ new.state = "active"
    /\ new.volumes = IF j \in Nodes THEN rec.groups[j] ELSE {}

\* It is removed.
Removed(j, old, new) ==
    /\ new = NoJob
    /\ DeleteJob(j) \/ Reaped(j) \/ (Outage /\ old.state \in {"complete", "failed"})

\* The end of an agent, Job by Job.
LEMMA AgentEndsJob ==
    ASSUME TypeOK, NEW j \in Steps, AgentEnds(j)
    PROVE  /\ jobs' \in Streams([Steps -> Job], ObjectLag)
           /\ \A i \in Steps : i # j => Stored(jobs')[i] = Stored(jobs)[i]
           /\ Ended(j, Stored(jobs)[j], Stored(jobs')[j])
<1> USE RestoreConstants
<1>1. Stored(jobs) \in [Steps -> Job] /\ jobs \in Streams([Steps -> Job], ObjectLag)
  BY StreamElements DEF TypeOK
<1>2. ASSUME NEW state \in {"complete", "failed"}, EndJob(j, state)
      PROVE  /\ jobs' \in Streams([Steps -> Job], ObjectLag)
             /\ \A i \in Steps : i # j => Stored(jobs')[i] = Stored(jobs)[i]
             /\ Stored(jobs')[j].state = state
             /\ Stored(jobs')[j].volumes = Stored(jobs)[j].volumes
  <2>1. state \in JobStates
    BY DEF JobStates
  <2>2. /\ jobs' \in Streams([Steps -> Job], ObjectLag)
        /\ Stored(jobs') = [Stored(jobs) EXCEPT ![j] = [@ EXCEPT !.state = state]]
    BY <1>1, <1>2, <2>1, EndJobType
  <2>3. Stored(jobs)[j] \in Job
    BY <1>1
  <2>4. Stored(jobs')[j] = [Stored(jobs)[j] EXCEPT !.state = state]
    BY <1>1, <2>2
  <2>5. \A i \in Steps : i # j => Stored(jobs')[i] = Stored(jobs)[i]
    BY <1>1, <2>2
  <2> QED BY <2>2, <2>3, <2>4, <2>5 DEF Job
<1>3. Started(j) /\ Stored(jobs)[j].state = "active"
  BY DEF AgentEnds, FetchSucceeds, FetchFails, ApplySucceeds, ApplyFails, VolumesSucceed,
     VolumesFail, Mounted, Breakable, Started
<1>4. CASE j = Fetch /\ (FetchSucceeds \/ FetchFails)
  BY <1>2, <1>3, <1>4 DEF FetchSucceeds, FetchFails, Ended
<1>5. CASE ApplySucceeds(j)
  <2>1. EndJob(j, "complete") /\ j \in {Pre, Workload}
    BY <1>5 DEF ApplySucceeds
  <2>2. Bucket(j) \in applied'
    BY <1>5 DEF ApplySucceeds
  <2> QED BY <1>2, <1>3, <2>1, <2>2 DEF Ended, Bucket
<1>6. CASE ApplyFails(j)
  BY <1>2, <1>3, <1>6 DEF ApplyFails, Ended
<1>7. CASE j \in Nodes /\ VolumesSucceed(j)
  BY <1>2, <1>3, <1>7 DEF VolumesSucceed, Ended
<1>8. CASE j \in Nodes /\ VolumesFail(j)
  BY <1>2, <1>3, <1>8 DEF VolumesFail, Ended
<1> QED BY <1>4, <1>5, <1>6, <1>7, <1>8 DEF AgentEnds

\* Every stored Job stays, is made, ends or is removed.
LEMMA JobMoves ==
    ASSUME TypeOK, [Next]_vars
    PROVE  /\ jobs' \in Streams([Steps -> Job], ObjectLag)
           /\ \A j \in Steps : \/ Stored(jobs')[j] = Stored(jobs)[j]
                               \/ Made(j, Stored(jobs)[j], Stored(jobs')[j])
                               \/ Ended(j, Stored(jobs)[j], Stored(jobs')[j])
                               \/ Removed(j, Stored(jobs)[j], Stored(jobs')[j])
<1> USE RestoreConstants
<1> DEFINE T == [Steps -> Job]
           Goal == /\ jobs' \in Streams([Steps -> Job], ObjectLag)
                   /\ \A j \in Steps : \/ Stored(jobs')[j] = Stored(jobs)[j]
                                       \/ Made(j, Stored(jobs)[j], Stored(jobs')[j])
                                       \/ Ended(j, Stored(jobs)[j], Stored(jobs')[j])
                                       \/ Removed(j, Stored(jobs)[j], Stored(jobs')[j])
<1>1. Stored(jobs) \in T /\ jobs \in Streams(T, ObjectLag)
  BY StreamElements DEF TypeOK
<1>2. CASE CacheMove(jobs, jobs')
  <2> HIDE DEF T
  <2>1. jobs' \in Streams(T, ObjectLag) /\ Stored(jobs') = Stored(jobs)
    BY <1>1, <1>2, CacheMoveStream
  <2> QED BY <2>1 DEF T
<1>3. CASE Outage
  <2> DEFINE w == [j \in Steps |-> IF Finished(j) THEN NoJob ELSE Stored(jobs)[j]]
  <2>1. w \in T /\ jobs' = Listed(w)
    BY <1>1, <1>3, IdleRestoreType DEF Outage, Restart
  <2>2. \A j \in Steps : w[j] = IF Finished(j) THEN NoJob ELSE Stored(jobs)[j]
    OBVIOUS
  <2> HIDE DEF T, w
  <2>3. jobs' \in Streams(T, ObjectLag) /\ Stored(jobs') = w
    BY <2>1, ListedStream
  <2>4. \A j \in Steps : \/ Stored(jobs')[j] = Stored(jobs)[j]
                         \/ Removed(j, Stored(jobs)[j], Stored(jobs')[j])
    BY <1>3, <2>2, <2>3 DEF Removed, Finished
  <2> QED BY <2>3, <2>4 DEF T
<1>4. ASSUME NEW j \in Steps, CreateJob(j) PROVE Goal
  <2>1. rec.groups \in [Nodes -> SUBSET Volumes]
    BY DEF TypeOK, Rec
  <2> DEFINE new == [state |-> "active",
                     volumes |-> IF j \in Nodes THEN rec.groups[j] ELSE {}]
  <2>2. new \in Job
    BY <2>1 DEF Job, JobStates
  <2>3. CASE Stored(jobs)[j].state = "none"
    <3>1. SetJob(j, new)
      BY <1>4, <2>3 DEF CreateJob
    <3>2. /\ jobs' \in Streams([Steps -> Job], ObjectLag)
          /\ Stored(jobs') = [Stored(jobs) EXCEPT ![j] = new]
      BY <1>1, <2>2, <3>1, SetJobType
    <3>3. Stored(jobs')[j] = new /\ \A i \in Steps : i # j => Stored(jobs')[i] = Stored(jobs)[i]
      BY <1>1, <3>2
    <3>4. Made(j, Stored(jobs)[j], Stored(jobs')[j])
      BY <1>4, <2>3, <3>3 DEF Made
    <3> QED BY <3>2, <3>3, <3>4
  <2>4. CASE Stored(jobs)[j].state # "none"
    <3>1. jobs' = jobs
      BY <1>4, <2>4 DEF CreateJob
    <3> QED BY <1>1, <3>1
  <2> QED BY <2>3, <2>4
<1>5. ASSUME NEW j \in Steps, AgentEnds(j) PROVE Goal
  <2>1. /\ jobs' \in Streams([Steps -> Job], ObjectLag)
        /\ \A i \in Steps : i # j => Stored(jobs')[i] = Stored(jobs)[i]
        /\ Ended(j, Stored(jobs)[j], Stored(jobs')[j])
    BY <1>5, AgentEndsJob
  <2> QED BY <2>1
<1>6. ASSUME NEW j \in Steps, DeleteJob(j) \/ Reaped(j) PROVE Goal
  <2>1. SetJob(j, NoJob)
    BY <1>6 DEF DeleteJob, Reaped, ReapJob, ReapUnrecorded
  <2>2. /\ jobs' \in Streams([Steps -> Job], ObjectLag)
        /\ Stored(jobs') = [Stored(jobs) EXCEPT ![j] = NoJob]
    BY <1>1, <2>1, IdleRestoreType, SetJobType
  <2>3. Stored(jobs')[j] = NoJob /\ \A i \in Steps : i # j => Stored(jobs')[i] = Stored(jobs)[i]
    BY <1>1, <2>2
  <2>4. Removed(j, Stored(jobs)[j], Stored(jobs')[j])
    BY <1>6, <2>3 DEF Removed
  <2> QED BY <2>2, <2>3, <2>4
<1> HIDE DEF Goal
<1>7. Goal
  BY <1>2, <1>3, <1>4, <1>5, <1>6, JobSteps DEF Goal
<1> QED BY <1>7 DEF Goal

-----------------------------------------------------------------------------
(* Types.                                                                  *)

\* The stream of the status, after any step.
LEMMA StatusMoves ==
    ASSUME TypeOK, [Next]_vars
    PROVE  /\ status' \in Streams(Status, StatusLag)
           /\ \/ CacheMove(status, status') /\ Stored(status') = Stored(status)
              \/ /\ Records /\ rec.pc = "record" /\ rec' = Idle
                 /\ \E live \in {LiveJobs(rec.before), rec.before.jobs} :
                      /\ RecordRestore(live)
                      /\ Stored(status') =
                           MergePatch(Stored(status), rec.before, Recorded(live))
<1>1. CASE CacheMove(status, status')
  BY <1>1, CacheMoveStream, RestoreConstants DEF TypeOK
<1>2. CASE Records
  <2>1. \E live \in {LiveJobs(rec.before), rec.before.jobs} : RecordRestore(live)
    BY <1>2 DEF Records, Record, RecordUnlisted
  <2>2. rec.pc = "record" /\ rec' = Idle
    BY <2>1 DEF RecordRestore
  <2> QED BY <1>2, <2>1, <2>2, RecordStores
<1> QED BY <1>1, <1>2, StatusSteps

\* The type invariant is inductive.
LEMMA RestoreTypeStep == TypeOK /\ [Next]_vars => TypeOK'
<1> SUFFICES ASSUME TypeOK, [Next]_vars PROVE TypeOK'
  OBVIOUS
<1> USE RestoreConstants
<1>1. status' \in Streams(Status, StatusLag)
  BY StatusMoves
<1>2. jobs' \in Streams([Steps -> Job], ObjectLag)
  BY JobMoves
<1>3. cm' \in Streams(Manifests, ObjectLag)
  <2>1. CASE CacheMove(cm, cm')
    BY <2>1, CacheMoveStream DEF TypeOK
  <2>2. CASE Upload
    <3>1. world.manifest \in Manifests
      BY DEF TypeOK, World, Manifests
    <3> QED BY <2>2, <3>1, WriteStream DEF Upload, TypeOK
  <2>3. CASE Tamper
    <3>1. PICK m \in {"none", "bad"} : cm' = Write(cm, m, ObjectLag)
      BY <2>3 DEF Tamper
    <3>2. m \in Manifests
      BY DEF Manifests
    <3> QED BY <3>1, <3>2, WriteStream DEF TypeOK
  <2> QED BY <2>1, <2>2, <2>3, ManifestSteps
<1>4. scaffold' \in [namespace : BOOLEAN, secret : BOOLEAN, rbac : BOOLEAN]
  <2>1. CASE scaffold' = scaffold
    BY <2>1 DEF TypeOK
  <2>2. CASE HoldSecret \/ EnterPipeline \/ AbortInGates
    <3>1. \/ scaffold' = [scaffold EXCEPT !.namespace = TRUE]
          \/ scaffold' = [scaffold EXCEPT !.namespace = TRUE, !.secret = TRUE]
          \/ scaffold' = [namespace |-> TRUE, secret |-> TRUE, rbac |-> TRUE]
      BY <2>2 DEF HoldSecret, EnterPipeline, AbortInGates
    <3>2. scaffold \in [namespace : BOOLEAN, secret : BOOLEAN, rbac : BOOLEAN]
      BY DEF TypeOK
    <3>3. CASE scaffold' = [scaffold EXCEPT !.namespace = TRUE]
      BY <3>2, <3>3
    <3>4. CASE scaffold' = [scaffold EXCEPT !.namespace = TRUE, !.secret = TRUE]
      BY <3>2, <3>4
    <3>5. CASE scaffold' = [namespace |-> TRUE, secret |-> TRUE, rbac |-> TRUE]
      BY <3>5
    <3> QED BY <3>1, <3>3, <3>4, <3>5
  <2>3. CASE Walks \/ EndsAtGate \/ EndsBetween \/ (\E j \in Steps : EndsAtStep(j))
    BY <2>1, <2>2, <2>3 DEF Walks, ReadManifest, PlanVolumes, PassJob,
       EndsAtGate, FailSpec, HoldRepo, HoldNamespace, EndsBetween,
       HoldManifest, FailManifest, HoldUnplaceable, CompleteRestore, EndsAtStep,
       AwaitJob, FailOnJob, HoldJobDeleted, CreateJob
  <2>4. CASE Quiet \/ Outage \/ Records \/ Tamper
    BY <2>1, <2>2, <2>4 DEF Quiet, Abort, Crash, LoseRepo, Drift, Recover,
       DeliverStatus, DeliverJobs, DeliverManifest, vars, Outage, Restart, Tamper,
       Records, Record, RecordUnlisted, RecordRestore
  <2>5. CASE \/ \E j \in Steps : AgentEnds(j) \/ DeleteJob(j) \/ Reaped(j)
             \/ \E n \in Nodes, v \in Volumes : EmptyVolume(n, v)
    BY <2>1, <2>5 DEF AgentEnds, FetchSucceeds, FetchFails, ApplySucceeds,
       ApplyFails, VolumesSucceed, VolumesFail, DeleteJob, Reaped, ReapJob, ReapUnrecorded,
     EmptyVolume
  <2> QED BY <2>3, <2>4, <2>5, NextCases
<1>5. rec' \in Rec
  BY RecSteps, EndsWith, WalksWith, IdleRestoreType DEF TypeOK
<1>6. world' \in World
  <2>1. world \in World
    BY DEF TypeOK
  <2>2. CASE LoseRepo
    BY <2>1, <2>2 DEF LoseRepo, World
  <2>3. CASE Drift
    BY <2>1, <2>3 DEF Drift, World
  <2>4. CASE Recover
    <3>1. \/ world' = [world EXCEPT !.ready = TRUE]
          \/ world' = [world EXCEPT !.secret = TRUE]
          \/ world' = [world EXCEPT !.terminating = FALSE]
          \/ \E n \in Nodes : world' = [world EXCEPT !.nodes = {n}]
      BY <2>4 DEF Recover
    <3>2. CASE world' = [world EXCEPT !.ready = TRUE]
      BY <2>1, <3>2 DEF World
    <3>3. CASE world' = [world EXCEPT !.secret = TRUE]
      BY <2>1, <3>3 DEF World
    <3>4. CASE world' = [world EXCEPT !.terminating = FALSE]
      BY <2>1, <3>4 DEF World
    <3>5. CASE \E n \in Nodes : world' = [world EXCEPT !.nodes = {n}]
      BY <2>1, <3>5 DEF World
    <3> QED BY <3>1, <3>2, <3>3, <3>4, <3>5
  <2> QED BY <2>1, <2>2, <2>3, <2>4, WorldSteps
<1>7. data' \in [Volumes -> {"empty", "full"}] /\ applied' \subseteq {"pre", "workload"}
  <2>1. CASE UNCHANGED <<data, applied>>
    BY <2>1 DEF TypeOK
  <2>2. CASE \E j \in Steps : AgentEnds(j)
    <3>1. data \in [Volumes -> {"empty", "full"}] /\ applied \subseteq {"pre", "workload"}
      BY DEF TypeOK
    <3>2. PICK j \in Steps : AgentEnds(j)
      BY <2>2
    <3>3. CASE FetchSucceeds \/ FetchFails \/ ApplySucceeds(j) \/ ApplyFails(j)
      BY <3>1, <3>3 DEF FetchSucceeds, FetchFails, ApplySucceeds, ApplyFails, Bucket
    <3>4. CASE VolumesSucceed(j)
      BY <3>1, <3>4 DEF VolumesSucceed
    <3>5. CASE VolumesFail(j)
      BY <3>1, <3>5 DEF VolumesFail
    <3> QED BY <3>2, <3>3, <3>4, <3>5 DEF AgentEnds
  <2>3. CASE \E n \in Nodes, v \in Volumes : EmptyVolume(n, v)
    BY <2>3 DEF TypeOK, EmptyVolume
  <2> QED BY <2>1, <2>2, <2>3, DataSteps
<1>8. fuel' \in 0..MaxFaults
  <2>1. \A kind : Fault(kind) => fuel' \in 0..MaxFaults
    BY DEF Fault, TypeOK
  <2>2. CASE fuel' = fuel
    BY <2>2 DEF TypeOK
  <2>3. CASE Walks \/ EndsAtGate \/ EndsBetween \/ (\E j \in Steps : EndsAtStep(j))
    BY <2>2, <2>3 DEF Walks, EnterPipeline, ReadManifest, PlanVolumes, PassJob,
       EndsAtGate, FailSpec, HoldRepo, HoldNamespace, HoldSecret, EndsBetween,
       HoldManifest, FailManifest, HoldUnplaceable, CompleteRestore, EndsAtStep,
       AwaitJob, FailOnJob, HoldJobDeleted, CreateJob
  <2>4. CASE Quiet \/ Outage \/ Records \/ Tamper
    BY <2>1, <2>2, <2>4 DEF Quiet, Abort, AbortInGates, Crash, LoseRepo, Drift, Recover,
       DeliverStatus, DeliverJobs, DeliverManifest, vars, Outage, Tamper,
       Records, Record, RecordUnlisted
  <2>5. CASE \/ \E j \in Steps : AgentEnds(j) \/ DeleteJob(j) \/ Reaped(j)
             \/ \E n \in Nodes, v \in Volumes : EmptyVolume(n, v)
    BY <2>1, <2>2, <2>5 DEF AgentEnds, FetchSucceeds, FetchFails, ApplySucceeds,
       ApplyFails, VolumesSucceed, VolumesFail, DeleteJob, Reaped, ReapJob, ReapUnrecorded,
     EmptyVolume
  <2> QED BY <2>3, <2>4, <2>5, NextCases
<1> QED BY <1>1, <1>2, <1>3, <1>4, <1>5, <1>6, <1>7, <1>8 DEF TypeOK

\* It holds of a new restore, whose streams hold one version each.
LEMMA InitRestore ==
    ASSUME Init
    PROVE  /\ TypeOK
           /\ status = Listed(NewStatus) /\ Stored(status) = NewStatus
           /\ Stored(jobs) = [j \in Steps |-> NoJob]
<1> USE RestoreConstants, IdleRestoreType
<1>1. status \in Streams(Status, StatusLag) /\ Stored(status) = NewStatus
  BY ListedStream DEF Init
<1> DEFINE T == [Steps -> Job]
           v == [j \in Steps |-> NoJob]
<1>2. v \in T /\ jobs = Listed(v)
  BY DEF Init
<1> HIDE DEF T, v
<1>3. jobs \in Streams(T, ObjectLag) /\ Stored(jobs) = v
  BY <1>2, ListedStream
<1>4. cm \in Streams(Manifests, ObjectLag)
  BY ListedStream DEF Init, Manifests
<1>5. /\ scaffold \in [namespace : BOOLEAN, secret : BOOLEAN, rbac : BOOLEAN]
      /\ rec \in Rec /\ world \in World /\ data \in [Volumes -> {"empty", "full"}]
      /\ applied \subseteq {"pre", "workload"} /\ fuel \in 0..MaxFaults
  BY DEF Init
<1> QED BY <1>1, <1>3, <1>4, <1>5 DEF TypeOK, Init, T, v

\* Every variable keeps its type, and no cache is staler than the lag allows.
THEOREM RestoreTypeCorrect == Spec => []TypeOK
BY InitRestore, RestoreTypeStep, PTL DEF Spec

-----------------------------------------------------------------------------
(* Placement.                                                              *)

\* No node joins or leaves, or every volume has a consumer that names its node.
PlacementFixed == {"join", "leave"} \cap Faults = {} \/ \A v \in Volumes : Pins[v] # 0

\* Once every volume can be placed, its node stays, whatever happens: the cluster
\* then has its nodes, or nobody asks for them.
LEMMA PlacementStays ==
    ASSUME TypeOK, PlacementFixed, Placeable, [Next]_vars
    PROVE  Placeable' /\ Groups' = Groups
<1>1. ASSUME NEW v \in Volumes PROVE NodeFor(v)' = NodeFor(v)
  <2>1. CASE Pins[v] # 0
    BY <2>1 DEF NodeFor
  <2>2. CASE Pins[v] = 0
    <3>1. First(world.nodes) # {}
      BY <2>2 DEF Placeable, NodeFor
    <3>2. world.nodes # {}
      BY <3>1 DEF First
    <3>3. ~Drift
      BY <2>2 DEF PlacementFixed, Drift, Fault
    <3>4. world'.nodes = world.nodes
      BY <3>2, <3>3, WorldSteps DEF LoseRepo, Recover, TypeOK, World
    <3> QED BY <2>2, <3>4 DEF NodeFor
  <2> QED BY <2>1, <2>2
<1> QED BY <1>1 DEF Placeable, Groups

\* A volume has at most one node.
LEMMA OneNode ==
    ASSUME TypeOK, NEW v \in Volumes, NEW m \in Nodes, NEW n \in Nodes,
           v \in Groups[m], v \in Groups[n]
    PROVE  m = n
<1>1. m \in NodeFor(v) /\ n \in NodeFor(v)
  BY DEF Groups
<1>2. CASE Pins[v] # 0
  BY <1>1, <1>2 DEF NodeFor
<1>3. CASE Pins[v] = 0
  <2>1. m <= n /\ n <= m
    BY <1>1, <1>3 DEF NodeFor, First
  <2> QED BY <2>1, RestoreConstants
<1> QED BY <1>2, <1>3

\* A Job that exists fills the volumes whose node is its own, as does one that the
\* walk is still to ensure.
PlaceInv ==
    /\ TypeOK
    /\ rec.pc = "volumes" => Placeable
    /\ \A n \in Nodes : rec.groups[n] # {} => rec.pc = "volumes" /\ rec.groups[n] = Groups[n]
    /\ \A n \in Nodes : IF Stored(jobs)[n].state = "none"
                        THEN Stored(jobs)[n].volumes = {}
                        ELSE /\ Placeable /\ Groups[n] # {}
                             /\ Stored(jobs)[n].volumes = Groups[n]

LEMMA InitPlace == Init => PlaceInv
<1> SUFFICES ASSUME Init PROVE PlaceInv
  OBVIOUS
<1>1. rec = Idle
  BY DEF Init
<1>2. \A n \in Nodes : NoGroups[n] = {}
  BY DEF NoGroups
<1>3. \A n \in Nodes : Stored(jobs)[n] = NoJob
  BY InitRestore, RestoreConstants
<1> QED BY <1>1, <1>2, <1>3, InitRestore, IdleRestoreType DEF PlaceInv

LEMMA PlaceInductive ==
    ASSUME PlacementFixed PROVE PlaceInv /\ [Next]_vars => PlaceInv'
<1> SUFFICES ASSUME PlaceInv, [Next]_vars PROVE PlaceInv'
  OBVIOUS
<1> USE RestoreConstants
<1>1. TypeOK /\ TypeOK'
  BY RestoreTypeStep DEF PlaceInv
<1>2. \A n \in Nodes : NoGroups[n] = {}
  BY DEF NoGroups
<1>3. /\ rec'.pc = "volumes" => Placeable'
      /\ \A n \in Nodes : rec'.groups[n] # {} => /\ rec'.pc = "volumes"
                                                 /\ rec'.groups[n] = (Groups')[n]
  <2>1. CASE rec' = rec
    BY <1>1, <2>1, PlacementStays DEF PlaceInv
  <2>2. CASE rec' = Idle
    BY <1>2, <2>2, IdleRestoreType
  <2>3. CASE EndsAtGate \/ EndsBetween \/ \E j \in Steps : EndsAtStep(j)
    <3>1. rec'.groups = NoGroups /\ rec'.pc = "record"
      <4>1. rec'.pc = "record"
        BY <1>1, <2>3, EndsWith
      <4>2. \E before, phase, reason : Finish(before, phase, reason)
        BY <2>3 DEF EndsAtGate, FailSpec, HoldRepo, HoldNamespace, HoldSecret,
           EndsBetween, HoldManifest, FailManifest, HoldUnplaceable, CompleteRestore,
           EndsAtStep, AwaitJob, FailOnJob, HoldJobDeleted, CreateJob, HoldRestore,
           FailRestore
      <4>3. rec'.groups = NoGroups
        BY <4>2 DEF Finish, Idle
      <4> QED BY <4>1, <4>3
    <3> QED BY <1>2, <3>1
  <2>4. CASE Walks
    <3>1. world' = world
      BY <2>4 DEF Walks, EnterPipeline, ReadManifest, PlanVolumes, PassJob
    <3>2. Groups' = Groups /\ Placeable' = Placeable
      BY <3>1 DEF Groups, Placeable, NodeFor
    <3>3. CASE rec'.groups = NoGroups /\ rec'.pc = "fetch"
      BY <1>2, <3>3
    <3>4. CASE ReadManifest \/ PassJob(Fetch) \/ PassJob(Pre)
      <4>1. rec.pc # "volumes"
        BY <3>4 DEF ReadManifest, PassJob, Current, First, Pending
      <4>2. rec'.pc # "volumes" /\ rec'.groups = rec.groups
        BY <1>1, <3>4 DEF ReadManifest, PassJob, Passed, TypeOK, Rec
      <4> QED BY <4>1, <4>2 DEF PlaceInv
    <3>5. CASE PlanVolumes /\ rec'.groups = Groups /\ rec'.pc = "volumes"
      BY <3>2, <3>5 DEF PlanVolumes
    <3>6. ASSUME NEW n \in Nodes, rec'.pc = "volumes", rec.pc = "volumes",
                 rec'.groups = [rec.groups EXCEPT ![n] = {}]
          PROVE  /\ rec'.pc = "volumes" => Placeable'
                 /\ \A m \in Nodes : rec'.groups[m] # {} => /\ rec'.pc = "volumes"
                                                            /\ rec'.groups[m] = (Groups')[m]
      <4>1. rec.groups \in [Nodes -> SUBSET Volumes]
        BY <1>1 DEF TypeOK, Rec
      <4> QED BY <3>2, <3>6, <4>1 DEF PlaceInv
    <3> QED BY <1>1, <2>4, <3>3, <3>4, <3>5, <3>6, WalksWith
  <2> QED BY <2>1, <2>2, <2>3, <2>4, RecSteps
<1>4. ASSUME NEW n \in Nodes
      PROVE  IF Stored(jobs')[n].state = "none"
             THEN Stored(jobs')[n].volumes = {}
             ELSE /\ Placeable' /\ (Groups')[n] # {}
                  /\ Stored(jobs')[n].volumes = (Groups')[n]
  <2>1. CASE Stored(jobs')[n] = Stored(jobs)[n]
    BY <1>1, <2>1, PlacementStays DEF PlaceInv
  <2>2. CASE Made(n, Stored(jobs)[n], Stored(jobs')[n])
    <3>1. Current(n) /\ world' = world /\ Stored(jobs')[n].volumes = rec.groups[n]
      BY <2>2 DEF Made, CreateJob
    <3>2. rec.pc = "volumes" /\ rec.groups[n] # {}
      BY <3>1 DEF Current, First, Pending
    <3>3. Placeable /\ rec.groups[n] = Groups[n] /\ Stored(jobs')[n].state = "active"
      BY <2>2, <3>2 DEF PlaceInv, Made
    <3> QED BY <1>1, <3>1, <3>2, <3>3, PlacementStays
  <2>3. CASE Ended(n, Stored(jobs)[n], Stored(jobs')[n])
    <3>1. /\ Stored(jobs)[n].state = "active" /\ Stored(jobs')[n].state # "none"
          /\ Stored(jobs')[n].volumes = Stored(jobs)[n].volumes
      BY <2>3 DEF Ended
    <3> QED BY <1>1, <3>1, PlacementStays DEF PlaceInv
  <2>4. CASE Removed(n, Stored(jobs)[n], Stored(jobs')[n])
    BY <2>4, IdleRestoreType DEF Removed
  <2> QED BY <1>1, <2>1, <2>2, <2>3, <2>4, JobMoves
<1> QED BY <1>1, <1>3, <1>4 DEF PlaceInv

-----------------------------------------------------------------------------
(* What holds of the versions of a stream, stale ones included.            *)

\* A step writes at most one new version, the one it stores.
LEMMA StatusVersions ==
    ASSUME TypeOK, [Next]_vars, NEW S,
           status \in Streams(S, StatusLag), Stored(status') \in S
    PROVE  status' \in Streams(S, StatusLag)
<1>1. CASE CacheMove(status, status')
  BY <1>1, CacheMoveStream, RestoreConstants
<1>2. CASE Records
  <2>1. PICK live \in {LiveJobs(rec.before), rec.before.jobs} : RecordRestore(live)
    BY <1>2 DEF Records, Record, RecordUnlisted
  <2>2. status' = Write(status, Stored(status'), StatusLag)
    BY <2>1, RecordStores DEF RecordRestore
  <2> QED BY <2>2, WriteStream, RestoreConstants
<1> QED BY <1>1, <1>2, StatusSteps

LEMMA JobVersions ==
    ASSUME TypeOK, [Next]_vars
    PROVE  \/ CacheMove(jobs, jobs')
           \/ jobs' = Write(jobs, Stored(jobs'), ObjectLag)
           \/ jobs' = Listed(Stored(jobs'))
<1> USE RestoreConstants
<1> DEFINE T == [Steps -> Job]
<1>1. Stored(jobs) \in T /\ jobs \in Streams(T, ObjectLag)
  BY StreamElements DEF TypeOK
<1>2. CASE Outage
  <2> DEFINE w == [j \in Steps |-> IF Finished(j) THEN NoJob ELSE Stored(jobs)[j]]
  <2>1. w \in T /\ jobs' = Listed(w)
    BY <1>1, <1>2, IdleRestoreType DEF Outage, Restart
  <2> HIDE DEF T, w
  <2> QED BY <2>1, ListedStream
<1>3. ASSUME NEW j \in Steps, NEW job \in Job, SetJob(j, job)
      PROVE  jobs' = Write(jobs, Stored(jobs'), ObjectLag)
  <2>1. Stored(jobs') = [Stored(jobs) EXCEPT ![j] = job]
    BY <1>1, <1>3, SetJobType
  <2> QED BY <1>3, <2>1 DEF SetJob
<1>4. ASSUME NEW j \in Steps, CreateJob(j)
      PROVE  CacheMove(jobs, jobs') \/ jobs' = Write(jobs, Stored(jobs'), ObjectLag)
  <2>1. rec.groups \in [Nodes -> SUBSET Volumes]
    BY DEF TypeOK, Rec
  <2>2. [state |-> "active", volumes |-> IF j \in Nodes THEN rec.groups[j] ELSE {}] \in Job
    BY <2>1 DEF Job, JobStates
  <2> QED BY <1>3, <1>4, <2>2 DEF CreateJob, CacheMove
<1>5. ASSUME NEW j \in Steps, AgentEnds(j)
      PROVE  jobs' = Write(jobs, Stored(jobs'), ObjectLag)
  <2>1. \E state \in {"complete", "failed"} : EndJob(j, state)
    BY <1>5 DEF AgentEnds, FetchSucceeds, FetchFails, ApplySucceeds, ApplyFails,
       VolumesSucceed, VolumesFail
  <2>2. PICK state \in JobStates : EndJob(j, state)
    BY <2>1 DEF JobStates
  <2>3. [Stored(jobs)[j] EXCEPT !.state = state] \in Job
    BY <1>1, <2>2, EndJobType
  <2> QED BY <1>3, <2>2, <2>3 DEF EndJob
<1>6. ASSUME NEW j \in Steps, DeleteJob(j) \/ Reaped(j)
      PROVE  jobs' = Write(jobs, Stored(jobs'), ObjectLag)
  BY <1>3, <1>6, IdleRestoreType DEF DeleteJob, Reaped, ReapJob, ReapUnrecorded
<1> QED BY <1>2, <1>4, <1>5, <1>6, JobSteps

LEMMA JobVersionsIn ==
    ASSUME TypeOK, [Next]_vars, NEW S,
           jobs \in Streams(S, ObjectLag), Stored(jobs') \in S
    PROVE  jobs' \in Streams(S, ObjectLag)
<1>1. CASE CacheMove(jobs, jobs')
  BY <1>1, CacheMoveStream, RestoreConstants
<1>2. CASE jobs' = Write(jobs, Stored(jobs'), ObjectLag)
  BY <1>2, WriteStream, RestoreConstants
<1>3. CASE jobs' = Listed(Stored(jobs'))
  BY <1>3, ListedStream, RestoreConstants
<1> QED BY <1>1, <1>2, <1>3, JobVersions

LEMMA JobVersionsOrdered ==
    ASSUME TypeOK, [Next]_vars, NEW R, Ordered(jobs, R),
           <<Stored(jobs'), Stored(jobs')>> \in R,
           \A i \in 1..Len(jobs) : <<jobs[i], Stored(jobs')>> \in R
    PROVE  Ordered(jobs', R)
<1> DEFINE T == [Steps -> Job]
<1>1. jobs \in Streams(T, ObjectLag) /\ Stored(jobs') \in T
  BY JobMoves, StreamElements, RestoreConstants DEF TypeOK
<1> HIDE DEF T
<1>2. CASE jobs' = Listed(Stored(jobs'))
  <2>1. Len(jobs') = 1 /\ jobs'[1] = Stored(jobs')
    BY <1>2 DEF Listed
  <2> QED BY <2>1 DEF Ordered
<1>3. CASE CacheMove(jobs, jobs')
  BY <1>1, <1>3, OrderedMove, RestoreConstants
<1>4. CASE jobs' = Write(jobs, Stored(jobs'), ObjectLag)
  <2> DEFINE v == Stored(jobs')
  <2>1. jobs' = Write(jobs, v, ObjectLag) /\ v \in T /\ <<v, v>> \in R
        /\ \A i \in 1..Len(jobs) : <<jobs[i], v>> \in R
    BY <1>1, <1>4
  <2> HIDE DEF v
  <2> QED BY <1>1, <2>1, OrderedWrite, RestoreConstants
<1> QED BY <1>2, <1>3, <1>4, JobVersions

\* What a patch leaves: each field is the one stored or the one recorded, and a
\* step counts as complete only where the record, the store or the cache says so.
LEMMA PatchLeaves ==
    ASSUME TypeOK, rec.pc = "record",
           NEW live \in {LiveJobs(rec.before), rec.before.jobs},
           Stored(status') = MergePatch(Stored(status), rec.before, Recorded(live))
    PROVE  /\ Stored(status').phase \in {Stored(status).phase, rec.phase}
           /\ rec.before = Stored(status) => Stored(status').phase = rec.phase
           /\ \A j \in Steps : Stored(status').jobs[j] = "complete" =>
                \/ Stored(status).jobs[j] = "complete" \/ rec.before.jobs[j] = "complete"
                \/ Cached(jobs)[j].state = "complete"
           /\ \A j \in Steps :
                /\ rec.before = Stored(status) /\ rec.before.jobs[j] = "complete"
                /\ Cached(jobs)[j].state \in {"none", "complete"}
                => Stored(status').jobs[j] = "complete"
<1>1. /\ Stored(status').phase =
           Overwrite(Stored(status).phase, rec.before.phase, Recorded(live).phase)
      /\ Stored(status').jobs =
           Overwrite(Stored(status).jobs, rec.before.jobs, Recorded(live).jobs)
  BY DEF MergePatch
<1>2. /\ Recorded(live).phase = rec.phase
      /\ Recorded(live).jobs = IF rec.reason \in HoldReasons THEN rec.before.jobs ELSE live
  BY DEF Recorded
<1>3. \A j \in Steps : LiveJobs(rec.before)[j] =
         IF Cached(jobs)[j].state # "none" THEN Cached(jobs)[j].state ELSE rec.before.jobs[j]
  BY DEF LiveJobs
<1> QED BY <1>1, <1>2, <1>3 DEF Overwrite

-----------------------------------------------------------------------------
(* What a record of a finished step is worth.                              *)

\* Statuses and Jobs that claim no more than the apply agents have done.
TrueStatus ==
    {s \in Status : /\ s.jobs[Pre] = "complete" => "pre" \in applied
                    /\ s.jobs[Workload] = "complete" => "workload" \in applied
                    /\ s.phase = "Completed" => "workload" \in applied}
TrueJobs ==
    {f \in [Steps -> Job] :
       /\ f[Pre].state = "complete" => "pre" \in applied
       /\ f[Workload].state = "complete" => "workload" \in applied}

\* Every version of both, however stale, and what a Reconcile read or is about to
\* record; the walk passes the pre step, and the workload Job exists, only after
\* the first bucket was applied.
ApplyInv ==
    /\ TypeOK
    /\ status \in Streams(TrueStatus, StatusLag) /\ rec.before \in TrueStatus
    /\ jobs \in Streams(TrueJobs, ObjectLag)
    /\ rec.phase = "Completed" => "workload" \in applied
    /\ rec.pc \in {"plan", "volumes"} => "pre" \in applied
    /\ Stored(jobs)[Workload].state # "none" => "pre" \in applied
    /\ "workload" \in applied => "pre" \in applied

\* Completed means that both buckets of the api manifests were applied.
CompletedIsApplied ==
    Stored(status).phase = "Completed" => applied = {"pre", "workload"}

\* Buckets are only ever added, the second one by the agent of the workload Job.
LEMMA AppliedGrows ==
    ASSUME [Next]_vars
    PROVE  /\ applied \subseteq applied'
           /\ "workload" \in applied' /\ "workload" \notin applied
                => Stored(jobs)[Workload].state = "active"
<1>1. CASE UNCHANGED <<data, applied>>
  BY <1>1
<1>2. ASSUME NEW j \in Steps, AgentEnds(j)
      PROVE  /\ applied \subseteq applied'
             /\ "workload" \in applied' /\ "workload" \notin applied
                  => Stored(jobs)[Workload].state = "active"
  <2>1. CASE ApplySucceeds(j) \/ ApplyFails(j)
    <3>1. /\ j \in {Pre, Workload} /\ Started(j)
          /\ applied' = applied \/ applied' = applied \cup {Bucket(j)}
      BY <2>1 DEF ApplySucceeds, ApplyFails, Mounted, Breakable
    <3> QED BY <3>1 DEF Bucket, Started
  <2>2. CASE \/ FetchSucceeds \/ FetchFails \/ VolumesSucceed(j) \/ VolumesFail(j)
    BY <2>2 DEF FetchSucceeds, FetchFails, VolumesSucceed, VolumesFail
  <2> QED BY <1>2, <2>1, <2>2 DEF AgentEnds
<1>3. CASE \E n \in Nodes, v \in Volumes : EmptyVolume(n, v)
  BY <1>3 DEF EmptyVolume
<1> QED BY <1>1, <1>2, <1>3, DataSteps

LEMMA InitApply == Init => ApplyInv
<1> SUFFICES ASSUME Init PROVE ApplyInv
  OBVIOUS
<1> USE RestoreConstants
<1>1. NewStatus \in TrueStatus
  BY IdleRestoreType DEF TrueStatus
<1>2. status \in Streams(TrueStatus, StatusLag)
  BY <1>1, ListedStream DEF Init
<1> DEFINE v == [j \in Steps |-> NoJob]
<1>3. v \in TrueJobs
  BY IdleRestoreType DEF TrueJobs
<1>4. jobs = Listed(v)
  BY DEF Init
<1> HIDE DEF v
<1>5. jobs \in Streams(TrueJobs, ObjectLag)
  BY <1>3, <1>4, ListedStream
<1>6. Stored(jobs)[Workload].state = "none"
  BY InitRestore, IdleRestoreType
<1>7. rec = Idle /\ applied = {}
  BY DEF Init
<1> QED BY <1>1, <1>2, <1>5, <1>6, <1>7, InitRestore, IdleRestoreType DEF ApplyInv

LEMMA ApplyInductive == ApplyInv /\ [Next]_vars => ApplyInv'
<1> SUFFICES ASSUME ApplyInv, [Next]_vars PROVE ApplyInv'
  OBVIOUS
<1> USE RestoreConstants
<1>1. TypeOK /\ TypeOK'
  BY RestoreTypeStep DEF ApplyInv
<1>2. applied \subseteq applied'
  BY AppliedGrows
<1>3. TrueStatus \subseteq TrueStatus' /\ TrueJobs \subseteq TrueJobs'
  BY <1>2 DEF TrueStatus, TrueJobs
<1>4. /\ Cached(status) \in TrueStatus /\ Stored(status) \in TrueStatus
      /\ Cached(jobs) \in TrueJobs /\ Stored(jobs) \in TrueJobs
      /\ rec.before \in TrueStatus
  BY StreamElements DEF ApplyInv
<1>5. Stored(status') \in Status /\ Stored(jobs') \in [Steps -> Job]
  BY <1>1, StreamElements DEF TypeOK
<1>6. Stored(status') \in TrueStatus'
  <2>1. CASE Stored(status') = Stored(status)
    BY <1>3, <1>4, <2>1
  <2>2. ASSUME rec.pc = "record",
               NEW live \in {LiveJobs(rec.before), rec.before.jobs},
               Stored(status') = MergePatch(Stored(status), rec.before, Recorded(live))
        PROVE  Stored(status') \in TrueStatus'
    <3>1. /\ Stored(status').phase \in {Stored(status).phase, rec.phase}
          /\ \A j \in {Pre, Workload} : Stored(status').jobs[j] = "complete" =>
                \/ Stored(status).jobs[j] = "complete" \/ rec.before.jobs[j] = "complete"
                \/ Cached(jobs)[j].state = "complete"
      BY <1>1, <2>2, PatchLeaves
    <3>2. Stored(status').phase = "Completed" => "workload" \in applied
      BY <1>4, <3>1 DEF TrueStatus, ApplyInv
    <3>3. /\ Stored(status').jobs[Pre] = "complete" => "pre" \in applied
          /\ Stored(status').jobs[Workload] = "complete" => "workload" \in applied
      BY <1>4, <3>1 DEF TrueStatus, TrueJobs
    <3> QED BY <1>2, <1>5, <3>2, <3>3 DEF TrueStatus
  <2> QED BY <1>1, <2>1, <2>2, StatusMoves
<1>7. status' \in Streams(TrueStatus, StatusLag)'
  <2>1. status \in Streams(TrueStatus', StatusLag)
    BY <1>3, StreamsMonotone DEF ApplyInv
  <2> QED BY <1>1, <1>6, <2>1, StatusVersions
<1>8. Stored(jobs') \in TrueJobs'
  <2>1. Stored(jobs')[Pre].state = "complete" => "pre" \in applied'
    <3>1. Stored(jobs)[Pre].state = "complete" => "pre" \in applied'
      BY <1>2, <1>4 DEF TrueJobs
    <3> QED BY <1>1, <3>1, JobMoves, IdleRestoreType DEF Made, Ended, Removed
  <2>2. Stored(jobs')[Workload].state = "complete" => "workload" \in applied'
    <3>1. Stored(jobs)[Workload].state = "complete" => "workload" \in applied'
      BY <1>2, <1>4 DEF TrueJobs
    <3> QED BY <1>1, <3>1, JobMoves, IdleRestoreType DEF Made, Ended, Removed
  <2> QED BY <1>5, <2>1, <2>2 DEF TrueJobs
<1>9. jobs' \in Streams(TrueJobs, ObjectLag)'
  <2>1. jobs \in Streams(TrueJobs', ObjectLag)
    BY <1>3, StreamsMonotone DEF ApplyInv
  <2> QED BY <1>1, <1>8, <2>1, JobVersionsIn
<1>10. rec'.before \in TrueStatus'
  <2>1. NewStatus \in TrueStatus'
    BY IdleRestoreType DEF TrueStatus
  <2>2. rec'.before \in {rec.before, Cached(status), NewStatus}
    BY <1>1, RecSteps, EndsWith, WalksWith, IdleRestoreType
  <2> QED BY <1>3, <1>4, <2>1, <2>2
<1>11. rec'.phase = "Completed" => "workload" \in applied'
  <2>1. HoldPhase(rec.before.phase) = "Completed" => "workload" \in applied
    BY <1>4 DEF HoldPhase, TrueStatus
  <2>2. HoldPhase(Cached(status).phase) = "Completed" => "workload" \in applied
    BY <1>4 DEF HoldPhase, TrueStatus
  <2>3. CompleteRestore => "workload" \in applied
    BY <1>4 DEF CompleteRestore, JobDone, FoundState, TrueJobs, TrueStatus
  <2>4. CASE Walks
    <3>1. rec'.phase \in {rec.phase, "New"}
      <4>1. rec \in Rec
        BY <1>1 DEF TypeOK
      <4>2. CASE EnterPipeline
        BY <4>2, IdleRestoreType DEF EnterPipeline, Rec
      <4>3. CASE ReadManifest \/ PlanVolumes
        BY <4>1, <4>3 DEF ReadManifest, PlanVolumes, Rec
      <4>4. CASE \E j \in Steps : PassJob(j)
        BY <4>1, <4>4 DEF PassJob, Passed, Rec
      <4> QED BY <2>4, <4>2, <4>3, <4>4 DEF Walks
    <3> QED BY <1>2, <3>1 DEF ApplyInv
  <2>5. \A j \in Steps : PhaseOf(j) # "Completed"
    BY DEF PhaseOf
  <2>6. CASE rec' = rec \/ rec' = Idle
    BY <1>2, <2>6, IdleRestoreType DEF ApplyInv
  <2>7. CASE EndsAtGate \/ EndsBetween \/ \E j \in Steps : EndsAtStep(j)
    BY <1>1, <1>2, <2>1, <2>2, <2>3, <2>5, <2>7, EndsWith
  <2> QED BY <2>4, <2>6, <2>7, RecSteps
<1>12. rec'.pc \in {"plan", "volumes"} => "pre" \in applied'
  <2>1. CASE Walks
    <3>1. PassJob(Pre) => "pre" \in applied
      BY <1>4 DEF PassJob, JobDone, FoundState, TrueJobs, TrueStatus
    <3>2. PlanVolumes => "pre" \in applied
      BY DEF PlanVolumes, ApplyInv
    <3>3. rec.pc = "volumes" => "pre" \in applied
      BY DEF ApplyInv
    <3> QED BY <1>1, <1>2, <2>1, <3>1, <3>2, <3>3, WalksWith
  <2>2. CASE ~Walks
    <3>1. rec' = rec \/ rec'.pc \in {"idle", "record"}
      BY <1>1, <2>2, RecSteps, EndsWith, IdleRestoreType
    <3> QED BY <1>2, <3>1 DEF ApplyInv
  <2> QED BY <2>1, <2>2
<1>13. Stored(jobs')[Workload].state # "none" => "pre" \in applied'
  <2>1. CreateJob(Workload) => "pre" \in applied
    BY DEF CreateJob, Current, ApplyInv
  <2> QED BY <1>1, <1>2, <2>1, JobMoves, IdleRestoreType DEF Made, Ended, Removed, ApplyInv
<1>14. "workload" \in applied' => "pre" \in applied'
  BY <1>2, AppliedGrows DEF ApplyInv
<1> QED BY <1>1, <1>7, <1>9, <1>10, <1>11, <1>12, <1>13, <1>14 DEF ApplyInv

\* However stale the caches are and whatever is aborted, deleted, reaped, tampered
\* with or restarted, a restore is Completed only after both buckets were applied,
\* and the second never comes without the first.
THEOREM CompletedAppliesBoth == Spec => []CompletedIsApplied
<1>1. ApplyInv => CompletedIsApplied
  <2> SUFFICES ASSUME ApplyInv, Stored(status).phase = "Completed"
               PROVE  applied = {"pre", "workload"}
    BY DEF CompletedIsApplied
  <2>1. Stored(status) \in TrueStatus
    BY StreamElements, RestoreConstants DEF ApplyInv
  <2> QED BY <2>1 DEF TrueStatus, ApplyInv, TypeOK
<1> QED BY <1>1, InitApply, ApplyInductive, PTL DEF Spec

-----------------------------------------------------------------------------
(* The volumes under the workload.                                         *)

\* No Job goes away, or only recorded ones do, by the TTL, while the reconciler is
\* up, reads the status fresh and is not held for an hour.
NothingRemoved == {"delete", "ttl", "outage", "longHold"} \cap Faults = {}
OnlyReaped == StatusLag = 1 /\ {"delete", "outage", "longHold"} \cap Faults = {}
JobsKept == NothingRemoved \/ OnlyReaped

\* The restore is over: no Reconcile comes back from a terminal phase it sees.
Over == StatusLag = 1 /\ Stored(status).phase \in Terminal

\* A step that is done and that no Reconcile can take for one to be done.
Safe(j) ==
    \/ Stored(jobs)[j].state = "complete"
    \/ StatusLag = 1 /\ Stored(status).jobs[j] = "complete"

SafeStatus == {s \in Status : \A j \in Steps : s.jobs[j] = "complete" => Safe(j) \/ Over}
SafeJobs ==
    {f \in [Steps -> Job] : \A j \in Steps :
       /\ f[j].state = "complete" => Safe(j) \/ Over
       /\ StatusLag = 1 /\ Stored(status).jobs[j] = "complete"
            => f[j].state \in {"complete", "none"}}

\* A complete Job is not started again.
KeepsComplete ==
    {p \in [Steps -> Job] \X [Steps -> Job] : \A j \in Steps :
       p[1][j].state = "complete" => p[2][j].state \in {"complete", "none"}}

WorkloadStarted == Stored(jobs)[Workload].state # "none" \/ "workload" \in applied

SafeRecords ==
    /\ status \in Streams(SafeStatus, StatusLag) /\ rec.before \in SafeStatus
    /\ jobs \in Streams(SafeJobs, ObjectLag) /\ Ordered(jobs, KeepsComplete)

\* A Reconcile works on the stored status, if the status is read fresh.
FreshRead ==
    StatusLag = 1 /\ rec.pc # "idle" =>
        rec.before = Stored(status) /\ Stored(status).phase \notin Terminal

\* The volume Jobs the walk has passed are safe, and safe volumes are full.
PassedAreSafe ==
    rec.pc = "volumes" =>
        \A n \in Nodes : Groups[n] # {} /\ rec.groups[n] = {} => Safe(n)
SafeAreFull ==
    \A n \in Nodes : Safe(n) => Placeable /\ \A v \in Groups[n] : data[v] = "full"

\* Once there is a workload Job, every volume is full and no volume Job runs or
\* will.
FullUnderWorkload ==
    WorkloadStarted =>
        /\ Placeable
        /\ \A v \in Volumes : data[v] = "full"
        /\ \A n \in Nodes : Stored(jobs)[n].state # "active"
        /\ Over \/ \A n \in Nodes : Groups[n] # {} => Safe(n)

VolumeInv ==
    /\ PlaceInv /\ ApplyInv
    /\ SafeRecords /\ FreshRead
    /\ PassedAreSafe /\ SafeAreFull /\ FullUnderWorkload

\* Under these hypotheses a Job goes away only by the TTL.
LEMMA RemovedIsReaped ==
    ASSUME JobsKept, NEW j \in Steps, NEW old, NEW new, Removed(j, old, new)
    PROVE  OnlyReaped /\ ReapJob(j)
BY DEF JobsKept, NothingRemoved, OnlyReaped, Removed, DeleteJob, Reaped, ReapJob,
   ReapUnrecorded, Outage, Fault

\* A status that is read fresh is the stored one.
LEMMA FreshStatus ==
    ASSUME TypeOK, StatusLag = 1 PROVE Cached(status) = Stored(status)
BY FreshStream DEF TypeOK

\* What the invariant says of the two ends of each stream and of a stored Job.
LEMMA SafeEnds ==
    ASSUME VolumeInv
    PROVE  /\ TypeOK /\ PlaceInv
           /\ Cached(status) \in SafeStatus /\ Stored(status) \in SafeStatus
           /\ Cached(jobs) \in SafeJobs /\ Stored(jobs) \in SafeJobs
           /\ \A i \in 1..Len(jobs) : jobs[i] \in SafeJobs /\ jobs[i] \in [Steps -> Job]
           /\ \A j \in Steps : Safe(j) => Stored(jobs)[j].state \in {"complete", "none"}
           /\ rec.pc # "idle" => ~Over
<1> USE RestoreConstants
<1>1. TypeOK /\ PlaceInv
  BY DEF VolumeInv, PlaceInv
<1>2. /\ Cached(status) \in SafeStatus /\ Stored(status) \in SafeStatus
      /\ Cached(jobs) \in SafeJobs /\ Stored(jobs) \in SafeJobs
  BY StreamElements DEF VolumeInv, SafeRecords
<1>3. \A i \in 1..Len(jobs) : jobs[i] \in SafeJobs
  BY DEF VolumeInv, SafeRecords, Streams
<1>4. \A i \in 1..Len(jobs) : jobs[i] \in [Steps -> Job]
  BY <1>3 DEF SafeJobs
<1>5. \A j \in Steps : Safe(j) => Stored(jobs)[j].state \in {"complete", "none"}
  BY <1>2 DEF Safe, SafeJobs
<1>6. rec.pc # "idle" => ~Over
  BY DEF VolumeInv, FreshRead, Over
<1> QED BY <1>1, <1>2, <1>3, <1>4, <1>5, <1>6

\* A step recorded as complete stays recorded, if the status is read fresh.
LEMMA RecordedStays ==
    ASSUME VolumeInv, [Next]_vars, StatusLag = 1,
           NEW j \in Steps, Stored(status).jobs[j] = "complete"
    PROVE  Stored(status').jobs[j] = "complete"
<1>0. TypeOK
  BY SafeEnds
<1>1. CASE Stored(status') = Stored(status)
  BY <1>1
<1>2. ASSUME rec.pc = "record",
             NEW live \in {LiveJobs(rec.before), rec.before.jobs},
             Stored(status') = MergePatch(Stored(status), rec.before, Recorded(live))
      PROVE  Stored(status').jobs[j] = "complete"
  <2>1. rec.before = Stored(status)
    BY <1>2 DEF VolumeInv, FreshRead
  <2>2. Cached(jobs)[j].state \in {"none", "complete"}
    BY SafeEnds DEF SafeJobs
  <2> QED BY <1>0, <1>2, <2>1, <2>2, PatchLeaves
<1> QED BY <1>0, <1>1, <1>2, StatusMoves

\* A safe step stays so, or the restore is over; and over it stays.
LEMMA SafeStays ==
    ASSUME JobsKept, VolumeInv, [Next]_vars
    PROVE  /\ \A j \in Steps : Safe(j) => Safe(j)' \/ Over'
           /\ Over => Over'
<1>0. TypeOK
  BY SafeEnds
<1>1. Over => Over'
  <2> SUFFICES ASSUME Over PROVE Over'
    OBVIOUS
  <2>1. rec.pc = "idle"
    BY SafeEnds
  <2>2. Stored(status') = Stored(status)
    BY <1>0, <2>1, StatusMoves
  <2> QED BY <2>2 DEF Over
<1>2. ASSUME NEW j \in Steps, Stored(jobs)[j].state = "complete"
      PROVE  Safe(j)' \/ Over'
  <2>1. CASE Removed(j, Stored(jobs)[j], Stored(jobs')[j])
    <3>1. OnlyReaped /\ ReapJob(j)
      BY <2>1, RemovedIsReaped
    <3>2. Settled(Stored(status), j)
      BY <1>0, <3>1, FreshStatus DEF ReapJob, OnlyReaped
    <3>3. status' = status
      BY <3>1 DEF ReapJob
    <3> QED BY <3>1, <3>2, <3>3 DEF OnlyReaped, Settled, Safe, Over
  <2>2. CASE Stored(jobs')[j] = Stored(jobs)[j]
    BY <1>2, <2>2 DEF Safe
  <2> QED BY <1>0, <1>2, <2>1, <2>2, JobMoves DEF Made, Ended
<1>3. \A j \in Steps : StatusLag = 1 /\ Stored(status).jobs[j] = "complete" => Safe(j)'
  BY RecordedStays DEF Safe
<1> QED BY <1>1, <1>2, <1>3 DEF Safe

\* A safe step is not started again.
LEMMA SafeNotMade ==
    ASSUME VolumeInv, NEW j \in Steps, Safe(j), NEW new
    PROVE  ~Made(j, Stored(jobs)[j], new)
<1> SUFFICES ASSUME Made(j, Stored(jobs)[j], new) PROVE FALSE
  OBVIOUS
<1>1. Current(j) /\ rec.before.jobs[j] = "none" /\ Stored(jobs)[j].state = "none"
  BY DEF Made, CreateJob
<1>2. rec.pc # "idle"
  BY <1>1 DEF Current
<1>3. StatusLag = 1 /\ Stored(status).jobs[j] = "complete"
  BY <1>1 DEF Safe
<1>4. rec.before = Stored(status)
  BY <1>2, <1>3 DEF VolumeInv, FreshRead
<1> QED BY <1>1, <1>3, <1>4

\* A step recorded as complete is safe: whoever recorded it saw it complete.
LEMMA RecordedIsSafe ==
    ASSUME VolumeInv, [Next]_vars, NEW j \in Steps,
           Stored(status').jobs[j] = "complete"
    PROVE  \/ Safe(j) \/ Over
<1>0. TypeOK
  BY SafeEnds
<1>1. CASE Stored(status') = Stored(status)
  BY <1>1, SafeEnds DEF SafeStatus
<1>2. ASSUME rec.pc = "record",
             NEW live \in {LiveJobs(rec.before), rec.before.jobs},
             Stored(status') = MergePatch(Stored(status), rec.before, Recorded(live))
      PROVE  Safe(j) \/ Over
  <2>1. \/ Stored(status).jobs[j] = "complete" \/ rec.before.jobs[j] = "complete"
        \/ Cached(jobs)[j].state = "complete"
    BY <1>0, <1>2, PatchLeaves
  <2>2. rec.before \in SafeStatus
    BY DEF VolumeInv, SafeRecords
  <2> QED BY <2>1, <2>2, SafeEnds DEF SafeStatus, SafeJobs
<1> QED BY <1>0, <1>1, <1>2, StatusMoves

\* The versions of both streams stay truthful.
LEMMA SafeRecordsStep ==
    ASSUME JobsKept, VolumeInv, [Next]_vars PROVE SafeRecords'
<1> USE RestoreConstants
<1>0. TypeOK /\ TypeOK'
  BY SafeEnds, RestoreTypeStep
<1>1. \A j \in Steps : Safe(j) \/ Over => Safe(j)' \/ Over'
  BY SafeStays
<1>2. SafeStatus \subseteq SafeStatus'
  BY <1>1 DEF SafeStatus
<1>3. Stored(status') \in Status /\ Stored(jobs') \in [Steps -> Job]
  BY <1>0, StreamElements DEF TypeOK
<1>4. Stored(status') \in SafeStatus'
  BY <1>1, <1>3, RecordedIsSafe DEF SafeStatus
<1>5. status' \in Streams(SafeStatus, StatusLag)'
  <2>1. status \in Streams(SafeStatus', StatusLag)
    BY <1>2, StreamsMonotone DEF VolumeInv, SafeRecords
  <2> QED BY <1>0, <1>4, <2>1, StatusVersions
<1>6. rec'.before \in SafeStatus'
  <2>1. NewStatus \in SafeStatus'
    BY IdleRestoreType DEF SafeStatus
  <2>2. rec'.before \in {rec.before, Cached(status), NewStatus}
    BY <1>0, RecSteps, EndsWith, WalksWith, IdleRestoreType
  <2>3. rec.before \in SafeStatus /\ Cached(status) \in SafeStatus
    BY SafeEnds DEF VolumeInv, SafeRecords
  <2> QED BY <1>2, <2>1, <2>2, <2>3
<1>7. ASSUME NEW k \in 1..Len(jobs) PROVE jobs[k] \in SafeJobs'
  <2>1. jobs[k] \in SafeJobs /\ jobs[k] \in [Steps -> Job]
    BY SafeEnds
  <2>2. ASSUME NEW j \in Steps, StatusLag = 1, Stored(status').jobs[j] = "complete"
        PROVE  jobs[k][j].state \in {"complete", "none"}
    <3>1. CASE Stored(status).jobs[j] = "complete"
      BY <2>1, <2>2, <3>1 DEF SafeJobs
    <3>2. ASSUME rec.pc = "record", Stored(status).jobs[j] # "complete",
                 NEW live \in {LiveJobs(rec.before), rec.before.jobs},
                 Stored(status') = MergePatch(Stored(status), rec.before, Recorded(live))
          PROVE  jobs[k][j].state \in {"complete", "none"}
      <4>1. rec.before = Stored(status)
        BY <2>2, <3>2 DEF VolumeInv, FreshRead
      <4>2. Cached(jobs)[j].state = "complete"
        BY <1>0, <2>2, <3>2, <4>1, PatchLeaves
      <4>3. <<jobs[1], jobs[k]>> \in KeepsComplete
        BY DEF VolumeInv, SafeRecords, Ordered, Streams
      <4> QED BY <4>2, <4>3 DEF Cached, KeepsComplete
    <3> QED BY <1>0, <2>2, <3>1, <3>2, StatusMoves
  <2> QED BY <1>1, <2>1, <2>2 DEF SafeJobs
<1>8. Stored(jobs') \in SafeJobs'
  <2>1. ASSUME NEW j \in Steps, Stored(jobs')[j].state = "complete" PROVE Safe(j)'
    BY <2>1 DEF Safe
  <2>2. ASSUME NEW j \in Steps, StatusLag = 1, Stored(status').jobs[j] = "complete"
        PROVE  Stored(jobs')[j].state \in {"complete", "none"}
    <3>1. Stored(jobs)[j].state \in {"complete", "none"}
      <4>1. Len(jobs) \in 1..Len(jobs)
        BY <1>0 DEF TypeOK, Streams
      <4> QED BY <1>7, <2>2, <4>1 DEF Stored, SafeJobs
    <3>2. ~Made(j, Stored(jobs)[j], Stored(jobs')[j])
      <4> SUFFICES ASSUME Made(j, Stored(jobs)[j], Stored(jobs')[j]) PROVE FALSE
        OBVIOUS
      <4>1. rec.pc # "idle"
        BY DEF Made, CreateJob, Current
      <4>2. Safe(j)
        BY <2>2, <4>1, RecordedIsSafe, SafeEnds
      <4> QED BY <4>2, SafeNotMade
    <3> QED BY <1>0, <3>1, <3>2, JobMoves, IdleRestoreType DEF Ended, Removed
  <2> QED BY <1>3, <2>1, <2>2 DEF SafeJobs
<1>9. jobs' \in Streams(SafeJobs, ObjectLag)'
  <2> DEFINE S == SafeJobs'
  <2>1. jobs \in Seq(S) /\ Len(jobs) \in 1..ObjectLag
    <3>1. /\ jobs \in Seq([Steps -> Job]) /\ Len(jobs) \in 1..ObjectLag
          /\ \A k \in 1..Len(jobs) : jobs[k] \in S
      BY <1>0, <1>7 DEF TypeOK, Streams
    <3> HIDE DEF S
    <3> QED BY <3>1
  <2>2. jobs \in Streams(S, ObjectLag) /\ Stored(jobs') \in S
    BY <1>8, <2>1 DEF Streams
  <2> HIDE DEF S
  <2>3. jobs' \in Streams(S, ObjectLag)
    BY <1>0, <2>2, JobVersionsIn
  <2> QED BY <2>3 DEF S
<1>10. Ordered(jobs', KeepsComplete)
  <2>1. <<Stored(jobs'), Stored(jobs')>> \in KeepsComplete
    BY <1>3 DEF KeepsComplete
  <2>2. ASSUME NEW i \in 1..Len(jobs) PROVE <<jobs[i], Stored(jobs')>> \in KeepsComplete
    <3>1. ASSUME NEW j \in Steps, jobs[i][j].state = "complete"
          PROVE  Stored(jobs')[j].state \in {"complete", "none"}
      <4>1. Len(jobs) \in 1..Len(jobs) /\ i <= Len(jobs)
        BY <1>0 DEF TypeOK, Streams
      <4>2. <<jobs[i], jobs[Len(jobs)]>> \in KeepsComplete
        BY <4>1 DEF VolumeInv, SafeRecords, Ordered
      <4>3. Stored(jobs)[j].state \in {"complete", "none"}
        BY <3>1, <4>2 DEF Stored, KeepsComplete
      <4>4. ~Made(j, Stored(jobs)[j], Stored(jobs')[j])
        <5> SUFFICES ASSUME Made(j, Stored(jobs)[j], Stored(jobs')[j]) PROVE FALSE
          OBVIOUS
        <5>1. rec.pc # "idle"
          BY DEF Made, CreateJob, Current
        <5>2. Safe(j)
          BY <3>1, <5>1, SafeEnds DEF SafeJobs
        <5> QED BY <5>2, SafeNotMade
      <4> QED BY <1>0, <4>3, <4>4, JobMoves, IdleRestoreType DEF Ended, Removed
    <3>2. jobs[i] \in [Steps -> Job]
      BY SafeEnds
    <3> QED BY <1>3, <3>1, <3>2 DEF KeepsComplete
  <2>3. Ordered(jobs, KeepsComplete)
    BY DEF VolumeInv, SafeRecords
  <2> DEFINE R == KeepsComplete
  <2>4. Ordered(jobs, R) /\ <<Stored(jobs'), Stored(jobs')>> \in R
        /\ \A i \in 1..Len(jobs) : <<jobs[i], Stored(jobs')>> \in R
    BY <2>1, <2>2, <2>3
  <2> HIDE DEF R
  <2>5. Ordered(jobs', R)
    BY <1>0, <2>4, JobVersionsOrdered
  <2> QED BY <2>5 DEF R
<1>11. KeepsComplete' = KeepsComplete
  BY DEF KeepsComplete
<1> QED BY <1>5, <1>6, <1>9, <1>10, <1>11 DEF SafeRecords

\* A Reconcile keeps working on what is stored.
LEMMA FreshReadStep == ASSUME TypeOK, FreshRead, [Next]_vars PROVE FreshRead'
<1> SUFFICES ASSUME StatusLag = 1, rec'.pc # "idle"
             PROVE  rec'.before = Stored(status') /\ Stored(status').phase \notin Terminal
  BY DEF FreshRead
<1>0. Cached(status) = Stored(status)
  BY FreshStatus
<1>1. Stored(status') = Stored(status)
  BY StatusMoves, IdleRestoreType
<1>2. CASE Begin /\ rec'.before = Cached(status)
  BY <1>0, <1>1, <1>2 DEF Begin
<1>3. CASE rec.pc # "idle" /\ rec'.before = rec.before
  BY <1>1, <1>3 DEF FreshRead
<1>4. \A j \in Steps : Current(j) => rec.pc # "idle"
  BY DEF Current
<1> QED BY <1>2, <1>3, <1>4, RecSteps, EndsWith, WalksWith, IdleRestoreType

\* The walk passes a volume Job only when it is safe.
LEMMA PassedStep ==
    ASSUME JobsKept, PlacementFixed, VolumeInv, [Next]_vars PROVE PassedAreSafe'
<1> SUFFICES ASSUME rec'.pc = "volumes",
                    NEW n \in Nodes, (Groups')[n] # {}, rec'.groups[n] = {}
             PROVE  Safe(n)'
  BY DEF PassedAreSafe
<1> USE RestoreConstants
<1>0. TypeOK /\ PlaceInv
  BY SafeEnds
<1>1. ~Over'
  <2>1. FreshRead'
    BY <1>0, FreshReadStep DEF VolumeInv
  <2> QED BY <2>1 DEF FreshRead, Over
<1>2. Safe(n) => Safe(n)'
  BY <1>1, SafeStays
<1>3. ASSUME rec.pc = "volumes", rec.groups[n] = {} PROVE Safe(n)'
  <2>1. Groups' = Groups
    BY <1>0, <1>3, PlacementStays DEF PlaceInv
  <2> QED BY <1>2, <1>3, <2>1 DEF VolumeInv, PassedAreSafe
<1>4. CASE rec' = rec
  BY <1>3, <1>4
<1>5. CASE PlanVolumes /\ rec'.groups = Groups
  <2>1. Groups' = Groups
    BY <1>0, <1>5, PlacementStays DEF PlanVolumes
  <2> QED BY <1>5, <2>1
<1>6. ASSUME NEW m \in Nodes, PassJob(m), rec.pc = "volumes",
             rec'.groups = [rec.groups EXCEPT ![m] = {}]
      PROVE  Safe(n)'
  <2>1. CASE n = m
    <3>1. JobDone(n) /\ rec.before \in SafeStatus
      BY <1>6, <2>1 DEF PassJob, VolumeInv, SafeRecords
    <3>2. Safe(n) \/ Over
      BY <3>1, SafeEnds DEF JobDone, FoundState, SafeStatus, SafeJobs
    <3> QED BY <1>2, <1>6, <3>2, SafeEnds
  <2>2. CASE n # m
    <3>1. rec.groups \in [Nodes -> SUBSET Volumes]
      BY <1>0 DEF TypeOK, Rec
    <3> QED BY <1>3, <1>6, <2>2, <3>1
  <2> QED BY <2>1, <2>2
<1> QED BY <1>0, <1>4, <1>5, <1>6, RecSteps, EndsWith, WalksWith, IdleRestoreType

\* What a step can take from a volume: only a running Job of its own node does.
LEMMA VolumeEmptied ==
    ASSUME TypeOK, PlaceInv, [Next]_vars,
           NEW v \in Volumes, data[v] = "full", data'[v] # "full"
    PROVE  \E m \in Nodes : v \in Groups[m] /\ Stored(jobs)[m].state = "active"
<1>1. data \in [Volumes -> {"empty", "full"}]
  BY DEF TypeOK
<1>2. ASSUME NEW m \in Nodes, Mounted(m) \/ Breakable(m), v \in Stored(jobs)[m].volumes
      PROVE  \E k \in Nodes : v \in Groups[k] /\ Stored(jobs)[k].state = "active"
  BY <1>2 DEF Mounted, Breakable, Started, PlaceInv
<1>3. ASSUME NEW j \in Steps, AgentEnds(j)
      PROVE  \E k \in Nodes : v \in Groups[k] /\ Stored(jobs)[k].state = "active"
  <2>1. CASE \/ FetchSucceeds \/ FetchFails \/ ApplySucceeds(j) \/ ApplyFails(j)
    BY <2>1 DEF FetchSucceeds, FetchFails, ApplySucceeds, ApplyFails
  <2>2. CASE j \in Nodes /\ VolumesSucceed(j)
    BY <1>1, <2>2 DEF VolumesSucceed
  <2>3. CASE j \in Nodes /\ VolumesFail(j)
    BY <1>1, <1>2, <2>3 DEF VolumesFail
  <2> QED BY <1>3, <2>1, <2>2, <2>3 DEF AgentEnds
<1>4. ASSUME NEW n \in Nodes, NEW w \in Volumes, EmptyVolume(n, w)
      PROVE  \E k \in Nodes : v \in Groups[k] /\ Stored(jobs)[k].state = "active"
  BY <1>1, <1>2, <1>4 DEF EmptyVolume
<1> QED BY <1>3, <1>4, DataSteps

\* Safe volumes stay full.
LEMMA SafeAreFullStep ==
    ASSUME JobsKept, PlacementFixed, VolumeInv, [Next]_vars PROVE SafeAreFull'
<1> SUFFICES ASSUME NEW n \in Nodes, Safe(n)'
             PROVE  Placeable' /\ \A v \in (Groups')[n] : data'[v] = "full"
  BY DEF SafeAreFull
<1> USE RestoreConstants
<1>0. TypeOK /\ PlaceInv
  BY SafeEnds
<1>1. ASSUME Safe(n) PROVE Placeable' /\ \A v \in (Groups')[n] : data'[v] = "full"
  <2>1. Placeable /\ \A v \in Groups[n] : data[v] = "full"
    BY <1>1 DEF VolumeInv, SafeAreFull
  <2>2. Placeable' /\ Groups' = Groups
    BY <1>0, <2>1, PlacementStays
  <2>3. ASSUME NEW v \in Groups[n], data'[v] # "full" PROVE FALSE
    <3>1. v \in Volumes
      BY DEF Groups
    <3>2. PICK m \in Nodes : v \in Groups[m] /\ Stored(jobs)[m].state = "active"
      BY <1>0, <2>1, <2>3, <3>1, VolumeEmptied
    <3>3. m = n
      BY <1>0, <3>1, <3>2, OneNode
    <3> QED BY <1>1, <3>2, <3>3, SafeEnds
  <2> QED BY <2>2, <2>3
<1>2. ASSUME ~Safe(n), Stored(jobs')[n].state = "complete"
      PROVE  Placeable' /\ \A v \in (Groups')[n] : data'[v] = "full"
  <2>1. Ended(n, Stored(jobs)[n], Stored(jobs')[n])
    BY <1>0, <1>2, JobMoves, IdleRestoreType DEF Safe, Made, Removed
  <2>2. Placeable /\ Stored(jobs)[n].volumes = Groups[n]
    BY <1>0, <2>1 DEF Ended, PlaceInv
  <2>3. data' = [v \in Volumes |-> IF v \in Groups[n] THEN "full" ELSE data[v]]
    BY <1>2, <2>1, <2>2 DEF Ended
  <2>4. Placeable' /\ Groups' = Groups
    BY <1>0, <2>2, PlacementStays
  <2>5. Groups[n] \subseteq Volumes
    BY DEF Groups
  <2> QED BY <2>3, <2>4, <2>5
<1>3. ASSUME StatusLag = 1, Stored(status').jobs[n] = "complete" PROVE Safe(n)
  <2>1. CASE Stored(status') = Stored(status)
    BY <1>3, <2>1 DEF Safe
  <2>2. CASE rec.pc = "record"
    BY <1>3, <2>2, RecordedIsSafe, SafeEnds
  <2> QED BY <1>0, <2>1, <2>2, StatusMoves
<1> QED BY <1>1, <1>2, <1>3 DEF Safe

\* Every volume that can be placed is in the group of a node.
LEMMA VolumeHasGroup ==
    ASSUME TypeOK, Placeable, NEW v \in Volumes
    PROVE  \E n \in Nodes : v \in Groups[n]
<1>1. NodeFor(v) # {} /\ NodeFor(v) \subseteq Nodes
  BY RestoreConstants DEF Placeable, NodeFor, First, TypeOK, World
<1> QED BY <1>1 DEF Groups

\* The workload Job comes after the volumes, and no volume Job after it.
LEMMA WorkloadStep ==
    ASSUME JobsKept, PlacementFixed, VolumeInv, [Next]_vars PROVE FullUnderWorkload'
<1> SUFFICES ASSUME WorkloadStarted'
             PROVE  /\ Placeable'
                    /\ \A v \in Volumes : data'[v] = "full"
                    /\ \A n \in Nodes : Stored(jobs')[n].state # "active"
                    /\ Over' \/ \A n \in Nodes : (Groups')[n] # {} => Safe(n)'
  BY DEF FullUnderWorkload
<1> USE RestoreConstants
<1>0. TypeOK /\ PlaceInv
  BY SafeEnds
<1>1. CASE WorkloadStarted
  <2>1. /\ Placeable
        /\ \A v \in Volumes : data[v] = "full"
        /\ \A n \in Nodes : Stored(jobs)[n].state # "active"
        /\ Over \/ \A n \in Nodes : Groups[n] # {} => Safe(n)
    BY <1>1 DEF VolumeInv, FullUnderWorkload
  <2>2. Placeable' /\ Groups' = Groups
    BY <1>0, <2>1, PlacementStays
  <2>3. \A v \in Volumes : data'[v] = "full"
    BY <1>0, <2>1, VolumeEmptied
  <2>4. ASSUME NEW n \in Nodes, Stored(jobs')[n].state = "active" PROVE FALSE
    <3>1. Made(n, Stored(jobs)[n], Stored(jobs')[n])
      BY <1>0, <2>1, <2>4, JobMoves, IdleRestoreType DEF Ended, Removed
    <3>2. rec.pc = "volumes" /\ rec.groups[n] # {}
      BY <3>1 DEF Made, CreateJob, Current, First, Pending
    <3>3. Groups[n] # {}
      BY <1>0, <3>2 DEF PlaceInv
    <3>4. Safe(n)
      BY <2>1, <3>2, <3>3, SafeEnds
    <3> QED BY <3>1, <3>4, SafeNotMade
  <2>5. Over' \/ \A n \in Nodes : Groups[n] # {} => Safe(n)'
    BY <2>1, SafeStays
  <2> QED BY <2>2, <2>3, <2>4, <2>5
<1>2. CASE ~WorkloadStarted
  <2>1. Stored(jobs')[Workload].state # "none" /\ Stored(jobs)[Workload].state = "none"
    BY <1>2, AppliedGrows DEF WorkloadStarted
  <2>2. CreateJob(Workload)
    BY <1>0, <2>1, JobMoves, IdleRestoreType DEF Made, Ended, Removed
  <2>3. rec.pc = "volumes" /\ \A n \in Nodes : rec.groups[n] = {}
    BY <2>2 DEF CreateJob, Current, First, Pending
  <2>4. Placeable /\ \A n \in Nodes : Groups[n] # {} => Safe(n)
    BY <1>0, <2>3 DEF PlaceInv, VolumeInv, PassedAreSafe
  <2>5. Placeable' /\ Groups' = Groups
    BY <1>0, <2>4, PlacementStays
  <2>6. ASSUME NEW v \in Volumes PROVE data'[v] = "full"
    <3>1. data' = data
      BY <2>2 DEF CreateJob
    <3>2. PICK n \in Nodes : v \in Groups[n]
      BY <1>0, <2>4, VolumeHasGroup
    <3> QED BY <2>4, <3>1, <3>2 DEF VolumeInv, SafeAreFull
  <2>7. ASSUME NEW n \in Nodes, Stored(jobs')[n].state = "active" PROVE FALSE
    <3>1. ~CreateJob(n)
      BY <2>3 DEF CreateJob, Current, First, Pending
    <3>2. Stored(jobs)[n].state = "active"
      BY <1>0, <2>7, <3>1, JobMoves, IdleRestoreType DEF Made, Ended, Removed
    <3>3. Groups[n] # {}
      BY <1>0, <3>2 DEF PlaceInv
    <3> QED BY <2>4, <3>2, <3>3, SafeEnds
  <2>8. Over' \/ \A n \in Nodes : Groups[n] # {} => Safe(n)'
    BY <2>4, SafeStays
  <2> QED BY <2>5, <2>6, <2>7, <2>8
<1> QED BY <1>1, <1>2

LEMMA InitVolume == Init => VolumeInv
<1> SUFFICES ASSUME Init PROVE VolumeInv
  OBVIOUS
<1> USE RestoreConstants
<1>1. NewStatus \in SafeStatus
  BY IdleRestoreType DEF SafeStatus
<1>2. status \in Streams(SafeStatus, StatusLag)
  BY <1>1, ListedStream DEF Init
<1> DEFINE w == [j \in Steps |-> NoJob]
<1>3. w \in SafeJobs /\ <<w, w>> \in KeepsComplete
  BY IdleRestoreType DEF SafeJobs, KeepsComplete
<1>4. jobs = Listed(w)
  BY DEF Init
<1>5. \A j \in Steps : Stored(jobs)[j].state = "none"
  BY InitRestore, IdleRestoreType
<1> HIDE DEF w
<1>6. jobs \in Streams(SafeJobs, ObjectLag) /\ Ordered(jobs, KeepsComplete)
  <2>1. Len(jobs) = 1 /\ jobs[1] = w
    BY <1>4 DEF Listed
  <2> QED BY <1>3, <1>4, <2>1, ListedStream DEF Ordered
<1>7. rec = Idle /\ applied = {}
  BY DEF Init
<1>8. SafeRecords
  BY <1>1, <1>2, <1>6, <1>7, IdleRestoreType DEF SafeRecords
<1>9. \A j \in Steps : ~Safe(j)
  BY <1>5, InitRestore, IdleRestoreType DEF Safe
<1>10. FreshRead /\ PassedAreSafe /\ SafeAreFull /\ FullUnderWorkload
  BY <1>5, <1>7, <1>9, IdleRestoreType DEF FreshRead, PassedAreSafe, SafeAreFull, FullUnderWorkload, WorkloadStarted
<1> QED BY <1>8, <1>10, InitPlace, InitApply DEF VolumeInv

LEMMA VolumeInductive ==
    ASSUME JobsKept, PlacementFixed PROVE VolumeInv /\ [Next]_vars => VolumeInv'
<1> SUFFICES ASSUME VolumeInv, [Next]_vars PROVE VolumeInv'
  OBVIOUS
<1>1. PlaceInv' /\ ApplyInv'
  BY PlaceInductive, ApplyInductive DEF VolumeInv
<1>2. SafeRecords' /\ FreshRead'
  BY SafeRecordsStep, FreshReadStep, SafeEnds DEF VolumeInv
<1>3. PassedAreSafe' /\ SafeAreFull' /\ FullUnderWorkload'
  BY PassedStep, SafeAreFullStep, WorkloadStep
<1> QED BY <1>1, <1>2, <1>3 DEF VolumeInv

\* The workload documents are applied when every volume has its data back, and no
\* volume Job empties one afterwards: for every lag as long as no Job is removed,
\* and under the TTL controller for a status that is read fresh.
THEOREM WorkloadAfterVolumes ==
    JobsKept /\ PlacementFixed => (Spec => []WorkloadOnFullVolumes)
<1> SUFFICES ASSUME JobsKept, PlacementFixed PROVE Spec => []WorkloadOnFullVolumes
  OBVIOUS
<1>1. VolumeInv => WorkloadOnFullVolumes
  BY DEF VolumeInv, FullUnderWorkload, WorkloadStarted, WorkloadOnFullVolumes
<1>2. VolumeInv /\ [Next]_vars => VolumeInv'
  BY VolumeInductive
<1> QED BY <1>1, <1>2, InitVolume, PTL DEF Spec

-----------------------------------------------------------------------------
(* Completed, when Jobs go away before they are recorded.                  *)

\* The status is read fresh, and Jobs go away only where the cache can tell: nobody
\* deletes one by hand, or the cache is at most two writes behind and cannot pass
\* over the whole life of a Job.
RemovalsSeen == StatusLag = 1 /\ ("delete" \notin Faults \/ ObjectLag <= 3)

Exists(f, n) == f[n].state # "none"

\* From what the cache shows to what is stored, Job n is made at most once or goes
\* away at most once.
ChangesOnce(s, n) ==
    \A i, k \in 1..Len(s) :
        i <= k /\ ~(Exists(s[i], n) <=> Exists(s[1], n)) => ~(Exists(s[k], n) <=> Exists(s[1], n))

\* A Job that completes has been seen before by whoever sees every version.
NoSudden(s, n) ==
    \A i, k \in 1..Len(s) : k = i + 1 /\ ~Exists(s[i], n) => s[k][n].state # "complete"

LEMMA TailChanges ==
    ASSUME NEW S, NEW s \in Seq(S), Len(s) > 1, NEW n
    PROVE  /\ ChangesOnce(s, n) => ChangesOnce(Tail(s), n)
           /\ NoSudden(s, n) => NoSudden(Tail(s), n)
<1> DEFINE t == Tail(s)
<1>1. /\ Len(t) = Len(s) - 1 /\ Len(s) \in Nat
      /\ \A i \in 1..Len(t) : t[i] = s[i + 1] /\ i + 1 \in 1..Len(s)
  BY HeadTailProperties
<1> HIDE DEF t
<1>2. 1 \in 1..Len(t) /\ 1 \in 1..Len(s) /\ 2 \in 1..Len(s) /\ t[1] = s[2]
  BY <1>1
<1>3. ASSUME ChangesOnce(s, n) PROVE ChangesOnce(t, n)
  <2> SUFFICES ASSUME NEW i \in 1..Len(t), NEW k \in 1..Len(t), i <= k,
                      ~(Exists(t[i], n) <=> Exists(t[1], n))
               PROVE  ~(Exists(t[k], n) <=> Exists(t[1], n))
    BY DEF ChangesOnce
  <2>1. /\ t[i] = s[i + 1] /\ i + 1 \in 1..Len(s) /\ 2 <= i + 1
        /\ t[k] = s[k + 1] /\ k + 1 \in 1..Len(s) /\ i + 1 <= k + 1
    BY <1>1
  <2> QED BY <1>2, <1>3, <2>1 DEF ChangesOnce
<1>4. ASSUME NoSudden(s, n) PROVE NoSudden(t, n)
  <2> SUFFICES ASSUME NEW i \in 1..Len(t), NEW k \in 1..Len(t), k = i + 1, ~Exists(t[i], n)
               PROVE  t[k][n].state # "complete"
    BY DEF NoSudden
  <2>1. /\ t[i] = s[i + 1] /\ i + 1 \in 1..Len(s)
        /\ t[k] = s[k + 1] /\ k + 1 \in 1..Len(s) /\ k + 1 = (i + 1) + 1
    BY <1>1
  <2> QED BY <1>4, <2>1 DEF NoSudden
<1> QED BY <1>3, <1>4 DEF t

\* A version is added: it makes or removes Job n only if the cache has caught up
\* with what is stored of it.
LEMMA AppendChanges ==
    ASSUME NEW S, NEW s \in Seq(S), Len(s) >= 1, NEW v \in S, NEW n
    PROVE  /\ /\ ChangesOnce(s, n)
              /\ \/ Exists(v, n) <=> Exists(Stored(s), n)
                 \/ Exists(Stored(s), n) <=> Exists(Cached(s), n)
              => ChangesOnce(Append(s, v), n)
           /\ /\ NoSudden(s, n)
              /\ ~Exists(Stored(s), n) => v[n].state # "complete"
              => NoSudden(Append(s, v), n)
<1> DEFINE t == Append(s, v)
           l == Len(s)
<1>1. /\ Len(t) = l + 1 /\ t[l + 1] = v /\ \A i \in 1..l : t[i] = s[i]
      /\ l \in Nat /\ 1 <= l
  BY AppendProperties
<1>2. Stored(s) = s[l] /\ Cached(s) = s[1]
  BY DEF Stored, Cached
<1> HIDE DEF t, l
<1>3. \A i \in 1..Len(t) : i = l + 1 \/ i \in 1..l
  BY <1>1
<1>4. 1 \in 1..l /\ l \in 1..l /\ 1 \in 1..Len(t) /\ t[1] = s[1] /\ l + 1 \notin 1..l
  BY <1>1
<1>5. ASSUME ChangesOnce(s, n),
             \/ Exists(v, n) <=> Exists(Stored(s), n)
             \/ Exists(Stored(s), n) <=> Exists(Cached(s), n)
      PROVE  ChangesOnce(t, n)
  <2> SUFFICES ASSUME NEW i \in 1..Len(t), NEW k \in 1..Len(t), i <= k,
                      ~(Exists(t[i], n) <=> Exists(t[1], n))
               PROVE  ~(Exists(t[k], n) <=> Exists(t[1], n))
    BY DEF ChangesOnce
  <2>1. CASE k \in 1..l
    <3>1. i \in 1..l /\ t[i] = s[i] /\ t[k] = s[k]
      BY <1>1, <2>1
    <3> QED BY <1>4, <1>5, <2>1, <3>1 DEF ChangesOnce, l
  <2>2. CASE k = l + 1 /\ i = l + 1
    BY <2>2
  <2>3. CASE k = l + 1 /\ i \in 1..l
    <3>1. t[i] = s[i] /\ t[k] = v /\ i <= l
      BY <1>1, <2>3
    <3>2. ~(Exists(s[l], n) <=> Exists(s[1], n))
      BY <1>4, <1>5, <2>3, <3>1 DEF ChangesOnce, l
    <3> QED BY <1>2, <1>4, <1>5, <3>1, <3>2
  <2> QED BY <1>3, <2>1, <2>2, <2>3
<1>6. ASSUME NoSudden(s, n), ~Exists(Stored(s), n) => v[n].state # "complete"
      PROVE  NoSudden(t, n)
  <2> SUFFICES ASSUME NEW i \in 1..Len(t), NEW k \in 1..Len(t), k = i + 1, ~Exists(t[i], n)
               PROVE  t[k][n].state # "complete"
    BY DEF NoSudden
  <2>1. CASE k \in 1..l
    <3>1. i \in 1..l /\ t[i] = s[i] /\ t[k] = s[k]
      BY <1>1, <2>1
    <3> QED BY <1>6, <2>1, <3>1 DEF NoSudden, l
  <2>2. CASE k = l + 1
    <3>1. i = l /\ t[i] = s[l] /\ t[k] = v
      BY <1>1, <1>4, <2>2
    <3> QED BY <1>2, <1>6, <3>1
  <2> QED BY <1>3, <2>1, <2>2
<1> QED BY <1>5, <1>6 DEF t

\* A stream of a single version.
LEMMA SingleChanges ==
    ASSUME NEW s, Len(s) = 1, NEW n
    PROVE  ChangesOnce(s, n) /\ NoSudden(s, n)
BY DEF ChangesOnce, NoSudden

\* Both survive every step of a cache, and every write under the same conditions.
LEMMA WriteChanges ==
    ASSUME NEW S, NEW lag \in Nat \ {0}, NEW s \in Streams(S, lag), NEW v \in S, NEW n
    PROVE  /\ /\ ChangesOnce(s, n)
              /\ \/ Exists(v, n) <=> Exists(Stored(s), n)
                 \/ Exists(Stored(s), n) <=> Exists(Cached(s), n)
              => ChangesOnce(Write(s, v, lag), n)
           /\ /\ NoSudden(s, n)
              /\ ~Exists(Stored(s), n) => v[n].state # "complete"
              => NoSudden(Write(s, v, lag), n)
<1>0. s \in Seq(S) /\ Len(s) \in 1..lag
  BY DEF Streams
<1>1. CASE v = Stored(s)
  BY <1>1 DEF Write
<1>2. CASE v # Stored(s) /\ Len(s) < lag
  <2>1. Write(s, v, lag) = Append(s, v)
    BY <1>2 DEF Write
  <2> QED BY <1>0, <2>1, AppendChanges
<1>3. CASE v # Stored(s) /\ Len(s) >= lag
  <2>1. Write(s, v, lag) = Append(Tail(s), v)
    BY <1>3 DEF Write
  <2>2. /\ Tail(s) \in Seq(S) /\ Len(Tail(s)) = Len(s) - 1
        /\ \A i \in 1..Len(Tail(s)) : Tail(s)[i] = s[i + 1]
    BY <1>0, HeadTailProperties
  <2>3. CASE Len(s) = 1
    <3>1. Len(Append(Tail(s), v)) = 1
      BY <2>2, <2>3, AppendProperties
    <3> QED BY <2>1, <3>1, SingleChanges
  <2>4. CASE Len(s) > 1
    <3> DEFINE t == Tail(s)
    <3>1. Stored(t) = Stored(s) /\ Cached(t) = s[2] /\ Len(t) >= 1 /\ t \in Seq(S)
      BY <1>0, <2>2, <2>4 DEF Stored, Cached
    <3>2. 1 \in 1..Len(s) /\ 2 \in 1..Len(s) /\ Len(s) \in 1..Len(s) /\ 2 <= Len(s)
      BY <1>0, <2>4
    <3>3. ChangesOnce(s, n) /\ (Exists(Stored(s), n) <=> Exists(Cached(s), n))
          => (Exists(Stored(t), n) <=> Exists(Cached(t), n))
      BY <3>1, <3>2 DEF ChangesOnce, Stored, Cached
    <3>4. /\ ChangesOnce(s, n) => ChangesOnce(t, n)
          /\ NoSudden(s, n) => NoSudden(t, n)
      BY <1>0, <2>4, TailChanges
    <3>5. Write(s, v, lag) = Append(t, v)
      BY <2>1
    <3> HIDE DEF t
    <3> QED BY <3>1, <3>3, <3>4, <3>5, AppendChanges
  <2>5. \A l \in 1..lag : l = 1 \/ l > 1
    OBVIOUS
  <2> QED BY <1>0, <2>3, <2>4, <2>5
<1>4. Len(s) < lag \/ Len(s) >= lag
  BY <1>0
<1> QED BY <1>1, <1>2, <1>3, <1>4

LEMMA MoveChanges ==
    ASSUME NEW S, NEW lag \in Nat \ {0}, NEW s \in Streams(S, lag), NEW t, CacheMove(s, t), NEW n
    PROVE  /\ ChangesOnce(s, n) => ChangesOnce(t, n)
           /\ NoSudden(s, n) => NoSudden(t, n)
<1>0. s \in Seq(S)
  BY DEF Streams
<1>1. CASE Stale(s) /\ t = Deliver(s)
  BY <1>0, <1>1, TailChanges DEF Stale, Deliver
<1>2. CASE t = Listed(Stored(s))
  <2>1. Len(t) = 1
    BY <1>2 DEF Listed
  <2> QED BY <2>1, SingleChanges
<1> QED BY <1>1, <1>2 DEF CacheMove

\* The agent of node n is not at work and its volumes have their data.
Filled(n) ==
    /\ Placeable /\ Stored(jobs)[n].state # "active"
    /\ \A v \in Groups[n] : data[v] = "full"

FilledJobs == {f \in [Steps -> Job] : \A n \in Nodes : f[n].state = "complete" => Filled(n)}

\* What any version of a volume Job, and the status, say is complete is filled.
LivesSeen ==
    \A n \in Nodes : /\ "delete" \notin Faults => ChangesOnce(jobs, n)
                     /\ NoSudden(jobs, n)
SeenAreFilled ==
    /\ jobs \in Streams(FilledJobs, ObjectLag)
    /\ \A n \in Nodes : Stored(status).jobs[n] = "complete" => Filled(n)

\* So is what the walk has passed, and everything once a Reconcile is about to say
\* Completed.
PassedAreFilled ==
    rec.pc = "volumes" => \A n \in Nodes : Groups[n] # {} /\ rec.groups[n] = {} => Filled(n)
CompletedAreFilled ==
    Stored(status).phase = "Completed" \/ (rec.pc = "record" /\ rec.phase = "Completed")
        => Placeable /\ \A n \in Nodes : Groups[n] # {} => Filled(n)

CompletedInv ==
    /\ PlaceInv /\ FreshRead /\ LivesSeen
    /\ SeenAreFilled /\ PassedAreFilled /\ CompletedAreFilled

\* The cache can follow every Job.
LEMMA LivesStep ==
    ASSUME TypeOK, LivesSeen, [Next]_vars
    PROVE  LivesSeen'
<1> SUFFICES ASSUME NEW n \in Nodes
             PROVE  /\ "delete" \notin Faults => ChangesOnce(jobs', n)
                    /\ NoSudden(jobs', n)
  BY DEF LivesSeen
<1> USE RestoreConstants
<1> DEFINE T == [Steps -> Job]
           new == Stored(jobs')
           old == Stored(jobs)
<1>0. n \in Steps
  BY DEF Steps
<1>1. jobs \in Streams(T, ObjectLag) /\ new \in T
  BY JobMoves, StreamElements DEF TypeOK
<1>2. ("delete" \notin Faults => ChangesOnce(jobs, n)) /\ NoSudden(jobs, n)
  BY DEF LivesSeen
<1>3. CASE Len(jobs') = 1
  BY <1>3, SingleChanges
<1>4. CASE CacheMove(jobs, jobs')
  <2> HIDE DEF T
  <2> QED BY <1>1, <1>2, <1>4, MoveChanges
<1>5. CASE jobs' = Write(jobs, new, ObjectLag) /\ ~Outage
  <2>1. ~Exists(old, n) => new[n].state # "complete"
    BY <1>0, JobMoves, IdleRestoreType DEF Exists, Made, Ended, Removed
  <2>2. ASSUME "delete" \notin Faults
        PROVE  \/ Exists(new, n) <=> Exists(old, n)
               \/ Exists(old, n) <=> Exists(Cached(jobs), n)
    <3>1. CASE new[n] = old[n]
      BY <3>1 DEF Exists
    <3>2. CASE Made(n, old[n], new[n])
      BY <3>2 DEF Made, CreateJob, FoundState, Exists
    <3>3. CASE Ended(n, old[n], new[n])
      BY <3>3 DEF Ended, Exists
    <3>4. CASE Removed(n, old[n], new[n])
      BY <1>5, <2>2, <3>4 DEF Removed, DeleteJob, Fault, Reaped, ReapJob,
         ReapUnrecorded, Exists
    <3> QED BY <1>0, <3>1, <3>2, <3>3, <3>4, JobMoves
  <2> HIDE DEF T, new, old
  <2>3. old = Stored(jobs)
    BY DEF old
  <2> QED BY <1>1, <1>2, <1>5, <2>1, <2>2, <2>3, WriteChanges
<1>6. Outage \/ jobs' = Listed(new) => Len(jobs') = 1
  BY DEF Outage, Restart, Listed
<1> QED BY <1>3, <1>4, <1>5, <1>6, JobVersions

\* A volume Job is made only while no version says that it is complete.
LEMMA MadeIsUnseen ==
    ASSUME RemovalsSeen, TypeOK, LivesSeen, NEW n \in Nodes,
           ~Exists(Cached(jobs), n), ~Exists(Stored(jobs), n), NEW i \in 1..Len(jobs)
    PROVE  jobs[i][n].state # "complete"
<1>1. /\ Len(jobs) \in 1..ObjectLag /\ ObjectLag \in Nat
      /\ Cached(jobs) = jobs[1] /\ Stored(jobs) = jobs[Len(jobs)]
  BY RestoreConstants DEF TypeOK, Streams, Cached, Stored
<1>2. 1 \in 1..Len(jobs) /\ Len(jobs) \in 1..Len(jobs) /\ i <= Len(jobs)
  BY <1>1
<1>3. CASE "delete" \notin Faults
  <2>1. ~Exists(jobs[i], n)
    BY <1>1, <1>2, <1>3 DEF LivesSeen, ChangesOnce
  <2> QED BY <2>1 DEF Exists
<1>4. CASE ObjectLag <= 3
  <2>1. i = 1 \/ i = Len(jobs) \/ i = 1 + 1
    BY <1>1, <1>4
  <2>2. i = 1 + 1 => jobs[i][n].state # "complete"
    BY <1>1, <1>2 DEF LivesSeen, NoSudden
  <2> QED BY <1>1, <2>1, <2>2 DEF Exists
<1> QED BY <1>3, <1>4 DEF RemovalsSeen

\* Filled volumes stay filled until a new Job is made for them.
LEMMA FilledStays ==
    ASSUME PlacementFixed, PlaceInv, [Next]_vars, NEW n \in Nodes, Filled(n),
           ~(CreateJob(n) /\ Stored(jobs)[n].state = "none")
    PROVE  Filled(n)'
<1> USE RestoreConstants
<1>0. TypeOK /\ n \in Steps
  BY DEF PlaceInv, Steps
<1>1. Placeable' /\ Groups' = Groups
  BY <1>0, PlacementStays DEF Filled
<1>2. Stored(jobs')[n].state # "active"
  BY <1>0, JobMoves, IdleRestoreType DEF Filled, Made, Ended, Removed
<1>3. ASSUME NEW v \in Groups[n], data'[v] # "full" PROVE FALSE
  <2>1. v \in Volumes /\ data[v] = "full"
    BY DEF Groups, Filled
  <2>2. PICK m \in Nodes : v \in Groups[m] /\ Stored(jobs)[m].state = "active"
    BY <1>0, <1>3, <2>1, VolumeEmptied
  <2>3. m = n
    BY <1>0, <2>1, <2>2, OneNode
  <2> QED BY <2>2, <2>3 DEF Filled
<1> QED BY <1>1, <1>2, <1>3 DEF Filled

\* A volume Job is not made for volumes that are seen or recorded as filled.
LEMMA SeenNotMade ==
    ASSUME RemovalsSeen, CompletedInv, NEW n \in Nodes, CreateJob(n),
           Stored(jobs)[n].state = "none"
    PROVE  /\ Stored(status).jobs[n] # "complete"
           /\ \A i \in 1..Len(jobs) : jobs[i][n].state # "complete"
<1>0. TypeOK
  BY DEF CompletedInv, PlaceInv
<1>1. Current(n) /\ FoundState(n) = "none" /\ rec.before.jobs[n] = "none"
  BY DEF CreateJob
<1>2. rec.before = Stored(status)
  BY <1>1 DEF Current, CompletedInv, FreshRead, RemovalsSeen
<1>3. ~Exists(Cached(jobs), n) /\ ~Exists(Stored(jobs), n)
  BY <1>1 DEF FoundState, Exists
<1> QED BY <1>0, <1>1, <1>2, <1>3, MadeIsUnseen DEF CompletedInv

LEMMA SeenStep ==
    ASSUME RemovalsSeen, PlacementFixed, CompletedInv, [Next]_vars
    PROVE  SeenAreFilled'
<1> USE RestoreConstants
<1>0. TypeOK /\ TypeOK' /\ PlaceInv /\ Nodes \subseteq Steps
  BY RestoreTypeStep DEF CompletedInv, PlaceInv, Steps
<1>1. /\ jobs \in Streams(FilledJobs, ObjectLag) /\ Cached(jobs) \in FilledJobs
      /\ Stored(jobs) \in FilledJobs /\ Stored(jobs') \in [Steps -> Job]
      /\ \A i \in 1..Len(jobs) : jobs[i] \in FilledJobs
  BY <1>0, StreamElements DEF CompletedInv, SeenAreFilled, Streams, TypeOK
<1>2. ASSUME NEW n \in Nodes,
             \/ Stored(status).jobs[n] = "complete"
             \/ \E i \in 1..Len(jobs) : jobs[i][n].state = "complete"
      PROVE  Filled(n)'
  <2>1. Filled(n)
    BY <1>1, <1>2 DEF CompletedInv, SeenAreFilled, FilledJobs
  <2>2. ~(CreateJob(n) /\ Stored(jobs)[n].state = "none")
    BY <1>2, SeenNotMade
  <2> QED BY <1>0, <2>1, <2>2, FilledStays
<1>3. 1 \in 1..Len(jobs) /\ Len(jobs) \in 1..Len(jobs)
  BY <1>0 DEF TypeOK, Streams
<1>4. Stored(jobs') \in FilledJobs'
  <2> SUFFICES ASSUME NEW n \in Nodes, Stored(jobs')[n].state = "complete"
               PROVE  Filled(n)'
    BY <1>1 DEF FilledJobs
  <2>1. CASE Stored(jobs')[n] = Stored(jobs)[n]
    BY <1>2, <1>3, <2>1 DEF Stored
  <2>2. CASE Ended(n, Stored(jobs)[n], Stored(jobs')[n])
    <3>1. Placeable /\ Stored(jobs)[n].volumes = Groups[n]
      BY <1>0, <2>2 DEF Ended, PlaceInv
    <3>2. data' = [v \in Volumes |-> IF v \in Groups[n] THEN "full" ELSE data[v]]
      BY <2>2, <3>1 DEF Ended
    <3>3. Placeable' /\ Groups' = Groups
      BY <1>0, <3>1, PlacementStays
    <3>4. Groups[n] \subseteq Volumes
      BY DEF Groups
    <3> QED BY <3>2, <3>3, <3>4 DEF Filled
  <2> QED BY <1>0, <2>1, <2>2, JobMoves, IdleRestoreType DEF Made, Removed
<1>5. jobs' \in Streams(FilledJobs, ObjectLag)'
  <2> DEFINE S == FilledJobs'
  <2>1. \A i \in 1..Len(jobs) : jobs[i] \in S
    BY <1>1, <1>2 DEF FilledJobs
  <2>2. /\ jobs \in Seq([Steps -> Job]) /\ Len(jobs) \in 1..ObjectLag
        /\ Stored(jobs') \in S
    BY <1>0, <1>4 DEF TypeOK, Streams
  <2> HIDE DEF S
  <2>3. jobs \in Seq(S)
    BY <2>1, <2>2
  <2>4. jobs \in Streams(S, ObjectLag)
    BY <2>2, <2>3 DEF Streams
  <2>5. jobs' \in Streams(S, ObjectLag)
    BY <1>0, <2>2, <2>4, JobVersionsIn
  <2> QED BY <2>5 DEF S
<1>6. ASSUME NEW n \in Nodes, Stored(status').jobs[n] = "complete" PROVE Filled(n)'
  <2>1. CASE Stored(status') = Stored(status)
    BY <1>2, <1>6, <2>1
  <2>2. ASSUME rec.pc = "record",
               NEW live \in {LiveJobs(rec.before), rec.before.jobs},
               Stored(status') = MergePatch(Stored(status), rec.before, Recorded(live))
        PROVE  Filled(n)'
    <3>1. rec.before = Stored(status)
      BY <2>2 DEF CompletedInv, FreshRead, RemovalsSeen
    <3>2. Stored(status).jobs[n] = "complete" \/ Cached(jobs)[n].state = "complete"
      BY <1>0, <1>6, <2>2, <3>1, PatchLeaves
    <3> QED BY <1>2, <1>3, <3>2 DEF Cached
  <2> QED BY <1>0, <2>1, <2>2, StatusMoves
<1> QED BY <1>5, <1>6 DEF SeenAreFilled

\* The walk passes a volume Job only when its volumes are filled.
LEMMA PassedFilledStep ==
    ASSUME RemovalsSeen, PlacementFixed, CompletedInv, [Next]_vars
    PROVE  PassedAreFilled'
<1> SUFFICES ASSUME rec'.pc = "volumes",
                    NEW n \in Nodes, (Groups')[n] # {}, rec'.groups[n] = {}
             PROVE  Filled(n)'
  BY DEF PassedAreFilled
<1> USE RestoreConstants
<1>0. TypeOK /\ PlaceInv /\ n \in Steps
  BY DEF CompletedInv, PlaceInv, Steps
<1>1. ~CreateJob(n)
  BY DEF CreateJob, Finish, Idle
<1>2. Filled(n) => Filled(n)'
  BY <1>0, <1>1, FilledStays
<1>3. ASSUME rec.pc = "volumes", rec.groups[n] = {} PROVE Filled(n)'
  <2>1. Groups' = Groups
    BY <1>0, <1>3, PlacementStays DEF PlaceInv
  <2> QED BY <1>2, <1>3, <2>1 DEF CompletedInv, PassedAreFilled
<1>4. CASE rec' = rec
  BY <1>3, <1>4
<1>5. CASE PlanVolumes /\ rec'.groups = Groups
  <2>1. Groups' = Groups
    BY <1>0, <1>5, PlacementStays DEF PlanVolumes
  <2> QED BY <1>5, <2>1
<1>6. ASSUME NEW m \in Nodes, PassJob(m), rec.pc = "volumes",
             rec'.groups = [rec.groups EXCEPT ![m] = {}]
      PROVE  Filled(n)'
  <2>1. CASE n = m
    <3>1. JobDone(n) /\ rec.before = Stored(status)
      BY <1>6, <2>1 DEF PassJob, CompletedInv, FreshRead, RemovalsSeen
    <3>2. Cached(jobs) \in FilledJobs
      BY StreamElements DEF CompletedInv, SeenAreFilled
    <3>3. Filled(n)
      BY <3>1, <3>2 DEF JobDone, FoundState, CompletedInv, SeenAreFilled, FilledJobs
    <3> QED BY <1>2, <3>3
  <2>2. CASE n # m
    <3>1. rec.groups \in [Nodes -> SUBSET Volumes]
      BY <1>0 DEF TypeOK, Rec
    <3> QED BY <1>3, <1>6, <2>2, <3>1
  <2> QED BY <2>1, <2>2
<1> QED BY <1>0, <1>4, <1>5, <1>6, RecSteps, EndsWith, WalksWith, IdleRestoreType

\* A Reconcile says Completed when all volumes are filled, and none comes after it.
LEMMA CompletedFilledStep ==
    ASSUME RemovalsSeen, PlacementFixed, CompletedInv, [Next]_vars
    PROVE  CompletedAreFilled'
<1> USE RestoreConstants
<1> DEFINE Says == Stored(status).phase = "Completed"
                   \/ (rec.pc = "record" /\ rec.phase = "Completed")
           All == Placeable /\ \A n \in Nodes : Groups[n] # {} => Filled(n)
<1>0. TypeOK /\ PlaceInv /\ StatusLag = 1 /\ Cached(status) = Stored(status)
  BY FreshStatus DEF CompletedInv, PlaceInv, RemovalsSeen
<1>1. FreshRead
  BY DEF CompletedInv
<1>2. ASSUME All, \A n \in Nodes : ~CreateJob(n) PROVE All'
  <2>1. Placeable' /\ Groups' = Groups
    BY <1>0, <1>2, PlacementStays
  <2> QED BY <1>0, <1>2, <2>1, FilledStays
<1>3. CASE Says
  <2>1. \A n \in Nodes : ~CreateJob(n)
    BY <1>0, <1>1, <1>3 DEF CreateJob, Current, FreshRead, Terminal
  <2> QED BY <1>2, <1>3, <2>1 DEF CompletedInv, CompletedAreFilled
<1>4. CASE CompleteRestore
  <2>1. rec.pc = "volumes" /\ \A n \in Nodes : rec.groups[n] = {}
    BY <1>4, RestoreNodes DEF CompleteRestore, Current, First, Pending, Fetch, Pre, Workload
  <2>2. All
    BY <1>0, <2>1 DEF CompletedInv, PassedAreFilled, PlaceInv
  <2>3. \A n \in Nodes : ~CreateJob(n)
    BY <2>1 DEF CreateJob, Current, First, Pending
  <2> QED BY <1>2, <2>2, <2>3 DEF CompletedAreFilled
<1>5. ASSUME Says', ~Says PROVE CompleteRestore
  <2>1. Stored(status').phase # "Completed"
    <3>1. CASE Stored(status') = Stored(status)
      BY <1>5, <3>1
    <3>2. ASSUME rec.pc = "record",
                 NEW live \in {LiveJobs(rec.before), rec.before.jobs},
                 Stored(status') = MergePatch(Stored(status), rec.before, Recorded(live))
          PROVE  Stored(status').phase # "Completed"
      BY <1>0, <1>5, <3>2, PatchLeaves
    <3> QED BY <1>0, <3>1, <3>2, StatusMoves
  <2>2. rec'.pc = "record" /\ rec'.phase = "Completed" /\ rec' # rec
    BY <1>5, <2>1
  <2>3. \A p \in Phases \ Terminal : HoldPhase(p) # "Completed"
    BY DEF HoldPhase, Terminal
  <2>4. \A j \in Steps : PhaseOf(j) # "Completed"
    BY DEF PhaseOf
  <2>5. Begin => Cached(status).phase \in Phases \ Terminal
    BY <1>0, StreamElements DEF Begin, TypeOK, Status
  <2>6. rec.pc # "idle" => rec.before.phase \in Phases \ Terminal
    BY <1>0, <1>1 DEF FreshRead, TypeOK, Rec, Status
  <2>7. \A j \in Steps : Current(j) => rec.pc # "idle"
    BY DEF Current
  <2>8. ~Walks
    <3> SUFFICES ASSUME Walks PROVE FALSE
      OBVIOUS
    <3> QED BY <1>0, <2>2, WalksWith
  <2> QED BY <1>0, <2>2, <2>3, <2>4, <2>5, <2>6, <2>7, <2>8, RecSteps, EndsWith, IdleRestoreType
<1>6. Says \/ CompleteRestore \/ ~Says'
  BY <1>5
<1> QED BY <1>3, <1>4, <1>6 DEF CompletedAreFilled

LEMMA InitCompleted == Init => CompletedInv
<1> SUFFICES ASSUME Init PROVE CompletedInv
  OBVIOUS
<1> USE RestoreConstants
<1> DEFINE w == [j \in Steps |-> NoJob]
<1>1. w \in FilledJobs
  BY IdleRestoreType DEF FilledJobs, Steps
<1>2. jobs = Listed(w) /\ rec = Idle /\ Nodes \subseteq Steps
  BY DEF Init, Steps
<1> HIDE DEF w
<1>3. jobs \in Streams(FilledJobs, ObjectLag) /\ Len(jobs) = 1
  BY <1>1, <1>2, ListedStream DEF Listed
<1>4. LivesSeen
  BY <1>3, SingleChanges DEF LivesSeen
<1>5. Stored(status) = NewStatus /\ NewStatus.phase = "New"
      /\ \A n \in Nodes : NewStatus.jobs[n] = "none"
  BY <1>2, InitRestore DEF NewStatus, NoJobs
<1> QED BY <1>2, <1>3, <1>4, <1>5, InitPlace, IdleRestoreType DEF CompletedInv, SeenAreFilled,
      PassedAreFilled, CompletedAreFilled, FreshRead

LEMMA CompletedInductive ==
    ASSUME RemovalsSeen, PlacementFixed
    PROVE  CompletedInv /\ [Next]_vars => CompletedInv'
<1> SUFFICES ASSUME CompletedInv, [Next]_vars PROVE CompletedInv'
  OBVIOUS
<1>1. TypeOK /\ PlaceInv /\ FreshRead /\ LivesSeen
  BY DEF CompletedInv, PlaceInv
<1>2. PlaceInv' /\ FreshRead' /\ LivesSeen'
  BY <1>1, PlaceInductive, FreshReadStep, LivesStep
<1> QED BY <1>2, SeenStep, PassedFilledStep, CompletedFilledStep DEF CompletedInv

\* Completed means restored, also if Jobs are gone before they are recorded, in an
\* outage or behind a closed gate, and are made again: the Reconcile that records
\* Completed has walked past volume Jobs that had ended, none of which was made
\* again since.
THEOREM CompletedKeepsPromise ==
    (NothingRemoved \/ RemovalsSeen) /\ PlacementFixed => (Spec => []CompletedIsRestored)
<1> SUFFICES ASSUME NothingRemoved \/ RemovalsSeen, PlacementFixed
             PROVE  Spec => []CompletedIsRestored
  OBVIOUS
<1>1. CASE NothingRemoved
  <2>1. ASSUME WorkloadOnFullVolumes, CompletedIsApplied PROVE CompletedIsRestored
    BY <2>1 DEF WorkloadOnFullVolumes, CompletedIsApplied, CompletedIsRestored
  <2>2. Spec => []WorkloadOnFullVolumes
    BY <1>1, WorkloadAfterVolumes DEF JobsKept
  <2> QED BY <2>1, <2>2, CompletedAppliesBoth, PTL
<1>2. CASE RemovalsSeen
  <2>1. ASSUME CompletedInv, CompletedIsApplied PROVE CompletedIsRestored
    <3> SUFFICES ASSUME Stored(status).phase = "Completed"
                 PROVE  applied = {"pre", "workload"} /\ \A v \in Volumes : data[v] = "full"
      BY DEF CompletedIsRestored
    <3>1. Placeable /\ \A n \in Nodes : Groups[n] # {} => Filled(n)
      BY <2>1 DEF CompletedInv, CompletedAreFilled
    <3>2. ASSUME NEW v \in Volumes PROVE data[v] = "full"
      <4>1. PICK n \in Nodes : v \in Groups[n]
        BY <2>1, <3>1, VolumeHasGroup DEF CompletedInv, PlaceInv
      <4> QED BY <3>1, <4>1 DEF Filled
    <3> QED BY <2>1, <3>2 DEF CompletedIsApplied
  <2>2. CompletedInv /\ [Next]_vars => CompletedInv'
    BY <1>2, CompletedInductive
  <2> QED BY <2>1, <2>2, InitCompleted, CompletedAppliesBoth, PTL DEF Spec
<1> QED BY <1>1, <1>2

-----------------------------------------------------------------------------
(* The order of the phases.                                                *)

\* Jobs among which step j is done, and stays so when the Job is reaped.
DoneJobs(j) ==
    {f \in [Steps -> Job] :
       \/ f[j].state = "complete"
       \/ f[j].state = "none" /\ Stored(status).jobs[j] = "complete"}

\* No version the cache may still show takes step j back.
DoneForGood(j) == jobs \in Streams(DoneJobs(j), ObjectLag)

\* A complete Job goes away only after it was recorded, or after the end.
RecordedBeforeGone ==
    {p \in [Steps -> Job] \X [Steps -> Job] : \A j \in Steps :
       p[1][j].state = "complete" =>
         p[2][j].state = "complete" \/ Stored(status).jobs[j] = "complete" \/ Over}

\* The steps that lie behind a phase, and those that lie behind the walk.
UsedNodes == {n \in Nodes : Groups[n] # {}}
Behind(phase) ==
    IF phase = "RestoringVolumes" THEN {Fetch, Pre}
    ELSE IF phase = "ApplyingWorkloads" THEN {Fetch, Pre} \cup UsedNodes ELSE {}
WalkedPast ==
    CASE rec.pc \in {"manifest", "pre"} -> {Fetch}
      [] rec.pc = "plan" -> {Fetch, Pre}
      [] rec.pc = "volumes" -> {Fetch, Pre} \cup {n \in UsedNodes : rec.groups[n] = {}}
      [] rec.pc = "record" -> Behind(rec.phase)
      [] OTHER -> {}

Forward(now, next) == now = next \/ Rank[now] < Rank[next]

\* While the restore is not over, what lies behind is done for good.
PhaseInv ==
    /\ VolumeInv
    /\ Ordered(jobs, RecordedBeforeGone)
    /\ ~Over => \A j \in Behind(Stored(status).phase) \cup WalkedPast : DoneForGood(j)
    /\ Stored(status).phase = "ApplyingWorkloads" => Placeable
    /\ rec.pc = "record" =>
         /\ Forward(Stored(status).phase, rec.phase)
         /\ rec.phase = "ApplyingWorkloads" => Placeable

\* Only ranks matter: what a Reconcile may record, and what lies behind it.
LEMMA PhaseRanks ==
    /\ \A p \in Phases : p # "Failed" /\ p # "Completed" =>
         Forward(p, "Failed") /\ Forward(p, "Completed") /\ Forward(p, "ApplyingWorkloads")
    /\ \A p \in Phases : Forward(p, HoldPhase(p))
    /\ \A p \in {"New", "StagingAPI"} : Forward(p, "StagingAPI")
    /\ \A p \in {"New", "StagingAPI", "RestoringVolumes"} : Forward(p, "RestoringVolumes")
BY DEF Phases, Terminal, Forward, Rank, HoldPhase

\* What is done for good stays so until the restore is over.
LEMMA DoneStays ==
    ASSUME JobsKept, VolumeInv, [Next]_vars, StatusLag = 1, ~Over',
           NEW j \in Steps, DoneForGood(j)
    PROVE  DoneForGood(j)'
<1> USE RestoreConstants
<1>0. TypeOK /\ TypeOK'
  BY SafeEnds, RestoreTypeStep
<1>1. Stored(status).jobs[j] = "complete" => Stored(status').jobs[j] = "complete"
  BY RecordedStays
<1>2. DoneJobs(j) \subseteq DoneJobs(j)'
  BY <1>1 DEF DoneJobs
<1>3. Stored(jobs) \in DoneJobs(j) /\ Stored(jobs') \in [Steps -> Job]
  BY <1>0, StreamElements DEF DoneForGood, TypeOK
<1>4. Stored(jobs') \in DoneJobs(j)'
  <2>1. Safe(j)
    BY <1>3 DEF DoneJobs, Safe
  <2>2. ~Made(j, Stored(jobs)[j], Stored(jobs')[j])
    BY <2>1, SafeNotMade
  <2>3. CASE Removed(j, Stored(jobs)[j], Stored(jobs')[j])
    <3>1. Safe(j)' /\ Stored(jobs')[j] = NoJob
      BY <2>1, <2>3, SafeStays DEF Removed
    <3>2. Stored(status').jobs[j] = "complete"
      BY <3>1, IdleRestoreType DEF Safe
    <3> QED BY <1>3, <3>1, <3>2, IdleRestoreType DEF DoneJobs
  <2>4. CASE Stored(jobs')[j] = Stored(jobs)[j]
    BY <1>1, <1>3, <2>4 DEF DoneJobs
  <2>5. ~Ended(j, Stored(jobs)[j], Stored(jobs')[j])
    BY <1>3 DEF DoneJobs, Ended
  <2> QED BY <1>0, <2>2, <2>3, <2>4, <2>5, JobMoves
<1>5. jobs \in Streams(DoneJobs(j)', ObjectLag)
  BY <1>2, StreamsMonotone DEF DoneForGood
<1>6. jobs' \in Streams(DoneJobs(j)', ObjectLag)
  BY <1>0, <1>4, <1>5, JobVersionsIn
<1> QED BY <1>6 DEF DoneForGood

\* A Job that the walk finds done is done for good.
LEMMA PassedIsDone ==
    ASSUME PhaseInv, StatusLag = 1, rec.pc # "idle", NEW j \in Steps, JobDone(j)
    PROVE  DoneForGood(j)
<1>0. VolumeInv /\ TypeOK /\ ~Over /\ rec.before = Stored(status)
  BY SafeEnds DEF PhaseInv, VolumeInv, FreshRead
<1>1. ASSUME NEW k \in 1..Len(jobs) PROVE jobs[k] \in DoneJobs(j)
  <2>1. jobs[k] \in SafeJobs /\ jobs[k] \in [Steps -> Job]
    BY <1>0, SafeEnds
  <2>2. CASE Stored(status).jobs[j] = "complete"
    BY <2>1, <2>2 DEF SafeJobs, DoneJobs
  <2>3. CASE Stored(status).jobs[j] # "complete"
    <3>1. jobs[1][j].state = "complete"
      BY <1>0, <2>3 DEF JobDone, FoundState, Cached
    <3>2. <<jobs[1], jobs[k]>> \in RecordedBeforeGone
      BY <1>0 DEF PhaseInv, Ordered, TypeOK, Streams
    <3> QED BY <1>0, <2>1, <2>3, <3>1, <3>2 DEF RecordedBeforeGone, DoneJobs
  <2> QED BY <2>2, <2>3
<1> DEFINE S == DoneJobs(j)
<1>2. /\ jobs \in Seq([Steps -> Job]) /\ Len(jobs) \in 1..ObjectLag
      /\ \A k \in 1..Len(jobs) : jobs[k] \in S
  BY <1>0, <1>1 DEF TypeOK, Streams
<1> HIDE DEF S
<1>3. jobs \in Seq(S)
  BY <1>2
<1> QED BY <1>2, <1>3 DEF S, DoneForGood, Streams

\* What the walk ends on is not done for good.
LEMMA EndIsNotDone ==
    ASSUME PhaseInv, StatusLag = 1, NEW j \in Steps, DoneForGood(j), Current(j),
           FoundState(j) = "active" \/ CreateJob(j)
    PROVE  FALSE
<1>1. Cached(jobs) \in DoneJobs(j)
  BY StreamElements, RestoreConstants DEF DoneForGood
<1>2. rec.before = Stored(status)
  BY DEF Current, PhaseInv, VolumeInv, FreshRead
<1> QED BY <1>1, <1>2 DEF CreateJob, FoundState, DoneJobs

\* A complete Job is not taken away unrecorded.
LEMMA RecordedBeforeGoneStep ==
    ASSUME JobsKept, PhaseInv, StatusLag = 1, [Next]_vars
    PROVE  Ordered(jobs, RecordedBeforeGone)'
<1> USE RestoreConstants
<1>0. VolumeInv /\ TypeOK /\ TypeOK'
  BY SafeEnds, RestoreTypeStep DEF PhaseInv
<1>1. Over => Over'
  BY <1>0, SafeStays
<1>2. RecordedBeforeGone \subseteq RecordedBeforeGone'
  BY <1>0, <1>1, RecordedStays DEF RecordedBeforeGone
<1> DEFINE R == RecordedBeforeGone'
<1>3. Ordered(jobs, R)
  BY <1>2 DEF PhaseInv, Ordered
<1>4. Stored(jobs') \in [Steps -> Job]
  BY <1>0, StreamElements DEF TypeOK
<1>5. <<Stored(jobs'), Stored(jobs')>> \in R
  BY <1>4 DEF RecordedBeforeGone
<1>6. ASSUME NEW i \in 1..Len(jobs) PROVE <<jobs[i], Stored(jobs')>> \in R
  <2>1. jobs[i] \in SafeJobs /\ jobs[i] \in [Steps -> Job]
    BY <1>0, SafeEnds
  <2>2. ASSUME NEW j \in Steps, jobs[i][j].state = "complete"
        PROVE  Stored(jobs')[j].state = "complete"
               \/ Stored(status').jobs[j] = "complete" \/ Over'
    <3>1. Safe(j) \/ Over
      BY <2>1, <2>2 DEF SafeJobs
    <3> QED BY <1>0, <3>1, SafeStays DEF Safe
  <2> QED BY <1>4, <2>1, <2>2 DEF RecordedBeforeGone
<1> HIDE DEF R
<1>7. Ordered(jobs', R)
  BY <1>0, <1>3, <1>5, <1>6, JobVersionsOrdered
<1> QED BY <1>7 DEF R

\* A Reconcile that ends has found done what lies behind the phase it records, and
\* that phase is no step back.
LEMMA EndsForward ==
    ASSUME PhaseInv, StatusLag = 1, [Next]_vars,
           EndsAtGate \/ EndsBetween \/ \E j \in Steps : EndsAtStep(j)
    PROVE  /\ rec'.pc = "record"
           /\ Forward(Stored(status).phase, rec'.phase)
           /\ rec'.phase = "ApplyingWorkloads" => Placeable
           /\ \A j \in Behind(rec'.phase) : DoneForGood(j)
<1> USE RestoreConstants
<1>0. VolumeInv /\ TypeOK /\ PlaceInv
  BY SafeEnds DEF PhaseInv
<1> DEFINE p == Stored(status).phase
           q == rec'.phase
<1>1. /\ p \in Phases /\ p \notin Terminal /\ ~Over
      /\ Cached(status) = Stored(status)
      /\ rec.pc # "idle" => rec.before = Stored(status)
  <2>1. Stored(status) \in Status /\ Cached(status) = Stored(status)
    BY <1>0, StreamElements, FreshStatus DEF TypeOK
  <2>2. EndsAtGate => Begin
    BY <1>0, EndsWith
  <2>3. ~EndsAtGate => rec.pc # "idle"
    BY <1>0, EndsWith DEF Current
  <2>4. rec.pc # "idle" => rec.before = Stored(status) /\ p \notin Terminal
    BY <1>0 DEF VolumeInv, FreshRead
  <2>5. p \notin Terminal
    BY <2>1, <2>2, <2>3, <2>4 DEF Begin
  <2> QED BY <2>1, <2>4, <2>5 DEF Status, Over
<1>2. rec'.pc = "record"
  BY <1>0, EndsWith
<1>3. ASSUME q \in {"Failed", "Completed"} \/ q = HoldPhase(p)
      PROVE  /\ Forward(p, q)
             /\ q = "ApplyingWorkloads" => Placeable
             /\ \A j \in Behind(q) : DoneForGood(j)
  <2>1. CASE q \in {"Failed", "Completed"}
    BY <1>1, <2>1, PhaseRanks DEF Behind, Terminal
  <2>2. CASE q = HoldPhase(p) /\ q = p
    BY <1>1, <2>2, PhaseRanks DEF PhaseInv
  <2>3. CASE q = HoldPhase(p) /\ q # p
    <3>1. q = "StagingAPI"
      BY <2>3 DEF HoldPhase
    <3> QED BY <1>1, <2>3, <3>1, PhaseRanks DEF Behind
  <2> QED BY <1>3, <2>1, <2>2, <2>3
<1>4. ASSUME NEW j \in Steps, EndsAtStep(j), q = PhaseOf(j),
             FoundState(j) = "active" \/ CreateJob(j)
      PROVE  /\ Forward(p, q)
             /\ q = "ApplyingWorkloads" => Placeable
             /\ \A i \in Behind(q) : DoneForGood(i)
  <2>1. Current(j) /\ ~DoneForGood(j)
    BY <1>0, <1>4, EndsWith, EndIsNotDone
  <2>2. \A i \in Behind(p) \cup WalkedPast : DoneForGood(i)
    BY <1>1 DEF PhaseInv
  <2>3. CASE j \in {Fetch, Pre}
    <3>1. q = "StagingAPI" /\ p \notin {"RestoringVolumes", "ApplyingWorkloads"}
      BY <1>4, <2>1, <2>2, <2>3 DEF PhaseOf, Behind
    <3> QED BY <1>1, <3>1, PhaseRanks DEF Phases, Terminal, Behind
  <2>4. CASE j = Workload
    <3>1. q = "ApplyingWorkloads"
      BY <1>4, <2>4 DEF PhaseOf
    <3>2. rec.pc = "volumes" /\ \A n \in Nodes : rec.groups[n] = {}
      BY <2>1, <2>4 DEF Current, First, Pending
    <3>3. WalkedPast = {Fetch, Pre} \cup UsedNodes
      BY <3>2 DEF WalkedPast, UsedNodes
    <3>4. Placeable
      BY <1>0, <3>2 DEF PlaceInv
    <3> QED BY <1>1, <2>2, <3>1, <3>3, <3>4, PhaseRanks DEF Behind, Terminal
  <2>5. CASE j \in Nodes
    <3>1. q = "RestoringVolumes"
      BY <1>4, <2>5 DEF PhaseOf
    <3>2. rec.pc = "volumes" /\ rec.groups[j] # {}
      BY <2>1, <2>5 DEF Current, First, Pending
    <3>3. {Fetch, Pre} \subseteq WalkedPast
      BY <3>2 DEF WalkedPast
    <3>4. j \in UsedNodes
      BY <1>0, <2>5, <3>2 DEF PlaceInv, UsedNodes
    <3>5. p # "ApplyingWorkloads"
      BY <2>1, <2>2, <3>4 DEF Behind
    <3>6. Forward(p, q)
      BY <1>1, <3>1, <3>5, PhaseRanks DEF Phases, Terminal
    <3> QED BY <2>2, <3>1, <3>3, <3>6 DEF Behind
  <2> QED BY <2>3, <2>4, <2>5 DEF Steps
<1>5. CASE EndsAtGate
  BY <1>0, <1>1, <1>2, <1>3, <1>5, EndsWith
<1>6. CASE EndsBetween
  BY <1>0, <1>1, <1>2, <1>3, <1>6, EndsWith
<1>7. CASE \E j \in Steps : EndsAtStep(j)
  <2>1. PICK j \in Steps : EndsAtStep(j)
    BY <1>7
  <2>2. rec.pc # "idle"
    BY <1>0, <2>1, EndsWith DEF Current
  <2>3. q \in {"Failed", PhaseOf(j), HoldPhase(p)}
        /\ (q = PhaseOf(j) => \/ FoundState(j) = "active" \/ CreateJob(j)
                              \/ q = HoldPhase(p))
    BY <1>0, <1>1, <2>1, <2>2, EndsWith
  <2> QED BY <1>2, <1>3, <1>4, <2>1, <2>3
<1> QED BY <1>5, <1>6, <1>7

\* What lies behind the walk after a step was done before it.
LEMMA WalkedPastStep ==
    ASSUME PlacementFixed, PhaseInv, StatusLag = 1, [Next]_vars,
           NEW j \in (WalkedPast)'
    PROVE  DoneForGood(j) \/ rec' = Idle
<1> USE RestoreConstants
<1>0. VolumeInv /\ TypeOK /\ PlaceInv
  BY SafeEnds DEF PhaseInv
<1>1. CASE EndsAtGate \/ EndsBetween \/ \E i \in Steps : EndsAtStep(i)
  <2>1. world' = world
    BY <1>1 DEF EndsAtGate, FailSpec, HoldRepo, HoldNamespace, HoldSecret,
       EndsBetween, HoldManifest, FailManifest, HoldUnplaceable, CompleteRestore,
       EndsAtStep, AwaitJob, FailOnJob, HoldJobDeleted, CreateJob
  <2>2. UsedNodes' = UsedNodes
    BY <2>1 DEF UsedNodes, Groups, NodeFor
  <2>3. rec'.pc = "record" /\ \A i \in Behind(rec'.phase) : DoneForGood(i)
    BY <1>1, EndsForward
  <2> QED BY <2>2, <2>3 DEF WalkedPast, Behind
<1>2. CASE rec' = rec
  <2>1. rec.pc # "idle"
    BY <1>2 DEF WalkedPast
  <2>2. rec.pc = "volumes" \/ (rec.pc = "record" /\ rec.phase = "ApplyingWorkloads")
          => UsedNodes' = UsedNodes
    BY <1>0, PlacementStays DEF PlaceInv, PhaseInv, UsedNodes
  <2>3. j \in WalkedPast
    BY <1>2, <2>2 DEF WalkedPast, Behind
  <2> QED BY <1>0, <2>1, <2>3, SafeEnds DEF PhaseInv
<1>3. CASE Walks
  <2>1. UsedNodes' = UsedNodes
    <3>1. world' = world
      BY <1>3 DEF Walks, EnterPipeline, ReadManifest, PlanVolumes, PassJob
    <3> QED BY <3>1 DEF UsedNodes, Groups, NodeFor
  <2>2. rec.pc # "idle" => \A i \in WalkedPast : DoneForGood(i)
    BY <1>0, SafeEnds DEF PhaseInv
  <2>3. \A i \in Steps : PassJob(i) => Current(i) /\ DoneForGood(i)
    BY PassedIsDone DEF PassJob, Current
  <2>4. CASE rec'.pc = "fetch"
    BY <2>4 DEF WalkedPast
  <2>5. CASE ReadManifest /\ rec'.pc = "pre"
    BY <2>2, <2>5 DEF ReadManifest, WalkedPast
  <2>6. CASE PlanVolumes /\ rec'.pc = "volumes" /\ rec'.groups = Groups
    BY <2>1, <2>2, <2>6 DEF PlanVolumes, WalkedPast, UsedNodes
  <2>7. CASE PassJob(Fetch) /\ rec'.pc = "manifest"
    BY <2>3, <2>7 DEF WalkedPast
  <2>8. CASE PassJob(Pre) /\ rec'.pc = "plan"
    <3>1. rec.pc = "pre"
      BY <2>8 DEF PassJob, Current, First, Pending
    <3> QED BY <2>2, <2>3, <2>8, <3>1 DEF WalkedPast
  <2>9. ASSUME NEW n \in Nodes, PassJob(n), rec'.pc = "volumes", rec.pc = "volumes",
               rec'.groups = [rec.groups EXCEPT ![n] = {}]
        PROVE  DoneForGood(j)
    <3>1. rec.groups \in [Nodes -> SUBSET Volumes]
      BY <1>0 DEF TypeOK, Rec
    <3>2. j \in WalkedPast \cup {n}
      BY <2>1, <2>9, <3>1 DEF WalkedPast, UsedNodes
    <3> QED BY <2>2, <2>3, <2>9, <3>2
  <2> QED BY <1>0, <1>3, <2>4, <2>5, <2>6, <2>7, <2>8, <2>9, WalksWith
<1> QED BY <1>1, <1>2, <1>3, RecSteps

\* The invariant is inductive, and no step takes the phase back.
LEMMA PhaseStep ==
    ASSUME JobsKept, PlacementFixed, StatusLag = 1, PhaseInv, [Next]_vars
    PROVE  PhaseInv' /\ PhaseForward
<1> USE RestoreConstants
<1>0. VolumeInv /\ TypeOK /\ PlaceInv /\ VolumeInv'
  BY SafeEnds, VolumeInductive DEF PhaseInv
<1>1. Ordered(jobs, RecordedBeforeGone)'
  BY RecordedBeforeGoneStep
<1>2. \/ Stored(status') = Stored(status)
      \/ /\ rec.pc = "record" /\ rec' = Idle
         /\ Stored(status').phase = rec.phase
  <2>1. ASSUME rec.pc = "record",
               NEW live \in {LiveJobs(rec.before), rec.before.jobs},
               Stored(status') = MergePatch(Stored(status), rec.before, Recorded(live))
        PROVE  Stored(status').phase = rec.phase
    <3>1. rec.before = Stored(status)
      BY <1>0, <2>1 DEF VolumeInv, FreshRead
    <3> QED BY <1>0, <2>1, <3>1, PatchLeaves
  <2> QED BY <1>0, <2>1, StatusMoves
<1>3. PhaseForward
  <2>1. Forward(Stored(status).phase, Stored(status').phase)
    BY <1>2 DEF PhaseInv, Forward
  <2> QED BY <2>1 DEF PhaseForward, Forward
<1>4. Placeable => Placeable' /\ UsedNodes' = UsedNodes
  BY <1>0, PlacementStays DEF UsedNodes
<1>5. Stored(status').phase = "ApplyingWorkloads" => Placeable /\ Placeable'
  BY <1>2, <1>4 DEF PhaseInv
<1>6. ASSUME rec'.pc = "record"
      PROVE  /\ Forward(Stored(status').phase, rec'.phase)
             /\ rec'.phase = "ApplyingWorkloads" => Placeable'
  <2>1. Stored(status') = Stored(status)
    BY <1>2, <1>6, IdleRestoreType
  <2>2. CASE EndsAtGate \/ EndsBetween \/ \E j \in Steps : EndsAtStep(j)
    BY <1>4, <2>1, <2>2, EndsForward
  <2>3. CASE rec' = rec
    BY <1>4, <1>6, <2>1, <2>3 DEF PhaseInv
  <2> QED BY <1>0, <1>6, <2>2, <2>3, RecSteps, WalksWith, IdleRestoreType
<1>7. ASSUME ~Over', NEW j \in (Behind(Stored(status).phase) \cup WalkedPast)'
      PROVE  DoneForGood(j)'
  <2>1. ~Over
    BY <1>0, <1>7, SafeStays
  <2>2. j \in Steps
    BY <1>7 DEF Behind, WalkedPast, UsedNodes, Steps
  <2>3. CASE j \in (Behind(Stored(status).phase))'
    <3>1. j \in Behind(Stored(status').phase)
      BY <1>4, <1>5, <2>3 DEF Behind
    <3>2. CASE Stored(status') = Stored(status)
      BY <1>0, <1>7, <2>1, <2>2, <3>1, <3>2, DoneStays DEF PhaseInv
    <3>3. CASE rec.pc = "record" /\ Stored(status').phase = rec.phase
      <4>1. j \in WalkedPast
        BY <3>1, <3>3 DEF WalkedPast
      <4> QED BY <1>0, <1>7, <2>1, <2>2, <4>1, DoneStays DEF PhaseInv
    <3> QED BY <1>2, <3>2, <3>3
  <2>4. CASE j \in (WalkedPast)'
    <3>1. rec' # Idle
      BY <2>4, IdleRestoreType DEF WalkedPast
    <3> QED BY <1>0, <1>7, <2>2, <2>4, <3>1, WalkedPastStep, DoneStays
  <2> QED BY <1>7, <2>3, <2>4
<1>8. PhaseInv'
  BY <1>0, <1>1, <1>5, <1>6, <1>7 DEF PhaseInv
<1> QED BY <1>3, <1>8

\* The phase only moves forward and a terminal one stays, whatever the caches of
\* Jobs and of the ConfigMap show, if the status is read fresh, the volumes keep
\* their nodes and Jobs are only collected once recorded: PhaseMonotone then holds
\* without its exception.
THEOREM PhasesInOrder ==
    StatusLag = 1 /\ JobsKept /\ PlacementFixed
        => (Spec => PhaseMonotone /\ [][PhaseForward]_vars)
<1> SUFFICES ASSUME StatusLag = 1, JobsKept, PlacementFixed
             PROVE  Spec => PhaseMonotone /\ [][PhaseForward]_vars
  OBVIOUS
<1> USE RestoreConstants
<1>1. Init => PhaseInv
  <2> SUFFICES ASSUME Init PROVE PhaseInv
    OBVIOUS
  <2>1. Stored(status).phase = "New" /\ rec = Idle
    BY InitRestore, IdleRestoreType DEF Init
  <2>2. Behind(Stored(status).phase) = {} /\ WalkedPast = {}
    BY <2>1, IdleRestoreType DEF Behind, WalkedPast
  <2> DEFINE w == [j \in Steps |-> NoJob]
  <2>3. <<w, w>> \in RecordedBeforeGone
    BY IdleRestoreType DEF RecordedBeforeGone
  <2>4. Len(jobs) = 1 /\ jobs[1] = w
    BY DEF Init, Listed
  <2> HIDE DEF w
  <2>5. Ordered(jobs, RecordedBeforeGone)
    BY <2>3, <2>4 DEF Ordered
  <2> QED BY <2>1, <2>2, <2>5, InitVolume, IdleRestoreType DEF PhaseInv
<1>2. PhaseInv /\ [Next]_vars => PhaseInv' /\ [PhaseForward]_vars
  BY PhaseStep
<1> QED BY <1>1, <1>2, PTL DEF Spec, PhaseMonotone
=============================================================================
