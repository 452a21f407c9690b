--------------------------- MODULE PBSBackupSafety ---------------------------
(* What a backup does to the data, proved of PBSBackup for all nodes, claims *)
(* and lags: which claims it touches, in which order, and what it promises.  *)
EXTENDS PBSBackupProofs

-----------------------------------------------------------------------------
(* Which actions disturb which variable.                                   *)

\* The stored Jobs change only when one is created, removed or finished.
LEMMA JobSteps ==
    ASSUME [Next]_vars
    PROVE  \/ CacheMove(jobs, jobs')
           \/ \E n \in Nodes : CreateJob(n) \/ DeleteJob(n) \/ ReapJob(n) \/ FinishJob(n)
<1>1. CASE Reconcile
  <2>1. CASE \E n \in Nodes : CreateJob(n)
    BY <2>1
  <2>2. CASE ~\E n \in Nodes : CreateJob(n)
    <3>1. jobs' = jobs
      BY <1>1, <2>2 DEF Reconcile, HoldRepoNotReady, HoldSecretCopy, HoldSelection,
         HoldNothing, HoldUnplaceable, Hold, Place, RunHook, FailHook, RejectHook,
         FindJob, HoldJobDeleted, LoseCreateRace, FailOnJob, RunBackup,
         CompleteBackup, FailOnResult, ObserveFailed, ObserveCompleted
    <3> QED BY <3>1 DEF CacheMove
  <2> QED BY <2>1, <2>2
<1>2. CASE \/ Abort \/ AbortInGates \/ Crash \/ LoseRepo \/ CollectCopy \/ Drift
           \/ Recover \/ DeliverStatus \/ DeliverJobs \/ DeliverPods \/ UNCHANGED vars
  BY <1>2 DEF Abort, AbortInGates, Crash, LoseRepo, CollectCopy, Drift, Recover,
     DeliverStatus, DeliverJobs, DeliverPods, vars, CacheMove
<1>3. CASE \E n \in Nodes : LosePod(n) \/ AgentSucceeds(n) \/ AgentFails(n)
  BY <1>3 DEF LosePod, AgentSucceeds, AgentFails, CacheMove
<1> QED BY <1>1, <1>2, <1>3 DEF Next

\* The stored pods change with the end of an agent or the loss of a pod.
LEMMA PodSteps ==
    ASSUME [Next]_vars
    PROVE  \/ CacheMove(pods, pods')
           \/ \E n \in Nodes : \/ DeleteJob(n) \/ ReapJob(n) \/ LosePod(n)
                               \/ AgentSucceeds(n) \/ AgentFails(n)
<1>1. CASE Reconcile
  BY <1>1 DEF Reconcile, HoldRepoNotReady, HoldSecretCopy, HoldSelection,
     HoldNothing, HoldUnplaceable, Hold, Place, RunHook, FailHook, RejectHook,
     FindJob, HoldJobDeleted, CreateJob, LoseCreateRace, FailOnJob, RunBackup,
     CompleteBackup, FailOnResult, ObserveFailed, ObserveCompleted, CacheMove
<1>2. CASE \/ Abort \/ AbortInGates \/ Crash \/ LoseRepo \/ CollectCopy \/ Drift
           \/ Recover \/ DeliverStatus \/ DeliverJobs \/ DeliverPods \/ UNCHANGED vars
  BY <1>2 DEF Abort, AbortInGates, Crash, LoseRepo, CollectCopy, Drift, Recover,
     DeliverStatus, DeliverJobs, DeliverPods, vars, CacheMove
<1>3. CASE \E n \in Nodes : FinishJob(n)
  BY <1>3 DEF FinishJob, CacheMove
<1> QED BY <1>1, <1>2, <1>3 DEF Next

\* A hold of the gates: it works on the status it reads.
GateReasons == {"RepoNotReady", "SecretCopyFailed", "PlacementFailed", "NoPVCsSelected"}
HoldAtGate == \E reason \in GateReasons : Begin /\ Hold(Cached(status), reason)

\* The stored status changes only by the patch of a reconcile that ends.
LEMMA StatusSteps ==
    ASSUME [Next]_vars
    PROVE  \/ CacheMove(status, status')
           \/ HoldAtGate
           \/ \E n \in Nodes : HoldJobDeleted(n)
           \/ \E c \in Claims : FailHook(c) \/ RejectHook(c)
           \/ FailOnJob \/ RunBackup \/ CompleteBackup \/ FailOnResult
<1>1. CASE \/ HoldRepoNotReady \/ HoldSecretCopy \/ HoldSelection
           \/ HoldNothing \/ HoldUnplaceable
  BY <1>1 DEF HoldRepoNotReady, HoldSecretCopy, HoldSelection, HoldNothing,
     HoldUnplaceable, HoldAtGate, GateReasons
<1>2. CASE \/ Place \/ ObserveFailed \/ ObserveCompleted
           \/ \E c \in Claims : RunHook(c)
           \/ \E n \in Nodes : FindJob(n) \/ CreateJob(n) \/ LoseCreateRace(n)
  BY <1>2 DEF Place, RunHook, FindJob, CreateJob, LoseCreateRace, ObserveFailed,
     ObserveCompleted, CacheMove
<1>3. CASE \/ Abort \/ AbortInGates \/ Crash \/ LoseRepo \/ CollectCopy \/ Drift
           \/ Recover \/ DeliverStatus \/ DeliverJobs \/ DeliverPods \/ UNCHANGED vars
  BY <1>3 DEF Abort, AbortInGates, Crash, LoseRepo, CollectCopy, Drift, Recover,
     DeliverStatus, DeliverJobs, DeliverPods, vars, CacheMove
<1>4. CASE \E n \in Nodes : \/ DeleteJob(n) \/ ReapJob(n) \/ LosePod(n)
                           \/ AgentSucceeds(n) \/ AgentFails(n) \/ FinishJob(n)
  BY <1>4 DEF DeleteJob, ReapJob, LosePod, AgentSucceeds, AgentFails, FinishJob, CacheMove
<1> QED BY <1>1, <1>2, <1>3, <1>4 DEF Next, Reconcile

\* The local variables of Reconcile: it starts, goes on by one step, or ends.
LEMMA RecSteps ==
    ASSUME [Next]_vars
    PROVE  \/ rec' = rec \/ rec' = Idle
           \/ rec' = [Idle EXCEPT !.pc = "failed"]
           \/ rec' = [Idle EXCEPT !.pc = "completed"]
           \/ Place
           \/ \E c \in Claims : RunHook(c)
           \/ \E n \in Nodes : FindJob(n) \/ CreateJob(n)
<1>1. CASE Reconcile
  BY <1>1 DEF Reconcile, HoldRepoNotReady, HoldSecretCopy, HoldSelection,
     HoldNothing, HoldUnplaceable, Hold, FailHook, RejectHook, FailBackup,
     HoldJobDeleted, LoseCreateRace, FailOnJob, RunBackup,
     CompleteBackup, FailOnResult, ObserveFailed, ObserveCompleted
<1>2. CASE \/ Abort \/ AbortInGates \/ Crash \/ LoseRepo \/ CollectCopy \/ Drift
           \/ Recover \/ DeliverStatus \/ DeliverJobs \/ DeliverPods \/ UNCHANGED vars
  BY <1>2 DEF Abort, AbortInGates, Crash, LoseRepo, CollectCopy, Drift, Recover,
     DeliverStatus, DeliverJobs, DeliverPods, vars
<1>3. CASE \E n \in Nodes : \/ DeleteJob(n) \/ ReapJob(n) \/ LosePod(n)
                           \/ AgentSucceeds(n) \/ AgentFails(n) \/ FinishJob(n)
  BY <1>3 DEF DeleteJob, ReapJob, LosePod, AgentSucceeds, AgentFails, FinishJob
<1> QED BY <1>1, <1>2, <1>3 DEF Next

\* Only an agent uploads, what its stored Job archives; only a hook is executed;
\* the staging ConfigMap stays.
LEMMA RecordSteps ==
    ASSUME TypeOK, [Next]_vars
    PROVE  /\ uploaded' = uploaded \/ \E n \in Nodes : Upload(n) /\ UNCHANGED jobs
           /\ execs' = execs
              \/ \E c \in Claims : (RunHook(c) \/ FailHook(c)) /\ execs' = Executed(c)
           /\ scaffold.staging => scaffold'.staging
<1>1. CASE Reconcile
  <2>1. CASE \/ HoldRepoNotReady \/ HoldSecretCopy \/ HoldSelection
             \/ HoldNothing \/ HoldUnplaceable \/ Place
    <3>1. CopySecret \/ CopySecretAndStage \/ UNCHANGED scaffold
      BY <2>1 DEF HoldRepoNotReady, HoldSecretCopy, HoldSelection, HoldNothing,
         HoldUnplaceable, Place
    <3>2. uploaded' = uploaded /\ execs' = execs
      BY <2>1 DEF HoldRepoNotReady, HoldSecretCopy, HoldSelection, HoldNothing,
         HoldUnplaceable, Hold, Place
    <3> QED BY <3>1, <3>2 DEF CopySecret, CopySecretAndStage, TypeOK
  <2>2. CASE \E c \in Claims : RunHook(c) \/ FailHook(c) \/ RejectHook(c)
    BY <2>2 DEF RunHook, FailHook, RejectHook
  <2>3. CASE \/ \E n \in Nodes : \/ FindJob(n) \/ HoldJobDeleted(n)
                                 \/ CreateJob(n) \/ LoseCreateRace(n)
             \/ FailOnJob \/ RunBackup \/ CompleteBackup \/ FailOnResult
             \/ ObserveFailed \/ ObserveCompleted
    BY <2>3 DEF FindJob, HoldJobDeleted, Hold, CreateJob, LoseCreateRace, FailOnJob,
       RunBackup, CompleteBackup, FailOnResult, ObserveFailed, ObserveCompleted
  <2> QED BY <1>1, <2>1, <2>2, <2>3 DEF Reconcile
<1>2. CASE \/ Abort \/ AbortInGates \/ Crash \/ LoseRepo \/ CollectCopy \/ Drift
           \/ Recover \/ DeliverStatus \/ DeliverJobs \/ DeliverPods \/ UNCHANGED vars
  BY <1>2 DEF TypeOK, Abort, AbortInGates, Crash, LoseRepo, CollectCopy, Drift, Recover,
     DeliverStatus, DeliverJobs, DeliverPods, vars, CopySecret, CopySecretAndStage
<1>3. CASE \E n \in Nodes : \/ DeleteJob(n) \/ ReapJob(n) \/ LosePod(n)
                           \/ AgentSucceeds(n) \/ AgentFails(n) \/ FinishJob(n)
  BY <1>3 DEF DeleteJob, ReapJob, LosePod, AgentSucceeds, AgentFails, FinishJob
<1> QED BY <1>1, <1>2, <1>3 DEF Next

\* What each of them stores.
LEMMA StoredJobs ==
    ASSUME TypeOK, [Next]_vars
    PROVE  \/ Stored(jobs') = Stored(jobs)
           \/ \E n \in Nodes :
                \/ /\ CreateJob(n)
                   /\ Stored(jobs') = [Stored(jobs) EXCEPT ![n] =
                                         [state |-> "active", archives |-> rec.want[n]]]
                \/ /\ DeleteJob(n) \/ ReapJob(n)
                   /\ Stored(jobs') = [Stored(jobs) EXCEPT ![n] = NoJob]
                \/ /\ FinishJob(n)
                   /\ Stored(jobs') = [Stored(jobs) EXCEPT ![n] =
                        [Stored(jobs)[n] EXCEPT !.state =
                           IF Stored(pods)[n] = "failed" THEN "failed" ELSE "complete"]]
<1>1. CASE CacheMove(jobs, jobs')
  BY <1>1, CacheMoveStream, Constants DEF TypeOK
<1>2. ASSUME NEW n \in Nodes, CreateJob(n)
      PROVE  Stored(jobs') = [Stored(jobs) EXCEPT ![n] =
                                [state |-> "active", archives |-> rec.want[n]]]
  <2>1. [state |-> "active", archives |-> rec.want[n]] \in Job
    BY DEF TypeOK, Rec, Job, JobStates
  <2> QED BY <1>2, <2>1, SetJobType DEF CreateJob, TypeOK
<1>3. ASSUME NEW n \in Nodes, DeleteJob(n) \/ ReapJob(n)
      PROVE  Stored(jobs') = [Stored(jobs) EXCEPT ![n] = NoJob]
  <2>1. NoJob \in Job
    BY DEF NoJob, Job, JobStates
  <2> QED BY <1>3, <2>1, SetJobType DEF DeleteJob, ReapJob, RemoveJob, TypeOK
<1>4. ASSUME NEW n \in Nodes, FinishJob(n)
      PROVE  Stored(jobs') = [Stored(jobs) EXCEPT ![n] =
               [Stored(jobs)[n] EXCEPT !.state =
                  IF Stored(pods)[n] = "failed" THEN "failed" ELSE "complete"]]
  <2>1. [Stored(jobs)[n] EXCEPT !.state =
           IF Stored(pods)[n] = "failed" THEN "failed" ELSE "complete"] \in Job
    BY StreamTypes DEF Job, JobStates
  <2> QED BY <1>4, <2>1, SetJobType DEF FinishJob, TypeOK
<1> QED BY <1>1, <1>2, <1>3, <1>4, JobSteps

\* The same, seen from the Job of one node.
LEMMA JobAt ==
    ASSUME TypeOK, [Next]_vars, NEW n \in Nodes
    PROVE  LET old == Stored(jobs)[n]  new == Stored(jobs')[n] IN
           \/ new = old
           \/ /\ CreateJob(n) /\ old.state = "none"
              /\ new.state = "active" /\ new.archives = rec.want[n]
           \/ /\ DeleteJob(n) \/ ReapJob(n)
              /\ new.state = "none" /\ new.archives = {}
           \/ /\ FinishJob(n) /\ old.state = "active" /\ Stored(pods)[n] # "none"
              /\ new.state = IF Stored(pods)[n] = "failed" THEN "failed" ELSE "complete"
              /\ new.archives = old.archives
<1>1. Stored(jobs) \in [Nodes -> Job]
  BY StreamTypes
<1>2. CASE Stored(jobs') = Stored(jobs)
  BY <1>2
<1>3. ASSUME NEW m \in Nodes, CreateJob(m),
             Stored(jobs') = [Stored(jobs) EXCEPT ![m] =
                                [state |-> "active", archives |-> rec.want[m]]]
      PROVE  /\ Stored(jobs)[m].state = "none" /\ Stored(jobs')[m].state = "active"
             /\ Stored(jobs')[m].archives = rec.want[m]
             /\ n # m => Stored(jobs')[n] = Stored(jobs)[n]
  BY <1>1, <1>3 DEF CreateJob
<1>4. ASSUME NEW m \in Nodes, Stored(jobs') = [Stored(jobs) EXCEPT ![m] = NoJob]
      PROVE  /\ Stored(jobs')[m].state = "none" /\ Stored(jobs')[m].archives = {}
             /\ n # m => Stored(jobs')[n] = Stored(jobs)[n]
  BY <1>1, <1>4 DEF NoJob
<1>5. ASSUME NEW m \in Nodes, FinishJob(m),
             Stored(jobs') = [Stored(jobs) EXCEPT ![m] =
               [Stored(jobs)[m] EXCEPT !.state =
                  IF Stored(pods)[m] = "failed" THEN "failed" ELSE "complete"]]
      PROVE  /\ Stored(jobs)[m].state = "active" /\ Stored(pods)[m] # "none"
             /\ Stored(jobs')[m].state =
                  IF Stored(pods)[m] = "failed" THEN "failed" ELSE "complete"
             /\ Stored(jobs')[m].archives = Stored(jobs)[m].archives
             /\ n # m => Stored(jobs')[n] = Stored(jobs)[n]
  BY <1>1, <1>5 DEF FinishJob, Job
<1> QED BY <1>2, <1>3, <1>4, <1>5, StoredJobs

-----------------------------------------------------------------------------
(* A claim the spec leaves out is never touched, whatever is stale, fails,  *)
(* drifts or is retried: it enters neither the hooks nor the groups of a    *)
(* reconcile, hence no Job, hence no upload.                                *)

\* selectPVCs selects no claim that the spec leaves out.
LEMMA SelectionRespected ==
    ASSUME NEW w \in World
    PROVE  Selected(w) \cap LeftOut = {}
BY SpecAssumption DEF Selected, LeftOut, Existing

UntouchedInv ==
    /\ rec.todo \cap LeftOut = {}
    /\ \A n \in Nodes : /\ rec.want[n] \cap LeftOut = {}
                        /\ Stored(jobs)[n].archives \cap LeftOut = {}
    /\ UnselectedUntouched

\* Nothing is selected, created or uploaded at the start.
LEMMA UntouchedInit == Init => UntouchedInv
<1> SUFFICES ASSUME Init PROVE UntouchedInv
  OBVIOUS
<1>1. Stored(jobs) = [n \in Nodes |-> NoJob]
  BY DEF Init, Listed, Stored
<1>2. LeftOut \subseteq Claims
  BY DEF LeftOut
<1> QED BY <1>1, <1>2 DEF Init, UntouchedInv, UnselectedUntouched, Idle, NoJob

\* Every step keeps the claims that are left out out of all four places.
LEMMA UntouchedStep ==
    ASSUME TypeOK, UntouchedInv, [Next]_vars
    PROVE  UntouchedInv'
<1>1. /\ rec'.todo \cap LeftOut = {}
      /\ \A n \in Nodes : rec'.want[n] \cap LeftOut = {}
  <2>1. CASE rec' = rec
    BY <2>1 DEF UntouchedInv
  <2>2. CASE \/ rec' = Idle \/ rec' = [Idle EXCEPT !.pc = "failed"]
             \/ rec' = [Idle EXCEPT !.pc = "completed"]
    BY <2>2 DEF Idle
  <2>3. CASE Place
    <3>1. 0 \notin LeftOut
      BY ClaimsAssumption DEF LeftOut
    <3>2. Selected(world) \cap LeftOut = {}
      BY SelectionRespected DEF TypeOK
    <3> QED BY <2>3, <3>1, <3>2 DEF Place, HooksDue, Group, API
  <2>4. CASE \E c \in Claims : RunHook(c)
    BY <2>4 DEF RunHook, UntouchedInv, TypeOK, Rec
  <2>5. CASE \E n \in Nodes : FindJob(n) \/ CreateJob(n)
    BY <2>5 DEF FindJob, CreateJob, UntouchedInv, TypeOK, Rec
  <2> QED BY <2>1, <2>2, <2>3, <2>4, <2>5, RecSteps
<1>2. \A n \in Nodes : Stored(jobs')[n].archives \cap LeftOut = {}
  BY JobAt DEF UntouchedInv
<1>3. ASSUME NEW c \in LeftOut
      PROVE  execs'[c] = 0 /\ \A n \in Nodes : c \notin uploaded'[n]
  <2>1. c \in Claims
    BY <1>3 DEF LeftOut
  <2>2. \A d \in Claims : RunHook(d) \/ FailHook(d) => d # c
    BY DEF RunHook, FailHook, HookPending, First, UntouchedInv
  <2>3. execs'[c] = 0
    BY <2>1, <2>2, RecordSteps DEF Executed, UntouchedInv, UnselectedUntouched, TypeOK
  <2>4. \A n \in Nodes : c \notin uploaded'[n]
    BY RecordSteps DEF Upload, UntouchedInv, UnselectedUntouched, TypeOK
  <2> QED BY <2>3, <2>4
<1> QED BY <1>1, <1>2, <1>3 DEF UntouchedInv, UnselectedUntouched, LeftOut

\* A claim the spec leaves out keeps its pod and its data to itself, for every
\* lag of the caches and under every fault, the drift of the workload included.
THEOREM LeftOutIsUntouched == Spec => []UnselectedUntouched
<1>1. TypeOK /\ UntouchedInv /\ [Next]_vars => UntouchedInv'
  BY UntouchedStep
<1>2. UntouchedInv => UnselectedUntouched
  BY DEF UntouchedInv
<1> QED BY <1>1, <1>2, TypeCorrect, UntouchedInit, PTL DEF Spec

-----------------------------------------------------------------------------
(* A Job starts only on a prepared workload.  The gap is between the status *)
(* a reconcile reads and the hooks it therefore skips: it skips them if the *)
(* status lists a Job, and a status that lists a Job was written after the  *)
(* hooks of every selected claim had run.  This needs a selection that does *)
(* not change: spec.pvcs, or a workload that does not drift.                *)

SelectionFixed == SpecPVCs # {} \/ "drift" \notin Faults

\* The world changes by loss of the repo, drift and recovery only.
LEMMA WorldSteps ==
    ASSUME [Next]_vars
    PROVE  world' = world \/ LoseRepo \/ Drift \/ Recover
<1>1. CASE Reconcile
  BY <1>1 DEF Reconcile, HoldRepoNotReady, HoldSecretCopy, HoldSelection,
     HoldNothing, HoldUnplaceable, Hold, Place, RunHook, FailHook, RejectHook,
     FindJob, HoldJobDeleted, CreateJob, LoseCreateRace, FailOnJob, RunBackup,
     CompleteBackup, FailOnResult, ObserveFailed, ObserveCompleted
<1>2. CASE \/ Abort \/ AbortInGates \/ Crash \/ CollectCopy
           \/ DeliverStatus \/ DeliverJobs \/ DeliverPods \/ UNCHANGED vars
  BY <1>2 DEF Abort, AbortInGates, Crash, CollectCopy,
     DeliverStatus, DeliverJobs, DeliverPods, vars
<1>3. CASE \E n \in Nodes : \/ DeleteJob(n) \/ ReapJob(n) \/ LosePod(n)
                           \/ AgentSucceeds(n) \/ AgentFails(n) \/ FinishJob(n)
  BY <1>3 DEF DeleteJob, ReapJob, LosePod, AgentSucceeds, AgentFails, FinishJob
<1> QED BY <1>1, <1>2, <1>3 DEF Next

\* Without drift a claim stays where it is once it has a node, a missing claim
\* appears only if spec.pvcs names it, and the nodes change only if there are none.
LEMMA NoDriftSteps ==
    ASSUME TypeOK, "drift" \notin Faults, [Next]_vars
    PROVE  /\ \A c \in Claims :
                /\ world.home[c] \in Nodes => world'.home[c] = world.home[c]
                /\ c \notin SpecPVCs /\ world.home[c] = Absent => world'.home[c] = Absent
                /\ world.home[c] # Absent => world'.home[c] # Absent
           /\ world.nodes # {} => world'.nodes = world.nodes
<1>1. world \in World /\ Nodes \subseteq Nat /\ 0 \notin Nodes
  BY Constants DEF TypeOK
<1>2. CASE world' = world
  BY <1>2
<1>3. CASE LoseRepo
  BY <1>1, <1>3 DEF LoseRepo, World
<1>4. CASE Recover
  <2>1. CASE \/ world' = [world EXCEPT !.ready = TRUE]
             \/ world' = [world EXCEPT !.secret = TRUE]
             \/ world' = [world EXCEPT !.objects = TRUE]
    BY <1>1, <2>1 DEF World
  <2>2. CASE world.nodes = {} /\ \E n \in Nodes : world' = [world EXCEPT !.nodes = {n}]
    BY <1>1, <2>2 DEF World
  <2>3. CASE \E c \in Claims, n \in Nodes :
               /\ \/ world.home[c] = Unplaceable
                  \/ c \in SpecPVCs /\ world.home[c] = Absent
               /\ world' = [world EXCEPT !.home[c] = n]
    BY <1>1, <2>3 DEF World, Absent, Unplaceable
  <2> QED BY <1>4, <2>1, <2>2, <2>3 DEF Recover
<1>5. ~Drift
  BY DEF Drift, Fault
<1> QED BY <1>2, <1>3, <1>4, <1>5, WorldSteps

\* So the selection stays what it is.
LEMMA SelectionStays ==
    ASSUME TypeOK, SelectionFixed, [Next]_vars
    PROVE  Selected(world') = Selected(world)
<1>1. CASE SpecPVCs # {}
  BY <1>1 DEF Selected
<1>2. CASE SpecPVCs = {}
  <2>1. Existing(world') = Existing(world)
    BY <1>2, NoDriftSteps DEF SelectionFixed, Existing
  <2> QED BY <1>2, <2>1 DEF Selected
<1> QED BY <1>1, <1>2

Prepared(c) == Hook[c] # "none" => Hook[c] = "valid" /\ execs[c] > 0
AllPrepared == \A c \in Selected(world) : Prepared(c)

\* Every version of the status that lists a Job was written with all selected
\* claims prepared, and so are those a reconcile has no hooks left to run for.
PreparedInv ==
    /\ status \in Streams({st \in Status : st.jobs # NoJobs => AllPrepared}, StatusLag)
    /\ rec.pc = "work" =>
         /\ \A c \in Selected(world) \ rec.todo : Prepared(c)
         /\ \A n \in Nodes : /\ rec.want[n] \subseteq Selected(world) \cup {API}
                             /\ API \in rec.want[n] => scaffold.staging
    /\ \A n \in Nodes : /\ \A c \in Stored(jobs)[n].archives \ {API} : Prepared(c)
                        /\ API \in Stored(jobs)[n].archives => scaffold.staging

\* At the start no status lists a Job and there is none.
LEMMA PreparedInit == Init => PreparedInv
<1> SUFFICES ASSUME Init PROVE PreparedInv
  OBVIOUS
<1>1. Stored(jobs) = [n \in Nodes |-> NoJob]
  BY DEF Init, Listed, Stored
<1>2. NewStatus.jobs = NoJobs
  BY DEF NewStatus
<1>3. status \in Streams({st \in Status : st.jobs # NoJobs => AllPrepared}, StatusLag)
  BY <1>2, IdleType, ListedStream, Constants DEF Init
<1>4. rec.pc # "work"
  BY DEF Init, Idle
<1> QED BY <1>1, <1>3, <1>4 DEF PreparedInv, NoJob

\* A hook that has run stays run.
LEMMA PreparedStays ==
    ASSUME TypeOK, [Next]_vars, NEW c \in Claims, Prepared(c)
    PROVE  Prepared(c)'
<1>1. execs[c] > 0 => execs'[c] > 0
  BY RecordSteps, Constants DEF Executed, Bump, TypeOK
<1> QED BY <1>1 DEF Prepared

\* A status patch lists Jobs only if the stored status did or the hooks are done.
LEMMA PatchLists ==
    ASSUME TypeOK, PreparedInv, [Next]_vars
    PROVE  status' \in Streams({st \in Status : st.jobs # NoJobs => AllPrepared}, StatusLag)
<1> DEFINE T == {st \in Status : st.jobs # NoJobs => AllPrepared}
<1>1. status \in Streams(T, StatusLag) /\ Stored(status) \in T
  BY StreamElements, Constants DEF PreparedInv
<1>2. rec.before \in Status /\ rec.seen \in [Nodes -> JobStates] /\ Cached(status) \in Status
  BY StreamTypes DEF TypeOK, Rec
<1>3. ASSUME NEW before \in Status, NEW after \in Status, RecordOutcome(before, after),
             after.jobs \in {before.jobs, NoJobs} \/ AllPrepared
      PROVE  status' \in Streams(T, StatusLag)
  <2>1. MergePatch(Stored(status), before, after) \in Status
    BY <1>1, MergePatchType
  <2>2. MergePatch(Stored(status), before, after).jobs
          \in {Stored(status).jobs, NoJobs} \/ AllPrepared
    BY <1>3 DEF MergePatch, Overwrite
  <2>3. MergePatch(Stored(status), before, after) \in T
    BY <1>1, <2>1, <2>2
  <2> HIDE DEF T
  <2> QED BY <1>1, <1>3, <2>3, WriteStream, Constants DEF RecordOutcome
<1>4. AllSeen => AllPrepared
  BY DEF PreparedInv, AllSeen, AllPrepared
<1>5. ASSUME CacheMove(status, status') PROVE status' \in Streams(T, StatusLag)
  <2> HIDE DEF T
  <2> QED BY <1>1, <1>5, CacheMoveStream, Constants
<1>6. ASSUME NEW before \in Status, NEW reason \in Reasons, Hold(before, reason)
      PROVE  status' \in Streams(T, StatusLag)
  <2>1. /\ HoldStatus(before, reason) \in Status
        /\ HoldStatus(before, reason).jobs = before.jobs
    BY StatusTypes, IdleType DEF HoldStatus, Status
  <2> QED BY <1>3, <1>6, <2>1 DEF Hold
<1>7. ASSUME NEW reason \in Reasons, NEW seen \in [Nodes -> JobStates],
             FailBackup(reason, seen), seen = NoJobs \/ AllPrepared
      PROVE  status' \in Streams(T, StatusLag)
  <2>1. /\ FailStatus(rec.before, reason, seen) \in Status
        /\ FailStatus(rec.before, reason, seen).jobs = seen
    BY <1>2, StatusTypes DEF FailStatus, Status
  <2> QED BY <1>2, <1>3, <1>7, <2>1 DEF FailBackup
<1>8. CASE HoldAtGate
  BY <1>2, <1>6, <1>8 DEF HoldAtGate, GateReasons, Reasons
<1>9. CASE \E n \in Nodes : HoldJobDeleted(n)
  BY <1>2, <1>6, <1>9 DEF HoldJobDeleted, Reasons
<1>10. CASE \E c \in Claims : FailHook(c) \/ RejectHook(c)
  BY <1>7, <1>10, IdleType DEF FailHook, RejectHook, Reasons
<1>11. CASE FailOnJob \/ FailOnResult
  BY <1>2, <1>4, <1>7, <1>11 DEF FailOnJob, FailOnResult, Reasons
<1>12. CASE RunBackup
  BY <1>2, <1>3, <1>4, <1>12, StatusTypes DEF RunBackup, Reasons
<1>13. CASE CompleteBackup
  BY <1>2, <1>3, <1>4, <1>13, StatusTypes DEF CompleteBackup, Reasons
<1> QED BY <1>5, <1>8, <1>9, <1>10, <1>11, <1>12, <1>13, StatusSteps

\* Every step keeps the invariant.
LEMMA PreparedStep ==
    ASSUME TypeOK, PreparedInv, SelectionFixed, [Next]_vars
    PROVE  PreparedInv'
<1>1. Selected(world') = Selected(world) /\ Selected(world) \subseteq Claims
  BY SelectionStays, PlacementTypes DEF TypeOK
<1>2. \A c \in Claims : Prepared(c) => Prepared(c)'
  BY PreparedStays
<1>3. scaffold.staging => scaffold'.staging
  BY RecordSteps
<1>4. (status \in Streams({st \in Status : st.jobs # NoJobs => AllPrepared}, StatusLag))'
  <2> DEFINE T == {st \in Status : st.jobs # NoJobs => AllPrepared}
             U == {st \in Status : st.jobs # NoJobs => AllPrepared'}
  <2>1. AllPrepared => AllPrepared'
    BY <1>1, <1>2 DEF AllPrepared
  <2>2. T \subseteq U
    BY <2>1
  <2>3. status' \in Streams(T, StatusLag)
    BY PatchLists
  <2> HIDE DEF T, U
  <2>4. status' \in Streams(U, StatusLag)
    BY <2>2, <2>3, StreamsMonotone, Constants
  <2> QED BY <2>4 DEF U
<1>5. ASSUME rec'.pc = "work"
      PROVE  /\ \A c \in Selected(world) \ rec'.todo : Prepared(c)'
             /\ \A n \in Nodes : /\ rec'.want[n] \subseteq Selected(world) \cup {API}
                                 /\ API \in rec'.want[n] => scaffold'.staging
  <2>1. CASE rec' = rec
    BY <1>1, <1>2, <1>3, <1>5, <2>1 DEF PreparedInv
  <2>2. CASE \/ rec' = Idle \/ rec' = [Idle EXCEPT !.pc = "failed"]
             \/ rec' = [Idle EXCEPT !.pc = "completed"]
    BY <1>5, <2>2 DEF Idle
  <2>3. CASE Place
    <3>1. Cached(status) \in {st \in Status : st.jobs # NoJobs => AllPrepared}
      BY StreamElements, Constants DEF PreparedInv
    <3>2. \A c \in Selected(world) \ rec'.todo : Prepared(c)
      BY <2>3, <3>1 DEF Place, HooksDue, AllPrepared, Prepared
    <3>3. \A n \in Nodes : /\ rec'.want[n] \subseteq Selected(world) \cup {API}
                           /\ API \in rec'.want[n] => scaffold'.staging
      <4>1. API \notin Selected(world)
        BY <1>1, ClaimsAssumption DEF API
      <4> QED BY <2>3, <4>1 DEF Place, Group, CopySecretAndStage
    <3> QED BY <1>1, <1>2, <3>2, <3>3
  <2>4. ASSUME NEW c \in Claims, RunHook(c)
        PROVE  /\ rec'.todo = rec.todo \ {c} /\ rec'.want = rec.want /\ rec.pc = "work"
               /\ Prepared(c)'
    <3>1. Hook[c] = "valid" /\ execs'[c] > 0
      BY <2>4, Constants DEF RunHook, Executed, Bump, TypeOK
    <3> QED BY <2>4, <3>1 DEF RunHook, HookPending, Prepared, TypeOK, Rec
  <2>5. CASE \E c \in Claims : RunHook(c)
    BY <1>1, <1>2, <1>3, <2>4, <2>5 DEF PreparedInv
  <2>6. ASSUME NEW n \in Nodes, FindJob(n) \/ CreateJob(n)
        PROVE  rec'.todo = rec.todo /\ rec'.want = rec.want /\ rec.pc = "work"
    BY <2>6 DEF FindJob, CreateJob, JobPending, TypeOK, Rec
  <2>7. CASE \E n \in Nodes : FindJob(n) \/ CreateJob(n)
    BY <1>1, <1>2, <1>3, <2>6, <2>7 DEF PreparedInv
  <2> QED BY <2>1, <2>2, <2>3, <2>5, <2>7, RecSteps
<1>6. ASSUME NEW n \in Nodes
      PROVE  /\ \A c \in Stored(jobs')[n].archives \ {API} : Prepared(c)'
             /\ API \in Stored(jobs')[n].archives => scaffold'.staging
  <2>1. Stored(jobs) \in [Nodes -> Job]
    BY StreamTypes
  <2>2. Stored(jobs)[n].archives \ {API} \subseteq Claims
    BY <2>1 DEF Job, Archives
  <2>3. \/ Stored(jobs')[n].archives = Stored(jobs)[n].archives
        \/ Stored(jobs')[n].archives = {}
        \/ CreateJob(n) /\ Stored(jobs')[n].archives = rec.want[n]
    BY JobAt
  <2>4. CreateJob(n) => rec.pc = "work" /\ rec.todo = {}
    BY DEF CreateJob, JobPending
  <2> QED BY <1>1, <1>2, <1>3, <2>2, <2>3, <2>4 DEF PreparedInv
<1> QED BY <1>1, <1>4, <1>5, <1>6 DEF PreparedInv

\* The hook of every claim a Job archives has run, and the ConfigMap it archives
\* exists, for every lag of the caches and under every abort, restart and loss.
THEOREM JobsArePrepared == SelectionFixed => (Spec => []JobsPrepared)
<1> SUFFICES ASSUME SelectionFixed PROVE Spec => []JobsPrepared
  OBVIOUS
<1>1. TypeOK /\ PreparedInv /\ [Next]_vars => PreparedInv'
  BY PreparedStep
<1>2. PreparedInv => JobsPrepared
  BY DEF PreparedInv, JobsPrepared, Prepared, Launched
<1> QED BY <1>1, <1>2, TypeCorrect, PreparedInit, PTL DEF Spec

-----------------------------------------------------------------------------
(* What a completed backup promises about the data.  The inductive argument *)
(* follows the data: a Job archives all selected claims of its node, it is  *)
(* complete only after its agent uploaded them, in every version a cache    *)
(* may show, and a reconcile completes the backup after it saw a complete   *)
(* Job on every node a selected claim lives on.                             *)

\* What the stored pods become.
LEMMA StoredPods ==
    ASSUME TypeOK, [Next]_vars
    PROVE  \/ Stored(pods') = Stored(pods)
           \/ \E n \in Nodes :
                \/ /\ DeleteJob(n) \/ ReapJob(n) \/ LosePod(n)
                   /\ Stored(pods') = [Stored(pods) EXCEPT ![n] = "none"]
                \/ /\ AgentSucceeds(n)
                   /\ \E log \in {"reported", "silent"} :
                         Stored(pods') = [Stored(pods) EXCEPT ![n] = log]
                \/ /\ AgentFails(n)
                   /\ Stored(pods') = [Stored(pods) EXCEPT ![n] = "failed"]
<1>1. CASE CacheMove(pods, pods')
  BY <1>1, CacheMoveStream, Constants DEF TypeOK
<1>2. ASSUME NEW n \in Nodes, NEW pod \in PodStates, SetPod(n, pod)
      PROVE  Stored(pods') = [Stored(pods) EXCEPT ![n] = pod]
  BY <1>2, SetPodType DEF TypeOK
<1>3. ASSUME NEW n \in Nodes, DeleteJob(n) \/ ReapJob(n) \/ LosePod(n)
      PROVE  Stored(pods') = [Stored(pods) EXCEPT ![n] = "none"]
  BY <1>2, <1>3 DEF DeleteJob, ReapJob, RemoveJob, LosePod, PodStates
<1>4. ASSUME NEW n \in Nodes, AgentSucceeds(n)
      PROVE  \E log \in {"reported", "silent"} :
                Stored(pods') = [Stored(pods) EXCEPT ![n] = log]
  BY <1>2, <1>4 DEF AgentSucceeds, PodStates
<1>5. ASSUME NEW n \in Nodes, AgentFails(n)
      PROVE  Stored(pods') = [Stored(pods) EXCEPT ![n] = "failed"]
  BY <1>2, <1>5 DEF AgentFails, PodStates
<1> QED BY <1>1, <1>3, <1>4, <1>5, PodSteps

Patched(before, after) == Stored(status') = MergePatch(Stored(status), before, after)

\* What the stored status becomes: recordOutcome's merge patch.
LEMMA StoredStatus ==
    ASSUME TypeOK, [Next]_vars
    PROVE  \/ Stored(status') = Stored(status)
           \/ HoldAtGate /\ \E reason \in GateReasons :
                 Patched(Cached(status), HoldStatus(Cached(status), reason))
           \/ /\ \E n \in Nodes : HoldJobDeleted(n)
              /\ Patched(rec.before, HoldStatus(rec.before, "JobDeleted"))
           \/ /\ \E c \in Claims : FailHook(c)
              /\ Patched(rec.before, FailStatus(rec.before, "HookFailed", NoJobs))
           \/ /\ \E c \in Claims : RejectHook(c)
              /\ Patched(rec.before, FailStatus(rec.before, "HookInvalid", NoJobs))
           \/ FailOnJob /\ Patched(rec.before, FailStatus(rec.before, "Failed", rec.seen))
           \/ RunBackup /\ Patched(rec.before, RunStatus(rec.before, rec.seen))
           \/ /\ CompleteBackup
              /\ Patched(rec.before, CompleteStatus(rec.before, rec.targets))
           \/ /\ FailOnResult
              /\ Patched(rec.before, FailStatus(rec.before, "ResultUnreadable", rec.seen))
<1>1. rec.before \in Status /\ rec.seen \in [Nodes -> JobStates] /\ Cached(status) \in Status
  BY StreamTypes DEF TypeOK, Rec
<1>2. ASSUME NEW before \in Status, NEW after \in Status, RecordOutcome(before, after)
      PROVE  Patched(before, after)
  BY <1>2, RecordOutcomeStores DEF Patched, TypeOK
<1>3. ASSUME NEW before \in Status, NEW reason \in Reasons, Hold(before, reason)
      PROVE  Patched(before, HoldStatus(before, reason))
  BY <1>2, <1>3, StatusTypes, IdleType DEF Hold
<1>4. ASSUME NEW reason \in Reasons, NEW seen \in [Nodes -> JobStates],
             FailBackup(reason, seen)
      PROVE  Patched(rec.before, FailStatus(rec.before, reason, seen))
  BY <1>1, <1>2, <1>4, StatusTypes DEF FailBackup
<1>5. CASE CacheMove(status, status')
  BY <1>5, CacheMoveStream, Constants DEF TypeOK
<1>6. CASE HoldAtGate
  <2>1. GateReasons \subseteq Reasons
    BY DEF GateReasons, Reasons
  <2> QED BY <1>1, <1>3, <1>6, <2>1 DEF HoldAtGate
<1>7. CASE \E n \in Nodes : HoldJobDeleted(n)
  BY <1>1, <1>3, <1>7 DEF HoldJobDeleted, Reasons
<1>8. CASE \E c \in Claims : FailHook(c) \/ RejectHook(c)
  BY <1>4, <1>8, IdleType DEF FailHook, RejectHook, Reasons
<1>9. CASE FailOnJob \/ FailOnResult
  BY <1>1, <1>4, <1>9 DEF FailOnJob, FailOnResult, Reasons
<1>10. CASE RunBackup
  BY <1>1, <1>2, <1>10, StatusTypes DEF RunBackup, Reasons
<1>11. CASE CompleteBackup
  BY <1>1, <1>2, <1>11, StatusTypes DEF CompleteBackup, Reasons
<1> QED BY <1>5, <1>6, <1>7, <1>8, <1>9, <1>10, <1>11, StatusSteps

\* The fields of what recordOutcome's callers write.
LEMMA StatusFields ==
    ASSUME NEW b \in Status, NEW reason, NEW seen, NEW targets
    PROVE  /\ HoldStatus(b, reason).phase =
                 IF b.phase = "Running" THEN "Running" ELSE "Scheduled"
           /\ HoldStatus(b, reason).reason = reason
           /\ HoldStatus(b, reason).jobs = b.jobs /\ HoldStatus(b, reason).ref = b.ref
           /\ RunStatus(b, seen).phase = "Running" /\ RunStatus(b, seen).reason = "Running"
           /\ RunStatus(b, seen).jobs = seen /\ RunStatus(b, seen).ref = b.ref
           /\ FailStatus(b, reason, seen).phase = "Failed"
           /\ FailStatus(b, reason, seen).reason = reason
           /\ FailStatus(b, reason, seen).jobs = seen
           /\ FailStatus(b, reason, seen).ref = b.ref
           /\ CompleteStatus(b, targets).phase = "Completed"
           /\ CompleteStatus(b, targets).reason = "Completed"
BY DEF HoldStatus, RunStatus, FailStatus, CompleteStatus, Status

\* Only CompleteBackup writes the phase Completed or a snapshot reference.
LEMMA OnlyCompleteCompletes ==
    ASSUME TypeOK, [Next]_vars, ~CompleteBackup
    PROVE  /\ Stored(status').ref = Stored(status).ref
           /\ Stored(status').phase = "Completed" => Stored(status).phase = "Completed"
<1>1. rec.before \in Status /\ Cached(status) \in Status /\ Stored(status) \in Status
  BY StreamTypes DEF TypeOK, Rec
<1>2. ASSUME NEW b \in Status, NEW after, Patched(b, after),
             after.ref = b.ref, after.phase # "Completed"
      PROVE  /\ Stored(status').ref = Stored(status).ref
             /\ Stored(status').phase = "Completed" => Stored(status).phase = "Completed"
  BY <1>2 DEF Patched, MergePatch, Overwrite
<1>3. ASSUME NEW b \in Status, NEW reason, NEW seen
      PROVE  /\ HoldStatus(b, reason).ref = b.ref
             /\ HoldStatus(b, reason).phase # "Completed"
             /\ RunStatus(b, seen).ref = b.ref /\ RunStatus(b, seen).phase # "Completed"
             /\ FailStatus(b, reason, seen).ref = b.ref
             /\ FailStatus(b, reason, seen).phase # "Completed"
  BY StatusFields
<1> QED BY <1>1, <1>2, <1>3, StoredStatus

NoDrift == "drift" \notin Faults
Homed(n) == {c \in Selected(world) : world.home[c] = n}
Placed == \A c \in Selected(world) : world.home[c] \in Nodes

\* Without drift, claims that have been placed stay placed where they are.
LEMMA PlacementStays ==
    ASSUME TypeOK, NoDrift, [Next]_vars
    PROVE  /\ Selected(world') = Selected(world)
           /\ Placed => /\ Placed'
                        /\ \A c \in Selected(world) : world'.home[c] = world.home[c]
                        /\ \A n \in Nodes : Homed(n)' = Homed(n)
<1>1. Selected(world') = Selected(world) /\ Selected(world) \subseteq Claims
  BY SelectionStays, PlacementTypes DEF TypeOK, NoDrift, SelectionFixed
<1>2. \A c \in Claims : world.home[c] \in Nodes => world'.home[c] = world.home[c]
  BY NoDriftSteps DEF NoDrift
<1> QED BY <1>1, <1>2 DEF Placed, Homed

\* What is on the backup server stays there.
LEMMA UploadsGrow ==
    ASSUME TypeOK, [Next]_vars
    PROVE  \A n \in Nodes : uploaded[n] \subseteq uploaded'[n]
BY RecordSteps DEF Upload, TypeOK

\* A version of the Jobs in which each has all claims of its node, and a complete
\* one has put its archives on the backup server.
Backed(j) ==
    \A n \in Nodes : /\ j[n].state # "none" => Placed /\ Homed(n) \subseteq j[n].archives
                     /\ j[n].state = "complete" => j[n].archives \subseteq uploaded[n]

\* Once the stored status says Completed, every selected claim is on the backup
\* server: what aggregateResults reported complete had been uploaded.
SecuredWhenCompleted ==
    Stored(status).phase = "Completed" =>
        Selected(world) \subseteq UNION {uploaded[n] : n \in Nodes}

PodInv ==
    \A n \in Nodes :
        /\ Stored(jobs)[n].state = "none" => Stored(pods)[n] = "none"
        /\ Stored(pods)[n] \in {"reported", "silent"}
           => Stored(jobs)[n].archives \subseteq uploaded[n]

WorkInv ==
    rec.pc = "work" =>
        /\ Placed
        /\ \A c \in Selected(world) : world.home[c] \in rec.targets
        /\ \A n \in Nodes :
              /\ Homed(n) \subseteq rec.want[n]
              /\ rec.seen[n] = "complete" => Homed(n) \subseteq uploaded[n]

DataInv ==
    /\ jobs \in Streams({j \in [Nodes -> Job] : Backed(j)}, ObjectLag)
    /\ PodInv
    /\ WorkInv
    /\ SecuredWhenCompleted
    /\ RefIsWholeBackup

\* At the start there is neither Job nor snapshot.
LEMMA DataInit == Init => DataInv
<1> SUFFICES ASSUME Init PROVE DataInv
  OBVIOUS
<1>1. /\ Stored(jobs) = [n \in Nodes |-> NoJob]
      /\ Stored(pods) = [n \in Nodes |-> "none"]
      /\ Stored(status) = NewStatus
  BY DEF Init, Listed, Stored
<1>2. jobs \in Streams({j \in [Nodes -> Job] : Backed(j)}, ObjectLag)
  <2>1. [n \in Nodes |-> NoJob] \in {j \in [Nodes -> Job] : Backed(j)}
    BY DEF Backed, NoJob, Job, JobStates
  <2> QED BY <2>1, ListedStream, Constants DEF Init
<1>3. PodInv /\ WorkInv
  BY <1>1 DEF PodInv, WorkInv, NoJob, Init, Idle
<1>4. SecuredWhenCompleted /\ RefIsWholeBackup
  <2>1. NewStatus.phase = "New" /\ NewStatus.ref = 0
    BY DEF NewStatus
  <2> QED BY <1>1, <2>1 DEF SecuredWhenCompleted, RefIsWholeBackup
<1> QED BY <1>2, <1>3, <1>4 DEF DataInv

\* Every version of the Jobs stays backed ...
LEMMA DataJobs ==
    ASSUME TypeOK, DataInv, NoDrift, [Next]_vars
    PROVE  (jobs \in Streams({j \in [Nodes -> Job] : Backed(j)}, ObjectLag))'
<1> DEFINE T == {j \in [Nodes -> Job] : Backed(j)}
           U == {j \in [Nodes -> Job] : Backed(j)'}
<1>1. T \subseteq U
  BY PlacementStays, UploadsGrow DEF Backed
<1>2. jobs \in Streams(U, ObjectLag) /\ Stored(jobs) \in U
  <2>1. jobs \in Streams(T, ObjectLag)
    BY DEF DataInv
  <2> HIDE DEF T, U
  <2> QED BY <1>1, <2>1, StreamsMonotone, StreamElements, Constants
<1>3. ASSUME NEW n \in Nodes, NEW job \in Job, SetJob(n, job),
             job.state # "none" => Placed' /\ Homed(n)' \subseteq job.archives,
             job.state = "complete" => job.archives \subseteq uploaded'[n]
      PROVE  jobs' \in Streams(U, ObjectLag)
  <2> DEFINE v == [Stored(jobs) EXCEPT ![n] = job]
  <2>1. v \in U
    BY <1>2, <1>3 DEF Backed
  <2>2. jobs' = Write(jobs, v, ObjectLag)
    BY <1>3 DEF SetJob
  <2> HIDE DEF U, v
  <2> QED BY <1>2, <2>1, <2>2, WriteStream, Constants
<1>4. CASE CacheMove(jobs, jobs')
  <2>1. jobs' \in Streams(U, ObjectLag)
    <3> HIDE DEF U
    <3> QED BY <1>2, <1>4, CacheMoveStream, Constants
  <2> QED BY <2>1
<1>5. ASSUME NEW n \in Nodes, CreateJob(n) PROVE jobs' \in Streams(U, ObjectLag)
  <2> DEFINE job == [state |-> "active", archives |-> rec.want[n]]
  <2>1. job \in Job
    BY DEF TypeOK, Rec, Job, JobStates
  <2>2. Placed /\ Homed(n) \subseteq rec.want[n]
    BY <1>5 DEF DataInv, WorkInv, CreateJob, JobPending
  <2>3. Placed' /\ Homed(n)' = Homed(n)
    BY <2>2, PlacementStays
  <2>4. SetJob(n, job)
    BY <1>5 DEF CreateJob
  <2> QED BY <1>3, <2>1, <2>2, <2>3, <2>4
<1>6. ASSUME NEW n \in Nodes, DeleteJob(n) \/ ReapJob(n)
      PROVE  jobs' \in Streams(U, ObjectLag)
  <2>1. NoJob \in Job /\ NoJob.state = "none"
    BY DEF NoJob, Job, JobStates
  <2> QED BY <1>3, <1>6, <2>1 DEF DeleteJob, ReapJob, RemoveJob
<1>7. ASSUME NEW n \in Nodes, FinishJob(n) PROVE jobs' \in Streams(U, ObjectLag)
  <2> DEFINE job == [Stored(jobs)[n] EXCEPT !.state =
                       IF Stored(pods)[n] = "failed" THEN "failed" ELSE "complete"]
  <2>1. job \in Job /\ job.archives = Stored(jobs)[n].archives
    BY StreamTypes DEF Job, JobStates
  <2>2. Placed' /\ Homed(n)' \subseteq Stored(jobs)[n].archives
    BY <1>2, <1>7 DEF FinishJob, Backed
  <2>3. job.state = "complete" => Stored(pods)[n] \in {"reported", "silent"}
    BY <1>7, StreamTypes DEF FinishJob, PodStates, Job
  <2>4. job.state = "complete" => job.archives \subseteq uploaded'[n]
    BY <2>1, <2>3, UploadsGrow DEF DataInv, PodInv
  <2>5. SetJob(n, job)
    BY <1>7 DEF FinishJob
  <2> QED BY <1>3, <2>1, <2>2, <2>4, <2>5
<1> QED BY <1>4, <1>5, <1>6, <1>7, JobSteps

\* ... so do the pods ...
LEMMA DataPods ==
    ASSUME TypeOK, DataInv, [Next]_vars
    PROVE  PodInv'
<1> SUFFICES ASSUME NEW n \in Nodes
             PROVE  /\ Stored(jobs')[n].state = "none" => Stored(pods')[n] = "none"
                    /\ Stored(pods')[n] \in {"reported", "silent"}
                       => Stored(jobs')[n].archives \subseteq uploaded'[n]
  BY DEF PodInv
<1>1. Stored(jobs) \in [Nodes -> Job] /\ Stored(pods) \in [Nodes -> PodStates]
  BY StreamTypes
<1>2. uploaded[n] \subseteq uploaded'[n]
  BY UploadsGrow
<1>3. \/ Stored(jobs')[n] = Stored(jobs)[n]
      \/ CreateJob(n)
      \/ DeleteJob(n) \/ ReapJob(n)
      \/ FinishJob(n) /\ Stored(jobs')[n].state # "none"
         /\ Stored(jobs')[n].archives = Stored(jobs)[n].archives
  BY JobAt
<1>4. \/ Stored(pods')[n] = Stored(pods)[n]
      \/ Stored(pods')[n] = "none"
      \/ AgentSucceeds(n)
      \/ AgentFails(n) /\ Stored(pods')[n] = "failed"
  BY <1>1, StoredPods
<1>5. CASE CreateJob(n)
  <2>1. Stored(pods')[n] = "none"
    BY <1>5 DEF CreateJob, DataInv, PodInv
  <2> QED BY <2>1
<1>6. CASE DeleteJob(n) \/ ReapJob(n)
  <2>1. SetPod(n, "none")
    BY <1>6 DEF DeleteJob, ReapJob, RemoveJob
  <2>2. Stored(pods')[n] = "none"
    BY <1>1, <2>1, SetPodType DEF TypeOK, PodStates
  <2> QED BY <2>2
<1>7. CASE /\ FinishJob(n) /\ Stored(jobs')[n].state # "none"
           /\ Stored(jobs')[n].archives = Stored(jobs)[n].archives
  BY <1>2, <1>7 DEF FinishJob, DataInv, PodInv
<1>8. CASE AgentSucceeds(n)
  BY <1>1, <1>8 DEF AgentSucceeds, Started, Upload, TypeOK
<1>9. CASE AgentFails(n) /\ Stored(pods')[n] = "failed"
  BY <1>1, <1>9 DEF AgentFails, Started
<1>10. CASE /\ Stored(jobs')[n] = Stored(jobs)[n]
            /\ Stored(pods')[n] \in {Stored(pods)[n], "none"}
  BY <1>2, <1>10 DEF DataInv, PodInv
<1> QED BY <1>3, <1>4, <1>5, <1>6, <1>7, <1>8, <1>9, <1>10

\* ... what the reconcile under way knows ...
LEMMA DataWork ==
    ASSUME TypeOK, DataInv, NoDrift, [Next]_vars
    PROVE  WorkInv'
<1> SUFFICES ASSUME rec'.pc = "work" PROVE WorkInv'
  BY DEF WorkInv
<1>1. \A n \in Nodes : uploaded[n] \subseteq uploaded'[n]
  BY UploadsGrow
<1>2. ASSUME rec.pc = "work", rec'.targets = rec.targets, rec'.want = rec.want,
             \A n \in Nodes : rec'.seen[n] = "complete" =>
                rec.seen[n] = "complete" \/ Homed(n) \subseteq uploaded[n]
      PROVE  WorkInv'
  <2>1. /\ Placed' /\ Selected(world') = Selected(world)
        /\ \A c \in Selected(world) : world'.home[c] = world.home[c]
        /\ \A n \in Nodes : Homed(n)' = Homed(n)
    BY <1>2, PlacementStays DEF DataInv, WorkInv
  <2> QED BY <1>1, <1>2, <2>1 DEF DataInv, WorkInv
<1>3. CASE rec' = rec
  BY <1>2, <1>3
<1>4. CASE \/ rec' = Idle \/ rec' = [Idle EXCEPT !.pc = "failed"]
           \/ rec' = [Idle EXCEPT !.pc = "completed"]
  BY <1>4 DEF Idle
<1>5. CASE Place
  <2>1. Placed
    BY <1>5 DEF Place, Placeable, Placed
  <2>2. /\ Placed' /\ Selected(world') = Selected(world)
        /\ \A c \in Selected(world) : world'.home[c] = world.home[c]
        /\ \A n \in Nodes : Homed(n)' = Homed(n)
    BY <2>1, PlacementStays
  <2>3. \A c \in Selected(world) : world.home[c] \in rec'.targets
    BY <1>5 DEF Place, Targets
  <2>4. \A n \in Nodes : Homed(n) \subseteq rec'.want[n] /\ rec'.seen[n] = "none"
    BY <1>5 DEF Place, Group, Homed, NoJobs
  <2> QED BY <2>2, <2>3, <2>4 DEF WorkInv
<1>6. CASE \E c \in Claims : RunHook(c)
  <2>1. /\ rec.pc = "work" /\ rec'.targets = rec.targets
        /\ rec'.want = rec.want /\ rec'.seen = rec.seen
    BY <1>6 DEF RunHook, HookPending, TypeOK, Rec
  <2> QED BY <1>2, <2>1
<1>7. ASSUME NEW n \in Nodes, FindJob(n) PROVE WorkInv'
  <2>1. /\ rec.pc = "work" /\ rec'.targets = rec.targets /\ rec'.want = rec.want
        /\ rec'.seen = [rec.seen EXCEPT ![n] = Cached(jobs)[n].state]
    BY <1>7 DEF FindJob, JobPending, TypeOK, Rec
  <2>2. Backed(Cached(jobs))
    BY StreamElements, Constants DEF DataInv
  <2>3. Cached(jobs)[n].state = "complete" => Homed(n) \subseteq uploaded[n]
    BY <2>2 DEF Backed
  <2> QED BY <1>2, <2>1, <2>3 DEF TypeOK, Rec
<1>8. ASSUME NEW n \in Nodes, CreateJob(n) PROVE WorkInv'
  <2>1. /\ rec.pc = "work" /\ rec'.targets = rec.targets /\ rec'.want = rec.want
        /\ rec'.seen = [rec.seen EXCEPT ![n] = "active"]
    BY <1>8 DEF CreateJob, JobPending, TypeOK, Rec
  <2> QED BY <1>2, <2>1 DEF TypeOK, Rec
<1> QED BY <1>3, <1>4, <1>5, <1>6, <1>7, <1>8, RecSteps

\* When CompleteBackup is enabled, every selected claim is on the backup server,
\* uploaded from the node it lives on, and that node is one of the targets.
LEMMA CompleteHasData ==
    ASSUME TypeOK, DataInv, CompleteBackup
    PROVE  \A c \in Selected(world) :
              /\ world.home[c] \in rec.targets /\ world.home[c] \in Nodes
              /\ c \in uploaded[world.home[c]]
<1> SUFFICES ASSUME NEW c \in Selected(world)
             PROVE  /\ world.home[c] \in rec.targets /\ world.home[c] \in Nodes
                    /\ c \in uploaded[world.home[c]]
  OBVIOUS
<1>1. rec.pc = "work" /\ \A n \in rec.targets : rec.seen[n] = "complete"
  BY DEF CompleteBackup, AllSeen, SeenIn
<1>2. world.home[c] \in rec.targets /\ world.home[c] \in Nodes
  BY <1>1 DEF DataInv, WorkInv, TypeOK, Rec
<1>3. c \in Homed(world.home[c])
  BY DEF Homed
<1> QED BY <1>1, <1>2, <1>3 DEF DataInv, WorkInv

\* ... and what the status promises.
LEMMA DataStatus ==
    ASSUME TypeOK, DataInv, NoDrift, [Next]_vars
    PROVE  SecuredWhenCompleted' /\ RefIsWholeBackup'
<1>1. Selected(world') = Selected(world) /\ Selected(world) \subseteq Claims
  BY PlacementStays, PlacementTypes DEF TypeOK
<1>2. \A n \in Nodes : uploaded[n] \subseteq uploaded'[n]
  BY UploadsGrow
<1>3. Stored(status).ref \in Nodes \cup {0}
  BY StreamTypes DEF Status
<1>4. CASE ~CompleteBackup
  <2>1. /\ Stored(status').ref = Stored(status).ref
        /\ Stored(status').phase = "Completed" => Stored(status).phase = "Completed"
    BY <1>4, OnlyCompleteCompletes
  <2>2. UNION {uploaded[n] : n \in Nodes} \subseteq UNION {uploaded'[n] : n \in Nodes}
    BY <1>2
  <2>3. SecuredWhenCompleted'
    BY <1>1, <2>1, <2>2 DEF DataInv, SecuredWhenCompleted
  <2>4. RefIsWholeBackup'
    BY <1>1, <1>2, <1>3, <2>1 DEF DataInv, RefIsWholeBackup
  <2> QED BY <2>3, <2>4
<1>5. CASE CompleteBackup
  <2> DEFINE after == CompleteStatus(rec.before, rec.targets)
  <2>1. \A c \in Selected(world) :
           /\ world.home[c] \in rec.targets /\ world.home[c] \in Nodes
           /\ c \in uploaded[world.home[c]]
    BY <1>5, CompleteHasData
  <2>2. uploaded' = uploaded
    BY <1>5 DEF CompleteBackup
  <2>3. SecuredWhenCompleted'
    BY <1>1, <2>1, <2>2 DEF SecuredWhenCompleted
  <2>4. rec.before \in Status /\ after \in Status
    BY StatusTypes DEF TypeOK, Rec, Reasons, JobStates
  <2>5. Stored(status').ref = Overwrite(Stored(status).ref, rec.before.ref, after.ref)
    BY <1>5, <2>4, RecordOutcomeStores DEF CompleteBackup, TypeOK, MergePatch
  <2>6. \/ after.ref = rec.before.ref
        \/ after.ref \in Nodes /\ rec.targets = {after.ref}
    BY <2>4 DEF CompleteStatus, Status
  <2>7. ASSUME Stored(status').ref = Stored(status).ref PROVE RefIsWholeBackup'
    BY <1>1, <2>2, <2>7 DEF DataInv, RefIsWholeBackup
  <2>8. ASSUME Stored(status').ref \in Nodes, rec.targets = {Stored(status').ref}
        PROVE  RefIsWholeBackup'
    BY <1>1, <2>1, <2>2, <2>8 DEF RefIsWholeBackup
  <2>9. RefIsWholeBackup'
    BY <2>5, <2>6, <2>7, <2>8 DEF Overwrite
  <2> QED BY <2>3, <2>9
<1> QED BY <1>4, <1>5

\* Together: every step keeps the data invariant.
LEMMA DataStep ==
    ASSUME TypeOK, DataInv, NoDrift, [Next]_vars
    PROVE  DataInv'
BY DataJobs, DataPods, DataWork, DataStatus DEF DataInv

\* The snapshot a backup publishes holds every selected claim, for every lag of
\* the caches and under every fault but drift.
THEOREM RefIsWhole == NoDrift => (Spec => []RefIsWholeBackup)
<1> SUFFICES ASSUME NoDrift PROVE Spec => []RefIsWholeBackup
  OBVIOUS
<1>1. TypeOK /\ DataInv /\ [Next]_vars => DataInv'
  BY DataStep
<1>2. DataInv => RefIsWholeBackup
  BY DEF DataInv
<1> QED BY <1>1, <1>2, TypeCorrect, DataInit, PTL DEF Spec

\* A backup that says Completed has every selected claim on the backup server, for
\* every lag of the caches and under every fault but drift: a stale status cache
\* may cost CompletedIsRestorable its entry per node, never the data itself.
THEOREM CompletedIsSecured == NoDrift => (Spec => []SecuredWhenCompleted)
<1> SUFFICES ASSUME NoDrift PROVE Spec => []SecuredWhenCompleted
  OBVIOUS
<1>1. TypeOK /\ DataInv /\ [Next]_vars => DataInv'
  BY DataStep
<1>2. DataInv => SecuredWhenCompleted
  BY DEF DataInv
<1> QED BY <1>1, <1>2, TypeCorrect, DataInit, PTL DEF Spec
=============================================================================
