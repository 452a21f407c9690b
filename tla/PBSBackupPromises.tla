-------------------------- MODULE PBSBackupPromises --------------------------
(* What the controller promises the user of a PBSBackup when its cache of   *)
(* the PBSBackup is never stale (StatusLag = 1) or that of the Jobs is not   *)
(* (ObjectLag = 1): what Completed means, that the controller                *)
(* implements BackupLifecycle, what hooks and Jobs it leaves behind.         *)
EXTENDS PBSBackupSafety

-----------------------------------------------------------------------------
(* Completed, and the lifecycle.                                           *)

\* A fresh reconcile that completes the backup stores what it computed.
LEMMA FreshComplete ==
    ASSUME TypeOK, OutcomeInv, CompleteBackup
    PROVE  Stored(status') = CompleteStatus(Stored(status), rec.targets)
<1>1. rec.before = Stored(status)
  BY DEF CompleteBackup, AllSeen, OutcomeInv
<1>2. CompleteStatus(Stored(status), rec.targets) \in Status
  BY StreamTypes, StatusTypes, IdleType DEF Reasons
<1> QED BY <1>1, <1>2, FreshPatch DEF CompleteBackup

\* One that fails it does, too.
LEMMA FreshFail ==
    ASSUME TypeOK, OutcomeInv, rec.pc = "work", NEW reason \in Reasons,
           NEW seen \in [Nodes -> JobStates], FailBackup(reason, seen)
    PROVE  Stored(status').phase = "Failed" /\ Stored(status').reason = reason
<1>1. rec.before = Stored(status) /\ Stored(status) \in Status
  BY StreamTypes DEF OutcomeInv
<1>2. FailStatus(Stored(status), reason, seen) \in Status
  BY <1>1, StatusTypes
<1>3. Stored(status') = FailStatus(Stored(status), reason, seen)
  BY <1>1, <1>2, FreshPatch DEF FailBackup
<1> QED BY <1>1, <1>3, StatusFields

\* A fresh reconcile stores what it computed from the stored status: the cases of
\* StoredStatus again, without the merge patch.
LEMMA FreshStored ==
    ASSUME TypeOK, OutcomeInv, StatusLag = 1, [Next]_vars
    PROVE  LET st == Stored(status) IN
           \/ Stored(status') = st
           \/ /\ st.phase \notin Terminal /\ uploaded' = uploaded
              /\ \/ /\ HoldAtGate
                    /\ \E reason \in GateReasons : Stored(status') = HoldStatus(st, reason)
                 \/ /\ \E n \in Nodes : HoldJobDeleted(n)
                    /\ Stored(status') = HoldStatus(st, "JobDeleted")
                 \/ /\ \E c \in Claims : FailHook(c)
                    /\ Stored(status') = FailStatus(st, "HookFailed", NoJobs)
                 \/ /\ \E c \in Claims : RejectHook(c)
                    /\ Stored(status') = FailStatus(st, "HookInvalid", NoJobs)
                 \/ FailOnJob /\ Stored(status') = FailStatus(st, "Failed", rec.seen)
                 \/ RunBackup /\ Stored(status') = RunStatus(st, rec.seen)
                 \/ CompleteBackup /\ Stored(status') = CompleteStatus(st, rec.targets)
                 \/ /\ FailOnResult
                    /\ Stored(status') = FailStatus(st, "ResultUnreadable", rec.seen)
<1>1. Stored(status) \in Status /\ Cached(status) = Stored(status)
  BY StreamTypes, FreshStatus
<1>2. rec.pc = "work" => rec.before = Stored(status) /\ Stored(status).phase \notin Terminal
  BY DEF OutcomeInv
<1>3. ASSUME NEW after \in Status, Patched(Stored(status), after)
      PROVE  Stored(status') = after
  BY <1>1, <1>3, MergePatchType DEF Patched
<1>4. rec.seen \in [Nodes -> JobStates]
  BY DEF TypeOK, Rec
<1>5. CASE HoldAtGate /\ \E reason \in GateReasons :
              Patched(Cached(status), HoldStatus(Cached(status), reason))
  <2>1. Stored(status).phase \notin Terminal /\ uploaded' = uploaded
    BY <1>1, <1>5 DEF HoldAtGate, Begin, Hold
  <2>2. GateReasons \subseteq Reasons
    BY DEF GateReasons, Reasons
  <2> QED BY <1>1, <1>3, <1>5, <2>1, <2>2, StatusTypes, IdleType
<1>6. CASE /\ \E n \in Nodes : HoldJobDeleted(n)
           /\ Patched(rec.before, HoldStatus(rec.before, "JobDeleted"))
  <2>1. rec.pc = "work" /\ uploaded' = uploaded
    BY <1>6 DEF HoldJobDeleted, JobPending, Hold
  <2> QED BY <1>1, <1>2, <1>3, <1>6, <2>1, StatusTypes, IdleType DEF Reasons
<1>7. CASE \/ /\ \E c \in Claims : FailHook(c)
              /\ Patched(rec.before, FailStatus(rec.before, "HookFailed", NoJobs))
           \/ /\ \E c \in Claims : RejectHook(c)
              /\ Patched(rec.before, FailStatus(rec.before, "HookInvalid", NoJobs))
  <2>1. rec.pc = "work" /\ uploaded' = uploaded
    BY <1>7 DEF FailHook, RejectHook, HookPending
  <2> QED BY <1>1, <1>2, <1>3, <1>7, <2>1, StatusTypes, IdleType DEF Reasons
<1>8. CASE \/ FailOnJob /\ Patched(rec.before, FailStatus(rec.before, "Failed", rec.seen))
           \/ /\ FailOnResult
              /\ Patched(rec.before, FailStatus(rec.before, "ResultUnreadable", rec.seen))
  <2>1. rec.pc = "work" /\ uploaded' = uploaded
    BY <1>8 DEF FailOnJob, FailOnResult, AllSeen
  <2> QED BY <1>1, <1>2, <1>3, <1>4, <1>8, <2>1, StatusTypes DEF Reasons
<1>9. CASE RunBackup /\ Patched(rec.before, RunStatus(rec.before, rec.seen))
  <2>1. rec.pc = "work" /\ uploaded' = uploaded
    BY <1>9 DEF RunBackup, AllSeen
  <2> QED BY <1>1, <1>2, <1>3, <1>4, <1>9, <2>1, StatusTypes DEF Reasons
<1>10. CASE /\ CompleteBackup
            /\ Patched(rec.before, CompleteStatus(rec.before, rec.targets))
  <2>1. rec.pc = "work" /\ uploaded' = uploaded
    BY <1>10 DEF CompleteBackup, AllSeen
  <2> QED BY <1>1, <1>2, <1>3, <1>4, <1>10, <2>1, StatusTypes DEF Reasons
<1> QED BY <1>5, <1>6, <1>7, <1>8, <1>9, <1>10, StoredStatus

\* Every step keeps the promise of Completed.
LEMMA RestorableStep ==
    ASSUME TypeOK, OutcomeInv, DataInv, StatusLag = 1, NoDrift,
           CompletedIsRestorable, [Next]_vars
    PROVE  CompletedIsRestorable'
<1>1. Selected(world') = Selected(world) /\ Selected(world) \subseteq Claims
  BY PlacementStays, PlacementTypes DEF TypeOK
<1>2. \A n \in Nodes : uploaded[n] \subseteq uploaded'[n]
  BY UploadsGrow
<1>3. CASE CompleteBackup
  <2>1. \A c \in Selected(world) :
           /\ world.home[c] \in rec.targets /\ world.home[c] \in Nodes
           /\ c \in uploaded[world.home[c]]
    BY <1>3, CompleteHasData
  <2>2. Stored(status').jobs = [n \in Nodes |-> IF n \in rec.targets THEN "ok" ELSE "none"]
    BY <1>3, FreshComplete, StreamTypes DEF CompleteStatus, Status
  <2> QED BY <1>1, <1>2, <2>1, <2>2 DEF CompletedIsRestorable
<1>4. CASE ~CompleteBackup
  <2>1. Stored(status').phase = "Completed" => Stored(status') = Stored(status)
    BY <1>4, OnlyCompleteCompletes, FreshStep DEF StaysTerminal, Terminal
  <2> QED BY <1>1, <1>2, <2>1 DEF CompletedIsRestorable
<1> QED BY <1>3, <1>4

\* A new backup is not completed.
LEMMA NewIsOpen == Init => Stored(status) = NewStatus /\ NewStatus.phase = "New"
<1>1. Init => Stored(status) = NewStatus
  BY DEF Init, Listed, Stored
<1>2. NewStatus.phase = "New"
  BY DEF NewStatus
<1> QED BY <1>1, <1>2

\* With a fresh PBSBackup cache and a workload that does not drift, Completed
\* means that every selected claim was uploaded from a node recorded as ok.
THEOREM CompletedKeepsPromise ==
    StatusLag = 1 /\ NoDrift => (Spec => []CompletedIsRestorable)
<1> SUFFICES ASSUME StatusLag = 1, NoDrift PROVE Spec => []CompletedIsRestorable
  OBVIOUS
<1>1. Init => CompletedIsRestorable
  BY NewIsOpen DEF CompletedIsRestorable
<1>2. TypeOK /\ OutcomeInv /\ [Next]_vars => OutcomeInv'
  BY FreshStep
<1>3. TypeOK /\ DataInv /\ [Next]_vars => DataInv'
  BY DataStep
<1>4. TypeOK /\ OutcomeInv /\ DataInv /\ CompletedIsRestorable /\ [Next]_vars
        => CompletedIsRestorable'
  BY RestorableStep
<1> QED BY <1>1, <1>2, <1>3, <1>4, TypeCorrect, FreshInit, DataInit, PTL DEF Spec

\* The outcome invariant, of which the metrics are a part.
THEOREM OutcomeIsTracked == StatusLag = 1 => (Spec => []OutcomeInv)
<1> SUFFICES ASSUME StatusLag = 1 PROVE Spec => []OutcomeInv
  OBVIOUS
<1>1. TypeOK /\ OutcomeInv /\ [Next]_vars => OutcomeInv'
  BY FreshStep
<1> QED BY <1>1, TypeCorrect, FreshInit, PTL DEF Spec

\* The phases a fresh reconcile moves between.
LEMMA PhaseSteps ==
    ASSUME TypeOK, OutcomeInv, StatusLag = 1, [Next]_vars
    PROVE  LET old == Stored(status).phase  new == Stored(status').phase IN
           \/ new = old
           \/ old = "New" /\ new = "Scheduled"
           \/ old \in {"New", "Scheduled"} /\ new = "Running"
           \/ old \in {"New", "Scheduled", "Running"} /\ new = "Failed"
           \/ old \in {"New", "Scheduled", "Running"} /\ new = "Completed" /\ CompleteBackup
<1>1. Stored(status) \in Status
  BY StreamTypes
<1>2. Stored(status).phase \notin Terminal
        => Stored(status).phase \in {"New", "Scheduled", "Running"}
  BY <1>1 DEF Status, Phases, Terminal
<1> QED BY <1>1, <1>2, StatusFields, FreshStored

\* Every step of the controller and its cluster is a step of the lifecycle.
LEMMA LifecycleStep ==
    ASSUME TypeOK, OutcomeInv, DataInv, StatusLag = 1, NoDrift, [Next]_vars
    PROVE  [Lifecycle!LNext]_(Lifecycle!lvars)
<1> DEFINE secured == (UNION {uploaded[n] : n \in Nodes}) \ {API}
<1>1. Selected(world') = Selected(world) /\ Selected(world) \subseteq Claims
  BY PlacementStays, PlacementTypes DEF TypeOK
<1>2. secured \subseteq secured' /\ secured' \subseteq Claims
  <2>1. TypeOK'
    BY TypeStep
  <2> QED BY <2>1, UploadsGrow DEF TypeOK, Archives
<1>3. CASE Stored(status').phase = Stored(status).phase
  BY <1>1, <1>2, <1>3 DEF Lifecycle!LNext, Lifecycle!Secure
<1>4. CASE Stored(status').phase # Stored(status).phase
  <2>1. uploaded' = uploaded
    BY <1>4, FreshStored
  <2>2. CompleteBackup => Selected(world) \subseteq secured
    <3>1. API \notin Selected(world)
      BY <1>1, ClaimsAssumption DEF API
    <3> QED BY <3>1, CompleteHasData
  <2> QED BY <1>1, <1>4, <2>1, <2>2, PhaseSteps
          DEF Lifecycle!LNext, Lifecycle!Wait, Lifecycle!Start, Lifecycle!Complete,
              Lifecycle!Fail, Lifecycle!Open
<1> QED BY <1>3, <1>4

\* With a fresh PBSBackup cache and a workload that does not drift, the controller
\* implements BackupLifecycle under every other fault and any lag of the Jobs:
\* phases only move forward, and Completed comes after the last upload.
THEOREM LifecycleImplemented ==
    StatusLag = 1 /\ NoDrift => (Spec => ImplementsLifecycle)
<1> SUFFICES ASSUME StatusLag = 1, NoDrift PROVE Spec => ImplementsLifecycle
  OBVIOUS
<1>1. Init => Lifecycle!LInit
  <2> SUFFICES ASSUME Init PROVE Lifecycle!LInit
    OBVIOUS
  <2>1. Selected(world) \subseteq Claims
    BY PlacementTypes, TypeInit DEF TypeOK
  <2>2. UNION {uploaded[n] : n \in Nodes} = {}
    BY DEF Init
  <2> QED BY <2>1, <2>2, NewIsOpen DEF Lifecycle!LInit
<1>2. TypeOK /\ OutcomeInv /\ [Next]_vars => OutcomeInv'
  BY FreshStep
<1>3. TypeOK /\ DataInv /\ [Next]_vars => DataInv'
  BY DataStep
<1>4. TypeOK /\ OutcomeInv /\ DataInv /\ [Next]_vars
        => [Lifecycle!LNext]_(Lifecycle!lvars)
  BY LifecycleStep
<1> QED BY <1>1, <1>2, <1>3, <1>4, TypeCorrect, FreshInit, DataInit, PTL
        DEF Spec, ImplementsLifecycle, Lifecycle!LSpec

-----------------------------------------------------------------------------
(* The pre-backup hooks run at most once and a hook failure leaves no Job, if *)
(* no reconcile is aborted and the operator does not restart: only then does *)
(* a reconcile that created a Job always record it.                          *)

NoInterruption == {"abort", "crash"} \cap Faults = {}

HookInv ==
    LET st == Stored(status) IN
    /\ rec.pc # "work" /\ st.phase \notin Terminal /\ st.jobs = NoJobs
         => Launched = {} /\ \A c \in Claims : execs[c] = 0
    /\ rec.pc = "work" /\ st.jobs = NoJobs => \A n \in Launched : rec.seen[n] # "none"
    /\ rec.pc = "work" /\ rec.todo # {}
         => st.jobs = NoJobs /\ rec.seen = NoJobs /\ \A c \in rec.todo : execs[c] = 0
    /\ st.reason \in {"HookInvalid", "HookFailed"} => st.phase = "Failed"
    /\ HooksAtMostOnce
    /\ HookFailureLeavesNoJobs

\* At the start no hook has run and there is no Job.
LEMMA HookInit == Init => HookInv
<1> SUFFICES ASSUME Init PROVE HookInv
  OBVIOUS
<1>1. Stored(jobs) = [n \in Nodes |-> NoJob]
  BY DEF Init, Listed, Stored
<1>2. Launched = {}
  BY <1>1 DEF Launched, NoJob
<1>3. Stored(status) = NewStatus /\ NewStatus.reason = ""
  BY NewIsOpen DEF NewStatus
<1>4. rec.pc # "work" /\ \A c \in Claims : execs[c] = 0
  BY DEF Init, Idle
<1>5. HooksAtMostOnce /\ HookFailureLeavesNoJobs
  BY <1>2, <1>4 DEF HooksAtMostOnce, HookFailureLeavesNoJobs
<1> QED BY <1>2, <1>3, <1>4, <1>5 DEF HookInv

\* Only CreateJob launches a Job, one that did not exist and is seen at once.
LEMMA LaunchSteps ==
    ASSUME TypeOK, [Next]_vars
    PROVE  \/ Launched' \subseteq Launched
           \/ \E n \in Nodes : CreateJob(n) /\ Launched' = Launched \cup {n}
<1>1. Stored(jobs) \in [Nodes -> Job]
  BY StreamTypes
<1>2. CASE Stored(jobs') = Stored(jobs)
  BY <1>2 DEF Launched
<1>3. ASSUME NEW n \in Nodes, Stored(jobs') = [Stored(jobs) EXCEPT ![n] =
                                     [state |-> "active", archives |-> rec.want[n]]]
      PROVE  Launched' = Launched \cup {n}
  BY <1>1, <1>3 DEF Launched
<1>4. ASSUME NEW n \in Nodes, Stored(jobs') = [Stored(jobs) EXCEPT ![n] = NoJob]
      PROVE  Launched' \subseteq Launched
  BY <1>1, <1>4 DEF Launched, NoJob
<1>5. ASSUME NEW n \in Nodes, NEW state, FinishJob(n),
             Stored(jobs') = [Stored(jobs) EXCEPT ![n] =
                                [Stored(jobs)[n] EXCEPT !.state = state]]
      PROVE  Launched' \subseteq Launched
  BY <1>1, <1>5 DEF Launched, FinishJob
<1> QED BY <1>2, <1>3, <1>4, <1>5, StoredJobs

\* A reconcile that is not interrupted ends by writing the status or by losing a
\* race for a Job: the ways rec leaves "work".
LEMMA WorkEnds ==
    ASSUME TypeOK, NoInterruption, [Next]_vars, rec.pc = "work", rec'.pc # "work"
    PROVE  \/ \E n \in Nodes : HoldJobDeleted(n) \/ LoseCreateRace(n)
           \/ \E c \in Claims : FailHook(c) \/ RejectHook(c)
           \/ FailOnJob \/ RunBackup \/ CompleteBackup \/ FailOnResult
<1>1. rec' # rec
  OBVIOUS
<1>2. CASE \/ HoldRepoNotReady \/ HoldSecretCopy \/ HoldSelection
           \/ HoldNothing \/ HoldUnplaceable \/ Place \/ ObserveFailed \/ ObserveCompleted
  BY <1>2 DEF HoldRepoNotReady, HoldSecretCopy, HoldSelection, HoldNothing,
     HoldUnplaceable, Place, Begin, ObserveFailed, ObserveCompleted
<1>3. CASE \/ \E c \in Claims : RunHook(c)
           \/ \E n \in Nodes : FindJob(n) \/ CreateJob(n)
  BY <1>3 DEF RunHook, FindJob, CreateJob, TypeOK, Rec
<1>4. CASE \/ Abort \/ AbortInGates \/ Crash \/ LoseRepo \/ CollectCopy \/ Drift
           \/ Recover \/ DeliverStatus \/ DeliverJobs \/ DeliverPods \/ UNCHANGED vars
  BY <1>1, <1>4 DEF Abort, AbortInGates, Crash, LoseRepo, CollectCopy, Drift, Recover,
     DeliverStatus, DeliverJobs, DeliverPods, vars, Fault, NoInterruption
<1>5. CASE \E n \in Nodes : \/ DeleteJob(n) \/ ReapJob(n) \/ LosePod(n)
                           \/ AgentSucceeds(n) \/ AgentFails(n) \/ FinishJob(n)
  BY <1>1, <1>5 DEF DeleteJob, ReapJob, LosePod, AgentSucceeds, AgentFails, FinishJob
<1> QED BY <1>2, <1>3, <1>4, <1>5 DEF Next, Reconcile

\* How work begins and goes on.
LEMMA WorkGoesOn ==
    ASSUME TypeOK, OutcomeInv, StatusLag = 1, [Next]_vars, rec'.pc = "work"
    PROVE  /\ Stored(status') = Stored(status) /\ Stored(status).phase \notin Terminal
           /\ \/ rec' = rec /\ UNCHANGED execs /\ Launched' \subseteq Launched
              \/ /\ rec.pc = "idle" /\ rec'.seen = NoJobs /\ UNCHANGED <<jobs, execs>>
                 /\ rec'.todo \subseteq Claims
                 /\ rec'.todo # {} => Stored(status).jobs = NoJobs
              \/ /\ rec.pc = "work" /\ UNCHANGED jobs
                 /\ rec'.seen = rec.seen
                 /\ \E c \in rec.todo : rec'.todo = rec.todo \ {c} /\ execs' = Executed(c)
              \/ /\ rec.pc = "work" /\ rec.todo = {} /\ rec'.todo = {} /\ UNCHANGED execs
                 /\ \E n \in Nodes, state \in JobStates \ {"none"} :
                       /\ rec'.seen = [rec.seen EXCEPT ![n] = state]
                       /\ CreateJob(n) \/ UNCHANGED jobs
<1>1. Cached(status) = Stored(status) /\ Cached(jobs) \in [Nodes -> Job]
  BY FreshStatus, StreamTypes
<1>2. CASE rec' = rec
  <2>1. rec.pc = "work" => Stored(status).phase \notin Terminal
    BY DEF OutcomeInv
  <2>2. ~(HoldAtGate \/ (\E n \in Nodes : HoldJobDeleted(n))
          \/ (\E c \in Claims : FailHook(c) \/ RejectHook(c))
          \/ FailOnJob \/ RunBackup \/ CompleteBackup \/ FailOnResult)
    BY <1>2 DEF HoldAtGate, HoldJobDeleted, Hold, FailHook, RejectHook, FailBackup,
       FailOnJob, RunBackup, CompleteBackup, FailOnResult, Idle
  <2>3. Stored(status') = Stored(status)
    BY <2>2, StatusSteps, CacheMoveStream, Constants DEF TypeOK
  <2>4. ~\E c \in Claims : RunHook(c) \/ FailHook(c)
    BY <1>2 DEF RunHook, FailHook, FailBackup, HookPending, First, Idle, TypeOK, Rec
  <2>5. ASSUME NEW n \in Nodes, CreateJob(n) PROVE FALSE
    <3>1. rec.seen[n] = "none" /\ rec' = [rec EXCEPT !.seen[n] = "active"]
      BY <2>5 DEF CreateJob, JobPending, First, Unseen
    <3>2. rec'.seen[n] = "active"
      BY <3>1 DEF TypeOK, Rec
    <3> QED BY <1>2, <3>1, <3>2
  <2> QED BY <1>2, <2>1, <2>3, <2>4, <2>5, RecordSteps, LaunchSteps
<1>3. CASE \/ rec' = Idle \/ rec' = [Idle EXCEPT !.pc = "failed"]
           \/ rec' = [Idle EXCEPT !.pc = "completed"]
  BY <1>3 DEF Idle
<1>4. CASE Place
  <2>1. HooksDue(Cached(status)) \subseteq Claims
    BY PlacementTypes DEF HooksDue, TypeOK
  <2> QED BY <1>1, <1>4, <2>1 DEF Place, Begin, HooksDue
<1>5. CASE \E c \in Claims : RunHook(c)
  <2>1. PICK c \in Claims : RunHook(c)
    BY <1>5
  <2>2. /\ rec.pc = "work" /\ c \in rec.todo /\ rec'.todo = rec.todo \ {c}
        /\ rec'.seen = rec.seen
    BY <2>1 DEF RunHook, HookPending, First, TypeOK, Rec
  <2> QED BY <2>1, <2>2 DEF RunHook, OutcomeInv
<1>6. CASE \E n \in Nodes : FindJob(n)
  <2>1. PICK n \in Nodes : FindJob(n)
    BY <1>6
  <2>2. Cached(jobs)[n].state \in JobStates \ {"none"}
    BY <1>1, <2>1 DEF FindJob, Found, Job
  <2>3. /\ rec.pc = "work" /\ rec.todo = {} /\ rec'.todo = {}
        /\ rec'.seen = [rec.seen EXCEPT ![n] = Cached(jobs)[n].state]
    BY <2>1 DEF FindJob, JobPending, TypeOK, Rec
  <2> QED BY <2>1, <2>2, <2>3 DEF FindJob, OutcomeInv
<1>7. CASE \E n \in Nodes : CreateJob(n)
  <2>1. PICK n \in Nodes : CreateJob(n)
    BY <1>7
  <2>2. /\ rec.pc = "work" /\ rec.todo = {} /\ rec'.todo = {}
        /\ rec'.seen = [rec.seen EXCEPT ![n] = "active"]
    BY <2>1 DEF CreateJob, JobPending, TypeOK, Rec
  <2> QED BY <2>1, <2>2 DEF CreateJob, OutcomeInv, JobStates
<1> QED BY <1>2, <1>3, <1>4, <1>5, <1>6, <1>7, RecSteps

\* A reconcile under way keeps the invariant,
LEMMA HookWork ==
    ASSUME TypeOK, OutcomeInv, HookInv, StatusLag = 1, [Next]_vars, rec'.pc = "work"
    PROVE  HookInv'
<1>1. Stored(status') = Stored(status) /\ Stored(status).phase \notin Terminal
  BY WorkGoesOn
<1>2. HookFailureLeavesNoJobs' /\ Stored(status).reason \notin {"HookInvalid", "HookFailed"}
  BY <1>1 DEF HookInv, HookFailureLeavesNoJobs, Terminal
<1>3. execs \in [Claims -> 0..MaxCount] /\ MaxCount \in Nat
  BY Constants DEF TypeOK
<1>4. CASE rec' = rec /\ UNCHANGED execs /\ Launched' \subseteq Launched
  BY <1>1, <1>2, <1>4 DEF HookInv, HooksAtMostOnce
<1>5. CASE /\ rec.pc = "idle" /\ rec'.seen = NoJobs /\ UNCHANGED <<jobs, execs>>
           /\ rec'.todo \subseteq Claims
           /\ rec'.todo # {} => Stored(status).jobs = NoJobs
  <2>1. Launched' = Launched
    BY <1>5 DEF Launched
  <2>2. Stored(status).jobs = NoJobs => Launched = {} /\ \A c \in Claims : execs[c] = 0
    BY <1>1, <1>5 DEF HookInv
  <2> QED BY <1>1, <1>2, <1>5, <2>1, <2>2 DEF HookInv, HooksAtMostOnce
<1>6. CASE /\ rec.pc = "work" /\ UNCHANGED jobs /\ rec'.seen = rec.seen
           /\ \E c \in rec.todo : rec'.todo = rec.todo \ {c} /\ execs' = Executed(c)
  <2>1. PICK c \in rec.todo : rec'.todo = rec.todo \ {c} /\ execs' = Executed(c)
    BY <1>6
  <2>2. c \in Claims /\ rec.todo \subseteq Claims
    BY DEF TypeOK, Rec
  <2>3. /\ Stored(status).jobs = NoJobs /\ rec.seen = NoJobs
        /\ \A d \in rec.todo : execs[d] = 0
    BY <1>6 DEF HookInv
  <2>4. execs'[c] \in 0..1 /\ \A d \in Claims \ {c} : execs'[d] = execs[d]
    BY <1>3, <2>1, <2>2, <2>3 DEF Executed, Bump
  <2>5. Launched' = Launched
    BY <1>6 DEF Launched
  <2>6. HooksAtMostOnce'
    BY <1>3, <2>4 DEF HookInv, HooksAtMostOnce
  <2> QED BY <1>1, <1>2, <1>6, <2>1, <2>2, <2>3, <2>4, <2>5, <2>6 DEF HookInv
<1>7. CASE /\ rec.pc = "work" /\ rec.todo = {} /\ rec'.todo = {} /\ UNCHANGED execs
           /\ \E n \in Nodes, state \in JobStates \ {"none"} :
                 /\ rec'.seen = [rec.seen EXCEPT ![n] = state]
                 /\ CreateJob(n) \/ UNCHANGED jobs
  <2>1. PICK n \in Nodes, state \in JobStates \ {"none"} :
           /\ rec'.seen = [rec.seen EXCEPT ![n] = state]
           /\ CreateJob(n) \/ UNCHANGED jobs
    BY <1>7
  <2>2. Launched' \subseteq Launched \cup {n}
    <3>1. CASE UNCHANGED jobs
      BY <3>1 DEF Launched
    <3>2. CASE CreateJob(n)
      <4>1. [state |-> "active", archives |-> rec.want[n]] \in Job
        BY DEF TypeOK, Rec, Job, JobStates
      <4> QED BY <3>2, <4>1, SetJobType, StreamTypes DEF CreateJob, TypeOK, Launched
    <3> QED BY <2>1, <3>1, <3>2
  <2>3. rec.seen \in [Nodes -> JobStates] /\ Launched' \subseteq Nodes
    BY DEF TypeOK, Rec, Launched
  <2>4. \A m \in Nodes : rec'.seen[m] = IF m = n THEN state ELSE rec.seen[m]
    BY <2>1, <2>3
  <2> QED BY <1>1, <1>2, <1>7, <2>1, <2>2, <2>3, <2>4 DEF HookInv, HooksAtMostOnce
<1> QED BY <1>4, <1>5, <1>6, <1>7, WorkGoesOn

\* so does a step between two reconciles,
LEMMA HookIdle ==
    ASSUME TypeOK, OutcomeInv, HookInv, StatusLag = 1, [Next]_vars,
           rec.pc # "work", rec'.pc # "work"
    PROVE  HookInv'
<1>1. execs' = execs
  BY RecordSteps DEF RunHook, FailHook, HookPending
<1>2. Launched' \subseteq Launched
  BY LaunchSteps DEF CreateJob, JobPending
<1>3. CASE Stored(status') = Stored(status)
  BY <1>1, <1>2, <1>3 DEF HookInv, HooksAtMostOnce, HookFailureLeavesNoJobs
<1>4. CASE /\ Stored(status).phase \notin Terminal
           /\ \E reason \in GateReasons : Stored(status') = HoldStatus(Stored(status), reason)
  <2>1. Stored(status') .jobs = Stored(status).jobs /\ Stored(status').reason \in GateReasons
    BY <1>4, StatusFields, StreamTypes
  <2>2. Stored(status').reason \notin {"HookInvalid", "HookFailed"}
    BY <2>1 DEF GateReasons
  <2> QED BY <1>1, <1>2, <1>4, <2>1, <2>2
          DEF HookInv, HooksAtMostOnce, HookFailureLeavesNoJobs
<1>5. ~\/ \E n \in Nodes : HoldJobDeleted(n)
       \/ \E c \in Claims : FailHook(c) \/ RejectHook(c)
       \/ FailOnJob \/ RunBackup \/ CompleteBackup \/ FailOnResult
  BY DEF HoldJobDeleted, JobPending, FailHook, RejectHook, HookPending, FailOnJob,
     RunBackup, CompleteBackup, FailOnResult, AllSeen
<1> QED BY <1>3, <1>4, <1>5, FreshStored

\* and so does the end of a reconcile that is not interrupted.
LEMMA HookEnd ==
    ASSUME TypeOK, OutcomeInv, HookInv, StatusLag = 1, NoInterruption, [Next]_vars,
           rec.pc = "work", rec'.pc # "work"
    PROVE  HookInv'
<1>1. rec.before = Stored(status) /\ Stored(status) \in Status
      /\ rec.seen \in [Nodes -> JobStates] /\ rec.targets \subseteq Nodes
  BY StreamTypes DEF OutcomeInv, TypeOK, Rec
<1>2. execs \in [Claims -> 0..MaxCount] /\ MaxCount \in Nat
  BY Constants DEF TypeOK
<1>3. Stored(status).reason \notin {"HookInvalid", "HookFailed"}
  BY DEF HookInv, OutcomeInv, Terminal
<1>4. ASSUME execs' = execs, Stored(status').reason \notin {"HookInvalid", "HookFailed"},
             Stored(status').phase \in Terminal \/ Stored(status').jobs # NoJobs
      PROVE  HookInv'
  BY <1>4 DEF HookInv, HooksAtMostOnce, HookFailureLeavesNoJobs
<1>5. ASSUME NEW n \in Nodes, HoldJobDeleted(n) PROVE HookInv'
  <2>1. Stored(status') = HoldStatus(Stored(status), "JobDeleted")
    BY <1>1, <1>5, FreshPatch, StatusTypes, IdleType DEF HoldJobDeleted, Hold, Reasons
  <2>2. Stored(status).jobs # NoJobs
    BY <1>1, <1>5 DEF HoldJobDeleted, Known, NoJobs
  <2>3. execs' = execs
    BY <1>5 DEF HoldJobDeleted, Hold
  <2> QED BY <1>1, <1>4, <2>1, <2>2, <2>3, StatusFields
<1>6. ASSUME NEW n \in Nodes, LoseCreateRace(n) PROVE HookInv'
  <2>1. n \in Launched /\ rec.seen[n] = "none"
    BY <1>6 DEF LoseCreateRace, JobPending, First, Unseen, Launched
  <2>2. Stored(status).jobs # NoJobs
    BY <2>1 DEF HookInv
  <2> QED BY <1>3, <1>4, <1>6, <2>2 DEF LoseCreateRace
<1>7. ASSUME NEW c \in Claims, FailHook(c) \/ RejectHook(c) PROVE HookInv'
  <2>1. c \in rec.todo
    BY <1>7 DEF FailHook, RejectHook, HookPending, First
  <2>2. execs[c] = 0 /\ Launched = {}
    <3>1. /\ execs[c] = 0 /\ Stored(status).jobs = NoJobs /\ rec.seen = NoJobs
      BY <2>1 DEF HookInv
    <3>2. \A n \in Nodes : rec.seen[n] = "none"
      BY <3>1 DEF NoJobs
    <3> QED BY <3>1, <3>2 DEF HookInv, Launched
  <2>3. Launched' = {}
    BY <1>7, <2>2 DEF FailHook, RejectHook, Launched
  <2>4. execs' = execs \/ execs' = Executed(c)
    BY <1>7 DEF FailHook, RejectHook
  <2>5. HooksAtMostOnce'
    BY <1>2, <2>2, <2>4 DEF HookInv, HooksAtMostOnce, Executed, Bump
  <2>6. Stored(status').phase = "Failed"
    <3>1. CASE FailHook(c)
      BY <3>1, FreshFail, IdleType DEF FailHook, Reasons
    <3>2. CASE RejectHook(c)
      BY <3>2, FreshFail, IdleType DEF RejectHook, Reasons
    <3> QED BY <1>7, <3>1, <3>2
  <2> QED BY <2>3, <2>5, <2>6 DEF HookInv, HookFailureLeavesNoJobs, Terminal
<1>8. CASE FailOnJob \/ FailOnResult
  <2>1. PICK reason \in {"Failed", "ResultUnreadable"} : FailBackup(reason, rec.seen)
    BY <1>8 DEF FailOnJob, FailOnResult
  <2>2. Stored(status').phase = "Failed" /\ Stored(status').reason = reason
    BY <1>1, <2>1, FreshFail DEF Reasons
  <2>3. execs' = execs
    BY <1>8 DEF FailOnJob, FailOnResult
  <2> QED BY <1>4, <2>2, <2>3 DEF Terminal
<1>9. CASE RunBackup
  <2>1. Stored(status') = RunStatus(Stored(status), rec.seen)
    BY <1>1, <1>9, FreshPatch, StatusTypes DEF RunBackup, Reasons
  <2>2. rec.seen # NoJobs
    BY <1>1, <1>9 DEF RunBackup, SeenIn, NoJobs
  <2>3. execs' = execs
    BY <1>9 DEF RunBackup
  <2> QED BY <1>1, <1>4, <2>1, <2>2, <2>3, StatusFields
<1>10. CASE CompleteBackup
  <2>1. Stored(status').phase = "Completed" /\ Stored(status').reason = "Completed"
    BY <1>1, <1>10, FreshComplete, StatusFields
  <2>2. execs' = execs
    BY <1>10 DEF CompleteBackup
  <2> QED BY <1>4, <2>1, <2>2 DEF Terminal
<1> QED BY <1>5, <1>6, <1>7, <1>8, <1>9, <1>10, WorkEnds

\* Together: every step keeps the hook invariant.
LEMMA HookStep ==
    ASSUME TypeOK, OutcomeInv, HookInv, StatusLag = 1, NoInterruption, [Next]_vars
    PROVE  HookInv'
BY HookWork, HookIdle, HookEnd

\* With a fresh PBSBackup cache and no abort or restart, every hook runs at most
\* once, whatever the lag of the Job cache, and also if the workload drifts, Jobs
\* or pods are removed, or the repo comes and goes.
THEOREM HooksRunOnce ==
    StatusLag = 1 /\ NoInterruption => (Spec => []HooksAtMostOnce)
<1> SUFFICES ASSUME StatusLag = 1, NoInterruption PROVE Spec => []HooksAtMostOnce
  OBVIOUS
<1>1. TypeOK /\ OutcomeInv /\ [Next]_vars => OutcomeInv'
  BY FreshStep
<1>2. TypeOK /\ OutcomeInv /\ HookInv /\ [Next]_vars => HookInv'
  BY HookStep
<1>3. HookInv => HooksAtMostOnce
  BY DEF HookInv
<1> QED BY <1>1, <1>2, <1>3, TypeCorrect, FreshInit, HookInit, PTL DEF Spec

\* Under the same condition, a backup that failed on a hook has no Job.
THEOREM HookFailureIsClean ==
    StatusLag = 1 /\ NoInterruption => (Spec => []HookFailureLeavesNoJobs)
<1> SUFFICES ASSUME StatusLag = 1, NoInterruption PROVE Spec => []HookFailureLeavesNoJobs
  OBVIOUS
<1>1. TypeOK /\ OutcomeInv /\ [Next]_vars => OutcomeInv'
  BY FreshStep
<1>2. TypeOK /\ OutcomeInv /\ HookInv /\ [Next]_vars => HookInv'
  BY HookStep
<1>3. HookInv => HookFailureLeavesNoJobs
  BY DEF HookInv
<1> QED BY <1>1, <1>2, <1>3, TypeCorrect, FreshInit, HookInit, PTL DEF Spec

-----------------------------------------------------------------------------
(* A completed backup leaves no unfinished or failed Job behind.  The danger *)
(* is a version of the Jobs that shows a Job as complete which was removed   *)
(* and created again: there is none if the Job cache is fresh, or if nobody  *)
(* removes a Job.                                                            *)

JobsTracked == ObjectLag = 1 \/ {"delete", "ttl"} \cap Faults = {}

\* No version shows a Job complete that is not.
NoGhosts(j) == \A n \in Nodes : j[n].state = "complete" => Stored(jobs)[n].state = "complete"

LeftInv ==
    /\ Launched \subseteq Targets(world) /\ (Launched # {} => Placeable(world))
    /\ jobs \in Streams({j \in [Nodes -> Job] : NoGhosts(j)}, ObjectLag)
    /\ rec.pc = "work" =>
          /\ Placeable(world) /\ rec.targets = Targets(world)
          /\ \A n \in Nodes : rec.seen[n] = "complete" =>
                Stored(jobs)[n].state \in {"none", "complete"}
    /\ NoJobLeftBehind

\* At the start there is no Job.
LEMMA LeftInit == Init => LeftInv
<1> SUFFICES ASSUME Init PROVE LeftInv
  OBVIOUS
<1>1. Stored(jobs) = [n \in Nodes |-> NoJob]
  BY DEF Init, Listed, Stored
<1>2. Launched = {}
  BY <1>1 DEF Launched, NoJob
<1>3. jobs \in Streams({j \in [Nodes -> Job] : NoGhosts(j)}, ObjectLag)
  <2>1. [n \in Nodes |-> NoJob] \in {j \in [Nodes -> Job] : NoGhosts(j)}
    BY <1>1 DEF NoGhosts, NoJob, Job, JobStates
  <2> QED BY <2>1, ListedStream, Constants DEF Init
<1>4. rec.pc # "work"
  BY DEF Init, Idle
<1>5. NoJobLeftBehind
  BY NewIsOpen DEF NoJobLeftBehind
<1> QED BY <1>2, <1>3, <1>4, <1>5 DEF LeftInv

\* Without drift, the targets of a placeable backup stay the same.
LEMMA TargetsStay ==
    ASSUME TypeOK, NoDrift, [Next]_vars, Placeable(world)
    PROVE  Placeable(world') /\ Targets(world') = Targets(world)
<1>1. Selected(world') = Selected(world)
  BY PlacementStays
<1>2. CASE Selected(world) = {}
  BY <1>1, <1>2, NoDriftSteps DEF NoDrift, Placeable, Targets
<1>3. CASE Selected(world) # {}
  <2>1. Placed
    BY <1>3 DEF Placeable, Placed
  <2>2. \A c \in Selected(world) : world'.home[c] = world.home[c]
    BY <2>1, PlacementStays
  <2> QED BY <1>1, <1>3, <2>2 DEF Placeable, Targets
<1> QED BY <1>2, <1>3

\* No ghosts appear.
LEMMA GhostStep ==
    ASSUME TypeOK, LeftInv, JobsTracked, [Next]_vars
    PROVE  (jobs \in Streams({j \in [Nodes -> Job] : NoGhosts(j)}, ObjectLag))'
<1>1. TypeOK' /\ Stored(jobs') \in [Nodes -> Job]
  BY TypeStep, StreamElements, Constants DEF TypeOK
<1> DEFINE T == {j \in [Nodes -> Job] : NoGhosts(j)}
           U == {j \in [Nodes -> Job] : NoGhosts(j)'}
<1>2. CASE ObjectLag = 1
  <2>1. jobs' = Listed(Stored(jobs'))
    BY <1>1, <1>2, FreshStream DEF TypeOK
  <2>2. Stored(jobs') \in U
    BY <1>1 DEF NoGhosts
  <2> HIDE DEF U
  <2>4. jobs' \in Streams(U, ObjectLag)
    BY <2>1, <2>2, ListedStream, Constants
  <2> QED BY <2>4 DEF U
<1>3. CASE {"delete", "ttl"} \cap Faults = {}
  <2>1. ~\E m \in Nodes : DeleteJob(m) \/ ReapJob(m)
    BY <1>3 DEF DeleteJob, ReapJob, Fault
  <2>2. \A n \in Nodes : Stored(jobs)[n].state = "complete"
                           => Stored(jobs')[n].state = "complete"
    BY <2>1, JobAt
  <2>3. T \subseteq U /\ Stored(jobs') \in U
    BY <1>1, <2>2 DEF NoGhosts
  <2>4. jobs \in Streams(T, ObjectLag)
    BY DEF LeftInv
  <2>5. \/ CacheMove(jobs, jobs')
        \/ \E v : jobs' = Write(jobs, v, ObjectLag) /\ v = Stored(jobs')
    <3>1. ASSUME NEW n \in Nodes, NEW job \in Job, SetJob(n, job)
          PROVE  \E v : jobs' = Write(jobs, v, ObjectLag) /\ v = Stored(jobs')
      BY <3>1, SetJobType DEF TypeOK, SetJob
    <3>2. ASSUME NEW n \in Nodes, CreateJob(n)
          PROVE  \E job \in Job : SetJob(n, job)
      <4>1. [state |-> "active", archives |-> rec.want[n]] \in Job
        BY DEF TypeOK, Rec, Job, JobStates
      <4> QED BY <3>2, <4>1 DEF CreateJob
    <3>3. ASSUME NEW n \in Nodes, FinishJob(n)
          PROVE  \E job \in Job : SetJob(n, job)
      <4>1. [Stored(jobs)[n] EXCEPT !.state =
               IF Stored(pods)[n] = "failed" THEN "failed" ELSE "complete"] \in Job
        BY StreamTypes DEF Job, JobStates
      <4> QED BY <3>3, <4>1 DEF FinishJob
    <3> QED BY <2>1, <3>1, <3>2, <3>3, JobSteps
  <2> HIDE DEF T, U
  <2>6. jobs \in Streams(U, ObjectLag)
    BY <2>3, <2>4, StreamsMonotone, Constants
  <2>7. jobs' \in Streams(U, ObjectLag)
    BY <2>3, <2>5, <2>6, CacheMoveStream, WriteStream, Constants
  <2> QED BY <2>7 DEF U
<1> QED BY <1>2, <1>3 DEF JobsTracked

\* Every step keeps the invariant.
LEMMA LeftStep ==
    ASSUME TypeOK, OutcomeInv, LeftInv, StatusLag = 1, NoDrift, JobsTracked, [Next]_vars
    PROVE  LeftInv'
<1>1. Stored(jobs) \in [Nodes -> Job] /\ Launched \subseteq Nodes /\ Launched' \subseteq Nodes
  BY StreamTypes DEF Launched
<1>2. Placeable(world) => Placeable(world') /\ Targets(world') = Targets(world)
  BY TargetsStay
<1>3. Launched' \subseteq Targets(world') /\ (Launched' # {} => Placeable(world'))
  <2>1. CASE Launched' \subseteq Launched
    BY <1>2, <2>1 DEF LeftInv
  <2>2. ASSUME NEW n \in Nodes, CreateJob(n), Launched' = Launched \cup {n}
        PROVE  Launched' \subseteq Targets(world') /\ Placeable(world')
    <3>1. Placeable(world) /\ n \in Targets(world)
      BY <2>2 DEF CreateJob, JobPending, First, Unseen, LeftInv
    <3> QED BY <1>2, <2>2, <3>1 DEF LeftInv
  <2> QED BY <2>1, <2>2, LaunchSteps
<1>4. ASSUME rec'.pc = "work"
      PROVE  /\ Placeable(world') /\ rec'.targets = Targets(world')
             /\ \A n \in Nodes : rec'.seen[n] = "complete" =>
                   Stored(jobs')[n].state \in {"none", "complete"}
  <2>1. ASSUME NEW n \in Nodes, Stored(jobs)[n].state \in {"none", "complete"},
               ~CreateJob(n)
        PROVE  Stored(jobs')[n].state \in {"none", "complete"}
    BY <2>1, JobAt
  <2>2. ASSUME NEW n \in Nodes, CreateJob(n)
        PROVE  /\ rec.pc = "work" /\ rec'.targets = rec.targets
               /\ rec'.seen = [rec.seen EXCEPT ![n] = "active"]
    BY <2>2 DEF CreateJob, JobPending, TypeOK, Rec
  <2>3. ASSUME NEW n \in Nodes, FindJob(n)
        PROVE  /\ rec.pc = "work" /\ rec'.targets = rec.targets
               /\ rec'.seen = [rec.seen EXCEPT ![n] = Cached(jobs)[n].state]
    BY <2>3 DEF FindJob, JobPending, TypeOK, Rec
  <2>4. ASSUME NEW c \in Claims, RunHook(c)
        PROVE  rec.pc = "work" /\ rec'.targets = rec.targets /\ rec'.seen = rec.seen
    BY <2>4 DEF RunHook, HookPending, TypeOK, Rec
  <2>5. CASE Place
    <3>1. \A n \in Nodes : rec'.seen[n] = "none"
      BY <2>5 DEF Place, NoJobs
    <3> QED BY <1>2, <2>5, <3>1 DEF Place
  <2>6. CASE ~Place
    <3> rec' = rec \/ (\E c \in Claims : RunHook(c))
        \/ (\E n \in Nodes : FindJob(n) \/ CreateJob(n))
      <4>1. /\ rec' # Idle /\ rec' # [Idle EXCEPT !.pc = "failed"]
            /\ rec' # [Idle EXCEPT !.pc = "completed"]
        BY <1>4 DEF Idle
      <4> QED BY <2>6, <4>1, RecSteps
    <3>1. rec.pc = "work" /\ rec'.targets = rec.targets
      BY <1>4, <2>2, <2>3, <2>4
    <3>2. ASSUME NEW n \in Nodes, rec'.seen[n] = "complete"
          PROVE  Stored(jobs')[n].state \in {"none", "complete"}
      <4>1. rec.seen \in [Nodes -> JobStates]
        BY DEF TypeOK, Rec
      <4>2. ~CreateJob(n)
        BY <2>2, <3>2, <4>1
      <4>3. NoGhosts(Cached(jobs))
        BY StreamElements, Constants DEF LeftInv
      <4>4. rec.seen[n] = "complete" \/ Cached(jobs)[n].state = "complete"
        BY <2>2, <2>3, <2>4, <3>2, <4>1
      <4>5. Stored(jobs)[n].state \in {"none", "complete"}
        BY <3>1, <4>3, <4>4 DEF LeftInv, NoGhosts
      <4> QED BY <2>1, <4>2, <4>5
    <3> QED BY <1>2, <3>1, <3>2 DEF LeftInv
  <2> QED BY <2>5, <2>6
<1>5. NoJobLeftBehind'
  <2>1. CASE CompleteBackup
    <3>1. jobs' = jobs /\ rec.pc = "work" /\ \A n \in rec.targets : rec.seen[n] = "complete"
      BY <2>1 DEF CompleteBackup, AllSeen, SeenIn
    <3>2. \A n \in Launched : Stored(jobs)[n].state = "complete"
      BY <1>1, <3>1 DEF LeftInv, Launched
    <3> QED BY <3>1, <3>2 DEF NoJobLeftBehind, Launched
  <2>2. CASE ~CompleteBackup
    <3> SUFFICES ASSUME Stored(status').phase = "Completed", NEW n \in Launched'
                 PROVE  Stored(jobs')[n].state = "complete"
      BY DEF NoJobLeftBehind
    <3>1. Stored(status).phase = "Completed"
      BY <2>2, OnlyCompleteCompletes
    <3>2. ~\E m \in Nodes : CreateJob(m)
      BY <3>1 DEF CreateJob, JobPending, OutcomeInv, Terminal
    <3>3. n \in Launched
      BY <3>2, LaunchSteps
    <3>4. Stored(jobs)[n].state = "complete"
      BY <3>1, <3>3 DEF LeftInv, NoJobLeftBehind
    <3>5. Stored(jobs')[n].state \in {"none", "complete"}
      BY <1>1, <3>2, <3>3, <3>4, JobAt
    <3> QED BY <3>5 DEF Launched
  <2> QED BY <2>1, <2>2
<1> QED BY <1>3, <1>4, <1>5, GhostStep DEF LeftInv

\* With a fresh PBSBackup cache and no drift, a completed backup leaves no Job
\* that is running or has failed, if the Job cache is fresh or no Job is removed.
THEOREM NothingLeftBehind ==
    StatusLag = 1 /\ NoDrift /\ JobsTracked => (Spec => []NoJobLeftBehind)
<1> SUFFICES ASSUME StatusLag = 1, NoDrift, JobsTracked PROVE Spec => []NoJobLeftBehind
  OBVIOUS
<1>1. TypeOK /\ OutcomeInv /\ [Next]_vars => OutcomeInv'
  BY FreshStep
<1>2. TypeOK /\ OutcomeInv /\ LeftInv /\ [Next]_vars => LeftInv'
  BY LeftStep
<1>3. LeftInv => NoJobLeftBehind
  BY DEF LeftInv
<1> QED BY <1>1, <1>2, <1>3, TypeCorrect, FreshInit, LeftInit, PTL DEF Spec
=============================================================================
