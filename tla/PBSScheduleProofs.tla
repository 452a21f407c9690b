-------------------------- MODULE PBSScheduleProofs --------------------------
(* Theorems about PBSSchedule, for all slots, lags, edits and faults. *)
EXTENDS PBSSchedule, InformerTheorems

\* The assumptions on the constants, as the proofs use them.
LEMMA ScheduleConstants ==
    /\ Slots \subseteq Nat /\ 0 \notin Slots
    /\ Horizon \in Nat /\ Lag \in Nat \ {0} /\ MaxFaults \in Nat
    /\ MaxCount \in Nat \ {0}
BY SlotsAssumption, ScheduleBounds

-----------------------------------------------------------------------------
(* The helpers of the model have their types.                              *)

\* The status patch keeps the stream, leaves the spec alone, and stores a last
\* fire time only if the reconcile computed a new one.
LEMMA PatchStatusStores ==
    ASSUME sched \in Streams(Schedule, Lag),
           NEW before \in Schedule, NEW after \in Schedule,
           PatchStatus(before, after)
    PROVE  /\ sched' \in Streams(Schedule, Lag)
           /\ Stored(sched').last \in {Stored(sched).last, after.last}
           /\ after.last = before.last => Stored(sched').last = Stored(sched).last
<1> DEFINE v == [Stored(sched) EXCEPT
                    !.last = Overwrite(@, before.last, after.last),
                    !.next = Overwrite(@, before.next, after.next),
                    !.active = Overwrite(@, before.active, after.active),
                    !.reason = Overwrite(@, before.reason, after.reason)]
<1>1. Stored(sched) \in Schedule
  BY StreamElements, ScheduleConstants
<1>2. /\ v \in Schedule
      /\ v.last = Overwrite(Stored(sched).last, before.last, after.last)
  BY <1>1 DEF Schedule, Overwrite
<1>3. sched' = Write(sched, v, Lag)
  BY DEF PatchStatus
<1> HIDE DEF v
<1>4. sched' \in Streams(Schedule, Lag) /\ Stored(sched') = v
  BY <1>2, <1>3, WriteStream, ScheduleConstants
<1> QED BY <1>2, <1>4 DEF Overwrite

\* Setting the state of one slot's backup keeps the stream.
LEMMA SetBackupType ==
    ASSUME backups \in Streams([Slots -> BackupStates], Lag),
           NEW s \in Slots, NEW b \in BackupStates,
           backups' = Write(backups, [Stored(backups) EXCEPT ![s] = b], Lag)
    PROVE  /\ backups' \in Streams([Slots -> BackupStates], Lag)
           /\ Stored(backups') = [Stored(backups) EXCEPT ![s] = b]
<1> DEFINE T == [Slots -> BackupStates]
           v == [Stored(backups) EXCEPT ![s] = b]
<1>1. Stored(backups) \in T
  BY StreamElements, ScheduleConstants
<1>2. v \in T /\ backups' = Write(backups, v, Lag) /\ backups \in Streams(T, Lag)
  BY <1>1
<1> HIDE DEF T, v
<1>3. backups' \in Streams(T, Lag) /\ Stored(backups') = v
  BY <1>2, WriteStream, ScheduleConstants
<1> QED BY <1>3 DEF T, v

\* Schedules without history, and an idle reconciler, have their types.
LEMMA IdleScheduleType ==
    /\ \A valid \in BOOLEAN :
         NewSchedule(valid) \in Schedule /\ NewSchedule(valid).last = 0
    /\ Idle \in Rec /\ Idle.pc = "idle"
<1>1. \A valid \in BOOLEAN :
         NewSchedule(valid) \in Schedule /\ NewSchedule(valid).last = 0
  BY DEF NewSchedule, Schedule
<1>2. Idle \in Rec /\ Idle.pc = "idle"
  BY <1>1 DEF Idle, Rec
<1> QED BY <1>1, <1>2

\* What a reconcile is about to store is a schedule; the fire time is in it.
LEMMA RefreshedType ==
    ASSUME rec \in Rec, NEW before \in Schedule
    PROVE  /\ Refreshed(before) \in Schedule
           /\ Refreshed(before).last = IF rec.fire # 0 THEN rec.fire ELSE before.last
<1>1. NextSlot(rec.now) \in SUBSET Slots /\ ActiveBackups \in SUBSET Slots
  BY DEF NextSlot, ActiveBackups
<1>2. rec.fire \in Slots \cup {0}
  BY DEF Rec
<1> QED BY <1>1, <1>2 DEF Refreshed, Schedule

\* The slot the catch-up loop ends on is the latest one the clock has passed,
\* whatever fire time it starts from.
LEMMA LatestSlot ==
    ASSUME NEW base \in Slots \cup {0}, NEW t \in Nat, NEW s \in Fire(base, t)
    PROVE  s \in Slots /\ s <= t /\ \A r \in Slots : r <= t => r <= s
<1>1. s \in Slots /\ base < s /\ s <= t
  BY DEF Fire, Due
<1>2. ASSUME NEW r \in Slots, r <= t PROVE r <= s
  <2>1. base \in Nat /\ s \in Nat /\ r \in Nat
    BY <1>1, ScheduleConstants
  <2>2. CASE base < r
    BY <1>2, <2>2 DEF Fire, Due
  <2>3. CASE ~(base < r)
    BY <1>1, <2>1, <2>3
  <2> QED BY <2>2, <2>3
<1> QED BY <1>1, <1>2

-----------------------------------------------------------------------------
(* The inductive invariant.                                                *)

\* Everything that is created is due, recorded only afterwards, and in order.
ServeInv == TypeOK /\ FireInv /\ LastWasServed

\* It holds of a new schedule.
LEMMA InitServe == Init => ServeInv
<1> SUFFICES ASSUME Init PROVE ServeInv
  OBVIOUS
<1>1. PICK valid \in BOOLEAN : sched = Listed(NewSchedule(valid))
  BY DEF Init
<1>2. sched \in Streams(Schedule, Lag) /\ Stored(sched) = NewSchedule(valid)
  BY <1>1, IdleScheduleType, ListedStream, ScheduleConstants
<1> DEFINE T == [Slots -> BackupStates]
           v == [s \in Slots |-> "none"]
<1>3. v \in T /\ backups = Listed(v) /\ \A s \in Slots : v[s] = "none"
  BY DEF Init, BackupStates
<1> HIDE DEF T, v
<1>4. backups \in Streams(T, Lag) /\ Stored(backups) = v
  BY <1>3, ListedStream, ScheduleConstants
<1>5. TypeOK
  BY <1>2, <1>4, IdleScheduleType, ScheduleConstants DEF Init, TypeOK, T
<1>6. FireInv
  BY <1>3, <1>4, IdleScheduleType, ScheduleConstants DEF Init, FireInv
<1>7. Stored(sched).last = 0
  BY <1>2, IdleScheduleType
<1>8. LastWasServed
  BY <1>7 DEF Init, LastWasServed
<1> QED BY <1>5, <1>6, <1>8 DEF ServeInv

\* Steps of the reconciler.
LEMMA ReconcileServes == ServeInv /\ Reconcile => ServeInv'
<1> SUFFICES ASSUME ServeInv, Reconcile PROVE ServeInv'
  OBVIOUS
<1> USE ScheduleConstants
<1>0. TypeOK /\ FireInv /\ LastWasServed
  BY DEF ServeInv
<1>1. Cached(sched) \in Schedule /\ Stored(sched) \in Schedule
  BY <1>0, StreamElements DEF TypeOK
<1>2. ASSUME NEW reason \in {"InvalidCron", "RepoMissing"},
             PatchStatus(Cached(sched), [Cached(sched) EXCEPT !.reason = reason]),
             UNCHANGED <<backups, ready, now, rec, created, fuel>>
      PROVE  ServeInv'
  <2>1. /\ [Cached(sched) EXCEPT !.reason = reason] \in Schedule
        /\ [Cached(sched) EXCEPT !.reason = reason].last = Cached(sched).last
    BY <1>1 DEF Schedule
  <2>2. sched' \in Streams(Schedule, Lag) /\ Stored(sched').last = Stored(sched).last
    BY <1>0, <1>1, <1>2, <2>1, PatchStatusStores DEF TypeOK
  <2>3. TypeOK'
    BY <1>0, <1>2, <2>2 DEF TypeOK
  <2>4. FireInv' /\ LastWasServed'
    BY <1>0, <1>2, <2>2 DEF FireInv, LastWasServed
  <2> QED BY <2>3, <2>4 DEF ServeInv
<1>3. CASE HoldCron
  BY <1>2, <1>3 DEF HoldCron
<1>4. CASE HoldRepo
  BY <1>2, <1>4 DEF HoldRepo
<1>5. CASE StartFire
  <2>1. PICK s \in Fire(Cached(sched).last, now) :
           rec' = [pc |-> "fire", before |-> Cached(sched), now |-> now, fire |-> s]
    BY <1>5 DEF StartFire
  <2>3. now \in Nat
    BY <1>0 DEF TypeOK
  <2>2. s \in Slots /\ s <= now /\ \A r \in Slots : r <= now => r <= s
    BY <1>1, <2>3, LatestSlot DEF Schedule
  <2>4. TypeOK'
    BY <1>0, <1>1, <1>5, <2>1, <2>2, <2>3 DEF StartFire, TypeOK, Rec
  <2>5. FireInv'
    BY <1>0, <1>5, <2>1, <2>2, <2>3 DEF StartFire, FireInv, LastWasServed
  <2>6. LastWasServed'
    BY <1>0, <1>5 DEF StartFire, LastWasServed
  <2> QED BY <2>4, <2>5, <2>6 DEF ServeInv
<1>6. CASE StartRefresh
  <2>1. TypeOK'
    BY <1>0, <1>1, <1>6 DEF StartRefresh, TypeOK, Rec
  <2>2. FireInv' /\ LastWasServed'
    BY <1>0, <1>6 DEF StartRefresh, FireInv, LastWasServed
  <2> QED BY <2>1, <2>2 DEF ServeInv
<1>7. CASE FireBackup
  <2>0. rec.fire \in Slots /\ rec.pc = "fire" /\ rec \in Rec
    BY <1>0, <1>7 DEF FireBackup, FireInv, TypeOK
  <2>1. /\ rec' \in Rec /\ rec'.pc = "record" /\ rec'.fire = rec.fire
    BY <1>7, <2>0 DEF FireBackup, Rec
  <2>2. CASE Stored(backups)[rec.fire] = "none"
    <3>1. /\ backups' \in Streams([Slots -> BackupStates], Lag)
          /\ Stored(backups') = [Stored(backups) EXCEPT ![rec.fire] = "open"]
      BY <1>0, <1>7, <2>0, <2>2, SetBackupType DEF FireBackup, TypeOK, BackupStates
    <3>2. Stored(backups) \in [Slots -> BackupStates]
      BY <1>0, StreamElements DEF TypeOK
    <3>3. /\ created' \in [Slots -> 0..MaxCount]
          /\ created'[rec.fire] > 0
          /\ \A s \in Slots : s # rec.fire => created'[s] = created[s]
          /\ \A s \in Slots : created[s] > 0 => created'[s] > 0
      BY <1>0, <1>7, <2>0, <2>2 DEF FireBackup, TypeOK, Bump
    <3>4. TypeOK'
      BY <1>0, <1>7, <2>1, <3>1, <3>3 DEF FireBackup, TypeOK
    <3>5. FireInv'
      BY <1>0, <2>0, <2>1, <3>1, <3>2, <3>3 DEF FireInv
    <3>6. rec.fire <= now
      <4>1. rec.fire <= rec.now /\ rec.now <= now
        BY <1>0, <2>0 DEF FireInv
      <4>2. rec.fire \in Nat
        BY <2>0
      <4>3. rec.now \in Nat
        BY <2>0 DEF Rec
      <4>4. now \in Nat
        BY <1>0 DEF TypeOK
      <4> QED BY <4>1, <4>2, <4>3, <4>4
    <3>7. Stored(sched').last = Stored(sched).last /\ now' = now
      BY <1>7 DEF FireBackup
    <3>8. Stored(sched).last \in Slots \cup {0}
      BY <1>1 DEF Schedule
    <3>9. LastWasServed'
      BY <1>0, <3>3, <3>6, <3>7, <3>8 DEF LastWasServed
    <3> QED BY <3>4, <3>5, <3>9 DEF ServeInv
  <2>3. CASE Stored(backups)[rec.fire] # "none"
    <3>1. UNCHANGED <<sched, backups, ready, now, created, fuel>>
      BY <1>7, <2>3 DEF FireBackup
    <3>2. TypeOK'
      BY <1>0, <2>1, <3>1 DEF TypeOK
    <3>3. FireInv' /\ LastWasServed'
      BY <1>0, <2>0, <2>1, <2>3, <3>1 DEF FireInv, LastWasServed
    <3> QED BY <3>2, <3>3 DEF ServeInv
  <2> QED BY <2>2, <2>3
<1>8. CASE RefreshStatus
  <2>0. rec \in Rec /\ rec.before \in Schedule /\ rec.pc = "record"
    BY <1>0, <1>8 DEF TypeOK, Rec, RefreshStatus
  <2>1. /\ Refreshed(rec.before) \in Schedule
        /\ Refreshed(rec.before).last = IF rec.fire # 0 THEN rec.fire ELSE rec.before.last
    BY <2>0, RefreshedType
  <2>2. PatchStatus(rec.before, Refreshed(rec.before))
    BY <1>8 DEF RefreshStatus
  <2>3. /\ sched' \in Streams(Schedule, Lag)
        /\ Stored(sched').last \in {Stored(sched).last, Refreshed(rec.before).last}
        /\ Refreshed(rec.before).last = rec.before.last
             => Stored(sched').last = Stored(sched).last
    BY <1>0, <2>0, <2>1, <2>2, PatchStatusStores DEF TypeOK
  <2>4. /\ rec' = Idle
        /\ UNCHANGED <<backups, ready, now, created, fuel>>
    BY <1>8 DEF RefreshStatus
  <2>5. TypeOK'
    BY <1>0, <2>3, <2>4, IdleScheduleType DEF TypeOK
  <2>6. FireInv'
    BY <1>0, <2>4, IdleScheduleType DEF FireInv
  <2>7. Stored(sched').last # 0 => created[Stored(sched').last] > 0
    BY <1>0, <2>0, <2>1, <2>3 DEF LastWasServed, FireInv
  <2>8. LastWasServed'
    BY <1>0, <2>4, <2>7 DEF LastWasServed
  <2> QED BY <2>5, <2>6, <2>8 DEF ServeInv
<1> QED BY <1>3, <1>4, <1>5, <1>6, <1>7, <1>8 DEF Reconcile

\* Steps of everybody else, and stuttering.
LEMMA EnvironmentServes ==
    ASSUME ServeInv,
           \/ Abort \/ Crash \/ EditSpec \/ RepoLost \/ RepoReady \/ Tick
           \/ DeliverSchedule \/ DeliverBackups \/ UNCHANGED vars
           \/ \E s \in Slots : DeleteBackup(s) \/ BackupEnds(s)
    PROVE  ServeInv'
<1> USE ScheduleConstants
<1>0. TypeOK /\ FireInv /\ LastWasServed
  BY DEF ServeInv
<1>1. Stored(sched) \in Schedule /\ Stored(backups) \in [Slots -> BackupStates]
  BY <1>0, StreamElements DEF TypeOK
<1>2. \A kind : Fault(kind) => fuel' \in 0..MaxFaults
  BY <1>0 DEF Fault, TypeOK
<1>3. CASE Abort
  <2>1. TypeOK'
    BY <1>0, <1>2, <1>3, IdleScheduleType DEF Abort, TypeOK
  <2>2. FireInv' /\ LastWasServed'
    BY <1>0, <1>3, IdleScheduleType DEF Abort, FireInv, LastWasServed
  <2> QED BY <2>1, <2>2 DEF ServeInv
<1>4. CASE Crash
  <2>1. sched' \in Streams(Schedule, Lag) /\ Stored(sched') = Stored(sched)
    BY <1>1, <1>4, ListedStream DEF Crash
  <2> DEFINE T == [Slots -> BackupStates]
  <2>2. Stored(backups) \in T /\ backups' = Listed(Stored(backups))
    BY <1>1, <1>4 DEF Crash
  <2> HIDE DEF T
  <2>3. backups' \in Streams(T, Lag) /\ Stored(backups') = Stored(backups)
    BY <2>2, ListedStream
  <2>4. TypeOK'
    BY <1>0, <1>2, <1>4, <2>1, <2>3, IdleScheduleType DEF Crash, TypeOK, T
  <2>5. FireInv' /\ LastWasServed'
    BY <1>0, <1>4, <2>1, <2>3, IdleScheduleType DEF Crash, FireInv, LastWasServed
  <2> QED BY <2>4, <2>5 DEF ServeInv
<1>5. CASE EditSpec
  <2>1. PICK v \in Schedule : v.last = Stored(sched).last /\ sched' = Write(sched, v, Lag)
    <3>1. CASE sched' = Write(sched, [Stored(sched) EXCEPT !.valid = ~@], Lag)
      <4>1. /\ [Stored(sched) EXCEPT !.valid = ~@] \in Schedule
            /\ [Stored(sched) EXCEPT !.valid = ~@].last = Stored(sched).last
        BY <1>1 DEF Schedule
      <4> QED BY <3>1, <4>1
    <3>2. CASE sched' = Write(sched, [Stored(sched) EXCEPT !.suspend = ~@], Lag)
      <4>1. /\ [Stored(sched) EXCEPT !.suspend = ~@] \in Schedule
            /\ [Stored(sched) EXCEPT !.suspend = ~@].last = Stored(sched).last
        BY <1>1 DEF Schedule
      <4> QED BY <3>2, <4>1
    <3> QED BY <1>5, <3>1, <3>2 DEF EditSpec
  <2>2. sched' \in Streams(Schedule, Lag) /\ Stored(sched').last = Stored(sched).last
    BY <1>0, <2>1, WriteStream DEF TypeOK
  <2>3. TypeOK'
    BY <1>0, <1>2, <1>5, <2>2 DEF EditSpec, TypeOK
  <2>4. FireInv' /\ LastWasServed'
    BY <1>0, <1>5, <2>2 DEF EditSpec, FireInv, LastWasServed
  <2> QED BY <2>3, <2>4 DEF ServeInv
<1>6. CASE RepoLost
  BY <1>0, <1>2, <1>6 DEF RepoLost, ServeInv, TypeOK, FireInv, LastWasServed
<1>7. CASE RepoReady
  BY <1>0, <1>7 DEF RepoReady, ServeInv, TypeOK, FireInv, LastWasServed
<1>8. CASE Tick
  <2>1. TypeOK' /\ now \in Nat /\ now' = now + 1
    BY <1>0, <1>8 DEF Tick, TypeOK
  <2>2. rec.now \in Nat
    BY <1>0 DEF TypeOK, Rec
  <2>3. FireInv' /\ LastWasServed'
    BY <1>0, <1>8, <2>1, <2>2 DEF Tick, FireInv, LastWasServed
  <2> QED BY <2>1, <2>3 DEF ServeInv
<1>9. CASE DeliverSchedule
  <2>1. sched' \in Streams(Schedule, Lag) /\ Stored(sched') = Stored(sched)
    BY <1>0, <1>9, DeliverStream DEF DeliverSchedule, TypeOK
  <2>2. TypeOK'
    BY <1>0, <1>9, <2>1 DEF DeliverSchedule, TypeOK
  <2>3. FireInv' /\ LastWasServed'
    BY <1>0, <1>9, <2>1 DEF DeliverSchedule, FireInv, LastWasServed
  <2> QED BY <2>2, <2>3 DEF ServeInv
<1>10. CASE DeliverBackups
  <2> DEFINE T == [Slots -> BackupStates]
  <2>1. backups \in Streams(T, Lag)
    BY <1>0 DEF TypeOK
  <2> HIDE DEF T
  <2>2. backups' \in Streams(T, Lag) /\ Stored(backups') = Stored(backups)
    BY <1>10, <2>1, DeliverStream DEF DeliverBackups
  <2>3. TypeOK'
    BY <1>0, <1>10, <2>2 DEF DeliverBackups, TypeOK, T
  <2>4. FireInv' /\ LastWasServed'
    BY <1>0, <1>10, <2>2 DEF DeliverBackups, FireInv, LastWasServed
  <2> QED BY <2>3, <2>4 DEF ServeInv
<1>11. ASSUME NEW s \in Slots, DeleteBackup(s) \/ BackupEnds(s)
       PROVE  ServeInv'
  <2>1. CASE DeleteBackup(s)
    <3>1. /\ backups' \in Streams([Slots -> BackupStates], Lag)
          /\ Stored(backups') = [Stored(backups) EXCEPT ![s] = "none"]
      BY <1>0, <2>1, SetBackupType DEF DeleteBackup, TypeOK, BackupStates
    <3>2. TypeOK'
      BY <1>0, <1>2, <2>1, <3>1 DEF DeleteBackup, TypeOK
    <3>3. FireInv' /\ LastWasServed'
      BY <1>0, <1>1, <2>1, <3>1 DEF DeleteBackup, FireInv, LastWasServed
    <3> QED BY <3>2, <3>3 DEF ServeInv
  <2>2. CASE BackupEnds(s)
    <3>1. /\ backups' \in Streams([Slots -> BackupStates], Lag)
          /\ Stored(backups') = [Stored(backups) EXCEPT ![s] = "done"]
      BY <1>0, <2>2, SetBackupType DEF BackupEnds, TypeOK, BackupStates
    <3>2. TypeOK'
      BY <1>0, <2>2, <3>1 DEF BackupEnds, TypeOK
    <3>3. FireInv' /\ LastWasServed'
      BY <1>0, <1>1, <2>2, <3>1 DEF BackupEnds, FireInv, LastWasServed
    <3> QED BY <3>2, <3>3 DEF ServeInv
  <2> QED BY <1>11, <2>1, <2>2
<1>12. CASE UNCHANGED vars
  BY <1>0, <1>12 DEF vars, ServeInv, TypeOK, FireInv, LastWasServed
<1> QED BY <1>3, <1>4, <1>5, <1>6, <1>7, <1>8, <1>9, <1>10, <1>11, <1>12

\* The invariant is inductive.
LEMMA ServeInductive == ServeInv /\ [Next]_vars => ServeInv'
BY ReconcileServes, EnvironmentServes DEF Next

-----------------------------------------------------------------------------
(* The theorems.                                                           *)

\* Every variable keeps its type.
THEOREM ScheduleTypeCorrect == Spec => []TypeOK
<1>1. ServeInv => TypeOK
  BY DEF ServeInv
<1> QED BY <1>1, InitServe, ServeInductive, PTL DEF Spec

\* No backup is created before its slot, and lastScheduleTime only ever names a
\* slot whose backup was created, however stale what the reconciler reads is and
\* wherever it is aborted or restarted.
THEOREM RecordedSlotsWereServed == Spec => []LastWasServed
<1>1. ServeInv => LastWasServed
  BY DEF ServeInv
<1> QED BY <1>1, InitServe, ServeInductive, PTL DEF Spec

\* A slot older than one already served is never served, under any lag: missed
\* slots collapse into the latest and are not backfilled later.
THEOREM SlotsServedInOrder == Spec => NeverBackfills
<1>1. ServeInv /\ [Next]_vars => [CreatesInOrder]_vars
  <2> SUFFICES ASSUME ServeInv, Next,
                      NEW s \in Slots, NEW r \in Slots,
                      created'[s] > created[s], created[r] > 0
               PROVE  r <= s
    BY DEF CreatesInOrder, vars
  <2>1. created \in [Slots -> 0..MaxCount]
    BY DEF ServeInv, TypeOK
  <2>2. created' # created
    BY <2>1, ScheduleConstants
  <2>3. FireBackup
    BY <2>2 DEF Next, Reconcile, HoldCron, HoldRepo, StartFire, StartRefresh,
                RefreshStatus, Abort, Crash, EditSpec, RepoLost, RepoReady, Tick,
                DeliverSchedule, DeliverBackups, DeleteBackup, BackupEnds
  <2>4. rec.pc = "fire" /\ rec.fire \in Slots
    BY <2>3 DEF FireBackup, ServeInv, FireInv
  <2>5. s = rec.fire
    BY <2>1, <2>2, <2>3, <2>4, ScheduleConstants DEF FireBackup
  <2> QED BY <2>4, <2>5 DEF ServeInv, FireInv
<1>2. [][CreatesInOrder]_vars => NeverBackfills
  BY PTL DEF NeverBackfills
<1> QED BY <1>1, <1>2, InitServe, ServeInductive, PTL DEF Spec

\* What a reconcile is about to fire is the latest slot of the clock it read, and
\* what it is about to record was created, under any lag and any interruption.
THEOREM FireIsLatest == Spec => []FireInv
<1>1. ServeInv => FireInv
  BY DEF ServeInv
<1> QED BY <1>1, InitServe, ServeInductive, PTL DEF Spec

\* Only the create of fireBackup counts, and only if the slot had no backup.
LEMMA CreatesWhereNone ==
    ASSUME ServeInv, [Next]_vars, NEW s \in Slots, created'[s] # created[s]
    PROVE  Stored(backups)[s] = "none" /\ created'[s] = Bump(created[s])
<1>1. created \in [Slots -> 0..MaxCount]
  BY DEF ServeInv, TypeOK
<1>2. FireBackup
  BY DEF Next, vars, Reconcile, HoldCron, HoldRepo, StartFire, StartRefresh,
         RefreshStatus, Abort, Crash, EditSpec, RepoLost, RepoReady, Tick,
         DeliverSchedule, DeliverBackups, DeleteBackup, BackupEnds
<1>3. rec.fire \in Slots
  BY <1>2 DEF FireBackup, ServeInv, FireInv
<1>4. /\ Stored(backups)[rec.fire] = "none"
      /\ created' = [created EXCEPT ![rec.fire] = Bump(@)]
  BY <1>2 DEF FireBackup
<1>5. s = rec.fire
  BY <1>1, <1>3, <1>4
<1> QED BY <1>1, <1>4, <1>5

\* A fire repeated from a stale lastScheduleTime, after an error or after a
\* restart never makes a second backup of its slot while nobody deletes one.
THEOREM OneBackupPerSlot == Spec => OncePerSlot
<1> DEFINE Once == \A s \in Slots : created[s] <= 1
<1>1. Init => Once
  BY DEF Init
<1>2. ServeInv /\ Once /\ ~Deleted /\ [Next]_vars => Once'
  <2> SUFFICES ASSUME ServeInv, Once, ~Deleted, [Next]_vars, NEW s \in Slots
               PROVE  created'[s] <= 1
    OBVIOUS
  <2>1. created \in [Slots -> 0..MaxCount] /\ MaxCount \in Nat
    BY ScheduleConstants DEF ServeInv, TypeOK
  <2>2. CASE created'[s] = created[s]
    BY <2>2
  <2>3. CASE created'[s] # created[s]
    <3>1. Stored(backups)[s] = "none" /\ created'[s] = Bump(created[s])
      BY <2>3, CreatesWhereNone
    <3>2. created[s] = 0
      BY <2>1, <3>1 DEF Deleted
    <3> QED BY <2>1, <3>1, <3>2 DEF Bump
  <2> QED BY <2>2, <2>3
<1> HIDE DEF Once
<1>3. Spec /\ []~Deleted => []Once
  BY <1>1, <1>2, InitServe, ServeInductive, PTL DEF Spec
<1>4. []Once => [](\A s \in Slots : created[s] <= 1)
  BY PTL DEF Once
<1> QED BY <1>3, <1>4, PTL DEF OncePerSlot
=============================================================================
