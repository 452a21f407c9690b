----------------------------- MODULE PBSSchedule -----------------------------
(***************************************************************************)
(* The PBSSchedule controller (internal/controller/                        *)
(* pbsschedule_controller.go) working on one PBSSchedule: it creates one   *)
(* PBSBackup per due slot of a cron expression, named after the slot, and  *)
(* remembers the slot in status.lastScheduleTime.  Users edit the spec,    *)
(* backups finish and are deleted, time passes, and the controller reads   *)
(* its objects through caches that may lag (Informer).                     *)
(*                                                                         *)
(* A Reconcile is split at the calls between which others can act: reading *)
(* the schedule and the clock, creating the backup, patching the status.   *)
(***************************************************************************)
EXTENDS Naturals, FiniteSets, Informer

CONSTANTS
    Slots,      \* fire times of the cron expression, after the creation at 0
    Horizon,    \* the clock stops here
    Lag,        \* versions a cache may be behind, plus one
    Faults,     \* kinds of faults that may happen
    MaxFaults,  \* how many faults and spec edits may happen in one behaviour
    MaxCount    \* creations of one slot's backup that are told apart

ASSUME SlotsAssumption == Slots \subseteq Nat \ {0} /\ IsFiniteSet(Slots)
ASSUME ScheduleBounds ==
    /\ Horizon \in Nat /\ Lag \in Nat \ {0} /\ MaxFaults \in Nat
    /\ MaxCount \in Nat \ {0}
    /\ Faults \subseteq {"abort", "crash", "delete", "edit", "repoLoss"}

\* Spec: does the cron expression parse, is the schedule suspended.  Status:
\* lastScheduleTime (0: unset), nextScheduleTime (as a set, {}: none before the
\* end of time), active (the slots of the backups listed), the Ready reason.
Schedule == [valid : BOOLEAN, suspend : BOOLEAN,
             last : Slots \cup {0}, next : SUBSET Slots, active : SUBSET Slots,
             reason : {"", "InvalidCron", "RepoMissing", "Valid"}]

\* The PBSBackup of a slot: absent, not terminal, or Completed/Failed.
BackupStates == {"none", "open", "done"}

VARIABLES
    sched,    \* stream of Schedule
    backups,  \* stream of [Slots -> BackupStates]
    ready,    \* the PBSRepo exists with Ready=True
    now,      \* the clock
    rec,      \* the Reconcile in progress
    created,  \* [Slots -> 0..MaxCount]: how often a slot's backup was created
    fuel      \* faults and edits left

vars == <<sched, backups, ready, now, rec, created, fuel>>

NewSchedule(valid) ==
    [valid |-> valid, suspend |-> FALSE, last |-> 0, next |-> {}, active |-> {},
     reason |-> ""]

Idle == [pc |-> "idle", before |-> NewSchedule(FALSE), now |-> 0, fire |-> 0]
Rec == [pc : {"idle", "fire", "record"}, before : Schedule, now : Nat,
        fire : Slots \cup {0}]

Init ==
    /\ \E valid \in BOOLEAN : sched = Listed(NewSchedule(valid))
    /\ backups = Listed([s \in Slots |-> "none"])
    /\ ready \in BOOLEAN
    /\ now = 0
    /\ rec = Idle
    /\ created = [s \in Slots |-> 0]
    /\ fuel = MaxFaults

-----------------------------------------------------------------------------
(* The reconciler.                                                         *)

\* Mutant of Due: a slot is due only once it is in the past.
DueStrictly(base, t) == {s \in Slots : base < s /\ s < t}
\* The slots that came due after base, the last firing; creation was at 0.
Due(base, t) == {s \in Slots : base < s /\ s <= t}

\* Mutant of Fire: the first missed slot, so that all are backfilled.
FireFirst(base, t) == {s \in Due(base, t) : \A r \in Due(base, t) : s <= r}
\* Mutant of Fire: the latest slot without a backup, whatever fired last.
FireMissing(base, t) ==
    LET missing == {s \in Slots : s <= t /\ Cached(backups)[s] = "none"}
    IN {s \in missing : \A r \in missing : r <= s}
\* The catch-up loop: missed slots collapse into the latest one.
Fire(base, t) == {s \in Due(base, t) : \A r \in Due(base, t) : r <= s}

\* Mutant of NextSlot: the next minute, not the next slot.
NextTick(t) == {t + 1}
\* sched.Next(t)
NextSlot(t) == {s \in Slots : t < s /\ \A r \in Slots : t < r => s <= r}

\* activeBackups, read through the PBSBackup cache.
ActiveBackups == {s \in Slots : Cached(backups)[s] = "open"}

\* The merge patch of the status fields that differ from what was read.
Overwrite(stored, before, after) == IF after # before THEN after ELSE stored
PatchStatus(before, after) ==
    sched' = Write(sched,
        [Stored(sched) EXCEPT
            !.last = Overwrite(@, before.last, after.last),
            !.next = Overwrite(@, before.next, after.next),
            !.active = Overwrite(@, before.active, after.active),
            !.reason = Overwrite(@, before.reason, after.reason)], Lag)

Begin == rec.pc = "idle"

HoldCron ==
    /\ Begin /\ ~Cached(sched).valid
    /\ PatchStatus(Cached(sched), [Cached(sched) EXCEPT !.reason = "InvalidCron"])
    /\ UNCHANGED <<backups, ready, now, rec, created, fuel>>

HoldRepo ==
    /\ Begin /\ Cached(sched).valid /\ ~ready
    /\ PatchStatus(Cached(sched), [Cached(sched) EXCEPT !.reason = "RepoMissing"])
    /\ UNCHANGED <<backups, ready, now, rec, created, fuel>>

\* A slot is due and the schedule is not suspended.
StartFire ==
    /\ Begin /\ Cached(sched).valid /\ ready /\ ~Cached(sched).suspend
    /\ \E s \in Fire(Cached(sched).last, now) :
          rec' = [pc |-> "fire", before |-> Cached(sched), now |-> now, fire |-> s]
    /\ UNCHANGED <<sched, backups, ready, now, created, fuel>>

\* Nothing to fire: only the status is refreshed.
StartRefresh ==
    /\ Begin /\ Cached(sched).valid /\ ready
    /\ Cached(sched).suspend \/ Due(Cached(sched).last, now) = {}
    /\ rec' = [pc |-> "record", before |-> Cached(sched), now |-> now, fire |-> 0]
    /\ UNCHANGED <<sched, backups, ready, now, created, fuel>>

Bump(count) == IF count < MaxCount THEN count + 1 ELSE count

\* Mutant of FireBackup: a slot is skipped, but recorded, while a backup runs.
FireUnlessActive ==
    /\ rec.pc = "fire"
    /\ IF ActiveBackups = {}
       THEN /\ backups' = Write(backups, [Stored(backups) EXCEPT ![rec.fire] = "open"], Lag)
            /\ created' = [created EXCEPT ![rec.fire] = Bump(@)]
       ELSE UNCHANGED <<backups, created>>
    /\ rec' = [rec EXCEPT !.pc = "record"]
    /\ UNCHANGED <<sched, ready, now, fuel>>

\* Mutant of FireBackup: the name is the clock's, so that no create collides.
FireByClock ==
    /\ rec.pc = "fire"
    /\ backups' = Write(backups, [Stored(backups) EXCEPT ![rec.fire] = "open"], Lag)
    /\ created' = [created EXCEPT ![rec.fire] = Bump(@)]
    /\ rec' = [rec EXCEPT !.pc = "record"]
    /\ UNCHANGED <<sched, ready, now, fuel>>

\* fireBackup: AlreadyExists is ignored, the name is the slot's.
FireBackup ==
    /\ rec.pc = "fire"
    /\ IF Stored(backups)[rec.fire] = "none"
       THEN /\ backups' = Write(backups, [Stored(backups) EXCEPT ![rec.fire] = "open"], Lag)
            /\ created' = [created EXCEPT ![rec.fire] = Bump(@)]
       ELSE UNCHANGED <<backups, created>>
    /\ rec' = [rec EXCEPT !.pc = "record"]
    /\ UNCHANGED <<sched, ready, now, fuel>>

\* Mutant of Refreshed: Active is the list of an earlier reconcile.
RefreshedOnFire(before) ==
    [before EXCEPT !.last = IF rec.fire # 0 THEN rec.fire ELSE @,
                   !.next = NextSlot(rec.now),
                   !.active = IF rec.fire # 0 THEN ActiveBackups ELSE @,
                   !.reason = "Valid"]
Refreshed(before) ==
    [before EXCEPT !.last = IF rec.fire # 0 THEN rec.fire ELSE @,
                   !.next = NextSlot(rec.now), !.active = ActiveBackups,
                   !.reason = "Valid"]

RefreshStatus ==
    /\ rec.pc = "record"
    /\ PatchStatus(rec.before, Refreshed(rec.before))
    /\ rec' = Idle
    /\ UNCHANGED <<backups, ready, now, created, fuel>>

Reconcile ==
    HoldCron \/ HoldRepo \/ StartFire \/ StartRefresh \/ FireBackup \/ RefreshStatus

-----------------------------------------------------------------------------
(* Everybody else.                                                         *)

Fault(kind) == kind \in Faults /\ fuel > 0 /\ fuel' = fuel - 1

\* An API call fails, or its response is lost.
Abort ==
    /\ Fault("abort") /\ rec.pc # "idle"
    /\ rec' = Idle
    /\ UNCHANGED <<sched, backups, ready, now, created>>

\* The operator restarts with fresh caches.
Crash ==
    /\ Fault("crash")
    /\ rec' = Idle
    /\ sched' = Listed(Stored(sched)) /\ backups' = Listed(Stored(backups))
    /\ UNCHANGED <<ready, now, created>>

EditSpec ==
    /\ Fault("edit")
    /\ \/ sched' = Write(sched, [Stored(sched) EXCEPT !.valid = ~@], Lag)
       \/ sched' = Write(sched, [Stored(sched) EXCEPT !.suspend = ~@], Lag)
    /\ UNCHANGED <<backups, ready, now, rec, created>>

RepoLost ==
    /\ Fault("repoLoss") /\ ready
    /\ ready' = FALSE
    /\ UNCHANGED <<sched, backups, now, rec, created>>

DeleteBackup(s) ==
    /\ Fault("delete") /\ Stored(backups)[s] # "none"
    /\ backups' = Write(backups, [Stored(backups) EXCEPT ![s] = "none"], Lag)
    /\ UNCHANGED <<sched, ready, now, rec, created>>

BackupEnds(s) ==
    /\ Stored(backups)[s] = "open"
    /\ backups' = Write(backups, [Stored(backups) EXCEPT ![s] = "done"], Lag)
    /\ UNCHANGED <<sched, ready, now, rec, created, fuel>>

RepoReady ==
    /\ ~ready /\ ready' = TRUE
    /\ UNCHANGED <<sched, backups, now, rec, created, fuel>>

Tick ==
    /\ now < Horizon /\ now' = now + 1
    /\ UNCHANGED <<sched, backups, ready, rec, created, fuel>>

DeliverSchedule ==
    /\ Stale(sched) /\ sched' = Deliver(sched)
    /\ UNCHANGED <<backups, ready, now, rec, created, fuel>>
DeliverBackups ==
    /\ Stale(backups) /\ backups' = Deliver(backups)
    /\ UNCHANGED <<sched, ready, now, rec, created, fuel>>

Next ==
    \/ Reconcile \/ Abort \/ Crash \/ EditSpec \/ RepoLost \/ RepoReady \/ Tick
    \/ DeliverSchedule \/ DeliverBackups
    \/ \E s \in Slots : DeleteBackup(s) \/ BackupEnds(s)

Spec == Init /\ [][Next]_vars

\* Every outcome of Reconcile requeues it, time passes, watch events arrive.
Fairness ==
    /\ WF_vars(Reconcile) /\ WF_vars(Tick)
    /\ WF_vars(DeliverSchedule) /\ WF_vars(DeliverBackups)

FairSpec == Spec /\ Fairness

-----------------------------------------------------------------------------
(* Properties.                                                             *)

\* Every variable has its type.
TypeOK ==
    /\ sched \in Streams(Schedule, Lag)
    /\ backups \in Streams([Slots -> BackupStates], Lag)
    /\ ready \in BOOLEAN /\ now \in 0..Horizon
    /\ rec \in Rec
    /\ created \in [Slots -> 0..MaxCount]
    /\ fuel \in 0..MaxFaults

\* "catch-up to the latest, never backfill": no step creates the backup of a slot
\* that is older than one created before, and a slot that was skipped is never
\* served later, however stale lastScheduleTime is.
CreatesInOrder ==
    \A s, r \in Slots : created'[s] > created[s] /\ created[r] > 0 => r <= s
NeverBackfills == [][CreatesInOrder]_vars

\* "fires at most one backup per missed slot": the backup is named for its slot,
\* so a fire repeated from a stale lastScheduleTime, after an error or after a
\* restart finds it, as long as nobody deletes it.
Deleted == \E s \in Slots : created[s] > 0 /\ Stored(backups)[s] = "none"
OncePerSlot == []~Deleted => [](\A s \in Slots : created[s] <= 1)

\* No backup comes early, and status.lastScheduleTime never runs ahead of what
\* was created: a slot it names has had its backup.
LastWasServed ==
    /\ \A s \in Slots : created[s] > 0 => s <= now
    /\ Stored(sched).last # 0 => created[Stored(sched).last] > 0

\* Why backups are created in slot order and recorded truthfully under any lag:
\* whatever a reconcile is about to fire was the latest slot when it read the
\* clock, nothing is created in the meantime, and what it is about to record has
\* been created by then, by itself or by whoever made the create answer
\* AlreadyExists.
FireInv ==
    /\ rec.pc = "fire" =>
         /\ rec.fire \in Slots /\ rec.fire <= rec.now /\ rec.now <= now
         /\ \A s \in Slots : s <= rec.now => s <= rec.fire
         /\ \A s \in Slots : created[s] > 0 => s <= rec.fire
    /\ rec.pc = "record" /\ rec.fire # 0 => created[rec.fire] > 0
    /\ \A s \in Slots : Stored(backups)[s] # "none" => created[s] > 0

Open == ready /\ Stored(sched).valid /\ ~Stored(sched).suspend

\* Once the schedule stays valid, unsuspended and its repo Ready, the last slot
\* of the clock is served: no staleness, error or restart loses it for good.
LastSlotServed ==
    \A s \in Slots : (\A r \in Slots : r <= s) /\ s <= Horizon =>
        (<>[]Open => <>(created[s] > 0))

\* status.active ends up listing exactly the backups that are not terminal.
ActiveConverges ==
    <>[]Open => <>[](Stored(sched).active = {s \in Slots : Stored(backups)[s] = "open"})
=============================================================================
