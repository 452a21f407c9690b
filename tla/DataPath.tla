------------------------------ MODULE DataPath ------------------------------
(***************************************************************************)
(* The way of a namespace's objects and volume data through a backup, the  *)
(* PBS and a restore: the staging ConfigMap the backup controller keeps    *)
(* rewriting, the backup agent (internal/agent/backup.go), the snapshots   *)
(* of the PBS, and the four Jobs of a restore (internal/agent/restore.go). *)
(*                                                                         *)
(* Control (gates, holds, retries, restarts, caches) is the business of    *)
(* PBSBackup and PBSRestore.  Here several backups run side by side, their *)
(* claims all on one node, so that each has one Job and publishes one      *)
(* snapshot reference; users edit objects and pods write data meanwhile.   *)
(***************************************************************************)
EXTENDS Manifests, FiniteSets

CONSTANTS
    Sources,     \* namespaces that are backed up
    Target,      \* namespace a backup is restored into
    Backups,     \* PBSBackups
    SourceOf,    \* namespace of each backup
    GroupOf,     \* backup-id of its snapshots: the host name of its Job's pod
    PicksOf,     \* spec.pvcs or the claims the selector matches, {} for all
    InitObjects, \* objects of the namespaces
    Edits,       \* documents users may create, change or delete in a namespace
    Drop, Keep,  \* dropKinds and keepKinds of the restore
    FirstNode,   \* node for the volumes of unpinned workloads
    Faults,      \* kinds of events around the backups that may happen
    MaxFaults    \* how many of them may happen in one behaviour

Earlier == "earlier"  \* a backup of the past, whose snapshot is still there
Versions == 1..(MaxFaults + 1)
Empty == 0
MaxTime == Cardinality(Backups) + 1

\* An object of a namespace: a key of the catalog; volumes, IPs and ports are
\* allocated only to those that have them.
ObjectsIn(s) ==
    {d \in Doc : /\ d.ns = s /\ Key(d) \in Keys
                 /\ "allocated" \in d.assigned => d.kind \in {"Service", PVC}}

\* The API server has one object of each kind and name.
Keyed(S) == \A d, e \in S : Key(d) = Key(e) => d = e

ASSUME PathBounds ==
    /\ IsFiniteSet(Backups) /\ Earlier \notin Backups /\ MaxFaults \in Nat
    /\ Faults \subseteq {"edit", "write", "prune", "client"}
ASSUME PathInputs ==
    /\ Sources \cup {Target} \subseteq Spaces
    /\ SourceOf \in [Backups -> Sources] /\ PicksOf \in [Backups -> SUBSET Claims]
    /\ InitObjects \in [Sources \cup {Target} -> SUBSET Doc] /\ Edits \subseteq Doc
    /\ \A s \in Sources \cup {Target} :
          InitObjects[s] \subseteq ObjectsIn(s) /\ Keyed(InitObjects[s])
    /\ \A d \in Edits : d \in ObjectsIn(d.ns)

VARIABLES
    objects,  \* API objects of each namespace
    disk,     \* version of the data of each claim of a source
    backups,  \* what each PBSBackup, its Job and its ConfigMap have come to
    taken,    \* every snapshot uploaded so far; the index is the backup-time
    kept,     \* the ones the PBS still has
    restore,  \* the PBSRestore and its Jobs
    volumes,  \* the claims of the target: data and node (0 while unbound)
    seen,     \* per backup: objects that existed at some time until the upload
    steady,   \* per backup: objects that existed all the time until the upload
    fuel

vars == <<objects, disk, backups, taken, kept, restore, volumes, seen, steady, fuel>>

NewBackup == [pc |-> "select", pvcs |-> {}, staged |-> <<>>, mounted |-> <<>>,
              job |-> "none", archives |-> {}, ref |-> 0]
NewRestore == [pc |-> "new", of |-> Earlier, ref |-> 0, api |-> <<>>, filled |-> {}]

Init ==
    /\ objects = InitObjects
    /\ disk = [s \in Sources |-> [c \in Claims |-> 1]]
    /\ backups = [b \in Backups |-> NewBackup]
    /\ \E b \in Backups :
          taken = <<[group |-> GroupOf[b], by |-> Earlier, api |-> <<>>, data |-> [c \in {} |-> 1]]>>
    /\ kept = {1}
    /\ restore = NewRestore
    /\ volumes = [c \in Claims |-> [data |-> Empty, node |-> 0]]
    /\ seen = [b \in Backups |-> InitObjects[SourceOf[b]]]
    /\ steady = seen
    /\ fuel = MaxFaults

-----------------------------------------------------------------------------
(* The backup controller, as far as it decides what is archived: one       *)
(* reconcile creates the Job, later ones, until it has ended, find it and  *)
(* only rewrite the ConfigMap.                                             *)

Put(b, pc, rest) == backups' = [backups EXCEPT ![b] = [rest EXCEPT !.pc = pc]]

Ended(b) == backups[b].job \in {"ok", "failed"}
Later(b) == IF backups[b].job = "none" THEN "launch" ELSE "serialize"

\* Mutant of Selected: only claims that a Deployment mounts.
SelectedDirect(b) ==
    IF PicksOf[b] # {} THEN PicksOf[b]
    ELSE UNION {d.claims : d \in objects[SourceOf[b]]}
\* spec.pvcs > spec.selector > all PVCs in the namespace.
Selected(b) ==
    IF PicksOf[b] # {} THEN PicksOf[b]
    ELSE {d.name : d \in {o \in objects[SourceOf[b]] : o.kind = PVC}}

SelectPVCs(b) ==
    /\ backups[b].pc = "select"
    /\ Put(b, "serialize", [backups[b] EXCEPT !.pvcs = Selected(b)])
    /\ UNCHANGED <<objects, disk, taken, kept, restore, volumes, seen, steady, fuel>>

\* SerializeNamespace and ensureStagingConfigMap.
Stage(b) ==
    /\ backups[b].pc = "serialize" /\ ~Ended(b)
    /\ Put(b, Later(b),
           [backups[b] EXCEPT !.staged = SerializeNamespace(objects[SourceOf[b]])])
    /\ UNCHANGED <<objects, disk, taken, kept, restore, volumes, seen, steady, fuel>>

\* BuildBackupJob.
Launch(b) ==
    /\ backups[b].pc = "launch"
    /\ Put(b, "serialize",
           [backups[b] EXCEPT !.job = "pending", !.archives = backups[b].pvcs])
    /\ UNCHANGED <<objects, disk, taken, kept, restore, volumes, seen, steady, fuel>>

-----------------------------------------------------------------------------
(* The pod and its agent.                                                  *)

Advance(b, job) == backups' = [backups EXCEPT ![b].job = job]

\* The kubelet mounts the ConfigMap, and refreshes the mount when it changes.
Mount(b) ==
    /\ backups[b].job \in {"pending", "running"}
    /\ backups[b].job = "running" => backups[b].mounted # backups[b].staged
    /\ backups' = [backups EXCEPT ![b].job = "running", ![b].mounted = backups[b].staged]
    /\ UNCHANGED <<objects, disk, taken, kept, restore, volumes, seen, steady, fuel>>

\* proxmox-backup-client backup with the pairs of backupArgv.
Upload(b) ==
    /\ backups[b].job = "running"
    /\ taken' = Append(taken,
          [group |-> GroupOf[b], by |-> b, api |-> backups[b].mounted,
           data |-> [c \in backups[b].archives |-> disk[SourceOf[b]][c]]])
    /\ kept' = kept \cup {Len(taken')}
    /\ Advance(b, "uploaded")
    /\ UNCHANGED <<objects, disk, restore, volumes, seen, steady, fuel>>

InGroup(g) == {t \in kept : taken[t].group = g}

\* Mutant of LatestSnapshot: the newest of all.
LatestSnapshotAny(g) == {t \in kept : \A u \in kept : u <= t}
\* The newest snapshot of the group, if it has one.
LatestSnapshot(g) == {t \in InGroup(g) : \A u \in InGroup(g) : u <= t}

\* snapshot list and latestHostSnapshot.
List(b) ==
    /\ backups[b].job = "uploaded"
    /\ \/ \E t \in LatestSnapshot(GroupOf[b]) :
             backups' = [backups EXCEPT ![b].job = "listed", ![b].ref = t]
       \/ LatestSnapshot(GroupOf[b]) = {} /\ Advance(b, "failed")
    /\ UNCHANGED <<objects, disk, taken, kept, restore, volumes, seen, steady, fuel>>

\* The notes are best effort, then the reference goes to the termination log and
\* from there to status.snapshotRef.
Report(b) ==
    /\ backups[b].job = "listed"
    /\ Advance(b, "ok")
    /\ UNCHANGED <<objects, disk, taken, kept, restore, volumes, seen, steady, fuel>>

-----------------------------------------------------------------------------
(* The Jobs of a restore.                                                  *)

Step(pc, rest) == restore' = [rest EXCEPT !.pc = pc]

\* A user asks for what status.snapshotRef of a backup names.
BeginRestore(b) ==
    /\ restore.pc = "new" /\ backups[b].job = "ok"
    /\ Step("fetch", [restore EXCEPT !.of = b, !.ref = backups[b].ref])
    /\ UNCHANGED <<objects, disk, backups, taken, kept, volumes, seen, steady, fuel>>

\* restore-volume of api.pxar and uploadConfigMap.
Fetch ==
    /\ restore.pc = "fetch"
    /\ IF restore.ref \in kept
       THEN Step("pre", [restore EXCEPT !.api = taken[restore.ref].api])
       ELSE Step("failed", restore)
    /\ UNCHANGED <<objects, disk, backups, taken, kept, volumes, seen, steady, fuel>>

Docs == ParseAPIManifests(restore.api, Target)
Buckets == BucketDocs(Docs, Drop, Keep)
Planned == PVCsFromDocs(Buckets.pre)

\* kubectl apply: what has the same name is updated.
Upsert(old, new) == new \cup {o \in old : \A d \in new : Key(d) # Key(o)}
Apply(docs) == objects' = [objects EXCEPT ![Target] = Upsert(@, docs)]

ApplyPre ==
    /\ restore.pc = "pre"
    /\ Apply(Range(Buckets.ns) \cup Range(Buckets.crds) \cup Range(Buckets.pre))
    /\ Step("volumes", restore)
    /\ UNCHANGED <<disk, backups, taken, kept, volumes, seen, steady, fuel>>

\* The node of ensureVolumeJobs for a claim.
NodeFor(c) == IF NodeForPVC(Docs, c) # 0 THEN NodeForPVC(Docs, c) ELSE FirstNode

\* One pair of a volume Job: the volume is bound on the Job's node, emptied and
\* filled; without its archive in the snapshot the client fails.
FillVolume(c) ==
    /\ restore.pc = "volumes" /\ c \in Planned \ restore.filled
    /\ IF restore.ref \in kept /\ c \in DOMAIN taken[restore.ref].data
       THEN /\ Step("volumes", [restore EXCEPT !.filled = @ \cup {c}])
            /\ volumes' = [volumes EXCEPT ![c] =
                  [data |-> taken[restore.ref].data[c], node |-> NodeFor(c)]]
       ELSE /\ Step("failed", restore)
            /\ volumes' = [volumes EXCEPT ![c] = [data |-> Empty, node |-> NodeFor(c)]]
    /\ UNCHANGED <<objects, disk, backups, taken, kept, seen, steady, fuel>>

ApplyWorkload ==
    /\ restore.pc = "volumes" /\ Planned = restore.filled
    /\ Apply(Range(Buckets.work))
    /\ Step("done", restore)
    /\ UNCHANGED <<disk, backups, taken, kept, volumes, seen, steady, fuel>>

-----------------------------------------------------------------------------
(* Users, pods and faults, each of which uses up one unit of fuel.         *)

Before(b) == backups[b].job \in {"none", "pending", "running"}

Fault(kind) == kind \in Faults /\ fuel > 0 /\ fuel' = fuel - 1

\* The pods of a namespace write to a volume.
WriteData(s, c) ==
    /\ Fault("write")
    /\ disk' = [disk EXCEPT ![s][c] = @ + 1]
    /\ UNCHANGED <<objects, backups, taken, kept, restore, volumes, seen, steady>>

\* The objects of a source namespace become new.
Change(s, new) ==
    LET follows(b) == SourceOf[b] = s /\ Before(b)
    IN /\ new # objects[s]
       /\ objects' = [objects EXCEPT ![s] = new]
       /\ seen' = [b \in Backups |-> IF follows(b) THEN seen[b] \cup new ELSE seen[b]]
       /\ steady' = [b \in Backups |-> IF follows(b) THEN steady[b] \cap new ELSE steady[b]]
       /\ UNCHANGED <<disk, backups, taken, kept, restore, volumes>>

\* A user creates or changes an object, or deletes it.
EditObject(s, d) ==
    /\ Fault("edit") /\ d.ns = s
    /\ Change(s, {d} \cup {o \in objects[s] : Key(o) # Key(d)})
DeleteObject(s, d) ==
    /\ Fault("edit") /\ d.ns = s
    /\ Change(s, {o \in objects[s] : Key(o) # Key(d)})

\* "Pruning itself stays server-side": the oldest snapshot of a group is removed.
Prune(t) ==
    /\ Fault("prune") /\ \A u \in InGroup(taken[t].group) : t <= u
    /\ kept' = kept \ {t}
    /\ UNCHANGED <<objects, disk, backups, taken, restore, volumes, seen, steady>>

\* The client or the pod fails; the Job has backoffLimit 0.
ClientFails(b) ==
    /\ Fault("client") /\ backups[b].job \in {"running", "uploaded"}
    /\ Advance(b, "failed")
    /\ UNCHANGED <<objects, disk, taken, kept, restore, volumes, seen, steady>>

Next ==
    \/ \E b \in Backups :
          \/ SelectPVCs(b) \/ Stage(b) \/ Launch(b)
          \/ Mount(b) \/ Upload(b) \/ List(b) \/ Report(b) \/ ClientFails(b)
          \/ BeginRestore(b)
    \/ Fetch \/ ApplyPre \/ (\E c \in Claims : FillVolume(c)) \/ ApplyWorkload
    \/ \E s \in Sources :
          \/ \E c \in Claims : WriteData(s, c)
          \/ \E d \in Edits : EditObject(s, d) \/ DeleteObject(s, d)
    \/ \E t \in kept : Prune(t)

Spec == Init /\ [][Next]_vars

-----------------------------------------------------------------------------
(* Properties.                                                             *)

\* An api.yaml.
Rendered(yaml) ==
    /\ DOMAIN yaml \subseteq DOMAIN Catalog
    /\ \A i \in DOMAIN yaml : yaml[i] \in Doc /\ "volatile" \notin yaml[i].assigned

\* Every variable has its type; what is archived and applied is free of volatile
\* fields.
TypeOK ==
    /\ objects \in [Sources \cup {Target} -> SUBSET Doc]
    /\ disk \in [Sources -> [Claims -> Versions]]
    /\ \A b \in Backups :
          /\ backups[b].pc \in {"select", "serialize", "launch"}
          /\ backups[b].pvcs \subseteq Claims /\ backups[b].archives \subseteq Claims
          /\ Rendered(backups[b].staged) /\ Rendered(backups[b].mounted)
          /\ backups[b].job \in {"none", "pending", "running", "uploaded", "listed", "ok", "failed"}
          /\ backups[b].ref \in 0..MaxTime
    /\ kept \subseteq DOMAIN taken /\ Len(taken) <= MaxTime
    /\ \A t \in DOMAIN taken :
          /\ taken[t].by \in Backups \cup {Earlier} /\ Rendered(taken[t].api)
          /\ \E S \in SUBSET Claims : taken[t].data \in [S -> Versions]
    /\ restore.pc \in {"new", "fetch", "pre", "volumes", "done", "failed"}
    /\ Rendered(restore.api) /\ restore.filled \subseteq Claims
    /\ volumes \in [Claims -> [data : Versions \cup {Empty}, node : Pins \cup {0, FirstNode}]]
    /\ fuel \in 0..MaxFaults

\* The snapshot list is "used to find the fresh snapshot": the reference a backup
\* reports is that of its own upload, whatever other agents upload and the server
\* prunes between the upload and the list.
ReportsOwn ==
    \A b \in Backups : backups[b].ref # 0 => taken[backups[b].ref].by = b

\* "so a restore rebuilds the namespace, not just its disks": the restore of a
\* completed backup fails only if its snapshot is gone.
RestoreWorks == restore.pc = "failed" => restore.ref \notin kept

\* Every volume the plan names holds what the restored backup itself read of it.
VolumesHoldBackup ==
    \E t \in DOMAIN taken :
        taken[t].by = restore.of /\ \A c \in Planned : volumes[c].data = taken[t].data[c]

\* What a completed restore brings back is what its backup saw: every object that
\* existed throughout the backup, no object or content that never existed during
\* it, all of it moved to the target and free of the source's allocations, next
\* to what was in the target before; and the volumes hold what the backup read.
RestoredIsBackup ==
    LET b == restore.of
        Back(S) == Restorable(S, Target, Drop, Keep)
        keys == {Key(d) : d \in Back(seen[b])}
        found == {o \in objects[Target] : Key(o) \in keys}
    IN restore.pc = "done" =>
        /\ Back(steady[b]) \subseteq objects[Target]
        /\ found \subseteq Back(seen[b]) \cup InitObjects[Target]
        /\ objects[Target] \ found \subseteq InitObjects[Target]
        /\ VolumesHoldBackup

\* "local-path RWO data must land where the workload will": once a restore is
\* done, every pinned workload it brought back finds its volumes on its node.
PodsFindVolumes ==
    restore.pc = "done" =>
        \A d \in objects[Target] : d.kind \in WorkloadKinds /\ d.pin # 0 =>
            \A c \in Planned : Mounts(d, c) => volumes[c].node = d.pin
=============================================================================
