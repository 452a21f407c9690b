----------------------------- MODULE Manifests -----------------------------
(***************************************************************************)
(* What happens to the API objects of a namespace on their way through a   *)
(* backup: internal/backup/serialize.go renders them as api.yaml,          *)
(* internal/backup/restore_plan.go turns api.yaml into what a restore      *)
(* applies, which volumes it fills, and on which nodes.                    *)
(*                                                                         *)
(* A document is a record.  api.yaml, and every list made of it, holds the *)
(* document of the object Catalog[i] at position i: a sequence with gaps.  *)
(* A name is the tuple of its dash-separated segments: Kubernetes derives  *)
(* names by joining others with dashes, and the code takes them apart by   *)
(* prefix.                                                                 *)
(***************************************************************************)
EXTENDS Naturals, Sequences, SequencesExt

CONSTANTS
    Kinds,     \* kinds of the objects around
    Catalog,   \* <<kind, name>> of every object, by GroupKind and then name
    Templates, \* names of volume claim templates
    Spaces,    \* namespaces
    Pins       \* nodes a pod template may be pinned to

ASSUME CatalogAssumption ==
    /\ Catalog \in Seq(Kinds \X Seq(STRING)) /\ IsInjective(Catalog)
    /\ Templates \subseteq Seq(STRING)

ClusterScopedKinds == {"Namespace", "CustomResourceDefinition"}
WorkloadKinds == {"Deployment", "StatefulSet", "DaemonSet", "Job", "CronJob", "ReplicaSet"}
DroppedKinds == {"Pod", "Endpoints", "EndpointSlice", "PodMetrics", "ControllerRevision"}
ExcludedKinds == {"Event", "Job", "PBSBackup", "PBSSchedule", "PBSRestore"}
PVC == "PersistentVolumeClaim"

Keys == Range(Catalog)
ObjectNames == {key[2] : key \in Keys}
Claims == {key[2] : key \in {k \in Keys : k[1] = PVC}}

\* What a server assigns: uid, resourceVersion and status to everything, a volume
\* to a claim, IPs and ports to a Service.
Assigned == {"volatile", "allocated"}

\* rev stands for the rest of the content; pin, claims and templates are those of
\* the pod template of a workload (pin 0: none).
Doc == [kind : Kinds, name : ObjectNames, ns : Spaces, rev : 1..2,
        assigned : SUBSET Assigned, managed : BOOLEAN,
        pin : Pins \cup {0}, claims : SUBSET Claims, templates : SUBSET Templates]

Key(d) == <<d.kind, d.name>>

-----------------------------------------------------------------------------
(* serialize.go                                                            *)

\* Mutant of StripVolatile: the object is rendered as the server has it.
StripNothing(d) == d
StripVolatile(d) == [d EXCEPT !.assigned = @ \ {"volatile"}]

\* Namespaced, not excluded and not the operator's own.
Serialized(d) == d.kind \notin ClusterScopedKinds \cup ExcludedKinds /\ ~d.managed

\* The documents of the objects of one namespace, in the order of the catalog.
SerializeNamespace(objects) ==
    LET At(i) == {d \in objects : Serialized(d) /\ Key(d) = Catalog[i]}
    IN [i \in {j \in DOMAIN Catalog : At(j) # {}} |-> StripVolatile(CHOOSE d \in At(i) : TRUE)]

-----------------------------------------------------------------------------
(* restore_plan.go                                                         *)

\* Mutant of Rewritten: a claim still names the volume it was bound to.
RewrittenBound(d, target) ==
    [d EXCEPT !.ns = IF d.kind \in ClusterScopedKinds THEN @ ELSE target,
              !.assigned = IF d.kind = "Service" THEN {} ELSE @]
\* A document moved to the target namespace, without the source's allocations.
Rewritten(d, target) ==
    [d EXCEPT !.ns = IF d.kind \in ClusterScopedKinds THEN @ ELSE target,
              !.assigned = IF d.kind \in {"Service", PVC} THEN @ \ {"allocated"} ELSE @]

ParseAPIManifests(yaml, target) == [i \in DOMAIN yaml |-> Rewritten(yaml[i], target)]

\* Keep wins over drop, and nothing brings back a derived object.
Wanted(d, drop, keep) == d.kind \notin DroppedKinds /\ ~(d.kind \in drop /\ d.kind \notin keep)

BucketDocs(docs, drop, keep) ==
    LET Bucket(kinds) ==
            Restrict(docs, {i \in DOMAIN docs :
                              Wanted(docs[i], drop, keep) /\ docs[i].kind \in kinds})
    IN [ns   |-> Bucket({"Namespace"}),
        crds |-> Bucket({"CustomResourceDefinition"}),
        pre  |-> Bucket(Kinds \ (WorkloadKinds \cup ClusterScopedKinds)),
        work |-> Bucket(WorkloadKinds)]

PVCsFromDocs(pre) == {pre[i].name : i \in {j \in DOMAIN pre : pre[j].kind = PVC}}

\* The pod template is where the code looks for it; a CronJob has its own in its
\* jobTemplate.
HasTemplate(d) == d.kind \in WorkloadKinds \ {"CronJob"}

\* Mutant of ClaimsVolume: the claims of StatefulSets are overlooked.
ClaimsVolumeDirectly(d, pvc) == HasTemplate(d) /\ pvc \in d.claims
\* claimsPodVolume or stsClaimTemplate: "<template>-<set>-" is a prefix of the claim.
ClaimsVolume(d, pvc) ==
    /\ HasTemplate(d)
    /\ pvc \in d.claims \/ \E t \in d.templates : IsStrictPrefix(t \o d.name, pvc)

\* The pin of the first workload that claims the volume and has one, else 0.
NodeForPVC(docs, pvc) ==
    LET pinned == {i \in DOMAIN docs : ClaimsVolume(docs[i], pvc) /\ docs[i].pin # 0}
    IN IF pinned = {} THEN 0 ELSE docs[Min(pinned)].pin

-----------------------------------------------------------------------------
(* What Kubernetes and the user mean, to compare the above with.           *)

\* What a restore with these options is to bring back of the objects of a
\* namespace: everything the user made, as it will look in the target.
Restorable(objects, target, drop, keep) ==
    {[d EXCEPT !.ns = target, !.assigned = {}] :
        d \in {o \in objects :
                 /\ ~o.managed
                 /\ o.kind \notin ClusterScopedKinds \cup ExcludedKinds \cup DroppedKinds
                 /\ o.kind \in drop => o.kind \in keep}}

\* The claims the pods of a workload mount: a StatefulSet's are named
\* <template>-<set>-<ordinal>.
Mounts(d, pvc) ==
    \/ pvc \in d.claims
    \/ \E t \in d.templates : Len(pvc) = Len(t) + Len(d.name) + 1 /\ IsPrefix(t \o d.name, pvc)
=============================================================================
