----------------------------- MODULE MCDataPath -----------------------------
(* Instances of DataPath for TLC. *)
EXTENDS DataPath

Creds == <<"creds">>
Db == <<"db">>
Web == <<"web">>
Cache == <<"cache">>
Data == <<"data">>
DataDb0 == Data \o Db \o <<"0">>

SomeKinds == {"ConfigMap", "ControllerRevision", "Deployment", "Job", "Namespace", PVC,
              "Secret", "Service", "StatefulSet"}
SomeCatalog ==
    <<<<"ConfigMap", Creds>>, <<"ControllerRevision", Db>>, <<"Deployment", Web>>,
      <<"Job", Web>>, <<"Namespace", Db>>, <<PVC, Cache>>, <<PVC, DataDb0>>,
      <<"Secret", Creds>>, <<"Service", Web>>, <<"StatefulSet", Db>>>>

SomeTemplates == {Data}

Plain(kind, name, ns) ==
    [kind |-> kind, name |-> name, ns |-> ns, rev |-> 1, assigned |-> {"volatile"},
     managed |-> FALSE, pin |-> 0, claims |-> {}, templates |-> {}]
Alloc(d) == [d EXCEPT !.assigned = Assigned]

\* A StatefulSet and a Deployment with their volumes on the second node, what the
\* server adds to them, and objects that are not to be archived.
Workload(ns) ==
    {[Plain("ConfigMap", Creds, ns) EXCEPT !.managed = TRUE],
     Plain("ControllerRevision", Db, ns),
     [Plain("Deployment", Web, ns) EXCEPT !.pin = 2, !.claims = {Cache}],
     Plain("Job", Web, ns), Plain("Namespace", Db, ns),
     Alloc(Plain(PVC, Cache, ns)), Alloc(Plain(PVC, DataDb0, ns)),
     Plain("Secret", Creds, ns), Alloc(Plain("Service", Web, ns)),
     [Plain("StatefulSet", Db, ns) EXCEPT !.pin = 2, !.templates = {Data}]}

\* The target has an older Secret of the same name.
Start == [ns \in Sources \cup {Target} |->
            IF ns = Target THEN {[Plain("Secret", Creds, ns) EXCEPT !.rev = 2]} ELSE Workload(ns)]
Changes == {[Plain("Secret", Creds, "pg") EXCEPT !.rev = 2],
            [Plain("StatefulSet", Db, "pg") EXCEPT !.rev = 2, !.pin = 2, !.templates = {Data}]}

OneSource == [b \in Backups |-> "pg"]
OwnSource == [b \in Backups |-> IF b = "a" THEN "pg" ELSE "dev"]
OwnGroup == [b \in Backups |-> b]
OneGroup == [b \in Backups |-> "nightly-node2"]
AllClaims == [b \in Backups |-> {}]
CacheOnly == [b \in Backups |-> {Cache}]
=============================================================================
