------------------------------ MODULE PBSRepo ------------------------------
(***************************************************************************)
(* The PBSRepo controller (internal/controller/pbsrepo_controller.go) with *)
(* the calls of internal/pbs it makes.  One PBSRepo: its Reconcile merges  *)
(* spec and credentials Secret, pings the PBS by listing the snapshots,    *)
(* creates the PBS namespace if a bootstrap token is configured, and       *)
(* records the verdict in the Ready condition, which is the gate of the    *)
(* other controllers.                                                      *)
(*                                                                         *)
(* This controller watches only PBSRepos, its own status patches included: *)
(* a Secret that changes or a server that comes back is noticed by the     *)
(* requeue timer, and a status that keeps changing keeps it running.  So   *)
(* the work queue and the timer are state here.  A tick is a minute.       *)
(***************************************************************************)
EXTENDS Naturals, Informer

CONSTANTS
    Specs,        \* specs users give the PBSRepo
    Secrets,      \* contents of the credentials Secret, NoSecret for none
    Bootstraps,   \* contents of the bootstrap Secret
    Texts,        \* error texts of a server that cannot be reached
    MissingLists, \* the PBS lists a namespace it does not have as empty
    Lag,          \* versions a cache may be behind, plus one
    Faults,       \* kinds of changes around the controller that may happen
    MaxFaults     \* how many of them may happen in one behaviour

\* A setting is absent, what the server has, or something else.
Setting == {"", "right", "wrong"}

\* Host and PBS namespace are one setting, `place`; the CRD makes the datastore
\* and the port non-empty, so the Secret never supplies them.
RepoSpec == [fingerprint : Setting, place : Setting, bootstrap : BOOLEAN]
Secret == [found : BOOLEAN, token : Setting, fingerprint : Setting, place : Setting]
NoSecret == [found |-> FALSE, token |-> "", fingerprint |-> "", place |-> ""]

ASSUME RepoInputs == Specs \subseteq RepoSpec /\ Secrets \subseteq Secret /\ Bootstraps \subseteq Secret
ASSUME RepoBounds ==
    /\ Lag \in Nat \ {0} /\ MaxFaults \in Nat /\ MissingLists \in BOOLEAN
    /\ Faults \subseteq {"abort", "crash", "edit", "secret", "bootstrap", "server", "timeout"}

\* lastProbeFreshFor, requeueFailure and requeueSteady, in minutes.
FreshFor == 1
FailureWait == 2
SteadyWait == 5

\* Ages of lastProbeTime; the last one stands for "too old or never".
Ages == 0..(FreshFor + 1)
Older(age) == IF age > FreshFor THEN age ELSE age + 1

Problems == {"not found", "missing keys", "denied", "no namespace"}
Reasons == {"", "Reachable", "Unreachable", "SecretMissing", "BootstrapFailed"}

\* The Ready condition: True exactly if the reason is Reachable.
Condition == [reason : Reasons, text : Texts \cup Problems \cup {""}, gen : 0..(MaxFaults + 1)]
NoCondition == [reason |-> "", text |-> "", gen |-> 0]

\* A version of the PBSRepo object.
Repo == [spec : Specs, gen : 1..(MaxFaults + 1), cond : Condition, age : Ages]

VARIABLES
    repo,     \* stream of Repo
    secret,   \* stream of Secrets: the credentials Secret
    boot,     \* the bootstrap Secret, as its cache shows it
    server,   \* the PBS: up or not, and whether the namespace exists
    queued,   \* the PBSRepo is in the work queue
    timer,    \* minutes until RequeueAfter queues it, 0 for no timer
    rec,      \* the Reconcile in progress
    fuel      \* faults left

vars == <<repo, secret, boot, server, queued, timer, rec, fuel>>

Rec == [pc : {"ping", "bootstrap", "record"}, read : Repo, secret : Secrets,
        reason : Reasons, text : Texts \cup Problems \cup {""}]
Idle == [pc |-> "idle"]
\* The local variables of a Reconcile that read version r and Secret s.
Started(r, s) == [pc |-> "ping", read |-> r, secret |-> s, reason |-> "", text |-> ""]

Init ==
    /\ \E spec \in Specs :
          repo = Listed([spec |-> spec, gen |-> 1, cond |-> NoCondition, age |-> FreshFor + 1])
    /\ \E s \in Secrets : secret = Listed(s)
    /\ boot \in Bootstraps
    /\ server \in [up : BOOLEAN, namespace : BOOLEAN]
    /\ queued = TRUE /\ timer = 0
    /\ rec = Idle
    /\ fuel = MaxFaults

-----------------------------------------------------------------------------
(* Credentials and the server's answers.                                   *)

\* The CR value when set, else the Secret's.
Pick(crValue, secretValue) == IF crValue # "" THEN crValue ELSE secretValue

\* What producerCreds finds wrong, "" if the credentials are usable.
Problem(spec, s) ==
    IF ~s.found THEN "not found"
    ELSE IF s.token = "" \/ Pick(spec.fingerprint, s.fingerprint) = "" THEN "missing keys"
    ELSE ""

\* The same for bootstrapToken.
BootProblem(s) ==
    IF ~s.found THEN "not found" ELSE IF s.token = "" THEN "missing keys" ELSE ""

\* ListSnapshots with the merged credentials: "" if it answers 200, else the
\* error.  The TLS handshake compares the fingerprint before anything is sent.
Answers(spec, s) ==
    IF ~server.up THEN Texts
    ELSE IF \/ Pick(spec.fingerprint, s.fingerprint) # "right"
            \/ s.token # "right" \/ Pick(spec.place, s.place) # "right"
         THEN {"denied"}
    ELSE IF server.namespace \/ MissingLists THEN {""} ELSE {"no namespace"}

-----------------------------------------------------------------------------
(* Reconcile.                                                              *)

\* Reconcile is about to record the verdict.
Conclude(r, reason, text) ==
    rec' = [r EXCEPT !.pc = "record", !.reason = reason, !.text = text]

\* Take the PBSRepo from the queue, read it and its Secret from the caches.
Begin == queued /\ rec.pc = "idle"

FailSecret ==
    /\ Begin
    /\ LET problem == Problem(Cached(repo).spec, Cached(secret))
       IN /\ problem # ""
          /\ Conclude(Started(Cached(repo), Cached(secret)), "SecretMissing", problem)
    /\ queued' = FALSE
    /\ UNCHANGED <<repo, secret, boot, server, timer, fuel>>

StartPing ==
    /\ Begin /\ Problem(Cached(repo).spec, Cached(secret)) = ""
    /\ rec' = Started(Cached(repo), Cached(secret))
    /\ queued' = FALSE
    /\ UNCHANGED <<repo, secret, boot, server, timer, fuel>>

PingFails ==
    /\ rec.pc = "ping"
    /\ \E text \in Answers(rec.read.spec, rec.secret) \ {""} :
          Conclude(rec, "Unreachable", text)
    /\ UNCHANGED <<repo, secret, boot, server, queued, timer, fuel>>

\* Mutant of PingSucceeds: the bootstrap step is forgotten.
PingSucceedsAtOnce ==
    /\ rec.pc = "ping" /\ "" \in Answers(rec.read.spec, rec.secret)
    /\ Conclude(rec, "Reachable", "")
    /\ UNCHANGED <<repo, secret, boot, server, queued, timer, fuel>>
PingSucceeds ==
    /\ rec.pc = "ping" /\ "" \in Answers(rec.read.spec, rec.secret)
    /\ IF rec.read.spec.bootstrap THEN rec' = [rec EXCEPT !.pc = "bootstrap"]
       ELSE Conclude(rec, "Reachable", "")
    /\ UNCHANGED <<repo, secret, boot, server, queued, timer, fuel>>

FailBootstrapSecret ==
    /\ rec.pc = "bootstrap" /\ BootProblem(boot) # ""
    /\ Conclude(rec, "SecretMissing", BootProblem(boot))
    /\ UNCHANGED <<repo, secret, boot, server, queued, timer, fuel>>

\* EnsureNamespace; a 400 "already exists" is success.
Allowed == server.up /\ boot.token = "right"

Bootstrap ==
    /\ rec.pc = "bootstrap" /\ BootProblem(boot) = "" /\ Allowed
    /\ server' = [server EXCEPT !.namespace = TRUE]
    /\ Conclude(rec, "Reachable", "")
    /\ UNCHANGED <<repo, secret, boot, queued, timer, fuel>>

BootstrapFails ==
    /\ rec.pc = "bootstrap" /\ BootProblem(boot) = "" /\ ~Allowed
    /\ \E text \in IF server.up THEN {"denied"} ELSE Texts :
          Conclude(rec, "BootstrapFailed", text)
    /\ UNCHANGED <<repo, secret, boot, server, queued, timer, fuel>>

-----------------------------------------------------------------------------
(* setCondition and the requeue.                                           *)

Verdict == [reason |-> rec.reason, text |-> rec.text, gen |-> rec.read.gen]

\* Mutant of StampDue: no guard against back-to-back reconciles.
StampDueAlways == rec.reason = "Reachable"
\* succeed stamps lastProbeTime unless the one it read is still fresh.
StampDue == rec.reason = "Reachable" /\ rec.read.age > FreshFor

Dirty == rec.read.cond # Verdict \/ StampDue

\* Mutant of Patched: the status that was read is written back as a whole.
PatchedWhole(stored) ==
    [stored EXCEPT !.cond = Verdict, !.age = IF StampDue THEN 0 ELSE rec.read.age]
\* The merge patch: what the reconcile changed overwrites what is stored.
Patched(stored) ==
    [stored EXCEPT !.cond = IF rec.read.cond # Verdict THEN Verdict ELSE @,
                   !.age = IF StampDue THEN 0 ELSE @]

\* The API server stores v: a new version, and an event for the version the cache
\* has to move to if it is as far behind as it can be.  A time stamp or a
\* lastTransitionTime makes the version differ even if v is what is stored.
Push(v) == repo' = Append(IF Len(repo) < Lag THEN repo ELSE Tail(repo), v)
Pushes == Len(repo) >= Lag

\* The workqueue keeps the sooner of two timers.
Sooner(wait) == IF timer = 0 \/ wait < timer THEN wait ELSE timer

\* Mutant of WaitFor: waits queue up behind each other.
WaitForAfter(reason) ==
    timer + (IF reason \in {"SecretMissing", "Unreachable"} THEN FailureWait ELSE SteadyWait)
\* Mutant of WaitFor: a failure that only others can mend is not retried.
WaitForServer(reason) == IF reason = "SecretMissing" THEN timer ELSE Sooner(SteadyWait)
\* RequeueAfter of succeed and fail.
WaitFor(reason) ==
    Sooner(IF reason \in {"SecretMissing", "Unreachable"} THEN FailureWait ELSE SteadyWait)

Record ==
    /\ rec.pc = "record"
    /\ IF Dirty THEN Push(Patched(Stored(repo))) /\ queued' = (queued \/ Pushes)
       ELSE UNCHANGED <<repo, queued>>
    /\ timer' = WaitFor(rec.reason)
    /\ rec' = Idle
    /\ UNCHANGED <<secret, boot, server, fuel>>

Reconcile ==
    \/ FailSecret \/ StartPing \/ PingFails \/ PingSucceeds
    \/ FailBootstrapSecret \/ Bootstrap \/ BootstrapFails \/ Record

-----------------------------------------------------------------------------
(* Faults and changes, each of which uses up one unit of fuel.             *)

Fault(kind) == kind \in Faults /\ fuel > 0 /\ fuel' = fuel - 1

\* A Get of a Secret or the patch fails; the error puts the PBSRepo back in line.
Abort ==
    /\ Fault("abort") /\ rec.pc # "idle"
    /\ rec' = Idle /\ queued' = TRUE
    /\ UNCHANGED <<repo, secret, boot, server, timer>>

\* The operator restarts: the first list queues every PBSRepo, timers are lost.
Crash ==
    /\ Fault("crash")
    /\ rec' = Idle /\ queued' = TRUE /\ timer' = 0
    /\ repo' = Listed(Stored(repo)) /\ secret' = Listed(Stored(secret))
    /\ UNCHANGED <<boot, server>>

\* The namespace may be created although the answer is lost in the 15 s.
BootstrapTimesOut ==
    /\ Fault("timeout") /\ rec.pc = "bootstrap" /\ BootProblem(boot) = ""
    /\ \/ UNCHANGED server
       \/ Allowed /\ server' = [server EXCEPT !.namespace = TRUE]
    /\ \E text \in Texts : Conclude(rec, "BootstrapFailed", text)
    /\ UNCHANGED <<repo, secret, boot, queued, timer>>

EditSpec(spec) ==
    /\ Fault("edit") /\ spec # Stored(repo).spec
    /\ Push([Stored(repo) EXCEPT !.spec = spec, !.gen = @ + 1])
    /\ queued' = (queued \/ Pushes)
    /\ UNCHANGED <<secret, boot, server, timer, rec>>

ChangeSecret(s) ==
    /\ Fault("secret") /\ s # Stored(secret)
    /\ secret' = Write(secret, s, Lag)
    /\ UNCHANGED <<repo, boot, server, queued, timer, rec>>

ChangeBootstrap(s) ==
    /\ Fault("bootstrap") /\ s # boot
    /\ boot' = s
    /\ UNCHANGED <<repo, secret, server, queued, timer, rec>>

\* The server goes down or comes back.
ServerFlips ==
    /\ Fault("server") /\ server' = [server EXCEPT !.up = ~@]
    /\ UNCHANGED <<repo, secret, boot, queued, timer, rec>>

-----------------------------------------------------------------------------
(* Watch events and time.                                                  *)

DeliverRepo ==
    /\ Stale(repo) /\ repo' = Deliver(repo)
    /\ queued' = TRUE
    /\ UNCHANGED <<secret, boot, server, timer, rec, fuel>>
DeliverSecret ==
    /\ Stale(secret) /\ secret' = Deliver(secret)
    /\ UNCHANGED <<repo, boot, server, queued, timer, rec, fuel>>

\* Nothing to do until the timer fires or something changes.
Quiet == ~queued /\ rec.pc = "idle" /\ ~Stale(repo)

\* Everything the controller can still read was stamped within this minute.
JustStamped ==
    /\ \A i \in DOMAIN repo : repo[i].age = 0
    /\ rec.pc # "idle" => rec.read.age = 0

\* A minute passes.  A reconcile and the events it causes take less than a minute,
\* so a minute ends over pending work only if the work began within it.
Tick ==
    /\ Quiet \/ JustStamped
    /\ repo' = [i \in DOMAIN repo |-> [repo[i] EXCEPT !.age = Older(@)]]
    /\ rec' = IF rec.pc = "idle" THEN rec ELSE [rec EXCEPT !.read.age = Older(@)]
    /\ timer' = IF timer > 0 THEN timer - 1 ELSE 0
    /\ queued' = (queued \/ timer = 1)
    /\ UNCHANGED <<secret, boot, server, fuel>>

Next ==
    \/ Reconcile \/ Abort \/ Crash \/ BootstrapTimesOut \/ ServerFlips
    \/ \E spec \in Specs : EditSpec(spec)
    \/ \E s \in Secrets : ChangeSecret(s)
    \/ \E s \in Bootstraps : ChangeBootstrap(s)
    \/ DeliverRepo \/ DeliverSecret \/ Tick

Spec == Init /\ [][Next]_vars

\* A worker takes what is queued and its calls time out, watch events arrive, and
\* time passes.
Fairness ==
    /\ WF_vars(Reconcile) /\ WF_vars(Tick)
    /\ WF_vars(DeliverRepo) /\ WF_vars(DeliverSecret)

FairSpec == Spec /\ Fairness

-----------------------------------------------------------------------------
(* Properties.                                                             *)

\* Every variable has its type.
TypeOK ==
    /\ repo \in Streams(Repo, Lag)
    /\ secret \in Streams(Secrets, Lag)
    /\ boot \in Bootstraps
    /\ server \in [up : BOOLEAN, namespace : BOOLEAN]
    /\ queued \in BOOLEAN /\ timer \in 0..SteadyWait
    /\ rec \in Rec \cup {Idle}
    /\ fuel \in 0..MaxFaults

\* A repo that asks for a bootstrap is Ready only once its namespace exists, so
\* the backups that pass the gate have a namespace to go to, whatever was edited,
\* timed out or retried in between.  The gates read the condition's status alone,
\* not its generation: they may pass on the verdict about an older spec, but only
\* while the Reconcile that replaces it is under way.
ReadyIsBootstrapped ==
    LET r == Stored(repo)
    IN r.cond.reason = "Reachable" /\ r.spec.bootstrap
          => server.namespace \/ (r.cond.gen < r.gen /\ ~Quiet)

\* "lastProbeTime is when the PBS server was last successfully probed": it is
\* set together with a Reachable verdict only, and no late patch, computed from
\* an older read, moves it back.
ProbeTimeHonest ==
    LET old == Stored(repo).age  new == Stored(repo').age
    IN \/ new \in {old, Older(old)}
       \/ new = 0 /\ Stored(repo').cond.reason = "Reachable"
ProbeTimeForward == [][ProbeTimeHonest]_vars

\* What Reconcile would find if nothing changed under it.
Truth ==
    LET spec == Stored(repo).spec  s == Stored(secret)
    IN IF Problem(spec, s) # "" THEN "SecretMissing"
       ELSE IF "" \notin Answers(spec, s) THEN "Unreachable"
       ELSE IF ~spec.bootstrap THEN "Reachable"
       ELSE IF BootProblem(boot) # "" THEN "SecretMissing"
       ELSE IF Allowed THEN "Reachable" ELSE "BootstrapFailed"

\* Once the surroundings stay as they are, Ready ends up telling the truth about
\* them, although nothing watches the Secrets and the server, a stale verdict may
\* be taken for unchanged, and timers are lost in a restart.
ReadyTracksTruth ==
    \A r \in Reasons \ {""} : <>[](Truth = r) => <>[](Stored(repo).cond.reason = r)

\* "a status patch would watch-trigger another reconcile and hot-loop": the
\* controller's own patches do not keep it busy, it waits for its timer again
\* and again.
QuietBetweenProbes == []<>Quiet
=============================================================================
