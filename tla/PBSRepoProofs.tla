--------------------------- MODULE PBSRepoProofs ---------------------------
(***************************************************************************)
(* Proofs about the PBSRepo controller, for every set of specs and Secrets,*)
(* every lag of the caches and every number of faults of every kind.       *)
(***************************************************************************)
EXTENDS PBSRepo, InformerTheorems

-----------------------------------------------------------------------------
(* The stream of the PBSRepo's versions.                                   *)

\* The versions of a stream that its cache has still to reach.
Newer(s) == {s[i] : i \in 2..Len(s)}

\* A PBSRepo a minute later.
Aged(r) == [r EXCEPT !.age = Older(@)]

\* Every version of the stream is among `S`: what the cache shows, too.
LEMMA Versions ==
    ASSUME NEW S, NEW s \in Streams(S, Lag)
    PROVE  /\ Cached(s) \in S /\ Stored(s) \in S /\ Newer(s) \subseteq S
           /\ Stored(s) = Cached(s) \/ Stored(s) \in Newer(s)
<1>1. /\ s \in Seq(S) /\ Len(s) \in 1..Lag /\ Lag \in Nat /\ Len(s) \in Nat
      /\ \A i \in 1..Len(s) : s[i] \in S
  BY RepoBounds DEF Streams
<1>2. Newer(s) \subseteq S
  BY <1>1 DEF Newer
<1>3. CASE Len(s) = 1
  BY <1>1, <1>2, <1>3 DEF Cached, Stored
<1>4. CASE Len(s) # 1
  <2> DEFINE n == Len(s)
  <2>0. n \in Nat /\ n >= 1 /\ n # 1
    BY <1>1, <1>4
  <2> HIDE DEF n
  <2>1. n \in 2..n /\ n \in 1..n /\ 1 \in 1..n
    BY <2>0
  <2> USE DEF n
  <2>2. s[Len(s)] \in Newer(s)
    BY <2>1 DEF Newer
  <2> QED BY <1>1, <1>2, <2>1, <2>2 DEF Cached, Stored
<1> QED BY <1>3, <1>4

\* A new version is stored, and the cache moves on only if the push makes it.
LEMMA Pushed ==
    ASSUME NEW S, repo \in Streams(S, Lag), NEW v \in S, Push(v)
    PROVE  /\ repo' \in Streams(S, Lag) /\ Stored(repo') = v
           /\ Newer(repo') \subseteq Newer(repo) \cup {v}
           /\ Pushes => Cached(repo') \in Newer(repo) \cup {v}
           /\ ~Pushes => Cached(repo') = Cached(repo) /\ Stale(repo')
<1>1. repo \in Seq(S) /\ Len(repo) \in 1..Lag /\ Lag \in Nat \ {0} /\ Len(repo) \in Nat
  BY RepoBounds DEF Streams
<1>2. CASE Len(repo) < Lag
  <2>1. repo' = Append(repo, v) /\ ~Pushes
    BY <1>1, <1>2 DEF Push, Pushes
  <2>2. /\ repo' \in Seq(S) /\ Len(repo') = Len(repo) + 1
        /\ repo'[Len(repo) + 1] = v
        /\ \A i \in 1..Len(repo) : repo'[i] = repo[i]
    BY <1>1, <2>1, AppendProperties
  <2>3. /\ repo' \in Streams(S, Lag) /\ Stored(repo') = v
        /\ Cached(repo') = Cached(repo) /\ Stale(repo')
    BY <1>1, <1>2, <2>2 DEF Streams, Stored, Cached, Stale
  <2>4. ASSUME NEW i \in 2..Len(repo')
        PROVE  repo'[i] \in Newer(repo) \cup {v}
    <3>1. i = Len(repo) + 1 \/ i \in 2..Len(repo)
      BY <1>1, <2>2
    <3> QED BY <1>1, <2>2, <3>1 DEF Newer
  <2>5. Newer(repo') \subseteq Newer(repo) \cup {v}
    BY <2>4 DEF Newer
  <2> QED BY <2>1, <2>3, <2>5
<1>3. CASE Len(repo) >= Lag
  <2>1. repo' = Append(Tail(repo), v) /\ Pushes
    BY <1>1, <1>3 DEF Push, Pushes
  <2>2. /\ Tail(repo) \in Seq(S) /\ Len(Tail(repo)) = Len(repo) - 1
        /\ \A i \in 1..Len(Tail(repo)) : Tail(repo)[i] = repo[i + 1]
    BY <1>1, HeadTailProperties
  <2>3. /\ repo' \in Seq(S) /\ Len(repo') = Len(repo) /\ repo'[Len(repo)] = v
        /\ \A i \in 1..(Len(repo) - 1) : repo'[i] = repo[i + 1]
    BY <1>1, <2>1, <2>2, AppendProperties
  <2>4. repo' \in Streams(S, Lag) /\ Stored(repo') = v
    BY <1>1, <2>3 DEF Streams, Stored
  <2>5. ASSUME NEW i \in 1..Len(repo')
        PROVE  repo'[i] \in Newer(repo) \cup {v}
    <3>1. CASE i = Len(repo)
      BY <2>3, <3>1
    <3>2. CASE i # Len(repo)
      <4>1. i \in 1..(Len(repo) - 1) /\ i + 1 \in 2..Len(repo)
        BY <1>1, <2>3, <3>2
      <4>2. repo'[i] = repo[i + 1]
        BY <2>3, <4>1
      <4> QED BY <4>1, <4>2 DEF Newer
    <3> QED BY <3>1, <3>2
  <2>6. 2..Len(repo') \subseteq 1..Len(repo') /\ 1 \in 1..Len(repo')
    BY <1>1, <2>3
  <2>7. Newer(repo') \subseteq Newer(repo) \cup {v}
    BY <2>5, <2>6 DEF Newer
  <2>8. Cached(repo') \in Newer(repo) \cup {v}
    BY <2>5, <2>6 DEF Cached
  <2> QED BY <2>1, <2>4, <2>7, <2>8
<1> QED BY <1>1, <1>2, <1>3

\* A watch event shows the cache a version it had not reached.
LEMMA Delivered ==
    ASSUME NEW S, repo \in Streams(S, Lag), Stale(repo), repo' = Deliver(repo)
    PROVE  Cached(repo') \in Newer(repo) /\ Newer(repo') \subseteq Newer(repo)
<1>1. /\ Len(repo') = Len(repo) - 1 /\ Len(repo) \in Nat /\ Len(repo) > 1
      /\ \A i \in 1..Len(repo') : repo'[i] = repo[i + 1]
  BY HeadTailProperties DEF Streams, Stale, Deliver
<1>2. ASSUME NEW i \in 1..Len(repo')
      PROVE  repo'[i] \in Newer(repo)
  <2>1. i + 1 \in 2..Len(repo)
    BY <1>1
  <2> QED BY <1>1, <2>1 DEF Newer
<1>3. 2..Len(repo') \subseteq 1..Len(repo') /\ 1 \in 1..Len(repo')
  BY <1>1
<1> QED BY <1>2, <1>3 DEF Newer, Cached

\* A cache that has just listed, or caught up, has nothing left to reach.
LEMMA CaughtUp ==
    ASSUME NEW S, NEW s \in Streams(S, Lag), ~Stale(s)
    PROVE  Newer(s) = {} /\ Stored(s) = Cached(s)
<1>1. Len(s) = 1
  <2> DEFINE n == Len(s)
  <2>1. n \in Nat /\ n >= 1 /\ ~(n > 1)
    BY RepoBounds DEF Streams, Stale
  <2> HIDE DEF n
  <2>2. n = 1
    BY <2>1
  <2> QED BY <2>2 DEF n
<1>2. 2..Len(s) = {}
  BY <1>1
<1> QED BY <1>1, <1>2 DEF Newer, Stored, Cached

\* A minute ages every version in its place.
LEMMA MinuteLater ==
    ASSUME NEW S, repo \in Streams(S, Lag),
           NEW T, \A r \in S : Aged(r) \in T,
           repo' = [i \in DOMAIN repo |-> [repo[i] EXCEPT !.age = Older(@)]]
    PROVE  /\ repo' \in Streams(T, Lag) /\ Stale(repo') = Stale(repo)
           /\ Stored(repo') = Aged(Stored(repo)) /\ Cached(repo') = Aged(Cached(repo))
           /\ \A r \in Newer(repo') : \E o \in Newer(repo) : r = Aged(o)
<1>1. /\ repo \in Seq(S) /\ Len(repo) \in 1..Lag /\ Lag \in Nat \ {0} /\ Len(repo) \in Nat
      /\ DOMAIN repo = 1..Len(repo) /\ \A i \in 1..Len(repo) : repo[i] \in S
  BY RepoBounds DEF Streams
<1>2. repo' = [i \in 1..Len(repo) |-> Aged(repo[i])]
  BY <1>1 DEF Aged
<1>3. \A i \in 1..Len(repo) : Aged(repo[i]) \in T
  BY <1>1
<1> HIDE DEF Aged
<1>4. repo' \in Seq(T) /\ Len(repo') = Len(repo)
  BY <1>1, <1>2, <1>3
<1>5. /\ \A i \in 1..Len(repo) : repo'[i] = Aged(repo[i])
      /\ 2..Len(repo) \subseteq 1..Len(repo)
      /\ 1 \in 1..Len(repo) /\ Len(repo) \in 1..Len(repo)
  BY <1>1, <1>2
<1>6. \A r \in Newer(repo') : \E o \in Newer(repo) : r = Aged(o)
  <2> SUFFICES ASSUME NEW r \in Newer(repo')
               PROVE  \E o \in Newer(repo) : r = Aged(o)
    OBVIOUS
  <2>1. PICK i \in 2..Len(repo') : r = repo'[i]
    BY DEF Newer
  <2>2. repo[i] \in Newer(repo)
    BY <1>4 DEF Newer
  <2>3. repo'[i] = Aged(repo[i])
    BY <1>4, <1>5
  <2> QED BY <2>1, <2>2, <2>3
<1> QED BY <1>1, <1>4, <1>5, <1>6 DEF Streams, Stored, Cached, Stale

-----------------------------------------------------------------------------
(* Types.                                                                  *)

Said == Texts \cup Problems \cup {""}

\* The generation grows by one with every edit, and every edit is a fault.
TypeInv == TypeOK /\ Stored(repo).gen + fuel <= MaxFaults + 1

\* A Reconcile in progress has its local variables.
LEMMA InProgress ==
    ASSUME rec \in Rec \cup {Idle}
    PROVE  /\ rec.pc # "idle" => rec \in Rec
           /\ rec.pc = "idle" => rec = Idle
<1>1. Idle.pc = "idle"
  BY DEF Idle
<1>2. rec \in Rec => rec.pc # "idle"
  BY DEF Rec
<1> QED BY <1>1, <1>2

\* What reading the caches and concluding make of the local variables.
LEMMA StartedRec ==
    ASSUME NEW r \in Repo, NEW s \in Secrets
    PROVE  /\ Started(r, s) \in Rec /\ Started(r, s).pc = "ping"
           /\ Started(r, s).read = r /\ Started(r, s).secret = s
BY DEF Started, Rec, Reasons

LEMMA ConcludedRec ==
    ASSUME NEW r \in Rec, NEW reason \in Reasons, NEW text \in Said,
           Conclude(r, reason, text)
    PROVE  /\ rec' \in Rec /\ rec'.pc = "record"
           /\ rec'.read = r.read /\ rec'.secret = r.secret
           /\ rec'.reason = reason /\ rec'.text = text
<1>1. rec' = [r EXCEPT !.pc = "record", !.reason = reason, !.text = text]
  BY DEF Conclude
<1>2. /\ rec'.pc = "record" /\ rec'.read = r.read /\ rec'.secret = r.secret
      /\ rec'.reason = reason /\ rec'.text = text
  BY <1>1 DEF Rec
<1>3. rec' \in Rec
  BY <1>1 DEF Rec, Said
<1> QED BY <1>2, <1>3

\* The fields of the versions the API server is asked to store.
LEMMA PatchedRepo ==
    ASSUME NEW o \in Repo, rec \in Rec
    PROVE  /\ Patched(o) \in Repo
           /\ Patched(o).spec = o.spec /\ Patched(o).gen = o.gen
           /\ Patched(o).cond = IF rec.read.cond # Verdict THEN Verdict ELSE o.cond
           /\ Patched(o).age = IF StampDue THEN 0 ELSE o.age
<1>1. Verdict \in Condition
  <2>1. rec.reason \in Reasons /\ rec.text \in Texts \cup Problems \cup {""}
    BY DEF Rec
  <2>2. rec.read.gen \in 1..(MaxFaults + 1)
    BY DEF Rec, Repo
  <2>3. rec.read.gen \in 0..(MaxFaults + 1)
    BY <2>2, RepoBounds
  <2> QED BY <2>1, <2>3 DEF Verdict, Condition
<1> DEFINE c == IF rec.read.cond # Verdict THEN Verdict ELSE o.cond
           a == IF StampDue THEN 0 ELSE o.age
<1>2. c \in Condition
  BY <1>1 DEF Repo
<1>3. a \in Ages
  BY DEF Repo, Ages, FreshFor
<1>4. Patched(o) = [o EXCEPT !.cond = c, !.age = a]
  BY DEF Patched, Repo
<1> HIDE DEF c, a
<1>5. Patched(o) \in Repo
  BY <1>2, <1>3, <1>4 DEF Repo
<1>6. /\ Patched(o).spec = o.spec /\ Patched(o).gen = o.gen
      /\ Patched(o).cond = c /\ Patched(o).age = a
  BY <1>4 DEF Repo
<1> QED BY <1>5, <1>6 DEF c, a

Edited(o, spec) == [o EXCEPT !.spec = spec, !.gen = @ + 1]

LEMMA EditedRepo ==
    ASSUME NEW o \in Repo, NEW spec \in Specs, o.gen + 1 <= MaxFaults + 1
    PROVE  /\ Edited(o, spec) \in Repo
           /\ Edited(o, spec).spec = spec /\ Edited(o, spec).gen = o.gen + 1
           /\ Edited(o, spec).cond = o.cond /\ Edited(o, spec).age = o.age
<1>1. o.gen + 1 \in 1..(MaxFaults + 1)
  BY RepoBounds DEF Repo
<1>2. Edited(o, spec) \in Repo
  BY <1>1 DEF Edited, Repo
<1> QED BY <1>2 DEF Edited, Repo

LEMMA AgedRepo ==
    ASSUME NEW o \in Repo
    PROVE  /\ Aged(o) \in Repo
           /\ Aged(o).spec = o.spec /\ Aged(o).gen = o.gen /\ Aged(o).cond = o.cond
           /\ Aged(o).age = Older(o.age) /\ Older(o.age) \in Ages
<1>1. Older(o.age) \in Ages
  BY DEF Older, Repo, Ages, FreshFor
<1>2. Aged(o) = [o EXCEPT !.age = Older(o.age)]
  BY DEF Aged, Repo
<1> QED BY <1>1, <1>2 DEF Repo

\* The answers of the server and of the credentials' checks are texts.
LEMMA Answered ==
    /\ \A spec, s : Answers(spec, s) \subseteq Said /\ Problem(spec, s) \in Said
    /\ \A s : BootProblem(s) \in Said
<1>1. \A spec, s : Answers(spec, s) \subseteq Said
  BY DEF Answers, Said, Problems
<1>2. \A spec, s : Problem(spec, s) \in Said
  BY DEF Problem, Said, Problems
<1>3. \A s : BootProblem(s) \in Said
  BY DEF BootProblem, Said, Problems
<1> QED BY <1>1, <1>2, <1>3

-----------------------------------------------------------------------------
(* The kinds of steps, by what they do to the PBSRepo and to the Reconcile. *)

\* A Reconcile starts from what the caches show.
Reads ==
    /\ queued /\ rec.pc = "idle" /\ queued' = FALSE
    /\ rec' \in Rec /\ rec'.read = Cached(repo)
    /\ rec'.pc = "record" => rec'.reason # "Reachable"
    /\ UNCHANGED <<repo, server>>

\* It goes on: it concludes that a repo is reachable once the namespace is there.
Works ==
    /\ rec \in Rec /\ rec' \in Rec /\ rec'.read = rec.read /\ rec.pc # "record"
    /\ rec'.pc = "record" /\ rec'.reason = "Reachable" /\ rec'.read.spec.bootstrap
          => server'.namespace
    /\ server.namespace => server'.namespace
    /\ UNCHANGED <<repo, queued>>

\* It ends, with an error or with the process.
Quits ==
    /\ rec' = Idle /\ queued' = TRUE
    /\ (rec.pc # "idle" /\ repo' = repo) \/ repo' = Listed(Stored(repo))
    /\ UNCHANGED server

\* Neither the PBSRepo nor the Reconcile nor the namespace is concerned.
Elsewhere == UNCHANGED <<repo, rec, queued>> /\ server'.namespace = server.namespace

\* Every step is of one of these kinds.
LEMMA StepKinds ==
    ASSUME TypeOK, [Next]_vars
    PROVE  \/ Reads \/ Works \/ (rec \in Rec /\ Record) \/ Quits \/ Elsewhere
           \/ (\E spec \in Specs : EditSpec(spec)) \/ DeliverRepo \/ Tick
<1>1. /\ repo \in Streams(Repo, Lag) /\ secret \in Streams(Secrets, Lag)
      /\ rec \in Rec \cup {Idle} /\ boot \in Bootstraps
      /\ server \in [up : BOOLEAN, namespace : BOOLEAN]
  BY DEF TypeOK
<1>2. Cached(repo) \in Repo /\ Cached(secret) \in Secrets
  BY <1>1, StreamElements, RepoBounds
<1>3. rec.pc # "idle" => rec \in Rec
  BY <1>1, InProgress
<1> DEFINE r0 == Started(Cached(repo), Cached(secret))
<1>4. /\ r0 \in Rec /\ r0.pc = "ping" /\ r0.read = Cached(repo)
      /\ r0.secret = Cached(secret)
  BY <1>2, StartedRec
<1> HIDE DEF r0
<1>5. CASE FailSecret
  <2> DEFINE problem == Problem(Cached(repo).spec, Cached(secret))
  <2>1. Conclude(r0, "SecretMissing", problem)
    BY <1>5 DEF FailSecret, r0
  <2>2. problem \in Said /\ "SecretMissing" \in Reasons
    BY Answered DEF Reasons
  <2> HIDE DEF problem
  <2>3. rec' \in Rec /\ rec'.read = Cached(repo) /\ rec'.reason = "SecretMissing"
    BY <1>4, <2>1, <2>2, ConcludedRec
  <2> QED BY <1>5, <2>3 DEF FailSecret, Begin, Reads
<1>6. CASE StartPing
  <2>1. rec' = r0
    BY <1>6 DEF StartPing, r0
  <2> QED BY <1>4, <1>6, <2>1 DEF StartPing, Begin, Reads
<1>7. CASE PingFails
  <2>1. PICK text \in Answers(rec.read.spec, rec.secret) \ {""} :
           Conclude(rec, "Unreachable", text)
    BY <1>7 DEF PingFails
  <2>2. text \in Said /\ "Unreachable" \in Reasons /\ rec \in Rec
    BY <1>3, <1>7, Answered DEF Reasons, PingFails
  <2>3. rec' \in Rec /\ rec'.read = rec.read /\ rec'.reason = "Unreachable"
    BY <2>1, <2>2, ConcludedRec
  <2> QED BY <1>7, <2>2, <2>3 DEF PingFails, Works
<1>8. CASE PingSucceeds
  <2>1. rec \in Rec /\ "" \in Said /\ "Reachable" \in Reasons
    BY <1>3, <1>8 DEF PingSucceeds, Said, Reasons
  <2>2. CASE rec.read.spec.bootstrap
    <3>1. rec' = [rec EXCEPT !.pc = "bootstrap"]
      BY <1>8, <2>2 DEF PingSucceeds
    <3>2. rec' \in Rec
      BY <2>1, <3>1 DEF Rec
    <3>3. rec'.read = rec.read /\ rec'.pc = "bootstrap"
      BY <2>1, <3>1 DEF Rec
    <3> QED BY <1>8, <2>1, <3>2, <3>3 DEF PingSucceeds, Works
  <2>3. CASE ~rec.read.spec.bootstrap
    <3>1. Conclude(rec, "Reachable", "")
      BY <1>8, <2>3 DEF PingSucceeds
    <3>2. rec' \in Rec /\ rec'.read = rec.read
      BY <2>1, <3>1, ConcludedRec
    <3> QED BY <1>8, <2>1, <2>3, <3>2 DEF PingSucceeds, Works
  <2> QED BY <2>2, <2>3
<1>9. CASE FailBootstrapSecret
  <2>1. BootProblem(boot) \in Said /\ "SecretMissing" \in Reasons /\ rec \in Rec
    BY <1>3, <1>9, Answered DEF Reasons, FailBootstrapSecret
  <2>2. rec' \in Rec /\ rec'.read = rec.read /\ rec'.reason = "SecretMissing"
    BY <1>9, <2>1, ConcludedRec DEF FailBootstrapSecret
  <2> QED BY <1>9, <2>1, <2>2 DEF FailBootstrapSecret, Works
<1>10. CASE Bootstrap
  <2>1. "" \in Said /\ "Reachable" \in Reasons /\ rec \in Rec
    BY <1>3, <1>10 DEF Reasons, Said, Bootstrap
  <2>2. rec' \in Rec /\ rec'.read = rec.read
    BY <1>10, <2>1, ConcludedRec DEF Bootstrap
  <2>3. server'.namespace
    BY <1>1, <1>10 DEF Bootstrap
  <2> QED BY <1>10, <2>1, <2>2, <2>3 DEF Bootstrap, Works
<1>11. CASE BootstrapFails
  <2>1. PICK text \in IF server.up THEN {"denied"} ELSE Texts :
           Conclude(rec, "BootstrapFailed", text)
    BY <1>11 DEF BootstrapFails
  <2>2. text \in Said /\ "BootstrapFailed" \in Reasons /\ rec \in Rec
    BY <1>3, <1>11 DEF Reasons, Said, Problems, BootstrapFails
  <2>3. rec' \in Rec /\ rec'.read = rec.read /\ rec'.reason = "BootstrapFailed"
    BY <2>1, <2>2, ConcludedRec
  <2> QED BY <1>11, <2>2, <2>3 DEF BootstrapFails, Works
<1>12. CASE Record
  BY <1>3, <1>12 DEF Record
<1>13. CASE Abort \/ Crash
  BY <1>13 DEF Abort, Crash, Quits
<1>14. CASE BootstrapTimesOut
  <2>1. PICK text \in Texts : Conclude(rec, "BootstrapFailed", text)
    BY <1>14 DEF BootstrapTimesOut
  <2>2. text \in Said /\ "BootstrapFailed" \in Reasons /\ rec \in Rec
    BY <1>3, <1>14 DEF Reasons, Said, BootstrapTimesOut
  <2>3. rec' \in Rec /\ rec'.read = rec.read /\ rec'.reason = "BootstrapFailed"
    BY <2>1, <2>2, ConcludedRec
  <2>4. server.namespace => server'.namespace
    BY <1>1, <1>14 DEF BootstrapTimesOut
  <2> QED BY <1>14, <2>2, <2>3, <2>4 DEF BootstrapTimesOut, Works
<1>15. CASE ServerFlips
  <2>1. server'.namespace = server.namespace
    BY <1>1, <1>15 DEF ServerFlips
  <2> QED BY <1>15, <2>1 DEF ServerFlips, Elsewhere
<1>16. CASE \/ \E s \in Secrets : ChangeSecret(s)
            \/ \E s \in Bootstraps : ChangeBootstrap(s)
            \/ DeliverSecret \/ UNCHANGED vars
  BY <1>16 DEF ChangeSecret, ChangeBootstrap, DeliverSecret, vars, Elsewhere
<1> QED BY <1>5, <1>6, <1>7, <1>8, <1>9, <1>10, <1>11, <1>12, <1>13, <1>14, <1>15,
           <1>16 DEF Next, Reconcile

\* The PBSRepo's versions keep their type, and its generation its bound.
LEMMA RepoType ==
    ASSUME TypeInv, [Next]_vars, fuel' \in 0..fuel
    PROVE  /\ repo' \in Streams(Repo, Lag)
           /\ Stored(repo').gen + fuel' <= MaxFaults + 1
<1>1. /\ TypeOK /\ repo \in Streams(Repo, Lag) /\ Lag \in Nat \ {0}
      /\ fuel \in Nat /\ fuel' \in Nat /\ fuel' <= fuel /\ MaxFaults \in Nat
  BY RepoBounds DEF TypeInv, TypeOK
<1>2. Stored(repo) \in Repo /\ Stored(repo).gen \in Nat
  <2>1. Stored(repo) \in Repo
    BY <1>1, StreamElements
  <2>2. \A r \in Repo : r.gen \in Nat
    BY RepoBounds DEF Repo
  <2> QED BY <2>1, <2>2
<1>3. Stored(repo).gen + fuel <= MaxFaults + 1
  BY DEF TypeInv
<1>4. CASE CacheMove(repo, repo')
  <2>1. repo' \in Streams(Repo, Lag) /\ Stored(repo') = Stored(repo)
    BY <1>1, <1>4, CacheMoveStream
  <2> QED BY <1>1, <1>2, <1>3, <2>1
<1>5. CASE Reads \/ Works \/ Quits \/ Elsewhere \/ DeliverRepo
  BY <1>4, <1>5 DEF Reads, Works, Quits, Elsewhere, DeliverRepo, CacheMove
<1>6. CASE rec \in Rec /\ Record
  <2>1. CASE Dirty
    <3>1. Push(Patched(Stored(repo)))
      BY <1>6, <2>1 DEF Record
    <3>2. Patched(Stored(repo)) \in Repo /\ Patched(Stored(repo)).gen = Stored(repo).gen
      BY <1>2, <1>6, PatchedRepo
    <3>3. repo' \in Streams(Repo, Lag) /\ Stored(repo') = Patched(Stored(repo))
      BY <1>1, <3>1, <3>2, Pushed
    <3> QED BY <1>1, <1>2, <1>3, <3>2, <3>3
  <2>2. CASE ~Dirty
    BY <1>4, <1>6, <2>2 DEF Record, CacheMove
  <2> QED BY <2>1, <2>2
<1>7. ASSUME NEW spec \in Specs, EditSpec(spec)
      PROVE  /\ repo' \in Streams(Repo, Lag)
             /\ Stored(repo').gen + fuel' <= MaxFaults + 1
  <2>1. fuel > 0 /\ fuel' = fuel - 1 /\ Push(Edited(Stored(repo), spec))
    BY <1>7 DEF EditSpec, Fault, Edited
  <2>2. Stored(repo).gen + 1 <= MaxFaults + 1
    BY <1>1, <1>2, <1>3, <2>1
  <2>3. /\ Edited(Stored(repo), spec) \in Repo
        /\ Edited(Stored(repo), spec).gen = Stored(repo).gen + 1
    BY <1>2, <2>2, EditedRepo
  <2>4. repo' \in Streams(Repo, Lag) /\ Stored(repo') = Edited(Stored(repo), spec)
    BY <1>1, <2>1, <2>3, Pushed
  <2> QED BY <1>1, <1>2, <1>3, <2>1, <2>3, <2>4
<1>8. CASE Tick
  <2>1. \A r \in Repo : Aged(r) \in Repo
    BY AgedRepo
  <2>2. repo' \in Streams(Repo, Lag) /\ Stored(repo') = Aged(Stored(repo))
    BY <1>1, <1>8, <2>1, MinuteLater DEF Tick
  <2>3. Aged(Stored(repo)).gen = Stored(repo).gen
    BY <1>2, AgedRepo
  <2> QED BY <1>1, <1>2, <1>3, <2>2, <2>3
<1> QED BY <1>1, <1>5, <1>6, <1>7, <1>8, StepKinds

\* A minute ages what a Reconcile in progress has read.
LEMMA ReadAged ==
    ASSUME rec \in Rec, Tick
    PROVE  /\ rec' \in Rec /\ rec'.read = Aged(rec.read)
           /\ rec'.pc = rec.pc /\ rec'.reason = rec.reason
<1>1. rec.pc # "idle" /\ rec.read \in Repo
  BY DEF Rec
<1>2. rec' = [rec EXCEPT !.read = Aged(rec.read)]
  BY <1>1 DEF Tick, Aged
<1>3. Aged(rec.read) \in Repo
  BY <1>1, AgedRepo
<1> HIDE DEF Aged
<1>4. rec' \in Rec
  BY <1>2, <1>3 DEF Rec
<1> QED BY <1>2, <1>4 DEF Rec

\* Every step keeps every variable's type.
LEMMA TypesKept ==
    ASSUME TypeInv, [Next]_vars
    PROVE  TypeInv'
<1>1. /\ TypeOK /\ fuel \in 0..MaxFaults /\ MaxFaults \in Nat /\ Lag \in Nat \ {0}
      /\ timer \in 0..5 /\ queued \in BOOLEAN /\ boot \in Bootstraps
      /\ secret \in Streams(Secrets, Lag)
      /\ server \in [up : BOOLEAN, namespace : BOOLEAN]
      /\ rec \in Rec \cup {Idle}
  BY RepoBounds DEF TypeInv, TypeOK, SteadyWait
<1>2. fuel' \in 0..fuel /\ fuel' \in 0..MaxFaults
  <2>1. fuel' = fuel \/ (fuel > 0 /\ fuel' = fuel - 1)
    BY DEF Next, Reconcile, FailSecret, StartPing, PingFails, PingSucceeds,
           FailBootstrapSecret, Bootstrap, BootstrapFails, Record, Abort, Crash,
           BootstrapTimesOut, ServerFlips, EditSpec, ChangeSecret, ChangeBootstrap,
           DeliverRepo, DeliverSecret, Tick, Fault, vars
  <2> QED BY <1>1, <2>1
<1>3. boot' \in Bootstraps
  BY <1>1 DEF Next, Reconcile, FailSecret, StartPing, PingFails, PingSucceeds,
           FailBootstrapSecret, Bootstrap, BootstrapFails, Record, Abort, Crash,
           BootstrapTimesOut, ServerFlips, EditSpec, ChangeSecret, ChangeBootstrap,
           DeliverRepo, DeliverSecret, Tick, vars
<1>4. server' \in [up : BOOLEAN, namespace : BOOLEAN]
  <2>1. \/ server' = server \/ server' = [server EXCEPT !.namespace = TRUE]
        \/ server' = [server EXCEPT !.up = ~@]
    BY DEF Next, Reconcile, FailSecret, StartPing, PingFails, PingSucceeds,
           FailBootstrapSecret, Bootstrap, BootstrapFails, Record, Abort, Crash,
           BootstrapTimesOut, ServerFlips, EditSpec, ChangeSecret, ChangeBootstrap,
           DeliverRepo, DeliverSecret, Tick, vars
  <2>2. CASE server' = [server EXCEPT !.namespace = TRUE]
    BY <1>1, <2>2
  <2>3. CASE server' = [server EXCEPT !.up = ~@]
    BY <1>1, <2>3
  <2> QED BY <1>1, <2>1, <2>2, <2>3
<1>5. secret' \in Streams(Secrets, Lag)
  <2>1. CASE CacheMove(secret, secret')
    BY <1>1, <2>1, CacheMoveStream
  <2>2. ASSUME NEW s \in Secrets, ChangeSecret(s)
        PROVE  secret' \in Streams(Secrets, Lag)
    BY <1>1, <2>2, WriteStream DEF ChangeSecret
  <2>3. CacheMove(secret, secret') \/ \E s \in Secrets : ChangeSecret(s)
    BY DEF Next, Reconcile, FailSecret, StartPing, PingFails, PingSucceeds,
           FailBootstrapSecret, Bootstrap, BootstrapFails, Record, Abort, Crash,
           BootstrapTimesOut, ServerFlips, EditSpec, ChangeBootstrap,
           DeliverRepo, DeliverSecret, Tick, vars, CacheMove
  <2> QED BY <2>1, <2>2, <2>3
<1>6. timer' \in 0..SteadyWait
  <2>1. \/ timer' = timer \/ timer' = 0
        \/ timer' = WaitFor(rec.reason) \/ (timer > 0 /\ timer' = timer - 1)
    BY DEF Next, Reconcile, FailSecret, StartPing, PingFails, PingSucceeds,
           FailBootstrapSecret, Bootstrap, BootstrapFails, Record, Abort, Crash,
           BootstrapTimesOut, ServerFlips, EditSpec, ChangeSecret, ChangeBootstrap,
           DeliverRepo, DeliverSecret, Tick, vars
  <2>2. WaitFor(rec.reason) \in 0..5
    BY <1>1 DEF WaitFor, Sooner, FailureWait, SteadyWait
  <2> HIDE DEF WaitFor
  <2> QED BY <1>1, <2>1, <2>2 DEF SteadyWait
<1>7. queued' \in BOOLEAN
  BY <1>1 DEF Next, Reconcile, FailSecret, StartPing, PingFails, PingSucceeds,
           FailBootstrapSecret, Bootstrap, BootstrapFails, Record, Abort, Crash,
           BootstrapTimesOut, ServerFlips, EditSpec, ChangeSecret, ChangeBootstrap,
           DeliverRepo, DeliverSecret, Tick, vars
<1>8. rec' \in Rec \cup {Idle}
  <2>1. CASE Tick
    <3>1. CASE rec.pc = "idle"
      BY <1>1, <2>1, <3>1 DEF Tick
    <3>2. CASE rec.pc # "idle"
      BY <1>1, <2>1, <3>2, InProgress, ReadAged
    <3> QED BY <3>1, <3>2
  <2>2. CASE (\E spec \in Specs : EditSpec(spec)) \/ DeliverRepo \/ Elsewhere
    BY <1>1, <2>2 DEF EditSpec, DeliverRepo, Elsewhere
  <2>3. CASE Reads \/ Works \/ Quits \/ Record
    BY <2>3 DEF Reads, Works, Quits, Record
  <2> QED BY <1>1, <2>1, <2>2, <2>3, StepKinds
<1>9. repo' \in Streams(Repo, Lag) /\ Stored(repo').gen + fuel' <= MaxFaults + 1
  BY <1>2, RepoType
<1>10. TypeOK'
  BY <1>2, <1>3, <1>4, <1>5, <1>6, <1>7, <1>8, <1>9 DEF TypeOK
<1> QED BY <1>9, <1>10 DEF TypeInv

LEMMA TypesAtStart ==
    ASSUME Init
    PROVE  TypeInv
<1>1. PICK spec \in Specs :
         repo = Listed([spec |-> spec, gen |-> 1, cond |-> NoCondition, age |-> FreshFor + 1])
  BY DEF Init
<1> DEFINE r == [spec |-> spec, gen |-> 1, cond |-> NoCondition, age |-> FreshFor + 1]
<1>2. /\ 1 \in 1..(MaxFaults + 1) /\ 0 \in 0..(MaxFaults + 1) /\ FreshFor + 1 \in Ages
      /\ MaxFaults \in Nat /\ Lag \in Nat \ {0}
  BY RepoBounds DEF FreshFor, Ages
<1>3. NoCondition \in Condition
  BY <1>2 DEF NoCondition, Condition, Reasons
<1>4. r \in Repo /\ r.gen = 1
  BY <1>2, <1>3 DEF Repo
<1> HIDE DEF r
<1>5. repo \in Streams(Repo, Lag) /\ Stored(repo) = r
  BY <1>1, <1>2, <1>4, ListedStream DEF r
<1>6. secret \in Streams(Secrets, Lag)
  BY <1>2, ListedStream DEF Init
<1>7. timer \in 0..SteadyWait /\ fuel \in 0..MaxFaults /\ Stored(repo).gen + fuel <= MaxFaults + 1
  BY <1>2, <1>4, <1>5 DEF Init, SteadyWait
<1> QED BY <1>5, <1>6, <1>7 DEF Init, TypeInv, TypeOK

\* The PBSRepo, its caches, the work queue, the timer and the local variables of
\* Reconcile have their types in every reachable state; in particular the timer
\* never exceeds the steady wait, whatever verdicts queue up behind each other.
THEOREM RepoTypeCorrect == Spec => []TypeOK
<1>1. Init => TypeInv
  BY TypesAtStart
<1>2. TypeInv /\ [Next]_vars => TypeInv'
  BY TypesKept
<1>3. TypeInv => TypeOK
  BY DEF TypeInv
<1> QED BY <1>1, <1>2, <1>3, PTL DEF Spec

-----------------------------------------------------------------------------
(* Ready and the namespace.                                                *)

\* The numbers of a version.
LEMMA RepoFields ==
    ASSUME NEW r \in Repo
    PROVE  /\ r.gen \in Nat /\ r.cond.gen \in Nat /\ r.age \in 0..2 /\ r.age \in Nat
           /\ r.cond \in Condition /\ r.spec \in Specs
<1>1. r.gen \in 1..(MaxFaults + 1) /\ r.age \in 0..2 /\ r.cond \in Condition /\ r.spec \in Specs
  BY DEF Repo, Ages, FreshFor
<1>2. r.cond.gen \in 0..(MaxFaults + 1)
  BY <1>1 DEF Condition
<1> QED BY <1>1, <1>2, RepoBounds

\* Version r may be an earlier version of s: generations only grow, each has one
\* spec, a verdict is about a generation that existed, and no later version has
\* an older probe time.
Past(r, s) ==
    /\ r.gen <= s.gen /\ s.age <= r.age
    /\ r.gen = s.gen => r.spec = s.spec
    /\ r.cond.gen <= r.gen

\* Whatever can still be read is a past version, and a Reconcile about to record
\* that a repo with a bootstrap is reachable has seen its namespace.
PastInv ==
    /\ repo \in Streams({r \in Repo : Past(r, Stored(repo))}, Lag)
    /\ rec.pc # "idle" => Past(rec.read, Stored(repo))
    /\ rec.pc = "record" /\ rec.reason = "Reachable" /\ rec.read.spec.bootstrap
          => server.namespace

\* A patch and an edit make a version that all past versions are past of.
LEMMA PastPatched ==
    ASSUME NEW s \in Repo, rec \in Rec, Past(s, s), Past(rec.read, s)
    PROVE  /\ Past(Patched(s), Patched(s))
           /\ \A r \in Repo : Past(r, s) => Past(r, Patched(s))
<1>1. rec.read \in Repo
  BY DEF Rec
<1>2. rec.read.gen \in Nat /\ s.gen \in Nat /\ s.age \in Nat /\ s.cond.gen \in Nat
  BY <1>1, RepoFields
<1>3. /\ Patched(s).spec = s.spec /\ Patched(s).gen = s.gen
      /\ Patched(s).cond = IF rec.read.cond # Verdict THEN Verdict ELSE s.cond
      /\ Patched(s).age = IF StampDue THEN 0 ELSE s.age
  BY PatchedRepo
<1>4. Patched(s).age <= s.age /\ Patched(s).age \in Nat
  BY <1>2, <1>3
<1>5. Patched(s).cond.gen <= s.gen
  <2>1. Verdict.gen = rec.read.gen
    BY DEF Verdict
  <2> QED BY <1>2, <1>3, <2>1 DEF Past
<1>6. Past(Patched(s), Patched(s))
  BY <1>3, <1>4, <1>5 DEF Past
<1>7. ASSUME NEW r \in Repo, Past(r, s)
      PROVE  Past(r, Patched(s))
  <2>1. r.age \in Nat
    BY RepoFields
  <2> QED BY <1>2, <1>3, <1>4, <1>7, <2>1 DEF Past
<1> QED BY <1>6, <1>7

LEMMA PastEdited ==
    ASSUME NEW s \in Repo, NEW spec \in Specs, s.gen + 1 <= MaxFaults + 1, Past(s, s)
    PROVE  /\ Past(Edited(s, spec), Edited(s, spec))
           /\ \A r \in Repo : Past(r, s) => Past(r, Edited(s, spec))
<1>1. s.gen \in Nat /\ s.age \in Nat /\ s.cond.gen \in Nat
  BY RepoFields
<1>2. /\ Edited(s, spec).spec = spec /\ Edited(s, spec).gen = s.gen + 1
      /\ Edited(s, spec).cond = s.cond /\ Edited(s, spec).age = s.age
  BY EditedRepo
<1>3. Past(Edited(s, spec), Edited(s, spec))
  BY <1>1, <1>2 DEF Past
<1>4. ASSUME NEW r \in Repo, Past(r, s)
      PROVE  Past(r, Edited(s, spec))
  <2>1. r.gen \in Nat /\ r.age \in Nat
    BY RepoFields
  <2> QED BY <1>1, <1>2, <1>4, <2>1 DEF Past
<1> QED BY <1>3, <1>4

LEMMA PastAged ==
    ASSUME NEW r \in Repo, NEW s \in Repo, Past(r, s)
    PROVE  Past(Aged(r), Aged(s))
<1>1. r.age \in 0..2 /\ s.age \in 0..2
  BY RepoFields
<1>2. /\ Aged(r).spec = r.spec /\ Aged(r).gen = r.gen /\ Aged(r).cond = r.cond
      /\ Aged(r).age = Older(r.age)
      /\ Aged(s).spec = s.spec /\ Aged(s).gen = s.gen /\ Aged(s).age = Older(s.age)
  BY AgedRepo
<1>3. Older(s.age) <= Older(r.age)
  BY <1>1 DEF Past, Older, FreshFor
<1> QED BY <1>2, <1>3 DEF Past

LEMMA PastKept ==
    ASSUME TypeInv, PastInv, [Next]_vars
    PROVE  PastInv'
<1> DEFINE st == Stored(repo)
           V == {r \in Repo : Past(r, st)}
<1>1. TypeOK /\ repo \in Streams(V, Lag) /\ Lag \in Nat \ {0} /\ rec \in Rec \cup {Idle}
  BY RepoBounds DEF TypeInv, TypeOK, PastInv
<1>2. st \in Repo /\ Past(st, st) /\ Cached(repo) \in Repo /\ Past(Cached(repo), st)
  <2>1. Stored(repo) \in V /\ Cached(repo) \in V
    BY <1>1, StreamElements
  <2> QED BY <2>1
<1>3. /\ rec.pc # "idle" => rec \in Rec
      /\ rec \in Rec => rec.pc # "idle" /\ rec.read \in Repo
      /\ Idle.pc = "idle"
  BY <1>1, InProgress DEF Rec, Idle
\* The stored version, or all of them, move on.
<1>4. CASE /\ repo' \in Streams(V, Lag) /\ Stored(repo') = st
           /\ rec'.pc # "idle" => Past(rec'.read, st)
           /\ rec'.pc = "record" /\ rec'.reason = "Reachable" /\ rec'.read.spec.bootstrap
                 => server'.namespace
  BY <1>4 DEF PastInv
<1>5. CASE Reads
  <2>1. CacheMove(repo, repo')
    BY <1>5 DEF Reads, CacheMove
  <2> QED BY <1>1, <1>2, <1>4, <1>5, <2>1, CacheMoveStream DEF Reads
<1>6. CASE Works
  <2>1. CacheMove(repo, repo')
    BY <1>6 DEF Works, CacheMove
  <2>2. Past(rec'.read, st)
    BY <1>3, <1>6 DEF Works, PastInv
  <2> QED BY <1>1, <1>4, <1>6, <2>1, <2>2, CacheMoveStream DEF Works
<1>7. CASE Quits
  <2>1. CacheMove(repo, repo')
    BY <1>7 DEF Quits, CacheMove
  <2>2. rec'.pc = "idle"
    BY <1>3, <1>7 DEF Quits
  <2> QED BY <1>1, <1>4, <2>1, <2>2, CacheMoveStream
<1>8. CASE Elsewhere
  <2>1. CacheMove(repo, repo')
    BY <1>8 DEF Elsewhere, CacheMove
  <2> QED BY <1>1, <1>4, <1>8, <2>1, CacheMoveStream DEF Elsewhere, PastInv
<1>9. CASE DeliverRepo
  <2>1. CacheMove(repo, repo') /\ rec' = rec /\ server' = server
    BY <1>9 DEF DeliverRepo, CacheMove
  <2> QED BY <1>1, <1>4, <2>1, CacheMoveStream DEF PastInv
<1>10. CASE rec \in Rec /\ Record
  <2>1. rec'.pc = "idle"
    BY <1>3, <1>10 DEF Record
  <2>2. CASE ~Dirty
    <3>1. CacheMove(repo, repo')
      BY <1>10, <2>2 DEF Record, CacheMove
    <3> QED BY <1>1, <1>4, <2>1, <3>1, CacheMoveStream
  <2>3. CASE Dirty
    <3> DEFINE v == Patched(st)
               W == {r \in Repo : Past(r, v)}
    <3>1. v \in Repo
      BY <1>2, <1>10, PatchedRepo
    <3>2. Past(rec.read, st)
      BY <1>3, <1>10 DEF PastInv
    <3>3. v \in W /\ V \subseteq W
      BY <1>2, <1>10, <3>1, <3>2, PastPatched
    <3>4. repo \in Streams(W, Lag)
      BY <1>1, <3>3, StreamsMonotone
    <3>5. Push(v)
      BY <1>10, <2>3 DEF Record
    <3> HIDE DEF v, W, V
    <3>6. repo' \in Streams(W, Lag) /\ Stored(repo') = v
      BY <3>3, <3>4, <3>5, Pushed
    <3> QED BY <2>1, <3>6 DEF PastInv, W
  <2> QED BY <2>2, <2>3
<1>11. ASSUME NEW spec \in Specs, EditSpec(spec)
       PROVE  PastInv'
  <2> DEFINE v == Edited(st, spec)
             W == {r \in Repo : Past(r, v)}
  <2>1. fuel > 0 /\ Push(v) /\ rec' = rec /\ server' = server
    BY <1>11 DEF EditSpec, Fault, Edited
  <2>2. st.gen + 1 <= MaxFaults + 1
    <3>1. fuel \in Nat /\ MaxFaults \in Nat /\ st.gen \in Nat
      BY <1>2, RepoBounds, RepoFields DEF TypeInv, TypeOK
    <3>2. st.gen + fuel <= MaxFaults + 1
      BY DEF TypeInv
    <3> QED BY <2>1, <3>1, <3>2
  <2>3. v \in Repo
    BY <1>2, <2>2, EditedRepo
  <2>4. v \in W /\ V \subseteq W
    BY <1>2, <2>2, <2>3, PastEdited
  <2>5. repo \in Streams(W, Lag)
    BY <1>1, <2>4, StreamsMonotone
  <2>6. rec.pc # "idle" => Past(rec.read, v)
    <3>1. rec.pc # "idle" => rec.read \in V
      BY <1>3 DEF PastInv
    <3> QED BY <2>4, <3>1
  <2> HIDE DEF v, W, V
  <2>7. repo' \in Streams(W, Lag) /\ Stored(repo') = v
    BY <2>1, <2>4, <2>5, Pushed
  <2> QED BY <2>1, <2>6, <2>7 DEF PastInv, W
<1>12. CASE Tick
  <2> DEFINE v == Aged(st)
             W == {r \in Repo : Past(r, v)}
  <2>1. \A r \in V : Aged(r) \in W
    BY <1>2, AgedRepo, PastAged
  <2>2. /\ repo' = [i \in DOMAIN repo |-> [repo[i] EXCEPT !.age = Older(@)]]
        /\ server' = server
    BY <1>12 DEF Tick
  <2> HIDE DEF V, W
  <2>3. repo' \in Streams(W, Lag) /\ Stored(repo') = v
    BY <1>1, <2>1, <2>2, MinuteLater
  <2>4. CASE rec.pc = "idle"
    <3>1. rec' = rec
      BY <1>12, <2>4 DEF Tick
    <3> QED BY <2>3, <2>4, <3>1 DEF PastInv, W
  <2>5. CASE rec.pc # "idle"
    <3>1. /\ rec \in Rec /\ rec'.read = Aged(rec.read)
          /\ rec'.pc = rec.pc /\ rec'.reason = rec.reason
      BY <1>3, <1>12, <2>5, ReadAged
    <3>2. rec.read \in V
      BY <1>3, <2>5 DEF PastInv, V
    <3>3. Past(rec'.read, v) /\ rec'.read.spec = rec.read.spec
      BY <1>3, <2>1, <3>1, <3>2, AgedRepo DEF W
    <3> HIDE DEF v
    <3> QED BY <2>2, <2>3, <3>1, <3>3 DEF PastInv, W
  <2> QED BY <2>4, <2>5
<1> QED BY <1>1, <1>5, <1>6, <1>7, <1>8, <1>9, <1>10, <1>11, <1>12, StepKinds

\* A repo whose Ready condition is about its current spec has the namespace that
\* this spec asks for.
VerdictIsTrue ==
    LET r == Stored(repo)
    IN r.cond.reason = "Reachable" /\ r.cond.gen = r.gen /\ r.spec.bootstrap
          => server.namespace

\* Only the Record of a Reconcile and edits change what the API server stores,
\* apart from the age; an edit leaves a verdict about an older generation.
LEMMA VerdictKept ==
    ASSUME TypeInv, PastInv, VerdictIsTrue, [Next]_vars
    PROVE  VerdictIsTrue'
<1> DEFINE st == Stored(repo)
<1>1. TypeOK /\ repo \in Streams(Repo, Lag) /\ Lag \in Nat \ {0} /\ rec \in Rec \cup {Idle}
  BY RepoBounds DEF TypeInv, TypeOK
<1>2. st \in Repo /\ Past(st, st) /\ st.gen \in Nat /\ st.cond.gen \in Nat
  <2>1. st \in {r \in Repo : Past(r, Stored(repo))}
    BY <1>1, StreamElements DEF PastInv
  <2> QED BY <2>1, RepoFields
<1>3. st.cond.reason = "Reachable" /\ st.cond.gen = st.gen /\ st.spec.bootstrap
         => server.namespace
  BY DEF VerdictIsTrue
<1>4. CASE /\ Stored(repo').cond = st.cond /\ Stored(repo').gen = st.gen
           /\ Stored(repo').spec = st.spec
           /\ server.namespace => server'.namespace
  BY <1>3, <1>4 DEF VerdictIsTrue
<1>5. CASE Reads \/ Works \/ Quits \/ Elsewhere \/ DeliverRepo
  <2>1. CacheMove(repo, repo')
    BY <1>5 DEF Reads, Works, Quits, Elsewhere, DeliverRepo, CacheMove
  <2>2. Stored(repo') = st
    BY <1>1, <2>1, CacheMoveStream
  <2>3. server.namespace => server'.namespace
    BY <1>5 DEF Reads, Works, Quits, Elsewhere, DeliverRepo
  <2> QED BY <1>4, <2>2, <2>3
<1>6. CASE rec \in Rec /\ Record
  <2>1. server' = server
    BY <1>6 DEF Record
  <2>2. CASE ~Dirty
    BY <1>4, <1>6, <2>1, <2>2 DEF Record
  <2>3. CASE Dirty
    <3>1. Push(Patched(st))
      BY <1>6, <2>3 DEF Record
    <3>2. /\ Patched(st) \in Repo
          /\ Patched(st).spec = st.spec /\ Patched(st).gen = st.gen
          /\ Patched(st).cond = IF rec.read.cond # Verdict THEN Verdict ELSE st.cond
      BY <1>2, <1>6, PatchedRepo
    <3>3. Stored(repo') = Patched(st)
      BY <1>1, <3>1, <3>2, Pushed
    <3>4. CASE Patched(st).cond = st.cond
      BY <1>4, <2>1, <3>2, <3>3, <3>4
    <3>5. CASE Patched(st).cond = Verdict
      <4>1. Verdict.reason = rec.reason /\ Verdict.gen = rec.read.gen
        BY DEF Verdict
      <4>2. rec.pc = "record" /\ rec.read \in Repo
        BY <1>6 DEF Record, Rec
      <4>3. rec.read.gen = st.gen => rec.read.spec = st.spec
        BY <4>2 DEF PastInv, Past
      <4>4. rec.reason = "Reachable" /\ rec.read.spec.bootstrap => server.namespace
        BY <4>2 DEF PastInv
      <4> QED BY <2>1, <3>2, <3>3, <3>5, <4>1, <4>3, <4>4 DEF VerdictIsTrue
    <3> QED BY <3>2, <3>4, <3>5
  <2> QED BY <2>2, <2>3
<1>7. ASSUME NEW spec \in Specs, EditSpec(spec)
      PROVE  VerdictIsTrue'
  <2>1. fuel > 0 /\ Push(Edited(st, spec))
    BY <1>7 DEF EditSpec, Fault, Edited
  <2>2. st.gen + 1 <= MaxFaults + 1
    <3>1. fuel \in Nat /\ MaxFaults \in Nat
      BY RepoBounds DEF TypeInv, TypeOK
    <3>2. st.gen + fuel <= MaxFaults + 1
      BY DEF TypeInv
    <3> QED BY <1>2, <2>1, <3>1, <3>2
  <2>3. /\ Edited(st, spec) \in Repo
        /\ Edited(st, spec).gen = st.gen + 1 /\ Edited(st, spec).cond = st.cond
    BY <1>2, <2>2, EditedRepo
  <2>4. Stored(repo') = Edited(st, spec)
    BY <1>1, <2>1, <2>3, Pushed
  <2>5. Stored(repo').cond.gen # Stored(repo').gen
    BY <1>2, <2>3, <2>4 DEF Past
  <2> QED BY <2>5 DEF VerdictIsTrue
<1>8. CASE Tick
  <2>1. \A r \in Repo : Aged(r) \in Repo
    BY AgedRepo
  <2>2. Stored(repo') = Aged(st) /\ server' = server
    BY <1>1, <1>8, <2>1, MinuteLater DEF Tick
  <2> QED BY <1>2, <1>4, <2>2, AgedRepo
<1> QED BY <1>1, <1>5, <1>6, <1>7, <1>8, StepKinds

\* As long as nothing has queued the PBSRepo again, a Reconcile works on what the
\* cache shows; so when the controller comes to rest, the verdict is about the
\* current generation.
SeenInv ==
    /\ rec.pc # "idle" /\ ~queued
          => rec.read.cond = Cached(repo).cond /\ rec.read.gen = Cached(repo).gen
    /\ Quiet => Stored(repo).cond.gen = Stored(repo).gen

LEMMA SeenKept ==
    ASSUME TypeInv, SeenInv, [Next]_vars
    PROVE  SeenInv'
<1>1. TypeOK /\ repo \in Streams(Repo, Lag) /\ Lag \in Nat \ {0} /\ rec \in Rec \cup {Idle}
  BY RepoBounds DEF TypeInv, TypeOK
<1>2. Stored(repo) \in Repo /\ Cached(repo) \in Repo
  BY <1>1, StreamElements
<1>3. /\ rec.pc # "idle" => rec \in Rec
      /\ \A r \in Rec : r.pc # "idle" /\ r.read \in Repo
      /\ Idle.pc = "idle"
  BY <1>1, InProgress DEF Rec, Idle
<1>4. CASE Reads
  BY <1>3, <1>4 DEF Reads, SeenInv, Quiet
<1>5. CASE Works
  BY <1>3, <1>5 DEF Works, SeenInv, Quiet
<1>6. CASE Quits \/ DeliverRepo
  BY <1>6 DEF Quits, DeliverRepo, SeenInv, Quiet
<1>7. CASE Elsewhere
  BY <1>7 DEF Elsewhere, SeenInv, Quiet
<1>8. CASE rec \in Rec /\ Record
  <2>1. rec'.pc = "idle"
    BY <1>3, <1>8 DEF Record
  <2>2. CASE Dirty
    <3>1. Push(Patched(Stored(repo))) /\ queued' = (queued \/ Pushes)
      BY <1>8, <2>2 DEF Record
    <3>2. Patched(Stored(repo)) \in Repo
      BY <1>2, <1>8, PatchedRepo
    <3>3. ~Pushes => Stale(repo')
      BY <1>1, <3>1, <3>2, Pushed
    <3> QED BY <2>1, <3>1, <3>3 DEF SeenInv, Quiet
  <2>3. CASE ~Dirty
    <3>1. repo' = repo /\ queued' = queued
      BY <1>8, <2>3 DEF Record
    <3>2. rec.read.cond = Verdict /\ Verdict.gen = rec.read.gen
      BY <2>3 DEF Dirty, Verdict
    <3>3. ASSUME ~queued, ~Stale(repo)
          PROVE  Stored(repo).cond.gen = Stored(repo).gen
      <4>1. rec.read.cond = Cached(repo).cond /\ rec.read.gen = Cached(repo).gen
        BY <1>3, <1>8, <3>3 DEF SeenInv
      <4>2. Stored(repo) = Cached(repo)
        BY <1>1, <3>3, CaughtUp
      <4> QED BY <3>2, <4>1, <4>2
    <3> QED BY <2>1, <3>1, <3>3 DEF SeenInv, Quiet
  <2> QED BY <2>2, <2>3
<1>9. ASSUME NEW spec \in Specs, EditSpec(spec)
      PROVE  SeenInv'
  <2>1. /\ fuel > 0 /\ Push(Edited(Stored(repo), spec)) /\ rec' = rec
        /\ queued' = (queued \/ Pushes)
    BY <1>9 DEF EditSpec, Fault, Edited
  <2>2. Edited(Stored(repo), spec) \in Repo
    <3>1. fuel \in Nat /\ MaxFaults \in Nat /\ Stored(repo).gen \in Nat
      BY <1>2, RepoBounds, RepoFields DEF TypeInv, TypeOK
    <3>2. Stored(repo).gen + fuel <= MaxFaults + 1
      BY DEF TypeInv
    <3>3. Stored(repo).gen + 1 <= MaxFaults + 1
      BY <2>1, <3>1, <3>2
    <3> QED BY <1>2, <3>3, EditedRepo
  <2>3. ~Pushes => Cached(repo') = Cached(repo) /\ Stale(repo')
    BY <1>1, <2>1, <2>2, Pushed
  <2> QED BY <2>1, <2>3 DEF SeenInv, Quiet
<1>10. CASE Tick
  <2>1. \A r \in Repo : Aged(r) \in Repo
    BY AgedRepo
  <2>2. /\ Stored(repo') = Aged(Stored(repo)) /\ Cached(repo') = Aged(Cached(repo))
        /\ Stale(repo') = Stale(repo)
    BY <1>1, <1>10, <2>1, MinuteLater DEF Tick
  <2>3. queued => queued'
    BY <1>10 DEF Tick
  <2>4. /\ Stored(repo').cond = Stored(repo).cond /\ Stored(repo').gen = Stored(repo).gen
        /\ Cached(repo').cond = Cached(repo).cond /\ Cached(repo').gen = Cached(repo).gen
    BY <1>2, <2>2, AgedRepo
  <2>5. CASE rec.pc = "idle"
    <3>1. rec' = rec
      BY <1>10, <2>5 DEF Tick
    <3> QED BY <2>2, <2>3, <2>4, <2>5, <3>1 DEF SeenInv, Quiet
  <2>6. CASE rec.pc # "idle"
    <3>1. rec'.read = Aged(rec.read) /\ rec'.pc = rec.pc
      BY <1>3, <1>10, <2>6, ReadAged
    <3>2. rec'.read.cond = rec.read.cond /\ rec'.read.gen = rec.read.gen
      BY <1>3, <2>6, <3>1, AgedRepo
    <3> QED BY <2>3, <2>4, <2>6, <3>1, <3>2 DEF SeenInv, Quiet
  <2> QED BY <2>5, <2>6
<1> QED BY <1>1, <1>4, <1>5, <1>6, <1>7, <1>8, <1>9, <1>10, StepKinds

LEMMA FirstVersion ==
    ASSUME NEW r \in Repo, NEW spec,
           r = [spec |-> spec, gen |-> 1, cond |-> NoCondition, age |-> FreshFor + 1]
    PROVE  Past(r, r) /\ r.cond.reason = ""
<1>1. r.gen \in Nat /\ r.age \in Nat
  BY RepoFields
<1>2. r.gen = 1 /\ r.cond = NoCondition
  OBVIOUS
<1>3. NoCondition.gen = 0 /\ NoCondition.reason = ""
  BY DEF NoCondition
<1>4. r.cond.gen = 0
  BY <1>2, <1>3, Zenon
<1>5. r.cond.reason = ""
  BY <1>2, <1>3, Zenon
<1>6. r.cond.gen <= r.gen
  <2>1. \A c : c = 0 => c <= 1
    OBVIOUS
  <2> QED BY <1>2, <1>4, <2>1, Zenon
<1>7. \A n \in Nat : n <= n
  OBVIOUS
<1> QED BY <1>1, <1>5, <1>6, <1>7, Zenon DEF Past

LEMMA PastAtStart ==
    ASSUME Init
    PROVE  PastInv /\ VerdictIsTrue /\ SeenInv
<1>1. PICK spec \in Specs :
         repo = Listed([spec |-> spec, gen |-> 1, cond |-> NoCondition, age |-> FreshFor + 1])
  BY DEF Init
<1>2. TypeInv
  BY TypesAtStart
<1>3. Lag \in Nat \ {0} /\ rec.pc = "idle" /\ queued
  BY RepoBounds DEF Init, Idle
<1>4. Stored(repo) \in Repo /\ repo = Listed(Stored(repo))
  BY <1>1, <1>2, <1>3, StreamElements, ListedStream DEF TypeInv, TypeOK
<1>5. Stored(repo) = [spec |-> spec, gen |-> 1, cond |-> NoCondition, age |-> FreshFor + 1]
  BY <1>1, <1>3, ListedStream
<1>6. Past(Stored(repo), Stored(repo)) /\ Stored(repo).cond.reason = ""
  BY <1>4, <1>5, FirstVersion
<1>7. repo \in Streams({r \in Repo : Past(r, Stored(repo))}, Lag)
  <2> DEFINE V == {r \in Repo : Past(r, Stored(repo))}
  <2>1. Stored(repo) \in V
    BY <1>4, <1>6
  <2> HIDE DEF V
  <2>2. Listed(Stored(repo)) \in Streams(V, Lag)
    BY <1>3, <2>1, ListedStream
  <2>3. repo \in Streams(V, Lag)
    BY <1>4, <2>2
  <2> QED BY <2>3 DEF V
<1> QED BY <1>3, <1>6, <1>7 DEF PastInv, VerdictIsTrue, SeenInv, Quiet

\* succeed is the only writer of Reachable, and it runs after ensureNamespace: a
\* PBSRepo that is Ready, for whichever generation, has the namespace its spec asks
\* for, or the verdict is about an older spec and the Reconcile that replaces it is
\* under way.  So for every lag of the cache, although a verdict may be patched onto
\* a version that Reconcile has not read.
THEOREM ReadyMeansBootstrapped == Spec => []ReadyIsBootstrapped
<1> DEFINE IInv == TypeInv /\ PastInv /\ VerdictIsTrue /\ SeenInv
<1>1. Init => IInv
  BY TypesAtStart, PastAtStart
<1>2. IInv /\ [Next]_vars => IInv'
  BY TypesKept, PastKept, VerdictKept, SeenKept
<1>3. IInv => ReadyIsBootstrapped
  <2> SUFFICES ASSUME IInv
               PROVE  ReadyIsBootstrapped
    OBVIOUS
  <2>1. /\ Stored(repo) \in Repo /\ Stored(repo).cond.gen <= Stored(repo).gen
        /\ Stored(repo).gen \in Nat /\ Stored(repo).cond.gen \in Nat
    <3>1. Stored(repo) \in {r \in Repo : Past(r, Stored(repo))}
      BY StreamElements, RepoBounds DEF PastInv
    <3> QED BY <3>1, RepoFields DEF Past
  <2>2. CASE Stored(repo).cond.gen = Stored(repo).gen
    BY <2>2 DEF VerdictIsTrue, ReadyIsBootstrapped
  <2>3. CASE Stored(repo).cond.gen < Stored(repo).gen
    BY <2>1, <2>3 DEF SeenInv, ReadyIsBootstrapped
  <2> QED BY <2>1, <2>2, <2>3
<1> QED BY <1>1, <1>2, <1>3, PTL DEF Spec

-----------------------------------------------------------------------------
(* The probe time.                                                         *)

\* A version whose Ready condition a new probe would confirm as it is, and whose
\* probe time it would renew.
Ripe(r) == r.age > FreshFor /\ r.cond.reason = "Reachable" /\ r.cond.gen = r.gen

\* The cache never moves on to such a version; what is stored still has the
\* condition of such a version as long as a Reconcile reads it or can come to read
\* it; and such a version is not read by two Reconciles without an error between
\* them, since the timer stands still until the first one's patch is delivered.
StampInv ==
    /\ \A r \in Newer(repo) : ~Ripe(r)
    /\ Ripe(Cached(repo)) /\ (queued \/ rec.pc # "idle")
          => Stored(repo).cond = Cached(repo).cond
    /\ Ripe(Cached(repo)) /\ rec.pc # "idle" => ~queued
    /\ rec.pc # "idle" /\ Ripe(rec.read) => Stored(repo).cond = rec.read.cond

\* Neither a patch nor an edit makes such a version.
LEMMA PatchedNotRipe ==
    ASSUME NEW s \in Repo, rec \in Rec, Dirty, Past(rec.read, s)
    PROVE  ~Ripe(Patched(s))
<1>1. rec.read \in Repo
  BY DEF Rec
<1>2. rec.read.age \in 0..2 /\ s.age \in 0..2
  BY <1>1, RepoFields
<1>3. /\ Patched(s).cond = IF rec.read.cond # Verdict THEN Verdict ELSE s.cond
      /\ Patched(s).age = IF StampDue THEN 0 ELSE s.age
  BY PatchedRepo
<1>4. CASE StampDue
  <2>1. ~(Patched(s).age > 1)
    BY <1>3, <1>4
  <2> QED BY <2>1 DEF Ripe, FreshFor
<1>5. CASE ~StampDue
  <2>1. rec.read.cond # Verdict
    BY <1>5 DEF Dirty
  <2>2. Patched(s).cond = Verdict /\ Verdict.reason = rec.reason
    BY <1>3, <2>1 DEF Verdict
  <2>3. CASE rec.reason # "Reachable"
    BY <2>2, <2>3 DEF Ripe
  <2>4. CASE rec.reason = "Reachable"
    <3>1. ~(rec.read.age > 1)
      BY <1>5, <2>4 DEF StampDue, FreshFor
    <3>2. s.age <= rec.read.age
      BY DEF Past
    <3>3. ~(Patched(s).age > 1)
      BY <1>2, <1>3, <1>5, <3>1, <3>2
    <3> QED BY <3>3 DEF Ripe, FreshFor
  <2> QED BY <2>3, <2>4
<1> QED BY <1>4, <1>5

LEMMA EditedNotRipe ==
    ASSUME NEW s \in Repo, NEW spec \in Specs, s.gen + 1 <= MaxFaults + 1, Past(s, s)
    PROVE  ~Ripe(Edited(s, spec))
<1>1. s.gen \in Nat /\ s.cond.gen \in Nat
  BY RepoFields
<1>2. Edited(s, spec).gen = s.gen + 1 /\ Edited(s, spec).cond = s.cond
  BY EditedRepo
<1>3. s.cond.gen <= s.gen
  BY DEF Past
<1>4. Edited(s, spec).cond.gen # Edited(s, spec).gen
  BY <1>1, <1>2, <1>3
<1> QED BY <1>4 DEF Ripe

LEMMA StampKept ==
    ASSUME TypeInv, PastInv, StampInv, [Next]_vars
    PROVE  StampInv'
<1> DEFINE st == Stored(repo)
<1>1. TypeOK /\ repo \in Streams(Repo, Lag) /\ Lag \in Nat \ {0} /\ rec \in Rec \cup {Idle}
  BY RepoBounds DEF TypeInv, TypeOK
<1>2. st \in Repo /\ Past(st, st)
  <2>1. st \in {r \in Repo : Past(r, Stored(repo))}
    BY <1>1, StreamElements DEF PastInv
  <2> QED BY <2>1
<1>3. /\ rec.pc # "idle" => rec \in Rec
      /\ rec \in Rec => rec.pc # "idle" /\ rec.read \in Repo
      /\ Idle.pc = "idle"
  BY <1>1, InProgress DEF Rec, Idle
<1>4. Cached(repo) \in Repo /\ Newer(repo) \subseteq Repo
  BY <1>1, Versions
<1>5. \A r \in Rec : r.pc # "idle"
  BY DEF Rec
<1>6. CASE Reads
  <2>1. repo' = repo /\ rec'.pc # "idle" /\ rec'.read = Cached(repo) /\ ~queued' /\ queued
    BY <1>5, <1>6 DEF Reads
  <2> QED BY <2>1 DEF StampInv
<1>7. CASE Works
  <2>1. /\ repo' = repo /\ rec'.pc # "idle" /\ rec.pc # "idle"
        /\ rec'.read = rec.read /\ queued' = queued
    BY <1>5, <1>7 DEF Works
  <2> QED BY <2>1 DEF StampInv
<1>8. CASE Quits
  <2>1. rec'.pc = "idle"
    BY <1>3, <1>8 DEF Quits
  <2>2. CASE rec.pc # "idle" /\ repo' = repo
    BY <2>1, <2>2 DEF StampInv
  <2>3. CASE repo' = Listed(Stored(repo))
    <3>1. repo' \in Streams(Repo, Lag) /\ Len(repo') = 1
      BY <1>1, <1>2, <2>3, ListedStream DEF Listed
    <3>2. ~Stale(repo')
      BY <3>1 DEF Stale
    <3>3. Newer(repo') = {} /\ Stored(repo') = Cached(repo')
      BY <3>1, <3>2, CaughtUp
    <3> QED BY <2>1, <3>3 DEF StampInv
  <2> QED BY <1>8, <2>2, <2>3 DEF Quits
<1>9. CASE Elsewhere
  BY <1>9 DEF Elsewhere, StampInv
<1>10. CASE DeliverRepo
  <2>1. Cached(repo') \in Newer(repo) /\ Newer(repo') \subseteq Newer(repo)
    BY <1>1, <1>10, Delivered DEF DeliverRepo
  <2>2. Stored(repo') = st /\ rec' = rec
    BY <1>1, <1>10, DeliverStream DEF DeliverRepo
  <2> QED BY <2>1, <2>2 DEF StampInv
<1>11. CASE rec \in Rec /\ Record
  <2>1. rec'.pc = "idle" /\ rec.pc # "idle"
    BY <1>3, <1>11 DEF Record
  <2>2. CASE ~Dirty
    <3>1. repo' = repo /\ queued' = queued
      BY <1>11, <2>2 DEF Record
    <3> QED BY <2>1, <3>1 DEF StampInv
  <2>3. CASE Dirty
    <3> DEFINE v == Patched(st)
    <3>1. Push(v) /\ queued' = (queued \/ Pushes)
      BY <1>11, <2>3 DEF Record
    <3>2. v \in Repo
      BY <1>2, <1>11, PatchedRepo
    <3>3. ~Ripe(v)
      BY <1>2, <1>11, <2>1, <2>3, PatchedNotRipe DEF PastInv
    <3> HIDE DEF v
    <3>4. /\ Newer(repo') \subseteq Newer(repo) \cup {v}
          /\ Pushes => Cached(repo') \in Newer(repo) \cup {v}
          /\ ~Pushes => Cached(repo') = Cached(repo)
      BY <1>1, <3>1, <3>2, Pushed
    <3>5. \A r \in Newer(repo') : ~Ripe(r)
      BY <3>3, <3>4 DEF StampInv
    <3>6. ~(Ripe(Cached(repo')) /\ queued')
      <4>1. CASE Pushes
        BY <3>3, <3>4, <4>1 DEF StampInv
      <4>2. CASE ~Pushes
        BY <2>1, <3>1, <3>4, <4>2 DEF StampInv
      <4> QED BY <4>1, <4>2
    <3> QED BY <2>1, <3>5, <3>6 DEF StampInv
  <2> QED BY <2>2, <2>3
<1>12. ASSUME NEW spec \in Specs, EditSpec(spec)
       PROVE  StampInv'
  <2> DEFINE v == Edited(st, spec)
  <2>1. /\ fuel > 0 /\ Push(v) /\ rec' = rec
        /\ queued' = (queued \/ Pushes)
    BY <1>12 DEF EditSpec, Fault, Edited
  <2>2. st.gen + 1 <= MaxFaults + 1
    <3>1. fuel \in Nat /\ MaxFaults \in Nat /\ st.gen \in Nat
      BY <1>2, RepoBounds, RepoFields DEF TypeInv, TypeOK
    <3>2. st.gen + fuel <= MaxFaults + 1
      BY DEF TypeInv
    <3> QED BY <2>1, <3>1, <3>2
  <2>3. v \in Repo /\ v.cond = st.cond
    BY <1>2, <2>2, EditedRepo
  <2>4. ~Ripe(v)
    BY <1>2, <2>2, EditedNotRipe
  <2> HIDE DEF v
  <2>5. /\ Newer(repo') \subseteq Newer(repo) \cup {v} /\ Stored(repo') = v
        /\ Pushes => Cached(repo') \in Newer(repo) \cup {v}
        /\ ~Pushes => Cached(repo') = Cached(repo)
    BY <1>1, <2>1, <2>3, Pushed
  <2>6. \A r \in Newer(repo') : ~Ripe(r)
    BY <2>4, <2>5 DEF StampInv
  <2>7. rec'.pc # "idle" /\ Ripe(rec'.read) => Stored(repo').cond = rec'.read.cond
    BY <2>1, <2>3, <2>5 DEF StampInv
  <2>8. CASE Pushes
    <3>1. ~Ripe(Cached(repo'))
      BY <2>4, <2>5, <2>8 DEF StampInv
    <3> QED BY <2>6, <2>7, <3>1 DEF StampInv
  <2>9. CASE ~Pushes
    BY <2>1, <2>3, <2>5, <2>6, <2>7, <2>9 DEF StampInv
  <2> QED BY <2>8, <2>9
<1>13. CASE Tick
  <2>1. \A r \in Repo : Aged(r) \in Repo
    BY AgedRepo
  <2>2. /\ repo' \in Streams(Repo, Lag)
        /\ Stored(repo') = Aged(Stored(repo)) /\ Cached(repo') = Aged(Cached(repo))
        /\ \A r \in Newer(repo') : \E o \in Newer(repo) : r = Aged(o)
    BY <1>1, <1>13, <2>1, MinuteLater DEF Tick
  <2>3. CASE Quiet
    <3>1. rec.pc = "idle" /\ rec' = rec /\ ~Stale(repo)
      BY <1>13, <2>3 DEF Tick, Quiet
    <3>2. Newer(repo) = {} /\ Stored(repo) = Cached(repo)
      BY <1>1, <3>1, CaughtUp
    <3> QED BY <2>2, <3>1, <3>2 DEF StampInv
  <2>4. CASE JustStamped
    <3>1. ASSUME NEW o \in Repo, o.age = 0
          PROVE  ~Ripe(Aged(o))
      <4>1. Older(0) = 1
        BY DEF Older, FreshFor
      <4>2. Aged(o).age = 1
        BY <3>1, <4>1, AgedRepo
      <4>3. ~(Aged(o).age > 1)
        BY <4>2
      <4> QED BY <4>3 DEF Ripe, FreshFor
    <3>2. Cached(repo).age = 0 /\ \A o \in Newer(repo) : o.age = 0
      <4>1. /\ DOMAIN repo = 1..Len(repo) /\ 1 \in 1..Len(repo)
            /\ 2..Len(repo) \subseteq 1..Len(repo)
        BY <1>1 DEF Streams
      <4> QED BY <2>4, <4>1 DEF JustStamped, Cached, Newer
    <3>3. ~Ripe(Cached(repo')) /\ \A r \in Newer(repo') : ~Ripe(r)
      BY <1>4, <2>2, <3>1, <3>2
    <3>4. rec'.pc # "idle" => ~Ripe(rec'.read)
      <4>1. CASE rec.pc = "idle"
        BY <1>13, <4>1 DEF Tick
      <4>2. CASE rec.pc # "idle"
        <5>1. rec \in Rec /\ rec'.read = Aged(rec.read)
          BY <1>3, <1>13, <4>2, ReadAged
        <5>2. rec.read \in Repo /\ rec.read.age = 0
          BY <1>3, <2>4, <4>2 DEF JustStamped
        <5> QED BY <3>1, <5>1, <5>2
      <4> QED BY <4>1, <4>2
    <3> QED BY <3>3, <3>4 DEF StampInv
  <2> QED BY <1>13, <2>3, <2>4 DEF Tick
<1> QED BY <1>1, <1>6, <1>7, <1>8, <1>9, <1>10, <1>11, <1>12, <1>13, StepKinds

LEMMA StampAtStart ==
    ASSUME Init
    PROVE  StampInv
<1>1. PICK spec \in Specs :
         repo = Listed([spec |-> spec, gen |-> 1, cond |-> NoCondition, age |-> FreshFor + 1])
  BY DEF Init
<1>2. repo \in Streams(Repo, Lag) /\ rec.pc = "idle"
  BY TypesAtStart DEF TypeInv, TypeOK, Init, Idle
<1>3. Len(repo) = 1
  BY <1>1 DEF Listed
<1>4. ~Stale(repo)
  BY <1>3 DEF Stale
<1>5. Newer(repo) = {} /\ Stored(repo) = Cached(repo)
  BY <1>2, <1>4, CaughtUp
<1> QED BY <1>2, <1>5 DEF StampInv

\* A patch that renews the probe time either writes the Reachable condition with it
\* or finds it stored.
LEMMA ProbeStep ==
    ASSUME TypeInv, PastInv, StampInv, [Next]_vars
    PROVE  ProbeTimeHonest
<1> DEFINE st == Stored(repo)
<1>1. TypeOK /\ repo \in Streams(Repo, Lag) /\ Lag \in Nat \ {0} /\ rec \in Rec \cup {Idle}
  BY RepoBounds DEF TypeInv, TypeOK
<1>2. st \in Repo /\ Past(st, st)
  <2>1. st \in {r \in Repo : Past(r, Stored(repo))}
    BY <1>1, StreamElements DEF PastInv
  <2> QED BY <2>1
<1>3. CASE Reads \/ Works \/ Quits \/ Elsewhere \/ DeliverRepo
  <2>1. CacheMove(repo, repo')
    BY <1>3 DEF Reads, Works, Quits, Elsewhere, DeliverRepo, CacheMove
  <2>2. Stored(repo') = st
    BY <1>1, <2>1, CacheMoveStream
  <2> QED BY <2>2 DEF ProbeTimeHonest
<1>4. CASE rec \in Rec /\ Record
  <2>1. CASE ~Dirty
    BY <1>4, <2>1 DEF Record, ProbeTimeHonest
  <2>2. CASE Dirty
    <3>1. Push(Patched(st))
      BY <1>4, <2>2 DEF Record
    <3>2. /\ Patched(st) \in Repo
          /\ Patched(st).cond = IF rec.read.cond # Verdict THEN Verdict ELSE st.cond
          /\ Patched(st).age = IF StampDue THEN 0 ELSE st.age
      BY <1>2, <1>4, PatchedRepo
    <3>3. Stored(repo') = Patched(st)
      BY <1>1, <3>1, <3>2, Pushed
    <3>4. CASE ~StampDue
      BY <3>2, <3>3, <3>4 DEF ProbeTimeHonest
    <3>5. CASE StampDue
      <4>1. Verdict.reason = "Reachable" /\ Verdict.gen = rec.read.gen
        BY <3>5 DEF Verdict, StampDue
      <4>2. rec.pc # "idle"
        BY <1>4 DEF Record
      <4>3. CASE rec.read.cond = Verdict
        <5>1. Ripe(rec.read)
          BY <3>5, <4>1, <4>3 DEF Ripe, StampDue
        <5>2. st.cond = Verdict
          BY <4>2, <4>3, <5>1 DEF StampInv
        <5> QED BY <3>2, <3>3, <3>5, <4>1, <4>3, <5>2 DEF ProbeTimeHonest
      <4>4. CASE rec.read.cond # Verdict
        BY <3>2, <3>3, <3>5, <4>1, <4>4 DEF ProbeTimeHonest
      <4> QED BY <4>3, <4>4
    <3> QED BY <3>4, <3>5
  <2> QED BY <2>1, <2>2
<1>5. ASSUME NEW spec \in Specs, EditSpec(spec)
      PROVE  ProbeTimeHonest
  <2>1. fuel > 0 /\ Push(Edited(st, spec))
    BY <1>5 DEF EditSpec, Fault, Edited
  <2>2. st.gen + 1 <= MaxFaults + 1
    <3>1. fuel \in Nat /\ MaxFaults \in Nat /\ st.gen \in Nat
      BY <1>2, RepoBounds, RepoFields DEF TypeInv, TypeOK
    <3>2. st.gen + fuel <= MaxFaults + 1
      BY DEF TypeInv
    <3> QED BY <2>1, <3>1, <3>2
  <2>3. Edited(st, spec) \in Repo /\ Edited(st, spec).age = st.age
    BY <1>2, <2>2, EditedRepo
  <2>4. Stored(repo') = Edited(st, spec)
    BY <1>1, <2>1, <2>3, Pushed
  <2> QED BY <2>3, <2>4 DEF ProbeTimeHonest
<1>6. CASE Tick
  <2>1. \A r \in Repo : Aged(r) \in Repo
    BY AgedRepo
  <2>2. Stored(repo') = Aged(st)
    BY <1>1, <1>6, <2>1, MinuteLater DEF Tick
  <2>3. Aged(st).age = Older(st.age)
    BY <1>2, AgedRepo
  <2> QED BY <2>2, <2>3 DEF ProbeTimeHonest
<1> QED BY <1>1, <1>3, <1>4, <1>5, <1>6, StepKinds

\* lastProbeTime is the time of a probe that succeeded: succeed renews it beside a
\* Reachable condition only, and no patch moves it back, although the merge patch
\* leaves out a condition that is equal to the one that was read, which for a stale
\* read could be another one than the stored condition.
THEOREM ProbeTimeIsHonest == Spec => ProbeTimeForward
<1> DEFINE IInv == TypeInv /\ PastInv /\ StampInv
<1>1. Init => IInv
  BY TypesAtStart, PastAtStart, StampAtStart
<1>2. IInv /\ [Next]_vars => IInv'
  BY TypesKept, PastKept, StampKept
<1>3. IInv /\ [Next]_vars => [ProbeTimeHonest]_vars
  BY ProbeStep
<1> QED BY <1>1, <1>2, <1>3, PTL DEF Spec, ProbeTimeForward
=============================================================================
