--------------------------- MODULE DataPathProofs ---------------------------
(***************************************************************************)
(* Proofs about the data path, for every set of backups, claims, objects   *)
(* and namespaces and every number of edits, writes, prunes and failures:  *)
(* its types; a backup reports its own snapshot and a restore fills the    *)
(* volumes from it; api.yaml is what the backup saw, and the target what   *)
(* api.yaml says; the claims of api.yaml have their archives; and pods     *)
(* find their volumes.                                                     *)
(***************************************************************************)
EXTENDS DataPath, FiniteSetTheorems, SequenceTheorems, TLAPS

\* No two backups upload under one host name (BuildBackupJob makes it of the names
\* of backup and node): backups of one name in two namespaces are not among them.
\* Without this ReportsOwn is violated.
DistinctGroups == \A b, c \in Backups : GroupOf[b] = GroupOf[c] => b = c

-----------------------------------------------------------------------------
(* Shapes.  What api.yaml and the selection hold does not matter here, so  *)
(* their types are left open.                                              *)

Stages == {"select", "serialize", "launch"}
JobStates == {"none", "pending", "running", "uploaded", "listed", "ok", "failed"}
RestoreStages == {"new", "fetch", "pre", "volumes", "done", "failed"}

BackupIn(Y) ==
    [pc : Stages, pvcs : Y, staged : Y, mounted : Y, job : JobStates, archives : Y, ref : Nat]
RestoreIn(Y) == [pc : RestoreStages, of : Y, ref : Nat, api : Y, filled : SUBSET Claims]

BackupShape == \E Y : backups \in [Backups -> BackupIn(Y)]
SnapshotShape == \E Y : taken \in Seq(Y)
RestoreShape == \E Y : restore \in RestoreIn(Y)
VolumeShape == \E Y : volumes \in [Claims -> Y]

\* What the updates of a backup's record do to its type, its Job and its reference.
LEMMA JobMoves ==
    ASSUME NEW Y, NEW q \in BackupIn(Y), NEW j \in JobStates
    PROVE  /\ [q EXCEPT !.job = j] \in BackupIn(Y)
           /\ [q EXCEPT !.job = j].job = j
           /\ [q EXCEPT !.job = j].ref = q.ref
<1>1. [q EXCEPT !.job = j] \in BackupIn(Y)
  BY DEF BackupIn, Stages, JobStates
<1>2. [q EXCEPT !.job = j].job = j /\ [q EXCEPT !.job = j].ref = q.ref
  BY DEF BackupIn, Stages, JobStates
<1> QED BY <1>1, <1>2

LEMMA JobStarts ==
    ASSUME NEW Y, NEW q \in BackupIn(Y)
    PROVE  /\ [[q EXCEPT !.job = "pending", !.archives = q.pvcs] EXCEPT !.pc = "serialize"]
                 \in BackupIn(Y)
           /\ [[q EXCEPT !.job = "pending", !.archives = q.pvcs]
                 EXCEPT !.pc = "serialize"].job = "pending"
           /\ [[q EXCEPT !.job = "pending", !.archives = q.pvcs]
                 EXCEPT !.pc = "serialize"].ref = q.ref
           /\ [q EXCEPT !.job = "running", !.mounted = q.staged] \in BackupIn(Y)
           /\ [q EXCEPT !.job = "running", !.mounted = q.staged].job = "running"
           /\ [q EXCEPT !.job = "running", !.mounted = q.staged].ref = q.ref
<1> USE DEF BackupIn, Stages, JobStates
<1>1. [[q EXCEPT !.job = "pending", !.archives = q.pvcs] EXCEPT !.pc = "serialize"]
         \in BackupIn(Y)
  OBVIOUS
<1>2. [q EXCEPT !.job = "running", !.mounted = q.staged] \in BackupIn(Y)
  OBVIOUS
<1>3. /\ [[q EXCEPT !.job = "pending", !.archives = q.pvcs]
            EXCEPT !.pc = "serialize"].job = "pending"
      /\ [[q EXCEPT !.job = "pending", !.archives = q.pvcs]
            EXCEPT !.pc = "serialize"].ref = q.ref
  OBVIOUS
<1>4. /\ [q EXCEPT !.job = "running", !.mounted = q.staged].job = "running"
      /\ [q EXCEPT !.job = "running", !.mounted = q.staged].ref = q.ref
  OBVIOUS
<1> HIDE DEF BackupIn, Stages, JobStates
<1> QED BY <1>1, <1>2, <1>3, <1>4

\* A step of one backup leaves the others alone.
LEMMA OneBackupChanges ==
    ASSUME NEW Y, backups \in [Backups -> BackupIn(Y)], NEW b \in Backups,
           NEW Z, NEW r \in BackupIn(Z), backups' = [backups EXCEPT ![b] = r]
    PROVE  /\ \E X : backups' \in [Backups -> BackupIn(X)]
           /\ backups'[b] = r
           /\ \A c \in Backups \ {b} : backups'[c] = backups[c]
<1>1. \A q \in BackupIn(Y) \cup BackupIn(Z) : q \in BackupIn(Y \cup Z)
  BY DEF BackupIn
<1>2. backups' \in [Backups -> BackupIn(Y \cup Z)]
  BY <1>1
<1> QED BY <1>2

\* What the steps other than an upload, a successful list and a prune do to the
\* Jobs: no reference changes, and none is uploaded, listed or ok that was not.
Plain(b) ==
    /\ backups'[b].ref = backups[b].ref
    /\ \/ backups'[b].job = backups[b].job
       \/ backups[b].job = "listed" /\ backups'[b].job = "ok"
       \/ backups'[b].job \notin {"uploaded", "listed", "ok"}
PlainStep == UNCHANGED <<taken, kept>> /\ \A b \in Backups : Plain(b)

\* The first kind of steps: those of the controller and the pod.
LEMMA PlainOf ==
    ASSUME NEW Y, backups \in [Backups -> BackupIn(Y)], NEW b \in Backups,
           NEW Z, NEW r \in BackupIn(Z), backups' = [backups EXCEPT ![b] = r],
           UNCHANGED <<taken, kept>>, r.ref = backups[b].ref,
           \/ r.job = backups[b].job
           \/ backups[b].job = "listed" /\ r.job = "ok"
           \/ r.job \notin {"uploaded", "listed", "ok"}
    PROVE  PlainStep /\ BackupShape'
<1>1. /\ \E X : backups' \in [Backups -> BackupIn(X)]
      /\ backups'[b] = r
      /\ \A c \in Backups \ {b} : backups'[c] = backups[c]
  BY OneBackupChanges
<1>2. Plain(b)
  BY <1>1 DEF Plain
<1>3. \A c \in Backups \ {b} : Plain(c)
  BY <1>1 DEF Plain
<1> QED BY <1>1, <1>2, <1>3 DEF PlainStep, BackupShape

LEMMA BackupSteps ==
    ASSUME BackupShape, [Next]_vars
    PROVE  \/ PlainStep /\ BackupShape'
           \/ (\E b \in Backups : Upload(b) \/ (List(b) /\ LatestSnapshot(GroupOf[b]) # {}))
           \/ (\E t \in kept : Prune(t))
<1>1. PICK Y : backups \in [Backups -> BackupIn(Y)]
  BY DEF BackupShape
<1>2. CASE UNCHANGED <<backups, taken, kept>>
  BY <1>1, <1>2 DEF PlainStep, Plain, BackupShape
<1>3. ASSUME NEW b \in Backups, SelectPVCs(b)
      PROVE  PlainStep /\ BackupShape'
  <2> DEFINE r == [[backups[b] EXCEPT !.pvcs = Selected(b)] EXCEPT !.pc = "serialize"]
  <2>1. backups' = [backups EXCEPT ![b] = r] /\ UNCHANGED <<taken, kept>>
    BY <1>3 DEF SelectPVCs, Put
  <2> DEFINE W == Y \cup {Selected(b)}
  <2>2. backups[b] \in BackupIn(W) /\ "serialize" \in Stages /\ Selected(b) \in W
    BY <1>1 DEF BackupIn, Stages
  <2> HIDE DEF W
  <2> DEFINE q == backups[b]
             y == Selected(b)
             x == "serialize"
  <2>3. q \in BackupIn(W) /\ y \in W /\ x \in Stages /\ r = [[q EXCEPT !.pvcs = y] EXCEPT !.pc = x]
    BY <2>2
  <2> HIDE DEF q, x, y, r
  <2>4. r \in BackupIn(W)
    BY <2>3 DEF BackupIn
  <2>5. r.job = q.job /\ r.ref = q.ref
    BY <2>3 DEF BackupIn
  <2>6. r \in BackupIn(W) /\ r.job = backups[b].job /\ r.ref = backups[b].ref
    BY <2>4, <2>5 DEF q
  <2> QED BY <1>1, <2>1, <2>6, PlainOf
<1>4. ASSUME NEW b \in Backups, Stage(b)
      PROVE  PlainStep /\ BackupShape'
  <2> DEFINE yaml == SerializeNamespace(objects[SourceOf[b]])
             r == [[backups[b] EXCEPT !.staged = yaml] EXCEPT !.pc = Later(b)]
  <2>1. backups' = [backups EXCEPT ![b] = r] /\ UNCHANGED <<taken, kept>>
    BY <1>4 DEF Stage, Put
  <2> HIDE DEF yaml
  <2> DEFINE W == Y \cup {yaml}
  <2>2. backups[b] \in BackupIn(W) /\ Later(b) \in Stages /\ yaml \in W
    BY <1>1 DEF BackupIn, Later, Stages
  <2> HIDE DEF W
  <2> DEFINE q == backups[b]
             y == yaml
             x == Later(b)
  <2>3. q \in BackupIn(W) /\ y \in W /\ x \in Stages /\ r = [[q EXCEPT !.staged = y] EXCEPT !.pc = x]
    BY <2>2
  <2> HIDE DEF q, x, y, r
  <2>4. r \in BackupIn(W)
    BY <2>3 DEF BackupIn
  <2>5. r.job = q.job /\ r.ref = q.ref
    BY <2>3 DEF BackupIn
  <2>6. r \in BackupIn(W) /\ r.job = backups[b].job /\ r.ref = backups[b].ref
    BY <2>4, <2>5 DEF q
  <2> QED BY <1>1, <2>1, <2>6, PlainOf
<1>5. ASSUME NEW b \in Backups, Launch(b)
      PROVE  PlainStep /\ BackupShape'
  <2> DEFINE r == [[backups[b] EXCEPT !.job = "pending", !.archives = backups[b].pvcs]
                     EXCEPT !.pc = "serialize"]
  <2>1. backups' = [backups EXCEPT ![b] = r] /\ UNCHANGED <<taken, kept>>
    BY <1>5 DEF Launch, Put
  <2>2. backups[b] \in BackupIn(Y)
    BY <1>1
  <2>3. r \in BackupIn(Y) /\ r.job = "pending" /\ r.ref = backups[b].ref
    BY <2>2, JobStarts
  <2> HIDE DEF r
  <2>4. r.job \notin {"uploaded", "listed", "ok"}
    BY <2>3
  <2> QED BY <1>1, <2>1, <2>3, <2>4, PlainOf
<1>6. ASSUME NEW b \in Backups, Mount(b)
      PROVE  PlainStep /\ BackupShape'
  <2> DEFINE r == [backups[b] EXCEPT !.job = "running", !.mounted = backups[b].staged]
  <2>1. backups' = [backups EXCEPT ![b] = r] /\ UNCHANGED <<taken, kept>>
    BY <1>1, <1>6 DEF Mount
  <2>2. backups[b] \in BackupIn(Y)
    BY <1>1
  <2>3. r \in BackupIn(Y) /\ r.job = "running" /\ r.ref = backups[b].ref
    BY <2>2, JobStarts
  <2> HIDE DEF r
  <2>4. r.job \notin {"uploaded", "listed", "ok"}
    BY <2>3
  <2> QED BY <1>1, <2>1, <2>3, <2>4, PlainOf
<1>7. ASSUME NEW b \in Backups, Report(b)
      PROVE  PlainStep /\ BackupShape'
  <2> DEFINE r == [backups[b] EXCEPT !.job = "ok"]
  <2>1. backups' = [backups EXCEPT ![b] = r] /\ UNCHANGED <<taken, kept>>
    BY <1>1, <1>7 DEF Report, Advance
  <2>2. backups[b] \in BackupIn(Y) /\ "ok" \in JobStates /\ backups[b].job = "listed"
    BY <1>1, <1>7 DEF Report, JobStates
  <2>3. r \in BackupIn(Y) /\ r.job = "ok" /\ r.ref = backups[b].ref
    BY <2>2, JobMoves
  <2> HIDE DEF r
  <2> QED BY <1>1, <2>1, <2>2, <2>3, PlainOf
<1>8. ASSUME NEW b \in Backups, Advance(b, "failed"), UNCHANGED <<taken, kept>>
      PROVE  PlainStep /\ BackupShape'
  <2> DEFINE r == [backups[b] EXCEPT !.job = "failed"]
  <2>1. backups' = [backups EXCEPT ![b] = r]
    BY <1>1, <1>8 DEF Advance
  <2>2. backups[b] \in BackupIn(Y) /\ "failed" \in JobStates
    BY <1>1 DEF JobStates
  <2>3. r \in BackupIn(Y) /\ r.job = "failed" /\ r.ref = backups[b].ref
    BY <2>2, JobMoves
  <2> HIDE DEF r
  <2>4. r.job \notin {"uploaded", "listed", "ok"}
    BY <2>3
  <2> QED BY <1>1, <1>8, <2>1, <2>3, <2>4, PlainOf
<1>9. ASSUME NEW b \in Backups, ClientFails(b)
      PROVE  PlainStep /\ BackupShape'
  BY <1>8, <1>9 DEF ClientFails
<1>10. ASSUME NEW b \in Backups, List(b), LatestSnapshot(GroupOf[b]) = {}
       PROVE  PlainStep /\ BackupShape'
  BY <1>8, <1>10 DEF List
<1>11. CASE \/ \E b \in Backups : BeginRestore(b)
            \/ Fetch \/ ApplyPre \/ (\E c \in Claims : FillVolume(c)) \/ ApplyWorkload
            \/ \E s \in Sources :
                  \/ \E c \in Claims : WriteData(s, c)
                  \/ \E d \in Edits : EditObject(s, d) \/ DeleteObject(s, d)
            \/ UNCHANGED vars
  BY <1>2, <1>11 DEF BeginRestore, Fetch, ApplyPre, FillVolume, ApplyWorkload, WriteData,
        EditObject, DeleteObject, Change, vars
<1> QED BY <1>3, <1>4, <1>5, <1>6, <1>7, <1>9, <1>10, <1>11 DEF Next

-----------------------------------------------------------------------------
(* The reference a backup reports.                                         *)

\* Every snapshot but the one of the past is in the group of the backup that took
\* it; once a backup has uploaded, the one of the past is not the newest of its
\* group, since the PBS prunes a group from its oldest end.
OwnInv ==
    /\ BackupShape /\ SnapshotShape
    /\ kept \subseteq 1..Len(taken) /\ 1 <= Len(taken)
    /\ \A t \in 2..Len(taken) : taken[t].by \in Backups /\ taken[t].group = GroupOf[taken[t].by]
    /\ \A b \in Backups :
          /\ backups[b].job = "uploaded" /\ 1 \in InGroup(GroupOf[b])
                => \E u \in InGroup(GroupOf[b]) : u > 1
          /\ backups[b].ref # 0
                => backups[b].ref \in 1..Len(taken) /\ taken[backups[b].ref].by = b
          /\ backups[b].job \in {"listed", "ok"} => backups[b].ref # 0

LEMMA OwnPlain ==
    ASSUME OwnInv, PlainStep, BackupShape'
    PROVE  OwnInv'
<1>1. UNCHANGED <<taken, kept>>
  BY DEF PlainStep
<1>2. SnapshotShape' /\ \A g : InGroup(g)' = InGroup(g)
  BY <1>1 DEF SnapshotShape, OwnInv, InGroup
<1>3. ASSUME NEW b \in Backups
      PROVE  /\ backups'[b].job = "uploaded" /\ 1 \in InGroup(GroupOf[b])
                   => \E u \in InGroup(GroupOf[b]) : u > 1
             /\ backups'[b].ref # 0
                   => backups'[b].ref \in 1..Len(taken) /\ taken[backups'[b].ref].by = b
             /\ backups'[b].job \in {"listed", "ok"} => backups'[b].ref # 0
  <2>1. Plain(b)
    BY DEF PlainStep
  <2> QED BY <2>1 DEF Plain, OwnInv
<1> QED BY <1>1, <1>2, <1>3 DEF OwnInv

LEMMA OwnUpload ==
    ASSUME OwnInv, NEW b \in Backups, Upload(b)
    PROVE  OwnInv'
<1> DEFINE n == Len(taken)
           v == [group |-> GroupOf[b], by |-> b, api |-> backups[b].mounted,
                 data |-> [c \in backups[b].archives |-> disk[SourceOf[b]][c]]]
<1>1. PICK Y : taken \in Seq(Y)
  BY DEF OwnInv, SnapshotShape
<1>2. taken \in Seq(Y \cup {v}) /\ v \in Y \cup {v}
  BY <1>1, SeqMonotonic
<1>3. taken' = Append(taken, v) /\ kept' = kept \cup {Len(taken')}
  BY DEF Upload
<1>4. v.group = GroupOf[b] /\ v.by = b
  OBVIOUS
<1> HIDE DEF v
<1>5. /\ taken' \in Seq(Y \cup {v}) /\ Len(taken') = n + 1 /\ n \in Nat
      /\ taken'[n + 1] = v /\ \A i \in 1..n : taken'[i] = taken[i]
  BY <1>2, <1>3, AppendProperties
<1>6. SnapshotShape'
  BY <1>5 DEF SnapshotShape
<1> DEFINE r == [backups[b] EXCEPT !.job = "uploaded"]
<1>7. PICK B : backups \in [Backups -> BackupIn(B)]
  BY DEF OwnInv, BackupShape
<1>8. backups' = [backups EXCEPT ![b] = r] /\ backups[b] \in BackupIn(B)
  BY <1>7 DEF Upload, Advance
<1>9. r \in BackupIn(B) /\ r.ref = backups[b].ref /\ r.job = "uploaded"
  BY <1>8, JobMoves DEF JobStates
<1> HIDE DEF r
<1>10. /\ BackupShape' /\ backups'[b] = r
       /\ \A c \in Backups \ {b} : backups'[c] = backups[c]
  BY <1>7, <1>8, <1>9, OneBackupChanges DEF BackupShape
<1>11. \A c \in Backups : backups'[c].ref = backups[c].ref
  BY <1>9, <1>10
<1>12. kept \subseteq 1..n /\ 1 <= n
  BY DEF OwnInv
<1> HIDE DEF n
<1>13. kept' \subseteq 1..(n + 1) /\ 1 <= n + 1 /\ n + 1 > 1
  BY <1>3, <1>5, <1>12
<1>14. \A g : InGroup(g) \subseteq InGroup(g)'
  BY <1>3, <1>5, <1>12 DEF InGroup
<1>15. n + 1 \in InGroup(GroupOf[b])'
  BY <1>3, <1>4, <1>5 DEF InGroup
<1>16. \A g : 1 \in InGroup(g)' => 1 \in InGroup(g)
  <2>1. 1 # n + 1 /\ 1 \in 1..n
    BY <1>5, <1>12
  <2> QED BY <1>3, <1>5, <2>1 DEF InGroup
<1>17. ASSUME NEW t \in 2..(n + 1)
       PROVE  taken'[t].by \in Backups /\ taken'[t].group = GroupOf[taken'[t].by]
  <2>1. CASE t = n + 1
    BY <1>4, <1>5, <2>1
  <2>2. CASE t # n + 1
    <3>1. t \in 2..n /\ t \in 1..n
      BY <1>5, <2>2
    <3> QED BY <1>5, <3>1 DEF OwnInv, n
  <2> QED BY <2>1, <2>2
<1>18. ASSUME NEW c \in Backups
       PROVE  /\ backups'[c].job = "uploaded" /\ 1 \in InGroup(GroupOf[c])'
                    => \E u \in InGroup(GroupOf[c])' : u > 1
              /\ backups'[c].ref # 0
                    => backups'[c].ref \in 1..(n + 1) /\ taken'[backups'[c].ref].by = c
              /\ backups'[c].job \in {"listed", "ok"} => backups'[c].ref # 0
  <2>1. backups'[c].job = "uploaded" /\ 1 \in InGroup(GroupOf[c])'
           => \E u \in InGroup(GroupOf[c])' : u > 1
    <3>1. CASE c = b
      BY <1>13, <1>15, <3>1
    <3>2. CASE c # b
      BY <1>10, <1>14, <1>16, <3>2 DEF OwnInv
    <3> QED BY <3>1, <3>2
  <2>2. backups'[c].ref # 0
           => backups'[c].ref \in 1..(n + 1) /\ taken'[backups'[c].ref].by = c
    <3>1. backups[c].ref # 0 => backups[c].ref \in 1..n /\ taken[backups[c].ref].by = c
      BY DEF OwnInv, n
    <3> QED BY <1>5, <1>11, <3>1
  <2>3. backups'[c].job \in {"listed", "ok"} => backups'[c].ref # 0
    BY <1>9, <1>10 DEF OwnInv
  <2> QED BY <2>1, <2>2, <2>3
<1> QED BY <1>5, <1>6, <1>10, <1>13, <1>17, <1>18 DEF OwnInv

LEMMA OwnList ==
    ASSUME DistinctGroups, OwnInv, NEW b \in Backups, List(b), LatestSnapshot(GroupOf[b]) # {}
    PROVE  OwnInv'
<1>1. PICK t \in LatestSnapshot(GroupOf[b]) :
         backups' = [backups EXCEPT ![b].job = "listed", ![b].ref = t]
  BY DEF List
<1>2. UNCHANGED <<taken, kept>> /\ backups[b].job = "uploaded"
  BY DEF List
<1>3. Len(taken) \in Nat
  BY DEF OwnInv, SnapshotShape
<1>4. /\ t \in kept /\ taken[t].group = GroupOf[b] /\ t \in InGroup(GroupOf[b])
      /\ \A u \in InGroup(GroupOf[b]) : u <= t
  BY <1>1 DEF LatestSnapshot, InGroup
<1>5. t \in 1..Len(taken) /\ t \in Nat /\ t # 0
  BY <1>3, <1>4 DEF OwnInv
<1>6. t # 1
  <2>1. SUFFICES ASSUME t = 1 PROVE FALSE
    OBVIOUS
  <2>2. PICK u \in InGroup(GroupOf[b]) : u > 1
    BY <1>2, <1>4, <2>1 DEF OwnInv
  <2>3. u \in 1..Len(taken) /\ u <= t
    BY <1>4 DEF InGroup, OwnInv
  <2> QED BY <1>3, <2>1, <2>2, <2>3
<1>7. t \in 2..Len(taken)
  BY <1>3, <1>5, <1>6
<1>8. taken[t].by = b
  BY <1>4, <1>7 DEF OwnInv, DistinctGroups
<1> DEFINE r == [backups[b] EXCEPT !.job = "listed", !.ref = t]
<1>9. PICK B : backups \in [Backups -> BackupIn(B)]
  BY DEF OwnInv, BackupShape
<1>10. backups' = [backups EXCEPT ![b] = r] /\ backups[b] \in BackupIn(B)
  BY <1>1, <1>9
<1>11. r \in BackupIn(B) /\ r.ref = t /\ r.job = "listed"
  <2> DEFINE q == backups[b]
  <2>1. q \in BackupIn(B) /\ r = [q EXCEPT !.job = "listed", !.ref = t] /\ t \in Nat
    BY <1>5, <1>10
  <2> HIDE DEF q, r
  <2>2. r \in BackupIn(B)
    BY <2>1 DEF BackupIn, JobStates
  <2> QED BY <2>1, <2>2 DEF BackupIn
<1> HIDE DEF r
<1>12. /\ BackupShape' /\ backups'[b] = r
       /\ \A c \in Backups \ {b} : backups'[c] = backups[c]
  BY <1>9, <1>10, <1>11, OneBackupChanges DEF BackupShape
<1>13. SnapshotShape' /\ \A g : InGroup(g)' = InGroup(g)
  BY <1>2 DEF SnapshotShape, OwnInv, InGroup
<1>14. ASSUME NEW c \in Backups
       PROVE  /\ backups'[c].job = "uploaded" /\ 1 \in InGroup(GroupOf[c])
                    => \E u \in InGroup(GroupOf[c]) : u > 1
              /\ backups'[c].ref # 0
                    => backups'[c].ref \in 1..Len(taken) /\ taken[backups'[c].ref].by = c
              /\ backups'[c].job \in {"listed", "ok"} => backups'[c].ref # 0
  <2>1. CASE c = b
    BY <1>5, <1>8, <1>11, <1>12, <2>1
  <2>2. CASE c # b
    BY <1>12, <2>2 DEF OwnInv
  <2> QED BY <2>1, <2>2
<1> QED BY <1>2, <1>12, <1>13, <1>14 DEF OwnInv

LEMMA OwnPrune ==
    ASSUME OwnInv, NEW t \in kept, Prune(t)
    PROVE  OwnInv'
<1>1. /\ kept' = kept \ {t} /\ UNCHANGED <<taken, backups>>
      /\ \A u \in InGroup(taken[t].group) : t <= u
  BY DEF Prune
<1>2. BackupShape' /\ SnapshotShape' /\ Len(taken) \in Nat
  BY <1>1 DEF OwnInv, BackupShape, SnapshotShape
<1>3. \A g : InGroup(g)' = InGroup(g) \ {t}
  BY <1>1 DEF InGroup
<1>4. ASSUME NEW b \in Backups, backups[b].job = "uploaded", 1 \in InGroup(GroupOf[b])'
      PROVE  \E u \in InGroup(GroupOf[b])' : u > 1
  <2>1. 1 \in InGroup(GroupOf[b])
    BY <1>3, <1>4
  <2>2. PICK u \in InGroup(GroupOf[b]) : u > 1
    BY <1>4, <2>1 DEF OwnInv
  <2>3. u # t
    <3>1. SUFFICES ASSUME u = t PROVE FALSE
      OBVIOUS
    <3>2. taken[t].group = GroupOf[b] /\ t \in 1..Len(taken)
      BY <2>2, <3>1 DEF InGroup, OwnInv
    <3>3. t <= 1
      BY <1>1, <2>1, <3>2
    <3> QED BY <1>2, <2>2, <3>1, <3>2, <3>3
  <2> QED BY <1>3, <2>2, <2>3
<1> QED BY <1>1, <1>2, <1>4 DEF OwnInv

LEMMA OwnKept ==
    ASSUME DistinctGroups, OwnInv, [Next]_vars
    PROVE  OwnInv'
<1>1. BackupShape
  BY DEF OwnInv
<1> QED BY <1>1, BackupSteps, OwnPlain, OwnUpload, OwnList, OwnPrune

LEMMA OwnAtStart ==
    ASSUME Init
    PROVE  OwnInv
<1>1. backups = [b \in Backups |-> NewBackup]
  BY DEF Init
<1>2. NewBackup \in BackupIn({{}, <<>>}) /\ NewBackup.job = "none" /\ NewBackup.ref = 0
  BY DEF NewBackup, BackupIn, Stages, JobStates
<1>3. backups \in [Backups -> BackupIn({{}, <<>>})]
  BY <1>1, <1>2
<1>4. BackupShape /\ \A b \in Backups : backups[b].job = "none" /\ backups[b].ref = 0
  BY <1>1, <1>2, <1>3 DEF BackupShape
<1>5. PICK v : taken = <<v>>
  BY DEF Init
<1>6. taken \in Seq({v}) /\ Len(taken) = 1
  BY <1>5
<1>7. SnapshotShape
  BY <1>6 DEF SnapshotShape
<1>8. kept \subseteq 1..Len(taken) /\ 1 <= Len(taken)
  BY <1>6 DEF Init
<1>9. 2..Len(taken) = {}
  BY <1>6
<1> QED BY <1>4, <1>7, <1>8, <1>9 DEF OwnInv

\* latestHostSnapshot, which takes the newest snapshot of the pod's host name after
\* the upload, finds the upload of its own Job: no backup reports the snapshot of
\* another one, or of the past, whatever is uploaded, pruned and failed meanwhile.
THEOREM BackupsReportTheirOwn == DistinctGroups => (Spec => []ReportsOwn)
<1> SUFFICES ASSUME DistinctGroups PROVE Spec => []ReportsOwn
  OBVIOUS
<1>1. Init => OwnInv
  BY OwnAtStart
<1>2. OwnInv /\ [Next]_vars => OwnInv'
  BY OwnKept
<1>3. OwnInv => ReportsOwn
  BY DEF OwnInv, ReportsOwn
<1> QED BY <1>1, <1>2, <1>3, PTL DEF Spec

-----------------------------------------------------------------------------
(* The volumes a restore fills.                                            *)

\* What was uploaded stays what it was.
LEMMA TakenGrows ==
    ASSUME OwnInv, [Next]_vars
    PROVE  /\ Len(taken) \in Nat /\ Len(taken') \in Nat /\ Len(taken) <= Len(taken')
           /\ \A t \in 1..Len(taken) : taken'[t] = taken[t]
<1>1. PICK Y : taken \in Seq(Y)
  BY DEF OwnInv, SnapshotShape
<1>2. BackupShape /\ Len(taken) \in Nat
  BY <1>1 DEF OwnInv
<1>3. CASE taken' = taken
  BY <1>2, <1>3
<1>4. ASSUME NEW v, taken' = Append(taken, v)
      PROVE  /\ Len(taken') = Len(taken) + 1
             /\ \A t \in 1..Len(taken) : taken'[t] = taken[t]
  <2>1. taken \in Seq(Y \cup {v}) /\ v \in Y \cup {v}
    BY <1>1, SeqMonotonic
  <2> QED BY <1>4, <2>1, AppendProperties
<1>5. CASE \E v : taken' = Append(taken, v)
  BY <1>2, <1>4, <1>5
<1>6. taken' = taken \/ \E v : taken' = Append(taken, v)
  BY <1>2, BackupSteps DEF PlainStep, Upload, List, Prune
<1> QED BY <1>3, <1>5, <1>6

\* A restore that has begun reads the snapshot its backup took itself, and the
\* volumes it has filled hold what is in that snapshot.
FillInv ==
    /\ RestoreShape /\ VolumeShape
    /\ restore.pc = "new" => restore.filled = {}
    /\ restore.pc # "new" =>
          /\ restore.ref \in 1..Len(taken) /\ taken[restore.ref].by = restore.of
          /\ \A c \in restore.filled : volumes[c].data = taken[restore.ref].data[c]
    /\ restore.pc = "done" => restore.filled = Planned

\* The plan is made of the documents that were fetched.
LEMMA PlanStays ==
    ASSUME restore'.api = restore.api
    PROVE  Planned' = Planned
BY DEF Planned, Buckets, Docs

\* A step of the restore other than its first one and the filling of a volume.
LEMMA RestoreGoesOn ==
    ASSUME OwnInv, FillInv, [Next]_vars, volumes' = volumes, RestoreShape',
           restore.pc # "new", restore'.pc # "new",
           restore'.of = restore.of, restore'.ref = restore.ref,
           restore'.filled = restore.filled,
           restore'.pc = "done" => restore'.filled = Planned'
    PROVE  FillInv'
<1>1. /\ Len(taken) \in Nat /\ Len(taken') \in Nat /\ Len(taken) <= Len(taken')
      /\ \A t \in 1..Len(taken) : taken'[t] = taken[t]
  BY TakenGrows
<1>2. /\ restore.ref \in 1..Len(taken) /\ taken[restore.ref].by = restore.of
      /\ \A c \in restore.filled : volumes[c].data = taken[restore.ref].data[c]
  BY DEF FillInv
<1>3. restore.ref \in 1..Len(taken') /\ taken'[restore.ref] = taken[restore.ref]
  BY <1>1, <1>2
<1>4. VolumeShape'
  BY DEF FillInv, VolumeShape
<1>5. taken'[restore'.ref].by = restore'.of /\ restore'.ref \in 1..Len(taken')
  BY <1>2, <1>3
<1>6. \A c \in restore'.filled : volumes'[c].data = taken'[restore'.ref].data[c]
  BY <1>2, <1>3
<1> QED BY <1>4, <1>5, <1>6 DEF FillInv

LEMMA FillBegins ==
    ASSUME OwnInv, FillInv, NEW b \in Backups, BeginRestore(b)
    PROVE  FillInv'
<1>1. PICK Y : restore \in RestoreIn(Y)
  BY DEF FillInv, RestoreShape
<1>2. /\ restore.pc = "new" /\ backups[b].job = "ok" /\ UNCHANGED <<taken, volumes>>
      /\ restore' = [[restore EXCEPT !.of = b, !.ref = backups[b].ref] EXCEPT !.pc = "fetch"]
  BY DEF BeginRestore, Step
<1>3. backups[b].ref \in 1..Len(taken) /\ taken[backups[b].ref].by = b /\ Len(taken) \in Nat
  BY <1>2 DEF OwnInv, SnapshotShape
<1> DEFINE n == backups[b].ref
           W == Y \cup {b}
<1>4. n \in Nat /\ restore \in RestoreIn(W) /\ b \in W
  BY <1>1, <1>3 DEF RestoreIn
<1>5. restore' = [[restore EXCEPT !.of = b, !.ref = n] EXCEPT !.pc = "fetch"]
  BY <1>2
<1> HIDE DEF n, W
<1>6. restore' \in RestoreIn(W)
  BY <1>4, <1>5 DEF RestoreIn, RestoreStages
<1>7. /\ restore'.of = b /\ restore'.ref = n /\ restore'.pc = "fetch"
      /\ restore'.filled = restore.filled
  BY <1>4, <1>5 DEF RestoreIn
<1>8. restore.filled = {}
  BY <1>2 DEF FillInv
<1>9. RestoreShape' /\ VolumeShape'
  BY <1>2, <1>6 DEF FillInv, RestoreShape, VolumeShape
<1>10. restore'.ref \in 1..Len(taken') /\ taken'[restore'.ref].by = restore'.of
  BY <1>2, <1>3, <1>7 DEF n
<1> QED BY <1>7, <1>8, <1>9, <1>10 DEF FillInv

LEMMA FillOne ==
    ASSUME OwnInv, FillInv, [Next]_vars, NEW c \in Claims, FillVolume(c)
    PROVE  FillInv'
<1>1. PICK Y : restore \in RestoreIn(Y)
  BY DEF FillInv, RestoreShape
<1>2. PICK Z : volumes \in [Claims -> Z]
  BY DEF FillInv, VolumeShape
<1>3. /\ restore.pc = "volumes" /\ c \notin restore.filled /\ UNCHANGED taken
      /\ restore.ref \in 1..Len(taken) /\ taken[restore.ref].by = restore.of
      /\ \A d \in restore.filled : volumes[d].data = taken[restore.ref].data[d]
  BY DEF FillVolume, FillInv
<1>4. ASSUME NEW v, volumes' = [volumes EXCEPT ![c] = v]
      PROVE  /\ VolumeShape' /\ volumes'[c] = v
             /\ \A d \in Claims \ {c} : volumes'[d] = volumes[d]
  <2>1. volumes' \in [Claims -> Z \cup {v}]
    BY <1>2, <1>4
  <2> QED BY <1>2, <1>4, <2>1 DEF VolumeShape
<1>5. restore.filled \subseteq Claims \ {c}
  BY <1>1, <1>3 DEF RestoreIn
<1>6. CASE restore.ref \in kept /\ c \in DOMAIN taken[restore.ref].data
  <2> DEFINE v == [data |-> taken[restore.ref].data[c], node |-> NodeFor(c)]
  <2>1. /\ volumes' = [volumes EXCEPT ![c] = v]
        /\ restore' = [[restore EXCEPT !.filled = @ \cup {c}] EXCEPT !.pc = "volumes"]
    BY <1>6 DEF FillVolume, Step
  <2>2. v.data = taken[restore.ref].data[c]
    OBVIOUS
  <2> HIDE DEF v
  <2>3. restore' \in RestoreIn(Y)
    BY <1>1, <2>1 DEF RestoreIn, RestoreStages
  <2>4. /\ restore'.pc = "volumes" /\ restore'.of = restore.of /\ restore'.ref = restore.ref
        /\ restore'.filled = restore.filled \cup {c}
    BY <1>1, <2>1 DEF RestoreIn
  <2>5. /\ VolumeShape' /\ volumes'[c] = v
        /\ \A d \in Claims \ {c} : volumes'[d] = volumes[d]
    BY <1>4, <2>1
  <2>6. \A d \in restore'.filled : volumes'[d].data = taken'[restore'.ref].data[d]
    BY <1>3, <1>5, <2>2, <2>4, <2>5
  <2> QED BY <1>3, <2>3, <2>4, <2>5, <2>6 DEF FillInv, RestoreShape
<1>7. CASE ~(restore.ref \in kept /\ c \in DOMAIN taken[restore.ref].data)
  <2> DEFINE v == [data |-> Empty, node |-> NodeFor(c)]
  <2>1. /\ volumes' = [volumes EXCEPT ![c] = v]
        /\ restore' = [restore EXCEPT !.pc = "failed"]
    BY <1>7 DEF FillVolume, Step
  <2> HIDE DEF v
  <2>2. restore' \in RestoreIn(Y)
    BY <1>1, <2>1 DEF RestoreIn, RestoreStages
  <2>3. /\ restore'.pc = "failed" /\ restore'.of = restore.of /\ restore'.ref = restore.ref
        /\ restore'.filled = restore.filled
    BY <1>1, <2>1 DEF RestoreIn
  <2>4. VolumeShape' /\ \A d \in Claims \ {c} : volumes'[d] = volumes[d]
    BY <1>4, <2>1
  <2>5. \A d \in restore'.filled : volumes'[d].data = taken'[restore'.ref].data[d]
    BY <1>3, <1>5, <2>3, <2>4
  <2> QED BY <1>3, <2>2, <2>3, <2>4, <2>5 DEF FillInv, RestoreShape
<1> QED BY <1>6, <1>7

LEMMA FillKept ==
    ASSUME OwnInv, FillInv, [Next]_vars
    PROVE  FillInv'
<1>1. PICK Y : restore \in RestoreIn(Y)
  BY DEF FillInv, RestoreShape
<1>2. CASE UNCHANGED <<restore, volumes>>
  <2>1. RestoreShape' /\ VolumeShape' /\ Planned' = Planned
    BY <1>2, PlanStays DEF FillInv, RestoreShape, VolumeShape
  <2>2. CASE restore.pc = "new"
    BY <1>2, <2>1, <2>2 DEF FillInv
  <2>3. CASE restore.pc # "new"
    <3>1. restore'.pc = "done" => restore'.filled = Planned'
      BY <1>2, <2>1 DEF FillInv
    <3> QED BY <1>2, <2>1, <2>3, <3>1, RestoreGoesOn
  <2> QED BY <2>2, <2>3
<1>3. ASSUME NEW x \in RestoreStages, restore' = [restore EXCEPT !.pc = x]
      PROVE  /\ RestoreShape' /\ restore'.pc = x
             /\ restore'.of = restore.of /\ restore'.ref = restore.ref
             /\ restore'.filled = restore.filled /\ restore'.api = restore.api
  <2>1. restore' \in RestoreIn(Y)
    BY <1>1, <1>3 DEF RestoreIn
  <2>2. /\ restore'.pc = x /\ restore'.of = restore.of /\ restore'.ref = restore.ref
        /\ restore'.filled = restore.filled /\ restore'.api = restore.api
    BY <1>1, <1>3 DEF RestoreIn
  <2> QED BY <2>1, <2>2 DEF RestoreShape
<1>4. CASE Fetch
  <2>1. restore.pc = "fetch" /\ volumes' = volumes
    BY <1>4 DEF Fetch
  <2>2. CASE restore.ref \in kept
    <3> DEFINE yaml == taken[restore.ref].api
               W == Y \cup {yaml}
    <3>1. restore' = [[restore EXCEPT !.api = yaml] EXCEPT !.pc = "pre"]
      BY <1>4, <2>2 DEF Fetch, Step
    <3>2. restore \in RestoreIn(W) /\ yaml \in W
      BY <1>1 DEF RestoreIn
    <3> HIDE DEF yaml, W
    <3>3. restore' \in RestoreIn(W)
      BY <3>1, <3>2 DEF RestoreIn, RestoreStages
    <3>4. /\ restore'.pc = "pre" /\ restore'.of = restore.of /\ restore'.ref = restore.ref
          /\ restore'.filled = restore.filled
      BY <3>1, <3>2 DEF RestoreIn
    <3>5. RestoreShape'
      BY <3>3 DEF RestoreShape
    <3> QED BY <2>1, <3>4, <3>5, RestoreGoesOn
  <2>3. CASE restore.ref \notin kept
    <3>1. restore' = [restore EXCEPT !.pc = "failed"] /\ "failed" \in RestoreStages
      BY <1>4, <2>3 DEF Fetch, Step, RestoreStages
    <3>2. /\ RestoreShape' /\ restore'.pc = "failed"
          /\ restore'.of = restore.of /\ restore'.ref = restore.ref
          /\ restore'.filled = restore.filled
      BY <1>3, <3>1
    <3> QED BY <2>1, <3>2, RestoreGoesOn
  <2> QED BY <2>2, <2>3
<1>5. CASE ApplyPre
  <2>1. /\ restore.pc = "pre" /\ volumes' = volumes
        /\ restore' = [restore EXCEPT !.pc = "volumes"] /\ "volumes" \in RestoreStages
    BY <1>5 DEF ApplyPre, Step, RestoreStages
  <2>2. /\ RestoreShape' /\ restore'.pc = "volumes"
        /\ restore'.of = restore.of /\ restore'.ref = restore.ref
        /\ restore'.filled = restore.filled
    BY <1>3, <2>1
  <2> QED BY <2>1, <2>2, RestoreGoesOn
<1>6. CASE ApplyWorkload
  <2>1. /\ restore.pc = "volumes" /\ volumes' = volumes /\ Planned = restore.filled
        /\ restore' = [restore EXCEPT !.pc = "done"] /\ "done" \in RestoreStages
    BY <1>6 DEF ApplyWorkload, Step, RestoreStages
  <2>2. /\ RestoreShape' /\ restore'.pc = "done"
        /\ restore'.of = restore.of /\ restore'.ref = restore.ref
        /\ restore'.filled = restore.filled /\ restore'.api = restore.api
    BY <1>3, <2>1
  <2>3. restore'.filled = Planned'
    BY <2>1, <2>2, PlanStays
  <2> QED BY <2>1, <2>2, <2>3, RestoreGoesOn
<1>7. CASE \/ \E b \in Backups :
                \/ SelectPVCs(b) \/ Stage(b) \/ Launch(b) \/ Mount(b)
                \/ Upload(b) \/ List(b) \/ Report(b) \/ ClientFails(b)
           \/ \E s \in Sources :
                \/ \E c \in Claims : WriteData(s, c)
                \/ \E d \in Edits : EditObject(s, d) \/ DeleteObject(s, d)
           \/ \E t \in kept : Prune(t)
           \/ UNCHANGED vars
  BY <1>2, <1>7 DEF SelectPVCs, Stage, Launch, Mount, Upload, List, Report, ClientFails,
        WriteData, EditObject, DeleteObject, Change, Prune, vars
<1> QED BY <1>4, <1>5, <1>6, <1>7, FillBegins, FillOne DEF Next

LEMMA FillAtStart ==
    ASSUME Init
    PROVE  FillInv
<1>1. restore = NewRestore /\ volumes = [c \in Claims |-> [data |-> Empty, node |-> 0]]
  BY DEF Init
<1>2. NewRestore \in RestoreIn({Earlier, <<>>})
  BY DEF NewRestore, RestoreIn, RestoreStages
<1>3. restore.pc = "new" /\ restore.filled = {}
  BY <1>1 DEF NewRestore
<1>4. volumes \in [Claims -> {[data |-> Empty, node |-> 0]}]
  BY <1>1
<1>5. RestoreShape /\ VolumeShape
  BY <1>1, <1>2, <1>4 DEF RestoreShape, VolumeShape
<1> QED BY <1>3, <1>5 DEF FillInv

\* Once a restore is done, every volume of its plan holds what the restored backup
\* itself read of that volume: the last conjunct of RestoredIsBackup.
VolumesRestored == restore.pc = "done" => VolumesHoldBackup

\* The volume Jobs of a restore, which read status.snapshotRef, bring back the data
\* that the agent of that very backup uploaded, for every lot of backups side by
\* side and for every plan.
THEOREM RestoredVolumesAreTheBackups == DistinctGroups => (Spec => []VolumesRestored)
<1> SUFFICES ASSUME DistinctGroups PROVE Spec => []VolumesRestored
  OBVIOUS
<1> DEFINE IInv == OwnInv /\ FillInv
<1>1. Init => IInv
  BY OwnAtStart, FillAtStart
<1>2. IInv /\ [Next]_vars => IInv'
  BY OwnKept, FillKept
<1>3. IInv => VolumesRestored
  <2>1. SUFFICES ASSUME OwnInv, FillInv, restore.pc = "done"
                 PROVE  VolumesHoldBackup
    BY DEF VolumesRestored
  <2>2. DOMAIN taken = 1..Len(taken)
    BY DEF OwnInv, SnapshotShape
  <2>3. restore.ref \in DOMAIN taken
    BY <2>1, <2>2 DEF FillInv
  <2>4. /\ taken[restore.ref].by = restore.of
        /\ \A c \in Planned : volumes[c].data = taken[restore.ref].data[c]
    BY <2>1 DEF FillInv
  <2> QED BY <2>3, <2>4 DEF VolumesHoldBackup
<1> QED BY <1>1, <1>2, <1>3, PTL DEF Spec

-----------------------------------------------------------------------------
(* The operators on documents.                                             *)

\* Documents of catalogued objects, those of an api.yaml, and the api.yamls.
Listed == {d \in Doc : Key(d) \in Keys}
ApiDocs == {d \in Listed : "volatile" \notin d.assigned}
Yamls == UNION {[S -> ApiDocs] : S \in SUBSET DOMAIN Catalog}

\* What two documents of one object have in common, whatever became of the rest.
Alike(d, e) ==
    /\ d.kind = e.kind /\ d.name = e.name /\ d.pin = e.pin
    /\ d.claims = e.claims /\ d.templates = e.templates

LEMMA YamlsAre ==
    ASSUME NEW yaml
    PROVE  yaml \in Yamls <=>
              \E S \in SUBSET DOMAIN Catalog : yaml \in [S -> ApiDocs]
BY DEF Yamls

LEMMA YamlDocs ==
    ASSUME NEW yaml \in Yamls
    PROVE  /\ DOMAIN yaml \subseteq DOMAIN Catalog /\ yaml = [i \in DOMAIN yaml |-> yaml[i]]
           /\ \A i \in DOMAIN yaml : yaml[i] \in ApiDocs
BY YamlsAre

LEMMA YamlsAreRendered ==
    ASSUME NEW yaml \in Yamls
    PROVE  Rendered(yaml)
BY YamlDocs DEF Rendered, ApiDocs, Listed

LEMMA EmptyYaml == <<>> \in Yamls /\ DOMAIN <<>> = {}
<1>1. <<>> \in [{} -> ApiDocs] /\ DOMAIN <<>> = {}
  OBVIOUS
<1> QED BY <1>1, YamlsAre

\* StripVolatile touches the volatile fields only.
LEMMA StripKeeps ==
    ASSUME NEW d \in Doc
    PROVE  /\ StripVolatile(d) \in Doc /\ Alike(StripVolatile(d), d)
           /\ StripVolatile(d).assigned = d.assigned \ {"volatile"}
           /\ StripVolatile(d).managed = d.managed /\ StripVolatile(d).rev = d.rev
<1>1. /\ Alike(StripVolatile(d), d) /\ StripVolatile(d).assigned = d.assigned \ {"volatile"}
      /\ StripVolatile(d).managed = d.managed /\ StripVolatile(d).rev = d.rev
  BY DEF StripVolatile, Doc, Alike
<1> DEFINE a == d.assigned \ {"volatile"}
<1>2. a \in SUBSET Assigned /\ StripVolatile(d) = [d EXCEPT !.assigned = a]
  BY DEF Doc, StripVolatile
<1> HIDE DEF a
<1>3. StripVolatile(d) \in Doc
  BY <1>2 DEF Doc
<1> QED BY <1>1, <1>3

LEMMA StripRenders ==
    ASSUME NEW d \in Listed
    PROVE  StripVolatile(d) \in ApiDocs
BY StripKeeps DEF Listed, ApiDocs, Alike, Key

\* Rewritten moves a document and takes the allocations of the source from it.
LEMMA RewriteKeeps ==
    ASSUME NEW d \in Doc
    PROVE  /\ Rewritten(d, Target) \in Doc /\ Alike(Rewritten(d, Target), d)
           /\ Rewritten(d, Target).assigned \subseteq d.assigned
<1> DEFINE n == IF d.kind \in ClusterScopedKinds THEN d.ns ELSE Target
           a == IF d.kind \in {"Service", PVC} THEN d.assigned \ {"allocated"} ELSE d.assigned
<1>1. Rewritten(d, Target) = [d EXCEPT !.ns = n, !.assigned = a]
  BY DEF Rewritten, Doc
<1>2. n \in Spaces /\ a \in SUBSET Assigned /\ a \subseteq d.assigned
  BY PathInputs DEF Doc
<1> HIDE DEF n, a
<1>3. [d EXCEPT !.ns = n, !.assigned = a] \in Doc
  BY <1>2 DEF Doc
<1>4. /\ Alike([d EXCEPT !.ns = n, !.assigned = a], d)
      /\ [d EXCEPT !.ns = n, !.assigned = a].assigned = a
  BY <1>2 DEF Doc, Alike
<1> QED BY <1>1, <1>2, <1>3, <1>4

LEMMA ParsedDocs ==
    ASSUME NEW yaml \in Yamls
    PROVE  /\ ParseAPIManifests(yaml, Target) \in Yamls
           /\ DOMAIN ParseAPIManifests(yaml, Target) = DOMAIN yaml
           /\ \A i \in DOMAIN yaml : Alike(ParseAPIManifests(yaml, Target)[i], yaml[i])
<1> DEFINE docs == ParseAPIManifests(yaml, Target)
<1>1. docs = [i \in DOMAIN yaml |-> Rewritten(yaml[i], Target)]
  BY DEF ParseAPIManifests
<1>2. ASSUME NEW i \in DOMAIN yaml
      PROVE  Rewritten(yaml[i], Target) \in ApiDocs /\ Alike(Rewritten(yaml[i], Target), yaml[i])
  <2>1. yaml[i] \in ApiDocs /\ yaml[i] \in Doc
    BY YamlDocs DEF ApiDocs, Listed
  <2>2. /\ Rewritten(yaml[i], Target) \in Doc /\ Alike(Rewritten(yaml[i], Target), yaml[i])
        /\ Rewritten(yaml[i], Target).assigned \subseteq yaml[i].assigned
    BY <2>1, RewriteKeeps
  <2> QED BY <2>1, <2>2 DEF ApiDocs, Listed, Alike, Key
<1>3. docs \in [DOMAIN yaml -> ApiDocs] /\ DOMAIN yaml \in SUBSET DOMAIN Catalog
  BY <1>1, <1>2, YamlDocs
<1>4. docs \in Yamls
  BY <1>3, YamlsAre
<1> QED BY <1>1, <1>2, <1>4

\* Every document of api.yaml is that of an object of the namespace, at the place
\* of its name, and every object that is to be archived has one.
LEMMA SerializeRenders ==
    ASSUME NEW S, S \subseteq Listed
    PROVE  LET yaml == SerializeNamespace(S)
           IN /\ yaml \in Yamls
              /\ \A i \in DOMAIN yaml : \E d \in S :
                    Serialized(d) /\ Key(d) = Catalog[i] /\ yaml[i] = StripVolatile(d)
              /\ Keyed(S) => \A d \in S : Serialized(d)
                    => \E i \in DOMAIN yaml : yaml[i] = StripVolatile(d)
<1> DEFINE At(i) == {d \in S : Serialized(d) /\ Key(d) = Catalog[i]}
           D == {j \in DOMAIN Catalog : At(j) # {}}
           Pick(i) == CHOOSE d \in At(i) : TRUE
           yaml == SerializeNamespace(S)
<1>1. yaml = [i \in D |-> StripVolatile(Pick(i))]
  BY DEF SerializeNamespace
<1>2. \A i \in D : Pick(i) \in At(i)
  OBVIOUS
<1>3. ASSUME NEW i \in D
      PROVE  /\ Pick(i) \in S /\ Serialized(Pick(i)) /\ Key(Pick(i)) = Catalog[i]
             /\ yaml[i] = StripVolatile(Pick(i)) /\ StripVolatile(Pick(i)) \in ApiDocs
  <2>1. Pick(i) \in S /\ Serialized(Pick(i)) /\ Key(Pick(i)) = Catalog[i]
    BY <1>2
  <2>2. yaml[i] = StripVolatile(Pick(i))
    BY <1>1
  <2> HIDE DEF Pick
  <2>3. StripVolatile(Pick(i)) \in ApiDocs
    BY <2>1, StripRenders
  <2> QED BY <2>1, <2>2, <2>3
<1>4. DOMAIN yaml = D /\ D \in SUBSET DOMAIN Catalog
  BY <1>1
<1> HIDE DEF Pick, yaml
<1>5. yaml \in [D -> ApiDocs]
  <2> HIDE DEF D
  <2>1. \A i \in D : StripVolatile(Pick(i)) \in ApiDocs
    BY <1>3
  <2> QED BY <1>1, <2>1
<1>6. yaml \in Yamls
  BY <1>4, <1>5, YamlsAre
<1>7. ASSUME Keyed(S), NEW d \in S, Serialized(d)
      PROVE  \E i \in DOMAIN yaml : yaml[i] = StripVolatile(d)
  <2>1. PICK i \in DOMAIN Catalog : Key(d) = Catalog[i]
    BY DEF Listed, Keys, Range
  <2>2. d \in At(i) /\ i \in D
    BY <1>7, <2>1
  <2> HIDE DEF D, At
  <2>3. Key(Pick(i)) = Key(d) /\ Pick(i) \in S /\ yaml[i] = StripVolatile(Pick(i))
    BY <1>3, <2>1, <2>2
  <2>4. Pick(i) = d
    BY <1>7, <2>3 DEF Keyed
  <2> QED BY <1>4, <2>2, <2>3, <2>4
<1>8. \A i \in DOMAIN yaml : \E d \in S :
         Serialized(d) /\ Key(d) = Catalog[i] /\ yaml[i] = StripVolatile(d)
  BY <1>3, <1>4
<1> QED BY <1>6, <1>7, <1>8 DEF yaml

\* A nonempty set of positions has a first one.
LEMMA FirstPosition ==
    ASSUME NEW S, S \subseteq Nat, S # {}
    PROVE  Min(S) \in S /\ \A i \in S : Min(S) <= i
<1> DEFINE R == OpToRel(<, Nat)
<1>1. PICK x \in S : \A y \in S : <<y, x>> \notin R
  <2>1. IsWellFoundedOn(R, Nat)
    BY NatLessThanWellFounded, Zenon
  <2> HIDE DEF R
  <2> QED BY <2>1, WFMin
<1>2. R = {p \in Nat \X Nat : p[1] < p[2]}
  BY Zenon DEF OpToRel
<1> HIDE DEF R
<1>3. ASSUME NEW y \in S
      PROVE  x <= y
  <2>1. <<y, x>> \in Nat \X Nat /\ <<y, x>>[1] = y /\ <<y, x>>[2] = x
    OBVIOUS
  <2>2. ~(y < x)
    BY <1>1, <1>2, <2>1, Zenon
  <2> QED BY <2>2
<1> QED BY <1>1, <1>3 DEF Min

LEMMA PositionsAreNumbers == DOMAIN Catalog \subseteq Nat
BY CatalogAssumption

\* The node of a claim is the pin of a workload among the documents that claims it,
\* if there is a pinned one.
LEMMA NodeOfClaim ==
    ASSUME NEW docs \in Yamls, NEW c
    PROVE  LET pinned == {i \in DOMAIN docs : ClaimsVolume(docs[i], c) /\ docs[i].pin # 0}
           IN /\ pinned = {} => NodeForPVC(docs, c) = 0
              /\ pinned # {} => \E i \in pinned : NodeForPVC(docs, c) = docs[i].pin
<1> DEFINE pinned == {i \in DOMAIN docs : ClaimsVolume(docs[i], c) /\ docs[i].pin # 0}
<1>1. NodeForPVC(docs, c) = IF pinned = {} THEN 0 ELSE docs[Min(pinned)].pin
  BY DEF NodeForPVC
<1>2. pinned \subseteq Nat
  BY YamlDocs, PositionsAreNumbers
<1> HIDE DEF pinned
<1>3. pinned # {} => Min(pinned) \in pinned
  BY <1>2, FirstPosition
<1> QED BY <1>1, <1>3 DEF pinned

LEMMA NodeTyped ==
    ASSUME NEW docs \in Yamls, NEW c
    PROVE  NodeForPVC(docs, c) \in Pins \cup {0}
<1>1. \A i \in DOMAIN docs : docs[i].pin \in Pins \cup {0}
  BY YamlDocs DEF ApiDocs, Listed, Doc
<1> QED BY <1>1, NodeOfClaim

-----------------------------------------------------------------------------
(* Types.                                                                  *)

Contents == UNION {[S -> Versions] : S \in SUBSET Claims}

BackupType ==
    [pc : Stages, pvcs : SUBSET Claims, staged : Yamls, mounted : Yamls,
     job : JobStates, archives : SUBSET Claims, ref : Nat]
SnapshotType ==
    [group : {GroupOf[b] : b \in Backups}, by : Backups \cup {Earlier},
     api : Yamls, data : Contents]
RestoreType ==
    [pc : RestoreStages, of : Backups \cup {Earlier}, ref : Nat, api : Yamls,
     filled : SUBSET Claims]
VolumeType == [data : Versions \cup {Empty}, node : Pins \cup {0, FirstNode}]

\* The fields of a backup.
Is(q, pc, pvcs, staged, mounted, job, archives, ref) ==
    /\ q.pc = pc /\ q.pvcs = pvcs /\ q.staged = staged /\ q.mounted = mounted
    /\ q.job = job /\ q.archives = archives /\ q.ref = ref

\* A step of one backup that leaves it with these fields.
Turns(b, pc, pvcs, staged, mounted, job, archives, ref) ==
    /\ backups' \in [Backups -> BackupType]
    /\ Is(backups'[b], pc, pvcs, staged, mounted, job, archives, ref)
    /\ \A c \in Backups \ {b} : backups'[c] = backups[c]

\* What an update of a backup's record does to it.
LEMMA SelectUpdate ==
    ASSUME NEW q \in BackupType, NEW p \in Stages, NEW x \in SUBSET Claims
    PROVE  /\ [[q EXCEPT !.pvcs = x] EXCEPT !.pc = p] \in BackupType
           /\ Is([[q EXCEPT !.pvcs = x] EXCEPT !.pc = p],
                 p, x, q.staged, q.mounted, q.job, q.archives, q.ref)
<1>1. [[q EXCEPT !.pvcs = x] EXCEPT !.pc = p] \in BackupType
  BY DEF BackupType
<1>2. Is([[q EXCEPT !.pvcs = x] EXCEPT !.pc = p],
         p, x, q.staged, q.mounted, q.job, q.archives, q.ref)
  BY DEF BackupType, Is
<1> QED BY <1>1, <1>2

LEMMA StageUpdate ==
    ASSUME NEW q \in BackupType, NEW p \in Stages, NEW y \in Yamls
    PROVE  /\ [[q EXCEPT !.staged = y] EXCEPT !.pc = p] \in BackupType
           /\ Is([[q EXCEPT !.staged = y] EXCEPT !.pc = p],
                 p, q.pvcs, y, q.mounted, q.job, q.archives, q.ref)
<1>1. [[q EXCEPT !.staged = y] EXCEPT !.pc = p] \in BackupType
  BY DEF BackupType
<1>2. Is([[q EXCEPT !.staged = y] EXCEPT !.pc = p],
         p, q.pvcs, y, q.mounted, q.job, q.archives, q.ref)
  BY DEF BackupType, Is
<1> QED BY <1>1, <1>2

LEMMA LaunchUpdate ==
    ASSUME NEW q \in BackupType, NEW p \in Stages, NEW j \in JobStates
    PROVE  /\ [[q EXCEPT !.job = j, !.archives = q.pvcs] EXCEPT !.pc = p] \in BackupType
           /\ Is([[q EXCEPT !.job = j, !.archives = q.pvcs] EXCEPT !.pc = p],
                 p, q.pvcs, q.staged, q.mounted, j, q.pvcs, q.ref)
<1>1. [[q EXCEPT !.job = j, !.archives = q.pvcs] EXCEPT !.pc = p] \in BackupType
  BY DEF BackupType
<1>2. Is([[q EXCEPT !.job = j, !.archives = q.pvcs] EXCEPT !.pc = p],
         p, q.pvcs, q.staged, q.mounted, j, q.pvcs, q.ref)
  BY DEF BackupType, Is
<1> QED BY <1>1, <1>2

LEMMA MountUpdate ==
    ASSUME NEW q \in BackupType, NEW j \in JobStates
    PROVE  /\ [q EXCEPT !.job = j, !.mounted = q.staged] \in BackupType
           /\ Is([q EXCEPT !.job = j, !.mounted = q.staged],
                 q.pc, q.pvcs, q.staged, q.staged, j, q.archives, q.ref)
<1>1. [q EXCEPT !.job = j, !.mounted = q.staged] \in BackupType
  BY DEF BackupType
<1>2. Is([q EXCEPT !.job = j, !.mounted = q.staged],
         q.pc, q.pvcs, q.staged, q.staged, j, q.archives, q.ref)
  BY DEF BackupType, Is
<1> QED BY <1>1, <1>2

LEMMA AdvanceUpdate ==
    ASSUME NEW q \in BackupType, NEW j \in JobStates
    PROVE  /\ [q EXCEPT !.job = j] \in BackupType
           /\ Is([q EXCEPT !.job = j],
                 q.pc, q.pvcs, q.staged, q.mounted, j, q.archives, q.ref)
<1>1. [q EXCEPT !.job = j] \in BackupType
  BY DEF BackupType
<1>2. Is([q EXCEPT !.job = j],
         q.pc, q.pvcs, q.staged, q.mounted, j, q.archives, q.ref)
  BY DEF BackupType, Is
<1> QED BY <1>1, <1>2

LEMMA ListUpdate ==
    ASSUME NEW q \in BackupType, NEW j \in JobStates, NEW n \in Nat
    PROVE  /\ [q EXCEPT !.job = j, !.ref = n] \in BackupType
           /\ Is([q EXCEPT !.job = j, !.ref = n],
                 q.pc, q.pvcs, q.staged, q.mounted, j, q.archives, n)
<1>1. [q EXCEPT !.job = j, !.ref = n] \in BackupType
  BY DEF BackupType
<1>2. Is([q EXCEPT !.job = j, !.ref = n],
         q.pc, q.pvcs, q.staged, q.mounted, j, q.archives, n)
  BY DEF BackupType, Is
<1> QED BY <1>1, <1>2

LEMMA BackupPut ==
    ASSUME backups \in [Backups -> BackupType], NEW b \in Backups, NEW r \in BackupType,
           NEW pc, NEW pvcs, NEW staged, NEW mounted, NEW job, NEW archives, NEW ref,
           Is(r, pc, pvcs, staged, mounted, job, archives, ref),
           backups' = [backups EXCEPT ![b] = r]
    PROVE  Turns(b, pc, pvcs, staged, mounted, job, archives, ref)
BY DEF Turns

\* What each operation makes of a backup.
LEMMA SelectDoes ==
    ASSUME backups \in [Backups -> BackupType], NEW b \in Backups, SelectPVCs(b),
           Selected(b) \in SUBSET Claims
    PROVE  LET q == backups[b]
           IN Turns(b, "serialize", Selected(b), q.staged, q.mounted, q.job, q.archives, q.ref)
<1> DEFINE r == [[backups[b] EXCEPT !.pvcs = Selected(b)] EXCEPT !.pc = "serialize"]
<1>1. backups' = [backups EXCEPT ![b] = r]
  BY DEF SelectPVCs, Put
<1>2. "serialize" \in Stages /\ backups[b] \in BackupType
  BY DEF Stages
<1>3. /\ r \in BackupType
      /\ Is(r, "serialize", Selected(b), backups[b].staged, backups[b].mounted, backups[b].job,
            backups[b].archives, backups[b].ref)
  BY <1>2, SelectUpdate
<1> HIDE DEF r
<1> QED BY <1>1, <1>3, BackupPut

LEMMA StageDoes ==
    ASSUME backups \in [Backups -> BackupType], NEW b \in Backups, Stage(b),
           SerializeNamespace(objects[SourceOf[b]]) \in Yamls
    PROVE  LET q == backups[b]
           IN Turns(b, Later(b), q.pvcs, SerializeNamespace(objects[SourceOf[b]]), q.mounted,
                    q.job, q.archives, q.ref)
<1> DEFINE yaml == SerializeNamespace(objects[SourceOf[b]])
           r == [[backups[b] EXCEPT !.staged = yaml] EXCEPT !.pc = Later(b)]
<1>1. backups' = [backups EXCEPT ![b] = r]
  BY DEF Stage, Put
<1> HIDE DEF yaml
<1>2. Later(b) \in Stages /\ backups[b] \in BackupType /\ yaml \in Yamls
  BY DEF Stages, Later, yaml
<1>3. /\ r \in BackupType
      /\ Is(r, Later(b), backups[b].pvcs, yaml, backups[b].mounted, backups[b].job,
            backups[b].archives, backups[b].ref)
  BY <1>2, StageUpdate
<1> HIDE DEF r
<1>4. Turns(b, Later(b), backups[b].pvcs, yaml, backups[b].mounted, backups[b].job,
            backups[b].archives, backups[b].ref)
  BY <1>1, <1>3, BackupPut
<1> QED BY <1>4 DEF yaml

LEMMA LaunchDoes ==
    ASSUME backups \in [Backups -> BackupType], NEW b \in Backups, Launch(b)
    PROVE  LET q == backups[b]
           IN Turns(b, "serialize", q.pvcs, q.staged, q.mounted, "pending", q.pvcs, q.ref)
<1> DEFINE r == [[backups[b] EXCEPT !.job = "pending", !.archives = backups[b].pvcs]
                   EXCEPT !.pc = "serialize"]
<1>1. backups' = [backups EXCEPT ![b] = r]
  BY DEF Launch, Put
<1>2. "serialize" \in Stages /\ "pending" \in JobStates /\ backups[b] \in BackupType
  BY DEF Stages, JobStates
<1>3. /\ r \in BackupType
      /\ Is(r, "serialize", backups[b].pvcs, backups[b].staged, backups[b].mounted, "pending",
            backups[b].pvcs, backups[b].ref)
  BY <1>2, LaunchUpdate
<1> HIDE DEF r
<1> QED BY <1>1, <1>3, BackupPut

LEMMA MountDoes ==
    ASSUME backups \in [Backups -> BackupType], NEW b \in Backups, Mount(b)
    PROVE  LET q == backups[b]
           IN Turns(b, q.pc, q.pvcs, q.staged, q.staged, "running", q.archives, q.ref)
<1> DEFINE r == [backups[b] EXCEPT !.job = "running", !.mounted = backups[b].staged]
<1>1. backups' = [backups EXCEPT ![b] = r]
  BY DEF Mount
<1>2. "running" \in JobStates /\ backups[b] \in BackupType
  BY DEF JobStates
<1>3. /\ r \in BackupType
      /\ Is(r, backups[b].pc, backups[b].pvcs, backups[b].staged, backups[b].staged, "running",
            backups[b].archives, backups[b].ref)
  BY <1>2, MountUpdate
<1> HIDE DEF r
<1> QED BY <1>1, <1>3, BackupPut

LEMMA AdvanceDoes ==
    ASSUME backups \in [Backups -> BackupType], NEW b \in Backups, NEW j \in JobStates,
           Advance(b, j)
    PROVE  LET q == backups[b]
           IN Turns(b, q.pc, q.pvcs, q.staged, q.mounted, j, q.archives, q.ref)
<1> DEFINE r == [backups[b] EXCEPT !.job = j]
<1>1. backups' = [backups EXCEPT ![b] = r] /\ backups[b] \in BackupType
  BY DEF Advance
<1>2. /\ r \in BackupType
      /\ Is(r, backups[b].pc, backups[b].pvcs, backups[b].staged, backups[b].mounted, j,
            backups[b].archives, backups[b].ref)
  BY <1>1, AdvanceUpdate
<1> HIDE DEF r
<1> QED BY <1>1, <1>2, BackupPut

LEMMA ListDoes ==
    ASSUME backups \in [Backups -> BackupType], NEW b \in Backups, List(b), kept \subseteq Nat
    PROVE  LET q == backups[b]
           IN \/ Turns(b, q.pc, q.pvcs, q.staged, q.mounted, "failed", q.archives, q.ref)
              \/ \E t \in kept :
                    Turns(b, q.pc, q.pvcs, q.staged, q.mounted, "listed", q.archives, t)
<1>1. CASE Advance(b, "failed")
  BY <1>1, AdvanceDoes DEF JobStates
<1>2. ASSUME NEW t \in kept, backups' = [backups EXCEPT ![b].job = "listed", ![b].ref = t]
      PROVE  LET q == backups[b]
             IN Turns(b, q.pc, q.pvcs, q.staged, q.mounted, "listed", q.archives, t)
  <2> DEFINE r == [backups[b] EXCEPT !.job = "listed", !.ref = t]
  <2>1. backups' = [backups EXCEPT ![b] = r]
    BY <1>2
  <2>2. "listed" \in JobStates /\ backups[b] \in BackupType /\ t \in Nat
    BY DEF JobStates
  <2>3. /\ r \in BackupType
        /\ Is(r, backups[b].pc, backups[b].pvcs, backups[b].staged, backups[b].mounted, "listed",
              backups[b].archives, t)
    BY <2>2, ListUpdate
  <2> HIDE DEF r
  <2> QED BY <2>1, <2>3, BackupPut
<1> QED BY <1>1, <1>2 DEF List, LatestSnapshot, InGroup

\* The positions of the documents of some kinds that a restore wants.
WantedOf(docs, kinds) ==
    {i \in DOMAIN docs : Wanted(docs[i], Drop, Keep) /\ docs[i].kind \in kinds}
PreKinds == Kinds \ (WorkloadKinds \cup ClusterScopedKinds)

\* What the two apply Jobs of a restore apply.
PreDocs == Range(Buckets.ns) \cup Range(Buckets.crds) \cup Range(Buckets.pre)
WorkDocs == Range(Buckets.work)

LEMMA BucketsAre ==
    /\ PreDocs = {Docs[i] : i \in WantedOf(Docs, {"Namespace"})}
                 \cup {Docs[i] : i \in WantedOf(Docs, {"CustomResourceDefinition"})}
                 \cup {Docs[i] : i \in WantedOf(Docs, PreKinds)}
    /\ WorkDocs = {Docs[i] : i \in WantedOf(Docs, WorkloadKinds)}
    /\ Planned = {Docs[i].name : i \in {j \in WantedOf(Docs, PreKinds) : Docs[j].kind = PVC}}
<1> DEFINE Pick(K) == Restrict(Docs, WantedOf(Docs, K))
<1>1. /\ Buckets.ns = Pick({"Namespace"}) /\ Buckets.crds = Pick({"CustomResourceDefinition"})
      /\ Buckets.pre = Pick(PreKinds) /\ Buckets.work = Pick(WorkloadKinds)
  BY DEF Buckets, BucketDocs, WantedOf, PreKinds
<1>2. \A K : /\ DOMAIN Pick(K) = WantedOf(Docs, K)
             /\ \A i \in WantedOf(Docs, K) : Pick(K)[i] = Docs[i]
  BY DEF Restrict
<1> HIDE DEF Pick
<1>3. \A K : Range(Pick(K)) = {Docs[i] : i \in WantedOf(Docs, K)}
  BY <1>2 DEF Range
<1>4. Planned = {Docs[i].name : i \in {j \in WantedOf(Docs, PreKinds) : Docs[j].kind = PVC}}
  BY <1>1, <1>2 DEF Planned, PVCsFromDocs
<1> QED BY <1>1, <1>3, <1>4 DEF PreDocs, WorkDocs

LEMMA DocsTyped ==
    ASSUME restore.api \in Yamls
    PROVE  Docs \in Yamls /\ PreDocs \subseteq ApiDocs /\ WorkDocs \subseteq ApiDocs
<1>1. Docs \in Yamls
  BY ParsedDocs DEF Docs
<1>2. \A i \in DOMAIN Docs : Docs[i] \in ApiDocs
  BY <1>1, YamlDocs
<1> QED BY <1>1, <1>2, BucketsAre DEF WantedOf

-----------------------------------------------------------------------------
(* Type correctness.  Beside the types proper: the version of a volume is  *)
(* bounded by the writes there were, the number of snapshots by the        *)
(* backups that have uploaded, and no reference is ahead of the snapshots. *)

Pending == {b \in Backups : Before(b)}

ObjectsTyped == objects \in [Sources \cup {Target} -> SUBSET Listed]
DiskTyped ==
    /\ fuel \in 0..MaxFaults /\ disk \in [Sources -> [Claims -> Nat]]
    /\ \A s \in Sources, c \in Claims : 1 <= disk[s][c] /\ disk[s][c] + fuel <= MaxFaults + 1
BackupsTyped ==
    /\ backups \in [Backups -> BackupType]
    /\ \A b \in Backups :
          /\ backups[b].pc \in {"select", "launch"} => backups[b].job = "none"
          /\ backups[b].ref <= Len(taken)
          /\ backups[b].job \in {"listed", "ok"} => backups[b].ref # 0
SnapshotsTyped ==
    /\ taken \in Seq(SnapshotType) /\ 1 <= Len(taken)
    /\ Len(taken) + Cardinality(Pending) <= MaxTime
    /\ taken[1].by = Earlier /\ DOMAIN taken[1].api = {}
    /\ \A t \in 2..Len(taken) : taken[t].by \in Backups
    /\ kept \subseteq 1..Len(taken)
RestoreTyped ==
    /\ restore \in RestoreType /\ volumes \in [Claims -> VolumeType]
    /\ restore.pc # "new" => restore.of \in Backups /\ restore.ref \in 1..Len(taken)
    /\ restore.pc = "new" => restore.filled = {}

TypeInv == ObjectsTyped /\ DiskTyped /\ BackupsTyped /\ SnapshotsTyped /\ RestoreTyped

LEMMA InputsListed ==
    /\ \A s \in Sources \cup {Target} : InitObjects[s] \subseteq Listed
    /\ Edits \subseteq Listed
BY PathInputs DEF ObjectsIn, Listed

LEMMA TypesAtStart ==
    ASSUME Init
    PROVE  TypeInv
<1>1. ObjectsTyped
  <2>1. objects = InitObjects /\ DOMAIN InitObjects = Sources \cup {Target}
    BY PathInputs DEF Init
  <2>2. InitObjects \in [Sources \cup {Target} -> SUBSET Listed]
    BY <2>1, InputsListed, PathInputs
  <2> QED BY <2>1, <2>2 DEF ObjectsTyped
<1>2. DiskTyped
  BY PathBounds DEF Init, DiskTyped
<1>3. PICK a \in Backups :
         taken = <<[group |-> GroupOf[a], by |-> Earlier, api |-> <<>>,
                    data |-> [c \in {} |-> 1]]>>
  BY DEF Init
<1> DEFINE v == [group |-> GroupOf[a], by |-> Earlier, api |-> <<>>, data |-> [c \in {} |-> 1]]
<1>4. v \in SnapshotType /\ v.by = Earlier /\ DOMAIN v.api = {}
  <2>1. GroupOf[a] \in {GroupOf[b] : b \in Backups}
    OBVIOUS
  <2>2. [c \in {} |-> 1] \in Contents
    <3>1. [c \in {} |-> 1] \in [{} -> Versions] /\ {} \in SUBSET Claims
      OBVIOUS
    <3> QED BY <3>1, Zenon DEF Contents
  <2> QED BY <2>1, <2>2, EmptyYaml DEF SnapshotType
<1>5. taken = <<v>>
  BY <1>3
<1> HIDE DEF v
<1>6. taken \in Seq(SnapshotType) /\ Len(taken) = 1 /\ taken[1] = v
  BY <1>4, <1>5
<1>7. /\ NewBackup \in BackupType /\ NewBackup.pc = "select"
      /\ NewBackup.job = "none" /\ NewBackup.ref = 0
  BY EmptyYaml DEF NewBackup, BackupType, Stages, JobStates
<1>8. backups = [b \in Backups |-> NewBackup]
  BY DEF Init
<1>9. BackupsTyped
  <2> HIDE DEF NewBackup
  <2> QED BY <1>6, <1>7, <1>8 DEF BackupsTyped
<1>10. SnapshotsTyped
  <2>1. Pending \in SUBSET Backups /\ Cardinality(Pending) <= Cardinality(Backups)
    BY FS_Subset, PathBounds DEF Pending
  <2>2. Cardinality(Pending) \in Nat /\ Cardinality(Backups) \in Nat
    BY <2>1, FS_Subset, FS_CardinalityType, PathBounds
  <2>3. Len(taken) + Cardinality(Pending) <= MaxTime
    BY <1>6, <2>1, <2>2 DEF MaxTime
  <2>4. kept = {1} /\ 2..Len(taken) = {}
    BY <1>6 DEF Init
  <2> QED BY <1>4, <1>6, <2>3, <2>4 DEF SnapshotsTyped
<1>11. RestoreTyped
  <2>1. NewRestore \in RestoreType /\ NewRestore.pc = "new" /\ NewRestore.filled = {}
    BY EmptyYaml DEF NewRestore, RestoreType, RestoreStages
  <2>2. [data |-> Empty, node |-> 0] \in VolumeType
    BY DEF VolumeType
  <2> HIDE DEF NewRestore
  <2> QED BY <2>1, <2>2 DEF Init, RestoreTyped
<1> QED BY <1>1, <1>2, <1>9, <1>10, <1>11 DEF TypeInv

\* What a user may edit and what a restore applies is listed.
LEMMA ObjectsStayTyped ==
    ASSUME TypeInv, [Next]_vars
    PROVE  ObjectsTyped'
<1>1. ObjectsTyped /\ restore.api \in Yamls
  BY DEF TypeInv, RestoreTyped, RestoreType
<1>2. ASSUME NEW docs, docs \subseteq Listed, Apply(docs)
      PROVE  ObjectsTyped'
  <2>1. Upsert(objects[Target], docs) \subseteq Listed
    BY <1>1, <1>2 DEF ObjectsTyped, Upsert
  <2> QED BY <1>1, <1>2, <2>1 DEF ObjectsTyped, Apply
<1>3. CASE ApplyPre
  BY <1>1, <1>2, <1>3, DocsTyped DEF ApplyPre, PreDocs, ApiDocs
<1>4. CASE ApplyWorkload
  BY <1>1, <1>2, <1>4, DocsTyped DEF ApplyWorkload, WorkDocs, ApiDocs
<1>5. ASSUME NEW s \in Sources, NEW d \in Edits, EditObject(s, d) \/ DeleteObject(s, d)
      PROVE  ObjectsTyped'
  <2>1. d \in Listed
    BY InputsListed
  <2>2. PICK new : new \subseteq Listed /\ objects' = [objects EXCEPT ![s] = new]
    BY <1>1, <1>5, <2>1 DEF EditObject, DeleteObject, Change, ObjectsTyped
  <2> QED BY <1>1, <2>2 DEF ObjectsTyped
<1>6. CASE objects' = objects
  BY <1>1, <1>6 DEF ObjectsTyped
<1> QED BY <1>3, <1>4, <1>5, <1>6 DEF Next, vars, SelectPVCs, Stage, Launch, Mount, Upload, List,
      Report, ClientFails, BeginRestore, Fetch, FillVolume, WriteData, Prune

\* Every write uses up a unit of fuel.
LEMMA DiskStaysTyped ==
    ASSUME TypeInv, [Next]_vars
    PROVE  DiskTyped'
<1>1. DiskTyped /\ MaxFaults \in Nat
  BY PathBounds DEF TypeInv
<1>2. CASE UNCHANGED <<disk, fuel>>
  BY <1>1, <1>2 DEF DiskTyped
<1>3. ASSUME disk' = disk, NEW kind, Fault(kind)
      PROVE  DiskTyped'
  BY <1>1, <1>3 DEF DiskTyped, Fault
<1>4. ASSUME NEW s \in Sources, NEW c \in Claims, WriteData(s, c)
      PROVE  DiskTyped'
  <2>1. /\ disk' = [disk EXCEPT ![s][c] = disk[s][c] + 1]
        /\ fuel > 0 /\ fuel' = fuel - 1
    BY <1>4 DEF WriteData, Fault
  <2>2. disk[s] \in [Claims -> Nat] /\ disk[s][c] \in Nat
    BY <1>1 DEF DiskTyped
  <2>3. disk' \in [Sources -> [Claims -> Nat]]
    BY <1>1, <2>1, <2>2 DEF DiskTyped
  <2>4. \A r \in Sources, e \in Claims : disk'[r][e] = disk[r][e] \/ disk'[r][e] = disk[r][e] + 1
    BY <1>1, <2>1, <2>2 DEF DiskTyped
  <2> QED BY <1>1, <2>1, <2>3, <2>4 DEF DiskTyped
<1> QED BY <1>2, <1>3, <1>4 DEF Next, vars, SelectPVCs, Stage, Launch, Mount, Upload, List,
      Report, ClientFails, BeginRestore, Fetch, FillVolume, EditObject, DeleteObject, Change,
      Prune, ApplyPre, ApplyWorkload

LEMMA SnapshotsStay ==
    ASSUME SnapshotsTyped, Pending' \subseteq Pending, taken' = taken, kept' \subseteq kept
    PROVE  SnapshotsTyped'
<1>1. IsFiniteSet(Pending) /\ Cardinality(Pending) \in Nat
  BY FS_Subset, FS_CardinalityType, PathBounds DEF Pending
<1>2. Cardinality(Pending') <= Cardinality(Pending) /\ Cardinality(Pending') \in Nat
  BY <1>1, FS_Subset, FS_CardinalityType
<1>3. Len(taken) \in Nat /\ MaxTime \in Nat
  BY FS_CardinalityType, PathBounds DEF SnapshotsTyped, MaxTime
<1>4. Len(taken') + Cardinality(Pending') <= MaxTime
  BY <1>1, <1>2, <1>3 DEF SnapshotsTyped
<1> QED BY <1>4 DEF SnapshotsTyped, MaxTime

\* A step of a backup other than its upload.
LEMMA BackupTurns ==
    ASSUME TypeInv, NEW b \in Backups,
           NEW pc, NEW pvcs, NEW staged, NEW mounted, NEW job, NEW archives, NEW ref,
           Turns(b, pc, pvcs, staged, mounted, job, archives, ref), UNCHANGED <<taken, kept>>,
           pc \in {"select", "launch"} => job = "none",
           ref <= Len(taken), job \in {"listed", "ok"} => ref # 0,
           job \in {"none", "pending", "running"} => Before(b)
    PROVE  BackupsTyped' /\ SnapshotsTyped'
<1>1. /\ backups' \in [Backups -> BackupType]
      /\ backups'[b].pc = pc /\ backups'[b].job = job /\ backups'[b].ref = ref
      /\ \A c \in Backups \ {b} : backups'[c] = backups[c]
  BY DEF Turns, Is
<1>2. Pending' \subseteq Pending
  BY <1>1 DEF Pending, Before
<1>3. BackupsTyped'
  BY <1>1 DEF TypeInv, BackupsTyped
<1> QED BY <1>2, <1>3, SnapshotsStay DEF TypeInv

\* What b uploads, and where it lands.
Uploaded(b) ==
    [group |-> GroupOf[b], by |-> b, api |-> backups[b].mounted,
     data |-> [c \in backups[b].archives |-> disk[SourceOf[b]][c]]]

LEMMA UploadDoes ==
    ASSUME TypeInv, NEW b \in Backups, Upload(b)
    PROVE  /\ Turns(b, backups[b].pc, backups[b].pvcs, backups[b].staged, backups[b].mounted,
                    "uploaded", backups[b].archives, backups[b].ref)
           /\ Uploaded(b) \in SnapshotType
           /\ taken' \in Seq(SnapshotType) /\ Len(taken) \in Nat /\ Len(taken') = Len(taken) + 1
           /\ taken'[Len(taken) + 1] = Uploaded(b)
           /\ \A t \in 1..Len(taken) : taken'[t] = taken[t]
           /\ kept' = kept \cup {Len(taken) + 1}
<1>1. backups \in [Backups -> BackupType] /\ backups[b] \in BackupType
  BY DEF TypeInv, BackupsTyped
<1>2. Turns(b, backups[b].pc, backups[b].pvcs, backups[b].staged, backups[b].mounted,
            "uploaded", backups[b].archives, backups[b].ref)
  <2>1. Advance(b, "uploaded") /\ "uploaded" \in JobStates
    BY DEF Upload, JobStates
  <2> QED BY <1>1, <2>1, AdvanceDoes
<1>3. Uploaded(b) \in SnapshotType
  <2> DEFINE A == backups[b].archives
             f == [c \in A |-> disk[SourceOf[b]][c]]
             y == backups[b].mounted
  <2>1. A \in SUBSET Claims /\ y \in Yamls /\ SourceOf[b] \in Sources
    BY <1>1, PathInputs DEF BackupType
  <2>2. \A c \in A : disk[SourceOf[b]][c] \in Versions
    <3>1. \A c \in Claims : /\ disk[SourceOf[b]][c] \in Nat /\ 1 <= disk[SourceOf[b]][c]
                            /\ disk[SourceOf[b]][c] + fuel <= MaxFaults + 1
      BY <2>1 DEF TypeInv, DiskTyped
    <3>2. fuel \in Nat /\ MaxFaults \in Nat
      BY PathBounds DEF TypeInv, DiskTyped
    <3> QED BY <2>1, <3>1, <3>2 DEF Versions
  <2> HIDE DEF A
  <2>3. f \in [A -> Versions]
    BY <2>2
  <2> HIDE DEF f, y
  <2>4. f \in Contents
    BY <2>1, <2>3 DEF Contents
  <2>5. Uploaded(b) = [group |-> GroupOf[b], by |-> b, api |-> y, data |-> f]
    BY DEF Uploaded, A, f, y
  <2> QED BY <2>1, <2>4, <2>5 DEF SnapshotType
<1>4. taken' = Append(taken, Uploaded(b)) /\ kept' = kept \cup {Len(taken')}
  BY DEF Upload, Uploaded
<1>5. taken \in Seq(SnapshotType)
  BY DEF TypeInv, SnapshotsTyped
<1>6. /\ taken' \in Seq(SnapshotType) /\ Len(taken) \in Nat /\ Len(taken') = Len(taken) + 1
      /\ taken'[Len(taken) + 1] = Uploaded(b)
      /\ \A t \in 1..Len(taken) : taken'[t] = taken[t]
  BY <1>3, <1>4, <1>5, AppendProperties
<1> QED BY <1>2, <1>3, <1>4, <1>6

LEMMA UploadTyped ==
    ASSUME TypeInv, NEW b \in Backups, Upload(b)
    PROVE  BackupsTyped' /\ SnapshotsTyped'
<1> DEFINE n == Len(taken)
<1>1. /\ Turns(b, backups[b].pc, backups[b].pvcs, backups[b].staged, backups[b].mounted,
               "uploaded", backups[b].archives, backups[b].ref)
      /\ taken' \in Seq(SnapshotType) /\ n \in Nat /\ Len(taken') = n + 1
      /\ taken'[n + 1] = Uploaded(b) /\ \A t \in 1..n : taken'[t] = taken[t]
      /\ kept' = kept \cup {n + 1}
  BY UploadDoes
<1>2. /\ 1 <= n /\ n + Cardinality(Pending) <= MaxTime /\ kept \subseteq 1..n
      /\ taken[1].by = Earlier /\ DOMAIN taken[1].api = {}
      /\ \A t \in 2..n : taken[t].by \in Backups
  BY DEF TypeInv, SnapshotsTyped
<1> HIDE DEF n
<1>3. /\ backups' \in [Backups -> BackupType]
      /\ backups'[b].pc = backups[b].pc /\ backups'[b].job = "uploaded"
      /\ backups'[b].ref = backups[b].ref
      /\ \A c \in Backups \ {b} : backups'[c] = backups[c]
  BY <1>1 DEF Turns, Is
<1>4. backups[b].job = "running"
  BY DEF Upload
<1>5. BackupsTyped'
  <2>1. \A c \in Backups : backups[c].ref \in Nat /\ backups[c].ref <= n
    BY DEF TypeInv, BackupsTyped, BackupType, n
  <2>2. \A c \in Backups : backups'[c].ref <= Len(taken')
    BY <1>1, <1>3, <2>1
  <2>3. \A c \in Backups : /\ backups'[c].pc \in {"select", "launch"} => backups'[c].job = "none"
                           /\ backups'[c].job \in {"listed", "ok"} => backups'[c].ref # 0
    BY <1>3, <1>4 DEF TypeInv, BackupsTyped
  <2> QED BY <1>3, <2>2, <2>3 DEF BackupsTyped
<1>6. n + 1 + Cardinality(Pending') <= MaxTime
  <2>1. Pending' = Pending \ {b} /\ b \in Pending
    BY <1>3, <1>4 DEF Pending, Before
  <2>2. IsFiniteSet(Pending) /\ Cardinality(Pending) \in Nat
    BY FS_Subset, FS_CardinalityType, PathBounds DEF Pending
  <2>3. Cardinality(Pending') = Cardinality(Pending) - 1
    BY <2>1, <2>2, FS_RemoveElement
  <2>4. MaxTime \in Nat
    BY FS_CardinalityType, PathBounds DEF MaxTime
  <2> QED BY <1>1, <1>2, <2>2, <2>3, <2>4
<1>7. Uploaded(b).by \in Backups
  BY DEF Uploaded
<1>8. \A t \in 2..(n + 1) : taken'[t].by \in Backups
  <2>1. n \in Nat
    BY <1>1
  <2>2. \A t \in 2..(n + 1) : t = n + 1 \/ (t \in 2..n /\ t \in 1..n)
    BY <2>1
  <2> QED BY <1>1, <1>2, <1>7, <2>2
<1>9. taken'[1] = taken[1] /\ kept' \subseteq 1..(n + 1) /\ 1 <= n + 1
  <2>1. n \in Nat /\ 1 <= n /\ kept \subseteq 1..n /\ kept' = kept \cup {n + 1}
    BY <1>1, <1>2
  <2>2. kept' \subseteq 1..(n + 1) /\ 1 \in 1..n /\ 1 <= n + 1
    BY <2>1
  <2> QED BY <1>1, <2>2
<1> QED BY <1>1, <1>2, <1>5, <1>6, <1>8, <1>9 DEF SnapshotsTyped, MaxTime

LEMMA ClaimNames ==
    ASSUME NEW d \in Listed, d.kind = PVC
    PROVE  d.name \in Claims
<1>1. Key(d) \in Keys /\ Key(d)[1] = PVC /\ Key(d)[2] = d.name
  BY DEF Listed, Key
<1> QED BY <1>1, Zenon DEF Claims

LEMMA SelectedTyped ==
    ASSUME TypeInv, NEW b \in Backups
    PROVE  Selected(b) \in SUBSET Claims
<1>1. SourceOf[b] \in Sources /\ PicksOf[b] \in SUBSET Claims
  BY PathInputs
<1>2. objects[SourceOf[b]] \subseteq Listed
  BY <1>1 DEF TypeInv, ObjectsTyped
<1>3. \A d \in objects[SourceOf[b]] : d.kind = PVC => d.name \in Claims
  BY <1>2, ClaimNames
<1> QED BY <1>1, <1>3 DEF Selected

LEMMA StagedTyped ==
    ASSUME TypeInv, NEW b \in Backups
    PROVE  SerializeNamespace(objects[SourceOf[b]]) \in Yamls
<1>1. objects[SourceOf[b]] \subseteq Listed
  BY PathInputs DEF TypeInv, ObjectsTyped
<1> QED BY <1>1, SerializeRenders

LEMMA BackupsStayTyped ==
    ASSUME TypeInv, [Next]_vars
    PROVE  BackupsTyped' /\ SnapshotsTyped'
<1>1. /\ backups \in [Backups -> BackupType] /\ kept \subseteq Nat
      /\ kept \subseteq 1..Len(taken) /\ Len(taken) \in Nat
  BY DEF TypeInv, BackupsTyped, SnapshotsTyped
<1>2. \A b \in Backups :
         /\ backups[b].pc \in {"select", "launch"} => backups[b].job = "none"
         /\ backups[b].ref <= Len(taken) /\ backups[b].ref \in Nat
         /\ backups[b].job \in {"listed", "ok"} => backups[b].ref # 0
         /\ backups[b].job \in {"none", "pending", "running"} => Before(b)
  BY <1>1 DEF TypeInv, BackupsTyped, BackupType, Before
<1>3. ASSUME NEW b \in Backups, SelectPVCs(b)
      PROVE  BackupsTyped' /\ SnapshotsTyped'
  BY <1>1, <1>2, <1>3, SelectDoes, SelectedTyped, BackupTurns DEF SelectPVCs
<1>4. ASSUME NEW b \in Backups, Stage(b)
      PROVE  BackupsTyped' /\ SnapshotsTyped'
  <2>1. Later(b) \in {"select", "launch"} => backups[b].job = "none"
    BY DEF Later
  <2> QED BY <1>1, <1>2, <1>4, <2>1, StageDoes, StagedTyped, BackupTurns DEF Stage
<1>5. ASSUME NEW b \in Backups, Launch(b)
      PROVE  BackupsTyped' /\ SnapshotsTyped'
  <2>1. backups[b].job = "none" /\ Before(b) /\ UNCHANGED <<taken, kept>>
    BY <1>2, <1>5 DEF Launch
  <2> QED BY <1>1, <1>2, <1>5, <2>1, LaunchDoes, BackupTurns
<1>6. ASSUME NEW b \in Backups, Mount(b)
      PROVE  BackupsTyped' /\ SnapshotsTyped'
  <2>1. /\ backups[b].job \in {"pending", "running"} /\ Before(b) /\ UNCHANGED <<taken, kept>>
        /\ backups[b].pc \notin {"select", "launch"}
    BY <1>2, <1>6 DEF Mount
  <2> QED BY <1>1, <1>2, <1>6, <2>1, MountDoes, BackupTurns
<1>7. ASSUME NEW b \in Backups, NEW j \in JobStates, Advance(b, j), UNCHANGED <<taken, kept>>,
             j \notin {"none", "pending", "running"}, backups[b].job # "none",
             j \in {"listed", "ok"} => backups[b].ref # 0
      PROVE  BackupsTyped' /\ SnapshotsTyped'
  <2>1. backups[b].pc \notin {"select", "launch"}
    BY <1>2, <1>7
  <2> QED BY <1>1, <1>2, <1>7, <2>1, AdvanceDoes, BackupTurns
<1>8. ASSUME NEW b \in Backups, List(b)
      PROVE  BackupsTyped' /\ SnapshotsTyped'
  <2>1. /\ backups[b].job = "uploaded" /\ UNCHANGED <<taken, kept>>
        /\ backups[b].pc \notin {"select", "launch"}
    BY <1>2, <1>8 DEF List
  <2>2. \A t \in kept : t <= Len(taken) /\ t # 0
    BY <1>1
  <2> DEFINE q == backups[b]
  <2>3. CASE Turns(b, q.pc, q.pvcs, q.staged, q.mounted, "failed", q.archives, q.ref)
    BY <1>2, <2>1, <2>3, BackupTurns
  <2>4. ASSUME NEW t \in kept,
               Turns(b, q.pc, q.pvcs, q.staged, q.mounted, "listed", q.archives, t)
        PROVE  BackupsTyped' /\ SnapshotsTyped'
    BY <2>1, <2>2, <2>4, BackupTurns
  <2> QED BY <1>1, <1>8, <2>3, <2>4, ListDoes
<1>9. ASSUME NEW b \in Backups, Report(b) \/ ClientFails(b)
      PROVE  BackupsTyped' /\ SnapshotsTyped'
  <2>1. \/ Advance(b, "ok") /\ backups[b].job = "listed"
        \/ Advance(b, "failed") /\ backups[b].job \in {"running", "uploaded"}
    BY <1>9 DEF Report, ClientFails
  <2>2. UNCHANGED <<taken, kept>> /\ "ok" \in JobStates /\ "failed" \in JobStates
    BY <1>9 DEF Report, ClientFails, JobStates
  <2> QED BY <1>2, <1>7, <2>1, <2>2
<1>10. CASE UNCHANGED <<backups, taken>> /\ kept' \subseteq kept
  <2>1. Pending' = Pending
    BY <1>10 DEF Pending, Before
  <2> QED BY <1>10, <2>1, SnapshotsStay DEF TypeInv, BackupsTyped
<1> QED BY <1>3, <1>4, <1>5, <1>6, <1>8, <1>9, <1>10, UploadTyped DEF Next, vars,
      BeginRestore, Fetch, FillVolume, EditObject, DeleteObject, Change, WriteData,
      Prune, ApplyPre, ApplyWorkload

\* A step that leaves the restore with these fields.
Goes(pc, of, ref, api, filled) ==
    /\ restore' \in RestoreType
    /\ restore'.pc = pc /\ restore'.of = of /\ restore'.ref = ref
    /\ restore'.api = api /\ restore'.filled = filled

LEMMA StepDoes ==
    ASSUME restore \in RestoreType, NEW pc \in RestoreStages, Step(pc, restore)
    PROVE  Goes(pc, restore.of, restore.ref, restore.api, restore.filled)
<1>1. restore' = [restore EXCEPT !.pc = pc]
  BY DEF Step
<1>2. restore' \in RestoreType
  BY <1>1 DEF RestoreType
<1>3. /\ restore'.pc = pc /\ restore'.of = restore.of /\ restore'.ref = restore.ref
      /\ restore'.api = restore.api /\ restore'.filled = restore.filled
  BY <1>1 DEF RestoreType
<1> QED BY <1>2, <1>3 DEF Goes

LEMMA BeginDoes ==
    ASSUME TypeInv, NEW b \in Backups, BeginRestore(b)
    PROVE  Goes("fetch", b, backups[b].ref, restore.api, restore.filled)
<1> DEFINE n == backups[b].ref
<1>1. restore \in RestoreType /\ n \in Nat
  BY DEF TypeInv, RestoreTyped, BackupsTyped, BackupType
<1>2. restore' = [[restore EXCEPT !.of = b, !.ref = n] EXCEPT !.pc = "fetch"]
  BY DEF BeginRestore, Step
<1> HIDE DEF n
<1>3. restore' \in RestoreType
  BY <1>1, <1>2 DEF RestoreType, RestoreStages
<1>4. /\ restore'.pc = "fetch" /\ restore'.of = b /\ restore'.ref = n
      /\ restore'.api = restore.api /\ restore'.filled = restore.filled
  BY <1>1, <1>2 DEF RestoreType
<1>5. Goes("fetch", b, n, restore.api, restore.filled)
  BY <1>3, <1>4 DEF Goes
<1> QED BY <1>5 DEF n

LEMMA SnapshotsAre ==
    ASSUME TypeInv, NEW t \in 1..Len(taken)
    PROVE  /\ taken[t] \in SnapshotType
           /\ taken[t].api \in Yamls /\ taken[t].data \in Contents
<1>1. taken \in Seq(SnapshotType)
  BY DEF TypeInv, SnapshotsTyped
<1>2. taken[t] \in SnapshotType
  BY <1>1
<1> QED BY <1>2 DEF SnapshotType

LEMMA FetchDoes ==
    ASSUME TypeInv, Fetch
    PROVE  /\ restore.ref \in kept
                => /\ taken[restore.ref] \in SnapshotType
                   /\ Goes("pre", restore.of, restore.ref, taken[restore.ref].api, restore.filled)
           /\ restore.ref \notin kept
                => Goes("failed", restore.of, restore.ref, restore.api, restore.filled)
<1>1. restore \in RestoreType /\ "failed" \in RestoreStages
  BY DEF TypeInv, RestoreTyped, RestoreStages
<1>2. CASE restore.ref \notin kept
  <2>1. Step("failed", restore)
    BY <1>2 DEF Fetch
  <2> QED BY <1>1, <1>2, <2>1, StepDoes
<1>3. CASE restore.ref \in kept
  <2> DEFINE y == taken[restore.ref].api
  <2>1. taken[restore.ref] \in SnapshotType
    BY <1>3, SnapshotsAre DEF TypeInv, SnapshotsTyped
  <2>2. y \in Yamls /\ restore' = [[restore EXCEPT !.api = y] EXCEPT !.pc = "pre"]
    BY <1>3, <2>1 DEF SnapshotType, Fetch, Step
  <2> HIDE DEF y
  <2>3. restore' \in RestoreType
    BY <1>1, <2>2 DEF RestoreType, RestoreStages
  <2>4. /\ restore'.pc = "pre" /\ restore'.of = restore.of /\ restore'.ref = restore.ref
        /\ restore'.api = y /\ restore'.filled = restore.filled
    BY <1>1, <2>2 DEF RestoreType
  <2>5. Goes("pre", restore.of, restore.ref, y, restore.filled)
    BY <2>3, <2>4 DEF Goes
  <2> QED BY <1>3, <2>1, <2>5 DEF y
<1> QED BY <1>2, <1>3

\* The claims of the target after one is filled, or could not be.
Bound(c, data) ==
    /\ volumes' \in [Claims -> VolumeType]
    /\ volumes'[c].data = data /\ volumes'[c].node = NodeFor(c)
    /\ \A e \in Claims \ {c} : volumes'[e] = volumes[e]

LEMMA BoundBy ==
    ASSUME TypeInv, NEW c \in Claims, NEW data \in Versions \cup {Empty},
           volumes' = [volumes EXCEPT ![c] = [data |-> data, node |-> NodeFor(c)]]
    PROVE  Bound(c, data)
<1>1. Docs \in Yamls
  BY DocsTyped DEF TypeInv, RestoreTyped, RestoreType
<1>2. NodeFor(c) \in Pins \cup {0, FirstNode}
  BY <1>1, NodeTyped DEF NodeFor
<1> DEFINE v == [data |-> data, node |-> NodeFor(c)]
<1>3. v \in VolumeType /\ v.data = data /\ v.node = NodeFor(c)
  BY <1>2 DEF VolumeType
<1>4. volumes \in [Claims -> VolumeType] /\ volumes' = [volumes EXCEPT ![c] = v]
  BY DEF TypeInv, RestoreTyped
<1> HIDE DEF v
<1> QED BY <1>3, <1>4 DEF Bound

LEMMA FillDoes ==
    ASSUME TypeInv, NEW c \in Claims, FillVolume(c)
    PROVE  \/ /\ restore.ref \in kept /\ c \in DOMAIN taken[restore.ref].data
              /\ Goes("volumes", restore.of, restore.ref, restore.api, restore.filled \cup {c})
              /\ Bound(c, taken[restore.ref].data[c])
           \/ /\ restore.ref \notin kept \/ c \notin DOMAIN taken[restore.ref].data
              /\ Goes("failed", restore.of, restore.ref, restore.api, restore.filled)
              /\ Bound(c, Empty)
<1>1. restore \in RestoreType /\ "failed" \in RestoreStages
  BY DEF TypeInv, RestoreTyped, RestoreStages
<1>2. CASE restore.ref \in kept /\ c \in DOMAIN taken[restore.ref].data
  <2>1. /\ restore' = [[restore EXCEPT !.filled = @ \cup {c}] EXCEPT !.pc = "volumes"]
        /\ volumes' = [volumes EXCEPT ![c] =
              [data |-> taken[restore.ref].data[c], node |-> NodeFor(c)]]
    BY <1>2 DEF FillVolume, Step
  <2>2. taken[restore.ref].data \in Contents
    BY <1>2, SnapshotsAre DEF TypeInv, SnapshotsTyped
  <2>3. taken[restore.ref].data[c] \in Versions
    BY <1>2, <2>2 DEF Contents
  <2>4. Bound(c, taken[restore.ref].data[c])
    BY <2>1, <2>3, BoundBy
  <2>5. restore' \in RestoreType
    BY <1>1, <2>1 DEF RestoreType, RestoreStages
  <2>6. /\ restore'.pc = "volumes" /\ restore'.of = restore.of /\ restore'.ref = restore.ref
        /\ restore'.api = restore.api /\ restore'.filled = restore.filled \cup {c}
    BY <1>1, <2>1 DEF RestoreType
  <2> QED BY <1>2, <2>4, <2>5, <2>6 DEF Goes
<1>3. CASE ~(restore.ref \in kept /\ c \in DOMAIN taken[restore.ref].data)
  <2>1. /\ Step("failed", restore)
        /\ volumes' = [volumes EXCEPT ![c] = [data |-> Empty, node |-> NodeFor(c)]]
    BY <1>3 DEF FillVolume
  <2> QED BY <1>1, <1>3, <2>1, BoundBy, StepDoes
<1> QED BY <1>2, <1>3

LEMMA AppliesDo ==
    ASSUME TypeInv
    PROVE  /\ ApplyPre => Goes("volumes", restore.of, restore.ref, restore.api, restore.filled)
           /\ ApplyWorkload => Goes("done", restore.of, restore.ref, restore.api, restore.filled)
<1>1. restore \in RestoreType /\ "volumes" \in RestoreStages /\ "done" \in RestoreStages
  BY DEF TypeInv, RestoreTyped, RestoreStages
<1> QED BY <1>1, StepDoes DEF ApplyPre, ApplyWorkload

\* Snapshots are only added, and the index of a new one is new.
LEMMA SnapshotsGrow ==
    ASSUME TypeInv, [Next]_vars
    PROVE  /\ Len(taken) \in Nat /\ Len(taken') \in Nat /\ Len(taken) <= Len(taken')
           /\ \A t \in 1..Len(taken) : taken'[t] = taken[t] /\ (t \in kept' => t \in kept)
<1>1. Len(taken) \in Nat
  BY DEF TypeInv, SnapshotsTyped
<1>2. CASE taken' = taken /\ kept' \subseteq kept
  BY <1>1, <1>2
<1>3. ASSUME NEW b \in Backups, Upload(b)
      PROVE  /\ Len(taken') = Len(taken) + 1
             /\ \A t \in 1..Len(taken) : taken'[t] = taken[t] /\ (t \in kept' => t \in kept)
  <2>1. /\ Len(taken') = Len(taken) + 1 /\ kept' = kept \cup {Len(taken) + 1}
        /\ \A t \in 1..Len(taken) : taken'[t] = taken[t]
    BY <1>3, UploadDoes
  <2>2. \A t \in 1..Len(taken) : t # Len(taken) + 1
    BY <1>1
  <2> QED BY <2>1, <2>2
<1>4. (taken' = taken /\ kept' \subseteq kept) \/ \E b \in Backups : Upload(b)
  BY DEF Next, vars, SelectPVCs, Stage, Launch, Mount, List, Report, ClientFails, BeginRestore,
      Fetch, FillVolume, EditObject, DeleteObject, Change, WriteData, Prune, ApplyPre,
      ApplyWorkload
<1> QED BY <1>1, <1>2, <1>3, <1>4

LEMMA RestoreStaysTyped ==
    ASSUME TypeInv, [Next]_vars
    PROVE  RestoreTyped'
<1>1. RestoreTyped /\ restore \in RestoreType /\ volumes \in [Claims -> VolumeType]
  BY DEF TypeInv, RestoreTyped
<1>2. ASSUME restore.pc # "new" PROVE restore.of \in Backups /\ restore.ref \in 1..Len(taken')
  BY <1>1, <1>2, SnapshotsGrow DEF RestoreTyped
<1>3. ASSUME NEW b \in Backups, BeginRestore(b)
      PROVE  RestoreTyped'
  <2>1. UNCHANGED <<taken, volumes>> /\ backups[b].job = "ok"
    BY <1>3 DEF BeginRestore
  <2>2. /\ backups[b].ref \in Nat /\ backups[b].ref <= Len(taken) /\ backups[b].ref # 0
        /\ Len(taken) \in Nat
    BY <2>1 DEF TypeInv, BackupsTyped, BackupType, SnapshotsTyped
  <2>3. backups[b].ref \in 1..Len(taken')
    BY <2>1, <2>2
  <2> QED BY <1>1, <1>3, <2>1, <2>3, BeginDoes DEF Goes, RestoreTyped
<1>4. CASE Fetch
  BY <1>1, <1>2, <1>4, FetchDoes DEF Fetch, Goes, RestoreTyped
<1>5. CASE ApplyPre \/ ApplyWorkload
  BY <1>1, <1>2, <1>5, AppliesDo DEF ApplyPre, ApplyWorkload, Goes, RestoreTyped
<1>6. ASSUME NEW c \in Claims, FillVolume(c)
      PROVE  RestoreTyped'
  BY <1>1, <1>2, <1>6, FillDoes DEF FillVolume, Goes, Bound, RestoreTyped
<1>7. CASE UNCHANGED <<restore, volumes>>
  BY <1>1, <1>2, <1>7 DEF RestoreTyped
<1> QED BY <1>3, <1>4, <1>5, <1>6, <1>7 DEF Next, vars, SelectPVCs, Stage, Launch, Mount, Upload,
      List, Report, ClientFails, EditObject, DeleteObject, Change, WriteData, Prune

LEMMA TypesKept ==
    ASSUME TypeInv, [Next]_vars
    PROVE  TypeInv'
BY ObjectsStayTyped, DiskStaysTyped, BackupsStayTyped, RestoreStaysTyped DEF TypeInv

LEMMA TypesSuffice ==
    ASSUME TypeInv
    PROVE  TypeOK
<1>1. objects \in [Sources \cup {Target} -> SUBSET Doc]
  BY DEF TypeInv, ObjectsTyped, Listed
<1>2. fuel \in 0..MaxFaults /\ disk \in [Sources -> [Claims -> Versions]]
  <2>1. ASSUME NEW s \in Sources
        PROVE  disk[s] \in [Claims -> Versions]
    <3>1. /\ disk[s] \in [Claims -> Nat] /\ fuel \in Nat /\ MaxFaults \in Nat
          /\ \A c \in Claims : 1 <= disk[s][c] /\ disk[s][c] + fuel <= MaxFaults + 1
      BY PathBounds DEF TypeInv, DiskTyped
    <3>2. \A c \in Claims : disk[s][c] \in Versions
      BY <3>1 DEF Versions
    <3> QED BY <3>1, <3>2
  <2>2. disk \in [Sources -> [Claims -> Nat]] /\ fuel \in 0..MaxFaults
    BY DEF TypeInv, DiskTyped
  <2> QED BY <2>1, <2>2
<1>3. /\ Len(taken) \in Nat /\ DOMAIN taken = 1..Len(taken)
      /\ Len(taken) <= MaxTime /\ MaxTime \in Nat
  <2>1. Len(taken) \in Nat /\ DOMAIN taken = 1..Len(taken)
    BY DEF TypeInv, SnapshotsTyped
  <2>2. Cardinality(Pending) \in Nat /\ MaxTime \in Nat
    BY FS_Subset, FS_CardinalityType, PathBounds DEF Pending, MaxTime
  <2>3. Len(taken) + Cardinality(Pending) <= MaxTime
    BY DEF TypeInv, SnapshotsTyped
  <2> QED BY <2>1, <2>2, <2>3
<1>4. ASSUME NEW b \in Backups
      PROVE  /\ backups[b].pc \in {"select", "serialize", "launch"}
             /\ backups[b].pvcs \subseteq Claims /\ backups[b].archives \subseteq Claims
             /\ Rendered(backups[b].staged) /\ Rendered(backups[b].mounted)
             /\ backups[b].job \in JobStates
             /\ backups[b].ref \in 0..MaxTime
  <2>1. backups[b] \in BackupType /\ backups[b].ref <= Len(taken)
    BY DEF TypeInv, BackupsTyped
  <2>2. /\ backups[b].pc \in Stages /\ backups[b].pvcs \in SUBSET Claims
        /\ backups[b].staged \in Yamls /\ backups[b].mounted \in Yamls
        /\ backups[b].job \in JobStates /\ backups[b].archives \in SUBSET Claims
        /\ backups[b].ref \in Nat
    BY <2>1 DEF BackupType
  <2>3. backups[b].ref \in 0..MaxTime
    BY <1>3, <2>1, <2>2
  <2> QED BY <2>2, <2>3, YamlsAreRendered DEF Stages
<1>5. kept \subseteq DOMAIN taken
  BY <1>3 DEF TypeInv, SnapshotsTyped
<1>6. ASSUME NEW t \in DOMAIN taken
      PROVE  /\ taken[t].by \in Backups \cup {Earlier} /\ Rendered(taken[t].api)
             /\ \E S \in SUBSET Claims : taken[t].data \in [S -> Versions]
  <2>1. taken[t] \in SnapshotType
    BY <1>3 DEF TypeInv, SnapshotsTyped
  <2>2. /\ taken[t].by \in Backups \cup {Earlier}
        /\ taken[t].api \in Yamls /\ taken[t].data \in Contents
    BY <2>1 DEF SnapshotType
  <2> QED BY <2>2, YamlsAreRendered DEF Contents
<1>7. /\ restore.pc \in {"new", "fetch", "pre", "volumes", "done", "failed"}
      /\ Rendered(restore.api) /\ restore.filled \subseteq Claims
      /\ volumes \in [Claims -> [data : Versions \cup {Empty}, node : Pins \cup {0, FirstNode}]]
  BY YamlsAreRendered DEF TypeInv, RestoreTyped, RestoreType, RestoreStages, VolumeType
<1> QED BY <1>1, <1>2, <1>3, <1>4, <1>5, <1>6, <1>7 DEF TypeOK, JobStates

\* Every variable of the data path keeps its type, and no api.yaml, staged, mounted,
\* archived or fetched, ever holds a volatile field or an object out of the catalog.
THEOREM DataPathTypes == Spec => []TypeOK
<1>1. Init => TypeInv
  BY TypesAtStart
<1>2. TypeInv /\ [Next]_vars => TypeInv'
  BY TypesKept
<1>3. TypeInv => TypeOK
  BY TypesSuffice
<1> QED BY <1>1, <1>2, <1>3, PTL DEF Spec

-----------------------------------------------------------------------------
(* What api.yaml holds: every object that existed throughout the backup,   *)
(* and none that never existed during it.                                  *)

\* The target is none of the namespaces that are backed up and edited meanwhile.
SeparateTarget == Target \notin Sources

\* All there may ever be in a source namespace.
Universe(s) == InitObjects[s] \cup {d \in Edits : d.ns = s}

\* The histories of a backup are about its own namespace, and follow it until the
\* upload.
ObjectsInv ==
    /\ \A s \in Sources : objects[s] \subseteq Universe(s) /\ Keyed(objects[s])
    /\ \A b \in Backups :
          /\ seen[b] \subseteq Universe(SourceOf[b]) /\ steady[b] \subseteq seen[b]
          /\ Before(b) => /\ steady[b] \subseteq objects[SourceOf[b]]
                          /\ objects[SourceOf[b]] \subseteq seen[b]

\* A rendering of objects of S that has all those of T.
Captured(yaml, S, T) ==
    /\ \A i \in DOMAIN yaml : \E d \in S :
          Serialized(d) /\ Key(d) = Catalog[i] /\ yaml[i] = StripVolatile(d)
    /\ \A d \in T : Serialized(d) => \E i \in DOMAIN yaml : yaml[i] = StripVolatile(d)

\* What is staged for a Job, mounted in its pod, and archived.  A pod finds what was
\* staged before its Job was created, or later; what is staged after the upload is
\* not archived.
CaptureInv ==
    /\ \A b \in Backups :
          /\ Before(b) /\ (backups[b].pc = "launch" \/ backups[b].job # "none")
                => Captured(backups[b].staged, seen[b], steady[b])
          /\ backups[b].job = "running" => Captured(backups[b].mounted, seen[b], steady[b])
    /\ \A t \in 2..Len(taken) : Captured(taken[t].api, seen[taken[t].by], steady[taken[t].by])

\* What a step of a backup may make of it, its reference aside.
BackupMoves(b) ==
    LET q == backups[b]
        r == backups'[b]
    IN \/ r = q
       \/ /\ q.pc = "select" /\ r.pc = "serialize" /\ r.pvcs = Selected(b)
          /\ r.staged = q.staged /\ r.mounted = q.mounted
          /\ r.job = q.job /\ r.archives = q.archives
       \/ /\ q.pc = "serialize" /\ r.pc \in {"launch", "serialize"}
          /\ r.staged = SerializeNamespace(objects[SourceOf[b]]) /\ objects' = objects
          /\ r.pvcs = q.pvcs /\ r.mounted = q.mounted /\ r.job = q.job /\ r.archives = q.archives
       \/ /\ q.pc = "launch" /\ q.job = "none" /\ r.pc = "serialize" /\ r.job = "pending"
          /\ r.archives = q.pvcs
          /\ r.pvcs = q.pvcs /\ r.staged = q.staged /\ r.mounted = q.mounted
       \/ /\ q.job \in {"pending", "running"} /\ r.job = "running" /\ r.mounted = q.staged
          /\ r.pc = q.pc /\ r.pvcs = q.pvcs /\ r.staged = q.staged /\ r.archives = q.archives
       \/ /\ q.job # "none" /\ r.job \in {"uploaded", "listed", "ok", "failed"}
          /\ r.pc = q.pc /\ r.pvcs = q.pvcs /\ r.staged = q.staged /\ r.mounted = q.mounted
          /\ r.archives = q.archives

LEMMA BackupsMove ==
    ASSUME TypeInv, [Next]_vars, NEW b \in Backups
    PROVE  BackupMoves(b)
<1>1. /\ backups \in [Backups -> BackupType] /\ kept \subseteq Nat
      /\ \A c \in Backups : backups[c].pc \in {"select", "launch"} => backups[c].job = "none"
  BY DEF TypeInv, BackupsTyped, SnapshotsTyped
<1>2. CASE backups'[b] = backups[b]
  BY <1>2 DEF BackupMoves
<1>3. ASSUME NEW c \in Backups, SelectPVCs(c)
      PROVE  BackupMoves(b)
  BY <1>1, <1>2, <1>3, SelectDoes, SelectedTyped DEF SelectPVCs, Turns, Is, BackupMoves
<1>4. ASSUME NEW c \in Backups, Stage(c)
      PROVE  BackupMoves(b)
  BY <1>1, <1>2, <1>4, StageDoes, StagedTyped DEF Stage, Later, Turns, Is, BackupMoves
<1>5. ASSUME NEW c \in Backups, Launch(c)
      PROVE  BackupMoves(b)
  BY <1>1, <1>2, <1>5, LaunchDoes DEF Launch, Turns, Is, BackupMoves
<1>6. ASSUME NEW c \in Backups, Mount(c)
      PROVE  BackupMoves(b)
  BY <1>1, <1>2, <1>6, MountDoes DEF Mount, Turns, Is, BackupMoves
<1>7. ASSUME NEW c \in Backups, NEW j \in {"uploaded", "ok", "failed"}, Advance(c, j),
             backups[c].job # "none"
      PROVE  BackupMoves(b)
  <2>1. j \in JobStates
    BY DEF JobStates
  <2> QED BY <1>1, <1>2, <1>7, <2>1, AdvanceDoes DEF Turns, Is, BackupMoves
<1>8. ASSUME NEW c \in Backups, Upload(c) \/ Report(c) \/ ClientFails(c)
      PROVE  BackupMoves(b)
  BY <1>7, <1>8 DEF Upload, Report, ClientFails
<1>9. ASSUME NEW c \in Backups, List(c)
      PROVE  BackupMoves(b)
  BY <1>1, <1>2, <1>9, ListDoes DEF List, Turns, Is, BackupMoves
<1>10. CASE UNCHANGED backups
  BY <1>2, <1>10
<1> QED BY <1>3, <1>4, <1>5, <1>6, <1>8, <1>9, <1>10 DEF Next, vars, BeginRestore, Fetch,
      FillVolume, EditObject, DeleteObject, Change, WriteData, Prune, ApplyPre, ApplyWorkload

\* A backup that has uploaded or failed does not begin anew.
LEMMA BeforeStays ==
    ASSUME TypeInv, [Next]_vars, NEW b \in Backups, Before(b)'
    PROVE  Before(b)
BY BackupsMove DEF BackupMoves, Before

LEMMA UniverseIsOfNamespace ==
    ASSUME NEW s \in Sources
    PROVE  Universe(s) \subseteq ObjectsIn(s) /\ Universe(s) \subseteq Listed
BY PathInputs DEF Universe, ObjectsIn, Listed

\* What edits do to the source namespaces and to the histories.
LEMMA EditsDo ==
    ASSUME NEW s \in Sources, NEW d \in Edits, EditObject(s, d) \/ DeleteObject(s, d)
    PROVE  \E new :
              /\ new \subseteq objects[s] \cup {d}
              /\ d \in new => \A o \in new : Key(o) = Key(d) => o = d
              /\ d.ns = s /\ objects' = [objects EXCEPT ![s] = new]
              /\ \A o \in objects[s] : Key(o) # Key(d) => o \in new
              /\ \A b \in Backups :
                    IF SourceOf[b] = s /\ Before(b)
                    THEN seen'[b] = seen[b] \cup new /\ steady'[b] = steady[b] \cap new
                    ELSE seen'[b] = seen[b] /\ steady'[b] = steady[b]
              /\ UNCHANGED <<backups, taken, restore>>
<1>1. CASE EditObject(s, d)
  <2> DEFINE new == {d} \cup {o \in objects[s] : Key(o) # Key(d)}
  <2>1. d.ns = s /\ Change(s, new)
    BY <1>1 DEF EditObject
  <2>2. /\ new \subseteq objects[s] \cup {d} /\ \A o \in new : Key(o) = Key(d) => o = d
        /\ \A o \in objects[s] : Key(o) # Key(d) => o \in new
    OBVIOUS
  <2> HIDE DEF new
  <2> QED BY <2>1, <2>2 DEF Change
<1>2. CASE DeleteObject(s, d)
  <2> DEFINE new == {o \in objects[s] : Key(o) # Key(d)}
  <2>1. d.ns = s /\ Change(s, new)
    BY <1>2 DEF DeleteObject
  <2>2. /\ new \subseteq objects[s] \cup {d} /\ \A o \in new : Key(o) = Key(d) => o = d
        /\ \A o \in objects[s] : Key(o) # Key(d) => o \in new
    OBVIOUS
  <2> HIDE DEF new
  <2> QED BY <2>1, <2>2 DEF Change
<1> QED BY <1>1, <1>2

\* Steps that change no namespace, or only the target.
Untouched == /\ \A s \in Sources : objects'[s] = objects[s]
             /\ UNCHANGED <<seen, steady>>

LEMMA ApplyLeavesSources ==
    ASSUME SeparateTarget, ObjectsTyped, NEW docs, Apply(docs)
    PROVE  \A s \in Sources : objects'[s] = objects[s]
BY DEF SeparateTarget, ObjectsTyped, Apply

LEMMA ObjectSteps ==
    ASSUME SeparateTarget, TypeInv, [Next]_vars
    PROVE  \/ Untouched
           \/ \E s \in Sources, d \in Edits : EditObject(s, d) \/ DeleteObject(s, d)
<1>1. CASE ApplyPre \/ ApplyWorkload
  BY <1>1, ApplyLeavesSources DEF TypeInv, ApplyPre, ApplyWorkload, Untouched
<1>2. CASE UNCHANGED <<objects, seen, steady>>
  BY <1>2 DEF Untouched
<1> QED BY <1>1, <1>2 DEF Next, vars, SelectPVCs, Stage, Launch, Mount, Upload, List, Report,
      ClientFails, BeginRestore, Fetch, FillVolume, WriteData, Prune

LEMMA ObjectsInvAtStart ==
    ASSUME Init
    PROVE  ObjectsInv
<1>1. /\ objects = InitObjects /\ \A b \in Backups : seen[b] = InitObjects[SourceOf[b]]
      /\ \A b \in Backups : steady[b] = seen[b]
  BY DEF Init
<1> QED BY <1>1, PathInputs DEF ObjectsInv, Universe

LEMMA ObjectsInvKept ==
    ASSUME SeparateTarget, TypeInv, ObjectsInv, [Next]_vars
    PROVE  ObjectsInv'
<1>1. \A b \in Backups : SourceOf[b] \in Sources /\ (Before(b)' => Before(b))
  BY PathInputs, BeforeStays
<1>2. CASE Untouched
  BY <1>1, <1>2 DEF ObjectsInv, Untouched
<1>3. ASSUME NEW s \in Sources, NEW d \in Edits, EditObject(s, d) \/ DeleteObject(s, d)
      PROVE  ObjectsInv'
  <2>1. PICK new :
           /\ new \subseteq objects[s] \cup {d}
           /\ d \in new => \A o \in new : Key(o) = Key(d) => o = d
           /\ d.ns = s /\ objects' = [objects EXCEPT ![s] = new]
           /\ \A b \in Backups :
                 IF SourceOf[b] = s /\ Before(b)
                 THEN seen'[b] = seen[b] \cup new /\ steady'[b] = steady[b] \cap new
                 ELSE seen'[b] = seen[b] /\ steady'[b] = steady[b]
    BY <1>3, EditsDo
  <2>2. objects'[s] = new /\ \A r \in Sources \ {s} : objects'[r] = objects[r]
    BY <2>1 DEF TypeInv, ObjectsTyped
  <2>3. new \subseteq Universe(s)
    BY <2>1 DEF ObjectsInv, Universe
  <2>4. Keyed(new)
    BY <2>1 DEF ObjectsInv, Keyed
  <2>5. \A r \in Sources : objects'[r] \subseteq Universe(r) /\ Keyed(objects'[r])
    BY <2>2, <2>3, <2>4 DEF ObjectsInv
  <2>6. ASSUME NEW b \in Backups
        PROVE  /\ seen'[b] \subseteq Universe(SourceOf[b]) /\ steady'[b] \subseteq seen'[b]
               /\ Before(b)' => /\ steady'[b] \subseteq objects'[SourceOf[b]]
                                /\ objects'[SourceOf[b]] \subseteq seen'[b]
    BY <1>1, <2>1, <2>2, <2>3 DEF ObjectsInv
  <2> QED BY <2>5, <2>6 DEF ObjectsInv
<1> QED BY <1>2, <1>3, ObjectSteps

\* The histories only widen, so that what was captured stays so.
LEMMA HistoriesWiden ==
    ASSUME SeparateTarget, TypeInv, [Next]_vars, NEW b \in Backups
    PROVE  seen[b] \subseteq seen'[b] /\ steady'[b] \subseteq steady[b]
<1>1. CASE Untouched
  BY <1>1 DEF Untouched
<1>2. ASSUME NEW s \in Sources, NEW d \in Edits, EditObject(s, d) \/ DeleteObject(s, d)
      PROVE  seen[b] \subseteq seen'[b] /\ steady'[b] \subseteq steady[b]
  BY <1>2, EditsDo
<1> QED BY <1>1, <1>2, ObjectSteps

LEMMA CapturedStays ==
    ASSUME NEW yaml, NEW S, NEW T, NEW U, NEW V,
           Captured(yaml, S, T), S \subseteq U, V \subseteq T
    PROVE  Captured(yaml, U, V)
BY DEF Captured

LEMMA CaptureInvAtStart ==
    ASSUME Init
    PROVE  CaptureInv
<1>1. \A b \in Backups : backups[b].pc = "select" /\ backups[b].job = "none"
  BY DEF Init, NewBackup
<1>2. Len(taken) = 1
  BY DEF Init
<1>3. 2..Len(taken) = {}
  BY <1>2
<1> QED BY <1>1, <1>3 DEF CaptureInv

LEMMA CaptureInvKept ==
    ASSUME SeparateTarget, TypeInv, ObjectsInv, CaptureInv, [Next]_vars
    PROVE  CaptureInv'
<1>1. \A b \in Backups : seen[b] \subseteq seen'[b] /\ steady'[b] \subseteq steady[b]
  BY HistoriesWiden
<1>2. ASSUME NEW b \in Backups, Before(b), objects' = objects
      PROVE  Captured(SerializeNamespace(objects[SourceOf[b]]), seen'[b], steady'[b])
  <2> DEFINE S == objects[SourceOf[b]]
             yaml == SerializeNamespace(S)
  <2>1. S \subseteq Listed /\ Keyed(S) /\ steady[b] \subseteq S /\ S \subseteq seen[b]
    BY <1>2, PathInputs, UniverseIsOfNamespace DEF ObjectsInv
  <2> HIDE DEF S
  <2>2. Captured(yaml, S, S)
    BY <2>1, SerializeRenders DEF Captured
  <2> HIDE DEF yaml
  <2>3. Captured(yaml, seen'[b], steady'[b])
    BY <1>1, <2>1, <2>2, CapturedStays
  <2> QED BY <2>3 DEF yaml, S
<1>3. ASSUME NEW b \in Backups
      PROVE  /\ (Before(b) /\ (backups[b].pc = "launch" \/ backups[b].job # "none"))'
                   => Captured(backups'[b].staged, seen'[b], steady'[b])
             /\ backups'[b].job = "running"
                   => Captured(backups'[b].mounted, seen'[b], steady'[b])
  <2>1. BackupMoves(b) /\ (Before(b)' => Before(b))
    BY BackupsMove, BeforeStays
  <2>2. /\ Before(b) /\ (backups[b].pc = "launch" \/ backups[b].job # "none")
              => Captured(backups[b].staged, seen'[b], steady'[b])
        /\ backups[b].job = "running" => Captured(backups[b].mounted, seen'[b], steady'[b])
    <3>1. /\ Before(b) /\ (backups[b].pc = "launch" \/ backups[b].job # "none")
                => Captured(backups[b].staged, seen[b], steady[b])
          /\ backups[b].job = "running" => Captured(backups[b].mounted, seen[b], steady[b])
      BY DEF CaptureInv
    <3> QED BY <1>1, <3>1, CapturedStays
  <2> QED BY <1>2, <2>1, <2>2 DEF BackupMoves, Before
<1>4. ASSUME NEW t \in 2..Len(taken)
      PROVE  Captured(taken[t].api, seen'[taken[t].by], steady'[taken[t].by])
  <2>1. taken[t].by \in Backups /\ Captured(taken[t].api, seen[taken[t].by], steady[taken[t].by])
    BY DEF CaptureInv, TypeInv, SnapshotsTyped
  <2> QED BY <1>1, <2>1, CapturedStays
<1>5. CASE taken' = taken
  BY <1>3, <1>4, <1>5 DEF CaptureInv
<1>6. ASSUME NEW b \in Backups, Upload(b)
      PROVE  CaptureInv'
  <2> DEFINE n == Len(taken)
  <2>1. /\ n \in Nat /\ Len(taken') = n + 1 /\ taken'[n + 1] = Uploaded(b)
        /\ \A t \in 1..n : taken'[t] = taken[t]
    BY <1>6, UploadDoes
  <2>2. Uploaded(b).by = b /\ Uploaded(b).api = backups[b].mounted
    BY DEF Uploaded
  <2>3. Captured(backups[b].mounted, seen'[b], steady'[b])
    BY <1>1, <1>6, CapturedStays DEF Upload, CaptureInv
  <2>4. ASSUME NEW t \in 2..(n + 1)
        PROVE  Captured(taken'[t].api, seen'[taken'[t].by], steady'[taken'[t].by])
    <3>1. CASE t = n + 1
      BY <2>1, <2>2, <2>3, <3>1
    <3>2. CASE t # n + 1
      <4>1. t \in 2..n /\ t \in 1..n
        BY <2>1, <3>2
      <4> QED BY <1>4, <2>1, <4>1
    <3> QED BY <3>1, <3>2
  <2> QED BY <1>3, <2>1, <2>4 DEF CaptureInv
<1> QED BY <1>5, <1>6 DEF Next, vars, SelectPVCs, Stage, Launch, Mount, List, Report, ClientFails,
      BeginRestore, Fetch, FillVolume, EditObject, DeleteObject, Change, WriteData, Prune,
      ApplyPre, ApplyWorkload

-----------------------------------------------------------------------------
(* What a restore makes of the target.                                     *)

\* A restore works on the api.yaml of the snapshot it names, and the target holds
\* what was there before and what has been applied.
TargetInv ==
    /\ restore.pc \in {"pre", "volumes", "done"} => restore.api = taken[restore.ref].api
    /\ restore.pc \in {"new", "fetch", "pre"} => objects[Target] = InitObjects[Target]
    /\ restore.pc = "volumes" => objects[Target] = Upsert(InitObjects[Target], PreDocs)
    /\ restore.pc = "done"
          => objects[Target] = Upsert(Upsert(InitObjects[Target], PreDocs), WorkDocs)

LEMMA DocsStay ==
    ASSUME restore'.api = restore.api
    PROVE  PreDocs' = PreDocs /\ WorkDocs' = WorkDocs /\ Docs' = Docs /\ Planned' = Planned
BY DEF PreDocs, WorkDocs, Buckets, Docs, Planned

LEMMA TargetInvAtStart ==
    ASSUME Init
    PROVE  TargetInv
BY DEF Init, NewRestore, TargetInv

LEMMA TargetInvKept ==
    ASSUME SeparateTarget, TypeInv, TargetInv, [Next]_vars
    PROVE  TargetInv'
<1>1. restore.pc # "new" => taken'[restore.ref] = taken[restore.ref]
  BY SnapshotsGrow DEF TypeInv, RestoreTyped
<1>2. ASSUME NEW b \in Backups, BeginRestore(b)
      PROVE  TargetInv'
  BY <1>2, BeginDoes DEF BeginRestore, Goes, TargetInv
<1>3. CASE Fetch
  BY <1>1, <1>3, FetchDoes DEF Fetch, Goes, TargetInv
<1>4. ASSUME NEW docs, Apply(docs)
      PROVE  objects'[Target] = Upsert(objects[Target], docs)
  BY <1>4 DEF Apply, TypeInv, ObjectsTyped
<1>5. CASE ApplyPre
  <2>1. /\ restore.pc = "pre" /\ Apply(PreDocs) /\ taken' = taken
        /\ Goes("volumes", restore.of, restore.ref, restore.api, restore.filled)
    BY <1>5, AppliesDo DEF ApplyPre, PreDocs
  <2>2. objects'[Target] = Upsert(InitObjects[Target], PreDocs) /\ PreDocs' = PreDocs
    BY <1>4, <2>1, DocsStay DEF TargetInv, Goes
  <2> QED BY <2>1, <2>2 DEF TargetInv, Goes
<1>6. CASE ApplyWorkload
  <2>1. /\ restore.pc = "volumes" /\ Apply(WorkDocs) /\ taken' = taken
        /\ Goes("done", restore.of, restore.ref, restore.api, restore.filled)
    BY <1>6, AppliesDo DEF ApplyWorkload, WorkDocs
  <2>2. /\ objects'[Target] = Upsert(Upsert(InitObjects[Target], PreDocs), WorkDocs)
        /\ PreDocs' = PreDocs /\ WorkDocs' = WorkDocs
    BY <1>4, <2>1, DocsStay DEF TargetInv, Goes
  <2> QED BY <2>1, <2>2 DEF TargetInv, Goes
<1>7. ASSUME NEW c \in Claims, FillVolume(c)
      PROVE  TargetInv'
  <2>1. restore.pc = "volumes" /\ UNCHANGED <<objects, taken>>
    BY <1>7 DEF FillVolume
  <2>2. \/ Goes("volumes", restore.of, restore.ref, restore.api, restore.filled \cup {c})
        \/ Goes("failed", restore.of, restore.ref, restore.api, restore.filled)
    BY <1>7, FillDoes
  <2> QED BY <2>1, <2>2, DocsStay DEF TargetInv, Goes
<1>8. CASE restore' = restore /\ objects'[Target] = objects[Target]
  BY <1>1, <1>8, DocsStay DEF TargetInv
<1>9. ASSUME NEW s \in Sources, NEW d \in Edits, EditObject(s, d) \/ DeleteObject(s, d)
      PROVE  TargetInv'
  BY <1>8, <1>9, EditsDo DEF SeparateTarget, TypeInv, ObjectsTyped
<1> QED BY <1>2, <1>3, <1>5, <1>6, <1>7, <1>8, <1>9 DEF Next, vars, SelectPVCs, Stage, Launch,
      Mount, Upload, List, Report, ClientFails, WriteData, Prune

\* An object of a source on its way through api.yaml to the target.
Moved(d) == [d EXCEPT !.ns = Target, !.assigned = {}]

LEMMA RoundTripOfDoc ==
    ASSUME NEW s, NEW d \in ObjectsIn(s), Serialized(d)
    PROVE  Rewritten(StripVolatile(d), Target) = Moved(d)
<1>1. d \in Doc /\ d.kind \notin ClusterScopedKinds
  BY DEF ObjectsIn, Serialized
<1> DEFINE a == d.assigned \ {"volatile"}
           e == [d EXCEPT !.assigned = a]
<1>2. StripVolatile(d) = e /\ a \in SUBSET Assigned
  BY <1>1 DEF StripVolatile, Doc
<1>3. "allocated" \in a => d.kind \in {"Service", PVC}
  BY DEF ObjectsIn
<1>4. a \subseteq {"allocated"}
  BY <1>2 DEF Assigned
<1> HIDE DEF a
<1>5. e \in Doc /\ e.kind = d.kind /\ e.assigned = a
  BY <1>1, <1>2 DEF Doc
<1>6. IF e.kind \in {"Service", PVC} THEN e.assigned \ {"allocated"} = {} ELSE e.assigned = {}
  BY <1>3, <1>4, <1>5
<1>7. Rewritten(e, Target) = [e EXCEPT !.ns = Target, !.assigned = {}]
  <2> HIDE DEF e
  <2>1. e.kind \notin ClusterScopedKinds
    BY <1>1, <1>5
  <2> QED BY <1>5, <1>6, <2>1 DEF Rewritten, Doc
<1>8. [e EXCEPT !.ns = Target, !.assigned = {}] = Moved(d)
  BY <1>1 DEF Doc, Moved
<1> QED BY <1>2, <1>7, <1>8

LEMMA MovedKeeps ==
    ASSUME NEW d \in Doc
    PROVE  Moved(d).kind = d.kind /\ Moved(d).name = d.name
BY DEF Moved, Doc

\* Where the documents of a captured api.yaml come from.
LEMMA DocsComeFrom ==
    ASSUME restore.api \in Yamls, NEW s, NEW S, NEW T, S \subseteq ObjectsIn(s),
           Captured(restore.api, S, T), NEW i \in DOMAIN Docs
    PROVE  \E d \in S : /\ Serialized(d) /\ Key(d) = Catalog[i]
                        /\ Docs[i] = Moved(d) /\ Alike(Docs[i], d)
<1>1. DOMAIN Docs = DOMAIN restore.api /\ Docs[i] = Rewritten(restore.api[i], Target)
  BY DEF Docs, ParseAPIManifests
<1>2. PICK d \in S : Serialized(d) /\ Key(d) = Catalog[i] /\ restore.api[i] = StripVolatile(d)
  BY <1>1 DEF Captured
<1>3. d \in ObjectsIn(s) /\ d \in Doc
  BY DEF ObjectsIn
<1>4. Docs[i] = Moved(d)
  BY <1>1, <1>2, <1>3, RoundTripOfDoc
<1>5. Alike(Docs[i], d)
  <2>1. Alike(StripVolatile(d), d) /\ StripVolatile(d) \in Doc
    BY <1>3, StripKeeps
  <2>2. Alike(Rewritten(StripVolatile(d), Target), StripVolatile(d))
    BY <2>1, RewriteKeeps
  <2> QED BY <1>1, <1>2, <2>1, <2>2 DEF Alike
<1> QED BY <1>2, <1>4, <1>5

\* What a restore applies is what it is to bring back.
LEMMA AppliedIsRestorable ==
    ASSUME restore.api \in Yamls, NEW s, NEW S, NEW T, S \subseteq ObjectsIn(s), T \subseteq S,
           Captured(restore.api, S, T)
    PROVE  /\ PreDocs \cup WorkDocs \subseteq Restorable(S, Target, Drop, Keep)
           /\ Restorable(T, Target, Drop, Keep) \subseteq PreDocs \cup WorkDocs
           /\ \A d \in PreDocs, e \in WorkDocs : Key(d) # Key(e)
<1>1. \A d \in S : d \in Doc /\ d \in ObjectsIn(s)
  BY DEF ObjectsIn
<1> DEFINE Ask(o) == /\ ~o.managed
                     /\ o.kind \notin ClusterScopedKinds \cup ExcludedKinds \cup DroppedKinds
                     /\ o.kind \in Drop => o.kind \in Keep
<1>2. \A R : Restorable(R, Target, Drop, Keep) = {Moved(d) : d \in {o \in R : Ask(o)}}
  BY DEF Restorable, Moved
<1>3. \A d \in S : Ask(d) <=> Serialized(d) /\ Wanted(d, Drop, Keep)
  BY DEF Serialized, Wanted
<1> HIDE DEF Ask
<1>4. ASSUME NEW x \in PreDocs \cup WorkDocs
      PROVE  x \in Restorable(S, Target, Drop, Keep)
  <2>1. PICK i \in DOMAIN Docs : x = Docs[i] /\ Wanted(Docs[i], Drop, Keep)
    BY BucketsAre DEF WantedOf
  <2>2. PICK d \in S : Serialized(d) /\ x = Moved(d) /\ Alike(Docs[i], d)
    BY <2>1, DocsComeFrom
  <2>3. Wanted(d, Drop, Keep)
    BY <2>1, <2>2 DEF Alike, Wanted
  <2> QED BY <1>2, <1>3, <2>2, <2>3
<1>5. ASSUME NEW x \in Restorable(T, Target, Drop, Keep)
      PROVE  x \in PreDocs \cup WorkDocs
  <2>1. PICK d \in T : Ask(d) /\ x = Moved(d)
    BY <1>2
  <2>2. d \in Doc /\ d \in ObjectsIn(s) /\ Serialized(d) /\ Wanted(d, Drop, Keep)
    BY <1>1, <1>3, <2>1
  <2>3. PICK i \in DOMAIN restore.api : restore.api[i] = StripVolatile(d)
    BY <2>2 DEF Captured
  <2>4. i \in DOMAIN Docs /\ Docs[i] = x
    BY <2>1, <2>2, <2>3, RoundTripOfDoc DEF Docs, ParseAPIManifests
  <2>5. Docs[i].kind = d.kind
    BY <2>1, <2>2, <2>4, MovedKeeps
  <2>6. d.kind \in PreKinds \/ d.kind \in WorkloadKinds
    BY <2>2 DEF PreKinds, Serialized, Doc
  <2>7. i \in WantedOf(Docs, PreKinds) \/ i \in WantedOf(Docs, WorkloadKinds)
    BY <2>2, <2>4, <2>5, <2>6 DEF WantedOf, Wanted
  <2> QED BY <2>4, <2>7, BucketsAre
<1>6. ASSUME NEW d \in PreDocs, NEW e \in WorkDocs
      PROVE  Key(d) # Key(e)
  <2>1. d.kind \notin WorkloadKinds /\ e.kind \in WorkloadKinds
    BY BucketsAre DEF WantedOf, PreKinds, WorkloadKinds
  <2> QED BY <2>1 DEF Key
<1> QED BY <1>4, <1>5, <1>6

\* The second apply leaves what the first one brought.
LEMMA BothApplied ==
    ASSUME NEW I, NEW P, NEW W, \A d \in P, e \in W : Key(d) # Key(e)
    PROVE  /\ P \cup W \subseteq Upsert(Upsert(I, P), W)
           /\ Upsert(Upsert(I, P), W) \subseteq I \cup P \cup W
BY DEF Upsert

\* The snapshot a restore has fetched was captured by its backup, or is empty.
LEMMA FetchedIsCaptured ==
    ASSUME TypeInv, ObjectsInv, CaptureInv, TargetInv, restore.pc \in {"pre", "volumes", "done"}
    PROVE  LET b == taken[restore.ref].by
           IN \/ DOMAIN Docs = {} /\ b = Earlier
              \/ /\ b \in Backups /\ restore.ref \in 2..Len(taken)
                 /\ Captured(restore.api, seen[b], steady[b])
                 /\ seen[b] \subseteq ObjectsIn(SourceOf[b])
                 /\ seen[b] \subseteq Universe(SourceOf[b]) /\ steady[b] \subseteq seen[b]
<1>1. restore.ref \in 1..Len(taken) /\ restore.api = taken[restore.ref].api /\ Len(taken) \in Nat
  BY DEF TypeInv, RestoreTyped, TargetInv, SnapshotsTyped
<1>2. CASE restore.ref = 1
  <2>1. DOMAIN restore.api = {} /\ taken[restore.ref].by = Earlier
    BY <1>1, <1>2 DEF TypeInv, SnapshotsTyped
  <2>2. DOMAIN Docs = DOMAIN restore.api
    BY DEF Docs, ParseAPIManifests
  <2> QED BY <2>1, <2>2
<1>3. CASE restore.ref # 1
  <2>1. restore.ref \in 2..Len(taken)
    BY <1>1, <1>3
  <2> DEFINE b == taken[restore.ref].by
  <2>2. b \in Backups /\ Captured(restore.api, seen[b], steady[b])
    BY <1>1, <2>1 DEF TypeInv, SnapshotsTyped, CaptureInv
  <2> HIDE DEF b
  <2>3. SourceOf[b] \in Sources
    BY <2>2, PathInputs
  <2>4. seen[b] \subseteq Universe(SourceOf[b]) /\ steady[b] \subseteq seen[b]
    BY <2>2 DEF ObjectsInv
  <2>5. seen[b] \subseteq ObjectsIn(SourceOf[b])
    BY <2>3, <2>4, UniverseIsOfNamespace
  <2> QED BY <2>1, <2>2, <2>4, <2>5 DEF b
<1> QED BY <1>2, <1>3

LEMMA RestoredSuffices ==
    ASSUME TypeInv, OwnInv, FillInv, ObjectsInv, CaptureInv, TargetInv
    PROVE  RestoredIsBackup
<1> DEFINE b == restore.of
           Back(S) == Restorable(S, Target, Drop, Keep)
           keys == {Key(d) : d \in Back(seen[b])}
           found == {o \in objects[Target] : Key(o) \in keys}
<1> SUFFICES ASSUME restore.pc = "done"
             PROVE  /\ Back(steady[b]) \subseteq objects[Target]
                    /\ found \subseteq Back(seen[b]) \cup InitObjects[Target]
                    /\ objects[Target] \ found \subseteq InitObjects[Target]
                    /\ VolumesHoldBackup
  BY DEF RestoredIsBackup
<1>1. taken[restore.ref].by = b /\ restore.ref \in 1..Len(taken) /\ b \in Backups
  BY DEF FillInv, TypeInv, RestoreTyped
<1>2. /\ Captured(restore.api, seen[b], steady[b]) /\ steady[b] \subseteq seen[b]
      /\ seen[b] \subseteq ObjectsIn(SourceOf[b])
  BY <1>1, FetchedIsCaptured, PathBounds
<1>3. restore.api \in Yamls
  BY DEF TypeInv, RestoreTyped, RestoreType
<1>4. /\ PreDocs \cup WorkDocs \subseteq Back(seen[b])
      /\ Back(steady[b]) \subseteq PreDocs \cup WorkDocs
      /\ \A d \in PreDocs, e \in WorkDocs : Key(d) # Key(e)
  BY <1>2, <1>3, AppliedIsRestorable
<1>5. objects[Target] = Upsert(Upsert(InitObjects[Target], PreDocs), WorkDocs)
  BY DEF TargetInv
<1>6. /\ PreDocs \cup WorkDocs \subseteq objects[Target]
      /\ objects[Target] \subseteq InitObjects[Target] \cup PreDocs \cup WorkDocs
  BY <1>4, <1>5, BothApplied
<1>7. VolumesHoldBackup
  <2>1. restore.ref \in DOMAIN taken
    BY <1>1 DEF TypeInv, SnapshotsTyped
  <2> QED BY <1>1, <2>1 DEF FillInv, VolumesHoldBackup
<1> HIDE DEF Back
<1> QED BY <1>4, <1>6, <1>7

\* The promise of RestoredIsBackup for every set of backups side by side, every
\* catalog, every drop and keep list and every sequence of edits, writes, prunes and
\* failures, when no two backups share a snapshot group and the target is not itself
\* being backed up: whatever is restored is what its backup saw, complete as far as
\* it lasted, moved and cleaned, and the volumes hold what the backup read.
THEOREM RestoreBringsBackTheBackup ==
    DistinctGroups /\ SeparateTarget => (Spec => []RestoredIsBackup)
<1> SUFFICES ASSUME DistinctGroups, SeparateTarget PROVE Spec => []RestoredIsBackup
  OBVIOUS
<1> DEFINE IInv == TypeInv /\ OwnInv /\ FillInv /\ ObjectsInv /\ CaptureInv /\ TargetInv
<1>1. Init => IInv
  BY TypesAtStart, OwnAtStart, FillAtStart, ObjectsInvAtStart, CaptureInvAtStart, TargetInvAtStart
<1>2. IInv /\ [Next]_vars => IInv'
  BY TypesKept, OwnKept, FillKept, ObjectsInvKept, CaptureInvKept, TargetInvKept
<1>3. IInv => RestoredIsBackup
  BY RestoredSuffices
<1> QED BY <1>1, <1>2, <1>3, PTL DEF Spec

-----------------------------------------------------------------------------
(* Every claim in api.yaml has its archive.                                *)

ClaimsOf(S) == {d.name : d \in {o \in S : o.kind = PVC}}

\* A backup names all claims its namespace may ever have, or takes them all and none
\* is created, replaced or deleted meanwhile.  Without this RestoreWorks is violated:
\* the claims are selected by one request and rendered by another.
ClaimsCovered ==
    \A b \in Backups :
        IF PicksOf[b] # {} THEN ClaimsOf(Universe(SourceOf[b])) \subseteq PicksOf[b]
        ELSE \A d \in Edits : d.ns = SourceOf[b] => d.kind # PVC

\* The claims of the namespace of b, and what is selected, archived and uploaded of
\* them.
MustHave(b) == ClaimsOf(Universe(SourceOf[b]))
CoverInv ==
    /\ \A b \in Backups :
          /\ PicksOf[b] = {} => MustHave(b) \subseteq ClaimsOf(objects[SourceOf[b]])
          /\ backups[b].pc # "select" => MustHave(b) \subseteq backups[b].pvcs
          /\ backups[b].job # "none" => MustHave(b) \subseteq backups[b].archives
    /\ \A t \in 2..Len(taken) : MustHave(taken[t].by) \subseteq DOMAIN taken[t].data

\* Only a snapshot that is gone makes a restore fail.
WorksInv == CoverInv /\ RestoreWorks

LEMMA CoverAtStart ==
    ASSUME ClaimsCovered, Init
    PROVE  CoverInv
<1>1. \A b \in Backups : backups[b].pc = "select" /\ backups[b].job = "none"
  BY DEF Init, NewBackup
<1>2. Len(taken) = 1
  BY DEF Init
<1>3. 2..Len(taken) = {}
  BY <1>2
<1>4. ASSUME NEW b \in Backups, PicksOf[b] = {}
      PROVE  MustHave(b) \subseteq ClaimsOf(objects[SourceOf[b]])
  <2>1. \A d \in Edits : d.ns = SourceOf[b] => d.kind # PVC
    BY <1>4 DEF ClaimsCovered
  <2> QED BY <2>1 DEF Init, MustHave, Universe, ClaimsOf
<1> QED BY <1>1, <1>3, <1>4 DEF CoverInv

LEMMA SelectionCovers ==
    ASSUME ClaimsCovered, CoverInv, NEW b \in Backups
    PROVE  MustHave(b) \subseteq Selected(b)
<1>1. CASE PicksOf[b] # {}
  BY <1>1 DEF ClaimsCovered, MustHave, Selected
<1>2. CASE PicksOf[b] = {}
  BY <1>2 DEF CoverInv, Selected, ClaimsOf
<1> QED BY <1>1, <1>2

LEMMA CoverKept ==
    ASSUME SeparateTarget, ClaimsCovered, TypeInv, CoverInv, [Next]_vars
    PROVE  CoverInv'
<1>1. ASSUME NEW b \in Backups, PicksOf[b] = {}
      PROVE  MustHave(b) \subseteq ClaimsOf(objects'[SourceOf[b]])
  <2>1. SourceOf[b] \in Sources /\ MustHave(b) \subseteq ClaimsOf(objects[SourceOf[b]])
    BY <1>1, PathInputs DEF CoverInv
  <2>2. CASE Untouched
    BY <2>1, <2>2 DEF Untouched
  <2>3. ASSUME NEW s \in Sources, NEW d \in Edits, EditObject(s, d) \/ DeleteObject(s, d)
        PROVE  MustHave(b) \subseteq ClaimsOf(objects'[SourceOf[b]])
    <3>1. PICK new : /\ d.ns = s /\ objects' = [objects EXCEPT ![s] = new]
                     /\ \A o \in objects[s] : Key(o) # Key(d) => o \in new
      BY <2>3, EditsDo
    <3>2. CASE s # SourceOf[b]
      BY <2>1, <3>1, <3>2 DEF TypeInv, ObjectsTyped
    <3>3. CASE s = SourceOf[b]
      <4>1. d.kind # PVC
        BY <1>1, <3>1, <3>3 DEF ClaimsCovered
      <4>2. \A o \in objects[s] : o.kind = PVC => o \in new
        BY <3>1, <4>1 DEF Key
      <4>3. objects'[s] = new
        BY <3>1 DEF TypeInv, ObjectsTyped
      <4>4. ClaimsOf(objects[s]) \subseteq ClaimsOf(new)
        BY <4>2 DEF ClaimsOf
      <4> QED BY <2>1, <3>3, <4>3, <4>4
    <3> QED BY <3>2, <3>3
  <2> QED BY <2>2, <2>3, ObjectSteps
<1>2. ASSUME NEW b \in Backups
      PROVE  /\ backups'[b].pc # "select" => MustHave(b) \subseteq backups'[b].pvcs
             /\ backups'[b].job # "none" => MustHave(b) \subseteq backups'[b].archives
  <2>1. BackupMoves(b) /\ MustHave(b) \subseteq Selected(b)
    BY BackupsMove, SelectionCovers
  <2>2. /\ backups[b].pc # "select" => MustHave(b) \subseteq backups[b].pvcs
        /\ backups[b].job # "none" => MustHave(b) \subseteq backups[b].archives
        /\ backups[b].pc = "select" => backups[b].job = "none"
    BY DEF CoverInv, TypeInv, BackupsTyped
  <2> QED BY <2>1, <2>2 DEF BackupMoves
<1>3. CASE taken' = taken
  BY <1>1, <1>2, <1>3 DEF CoverInv, MustHave
<1>4. ASSUME NEW b \in Backups, Upload(b)
      PROVE  CoverInv'
  <2> DEFINE n == Len(taken)
  <2>1. /\ n \in Nat /\ Len(taken') = n + 1 /\ taken'[n + 1] = Uploaded(b)
        /\ \A t \in 1..n : taken'[t] = taken[t]
    BY <1>4, UploadDoes
  <2>2. Uploaded(b).by = b /\ DOMAIN Uploaded(b).data = backups[b].archives
    BY DEF Uploaded
  <2>3. MustHave(b) \subseteq backups[b].archives
    BY <1>4 DEF Upload, CoverInv
  <2>4. ASSUME NEW t \in 2..(n + 1)
        PROVE  MustHave(taken'[t].by) \subseteq DOMAIN taken'[t].data
    <3>1. CASE t = n + 1
      BY <2>1, <2>2, <2>3, <3>1
    <3>2. CASE t # n + 1
      <4>1. t \in 2..n /\ t \in 1..n
        BY <2>1, <3>2
      <4> QED BY <2>1, <4>1 DEF CoverInv
    <3> QED BY <3>1, <3>2
  <2> QED BY <1>1, <1>2, <2>1, <2>4 DEF CoverInv, MustHave
<1> QED BY <1>3, <1>4 DEF Next, vars, SelectPVCs, Stage, Launch, Mount, List, Report, ClientFails,
      BeginRestore, Fetch, FillVolume, EditObject, DeleteObject, Change, WriteData, Prune,
      ApplyPre, ApplyWorkload

\* The plan asks for no volume that the snapshot does not have.
LEMMA PlannedIsArchived ==
    ASSUME TypeInv, ObjectsInv, CaptureInv, TargetInv, CoverInv,
           restore.pc \in {"pre", "volumes", "done"}, NEW c \in Planned
    PROVE  c \in DOMAIN taken[restore.ref].data
<1> DEFINE b == taken[restore.ref].by
<1>1. PICK i \in DOMAIN Docs : Docs[i].kind = PVC /\ c = Docs[i].name
  BY BucketsAre DEF WantedOf
<1>2. /\ b \in Backups /\ restore.ref \in 2..Len(taken)
      /\ Captured(restore.api, seen[b], steady[b])
      /\ seen[b] \subseteq ObjectsIn(SourceOf[b]) /\ seen[b] \subseteq Universe(SourceOf[b])
  BY <1>1, FetchedIsCaptured
<1> HIDE DEF b
<1>3. restore.api \in Yamls
  BY DEF TypeInv, RestoreTyped, RestoreType
<1>4. PICK d \in seen[b] : Alike(Docs[i], d)
  BY <1>2, <1>3, DocsComeFrom
<1>5. d.kind = PVC /\ d.name = c /\ d \in Universe(SourceOf[b])
  BY <1>1, <1>2, <1>4 DEF Alike
<1>6. c \in MustHave(b)
  BY <1>5 DEF MustHave, ClaimsOf
<1> QED BY <1>2, <1>6 DEF CoverInv, b

LEMMA WorksKept ==
    ASSUME SeparateTarget, ClaimsCovered, TypeInv, ObjectsInv, CaptureInv, TargetInv, WorksInv,
           [Next]_vars
    PROVE  WorksInv'
<1>1. CoverInv /\ RestoreWorks /\ CoverInv'
  BY CoverKept DEF WorksInv
<1>2. ASSUME restore.pc # "new", restore.ref \notin kept
      PROVE  restore.ref \notin kept'
  BY <1>2, SnapshotsGrow DEF TypeInv, RestoreTyped
<1>3. ASSUME Fetch PROVE RestoreWorks'
  BY <1>2, <1>3, FetchDoes DEF Fetch, Goes, RestoreWorks
<1>4. ASSUME NEW c \in Claims, FillVolume(c)
      PROVE  RestoreWorks'
  <2>1. restore.pc = "volumes" /\ c \in Planned /\ kept' = kept
    BY <1>4 DEF FillVolume
  <2>2. c \in DOMAIN taken[restore.ref].data
    BY <1>1, <2>1, PlannedIsArchived
  <2> QED BY <1>4, <2>1, <2>2, FillDoes DEF Goes, RestoreWorks
<1>5. ASSUME (\E b \in Backups : BeginRestore(b)) \/ ApplyPre \/ ApplyWorkload
      PROVE  RestoreWorks'
  BY <1>5, BeginDoes, AppliesDo DEF Goes, RestoreWorks
<1>6. ASSUME restore' = restore PROVE RestoreWorks'
  BY <1>1, <1>2, <1>6 DEF RestoreWorks
<1>7. RestoreWorks'
  BY <1>3, <1>4, <1>5, <1>6 DEF Next, vars, SelectPVCs, Stage, Launch, Mount, Upload, List,
      Report, ClientFails, EditObject, DeleteObject, Change, WriteData, Prune
<1> QED BY <1>1, <1>7 DEF WorksInv

\* A restore of a completed backup fails only if its snapshot is gone, whatever else
\* runs, is edited, pruned or fails meanwhile, as long as every claim the namespace
\* may have is selected: api.yaml then names no claim without an archive.
THEOREM RestoresWork == SeparateTarget /\ ClaimsCovered => (Spec => []RestoreWorks)
<1> SUFFICES ASSUME SeparateTarget, ClaimsCovered PROVE Spec => []RestoreWorks
  OBVIOUS
<1> DEFINE IInv == TypeInv /\ ObjectsInv /\ CaptureInv /\ TargetInv /\ WorksInv
<1>1. Init => IInv
  <2>1. Init => RestoreWorks
    BY DEF Init, NewRestore, RestoreWorks
  <2> QED BY <2>1, TypesAtStart, ObjectsInvAtStart, CaptureInvAtStart, TargetInvAtStart,
             CoverAtStart DEF WorksInv
<1>2. IInv /\ [Next]_vars => IInv'
  BY TypesKept, ObjectsInvKept, CaptureInvKept, TargetInvKept, WorksKept
<1>3. IInv => RestoreWorks
  BY DEF WorksInv
<1> QED BY <1>1, <1>2, <1>3, PTL DEF Spec

-----------------------------------------------------------------------------
(* Pods and their volumes.                                                 *)

\* Every filled volume is where the plan puts it.
NodeInv ==
    /\ restore.pc \in {"new", "fetch", "pre"} => restore.filled = {}
    /\ \A c \in restore.filled : volumes[c].node = NodeFor(c)
    /\ restore.pc = "done" => restore.filled = Planned

LEMMA NodesStay ==
    ASSUME restore'.api = restore.api
    PROVE  \A c : NodeFor(c)' = NodeFor(c)
BY DEF NodeFor, Docs

LEMMA NodeInvKept ==
    ASSUME TypeInv, NodeInv, [Next]_vars
    PROVE  NodeInv'
<1>1. restore.filled \subseteq Claims
  BY DEF TypeInv, RestoreTyped, RestoreType
<1>2. CASE \/ \E b \in Backups : BeginRestore(b)
           \/ Fetch \/ ApplyPre
  <2>1. volumes' = volumes /\ restore'.filled = restore.filled /\ restore'.pc # "done"
    BY <1>2, BeginDoes, FetchDoes, AppliesDo DEF BeginRestore, Fetch, ApplyPre, Goes
  <2>2. restore.filled = {}
    BY <1>2 DEF BeginRestore, Fetch, ApplyPre, NodeInv
  <2> QED BY <2>1, <2>2 DEF NodeInv
<1>3. CASE ApplyWorkload
  <2>1. /\ volumes' = volumes /\ Planned = restore.filled
        /\ Goes("done", restore.of, restore.ref, restore.api, restore.filled)
    BY <1>3, AppliesDo DEF ApplyWorkload
  <2> QED BY <2>1, NodesStay, DocsStay DEF Goes, NodeInv
<1>4. ASSUME NEW c \in Claims, FillVolume(c)
      PROVE  NodeInv'
  <2>1. c \notin restore.filled
    BY <1>4 DEF FillVolume
  <2>2. CASE /\ Goes("volumes", restore.of, restore.ref, restore.api, restore.filled \cup {c})
             /\ Bound(c, taken[restore.ref].data[c])
    BY <1>1, <2>1, <2>2, NodesStay DEF Goes, Bound, NodeInv
  <2>3. CASE /\ Goes("failed", restore.of, restore.ref, restore.api, restore.filled)
             /\ Bound(c, Empty)
    BY <1>1, <2>1, <2>3, NodesStay DEF Goes, Bound, NodeInv
  <2> QED BY <1>4, <2>2, <2>3, FillDoes
<1>5. CASE UNCHANGED <<restore, volumes>>
  BY <1>5, NodesStay, DocsStay DEF NodeInv
<1> QED BY <1>2, <1>3, <1>4, <1>5 DEF Next, vars, SelectPVCs, Stage, Launch, Mount, Upload, List,
      Report, ClientFails, EditObject, DeleteObject, Change, WriteData, Prune

\* Pods of a workload that is pinned to a node and mounts the claim.
PinnedOn(d, c) == d.kind \in WorkloadKinds /\ d.pin # 0 /\ Mounts(d, c)

\* Pinned workloads that share a claim, or whose claims the prefix test takes for
\* each other's, are pinned to one node, none of them is a CronJob, and none is in the
\* target beforehand.
PinsAgree ==
    /\ \A s \in Sources, c \in Claims : \A d \in Universe(s) :
          PinnedOn(d, c) =>
              /\ HasTemplate(d)
              /\ \A e \in Universe(s) :
                    ClaimsVolume(e, c) /\ e.pin # 0 /\ Key(e) # Key(d) => e.pin = d.pin
    /\ \A d \in InitObjects[Target], c \in Claims : ~PinnedOn(d, c)

LEMMA NamesAreSequences ==
    ASSUME NEW d \in Doc
    PROVE  d.name \in Seq(STRING) /\ d.templates \subseteq Seq(STRING)
<1>1. PICK key \in Keys : d.name = key[2]
  BY DEF Doc, ObjectNames
<1>2. key \in Kinds \X Seq(STRING)
  BY CatalogAssumption DEF Keys, Range
<1> QED BY <1>1, <1>2, CatalogAssumption DEF Doc

\* The prefix test finds every claim the pods of a StatefulSet mount.
LEMMA MountsAreFound ==
    ASSUME NEW d \in Doc, NEW c, HasTemplate(d), Mounts(d, c)
    PROVE  ClaimsVolume(d, c)
<1>1. ASSUME NEW t \in d.templates, Len(c) = Len(t) + Len(d.name) + 1, IsPrefix(t \o d.name, c)
      PROVE  IsStrictPrefix(t \o d.name, c)
  <2>1. t \in Seq(STRING) /\ d.name \in Seq(STRING)
    BY NamesAreSequences
  <2>2. Len(t \o d.name) = Len(t) + Len(d.name) /\ Len(t) \in Nat /\ Len(d.name) \in Nat
    BY <2>1
  <2>3. t \o d.name # c
    BY <1>1, <2>2
  <2> QED BY <1>1, <2>3 DEF IsStrictPrefix
<1> QED BY <1>1 DEF Mounts, ClaimsVolume

LEMMA AlikePods ==
    ASSUME NEW d, NEW e, Alike(d, e), NEW c
    PROVE  /\ Mounts(d, c) = Mounts(e, c) /\ ClaimsVolume(d, c) = ClaimsVolume(e, c)
           /\ d.pin = e.pin /\ d.kind = e.kind
BY DEF Alike, Mounts, ClaimsVolume, HasTemplate

LEMMA PodsSuffice ==
    ASSUME PinsAgree, TypeInv, ObjectsInv, CaptureInv, TargetInv, NodeInv
    PROVE  PodsFindVolumes
<1> SUFFICES ASSUME restore.pc = "done", NEW x \in objects[Target], x.kind \in WorkloadKinds,
                    x.pin # 0, NEW c \in Planned, Mounts(x, c)
             PROVE  volumes[c].node = x.pin
  BY DEF PodsFindVolumes
<1>1. restore.api \in Yamls /\ Docs \in Yamls /\ c \in Claims /\ volumes[c].node = NodeFor(c)
  BY DocsTyped DEF TypeInv, RestoreTyped, RestoreType, NodeInv
<1>2. objects[Target] = Upsert(Upsert(InitObjects[Target], PreDocs), WorkDocs)
  BY DEF TargetInv
<1>3. x \in InitObjects[Target] \/ x \in PreDocs \/ x \in WorkDocs
  BY <1>2 DEF Upsert
<1>4. x \notin InitObjects[Target]
  BY <1>1 DEF PinsAgree, PinnedOn
<1>5. x \notin PreDocs
  BY BucketsAre DEF WantedOf, PreKinds, WorkloadKinds
<1>6. PICK i \in DOMAIN Docs : x = Docs[i]
  BY <1>3, <1>4, <1>5, BucketsAre DEF WantedOf
<1> DEFINE b == taken[restore.ref].by
           S == seen[b]
           s == SourceOf[b]
<1>7. /\ b \in Backups /\ Captured(restore.api, S, steady[b])
      /\ S \subseteq ObjectsIn(s) /\ S \subseteq Universe(s)
  BY <1>6, FetchedIsCaptured
<1>8. s \in Sources
  BY <1>7, PathInputs
<1> HIDE DEF s, S, b
<1>9. \A j \in DOMAIN Docs : \E d \in S : Key(d) = Catalog[j] /\ Alike(Docs[j], d)
  BY <1>1, <1>7, DocsComeFrom
<1>10. PICK d \in S : Key(d) = Catalog[i] /\ Alike(x, d)
  BY <1>6, <1>9
<1>11. PinnedOn(d, c) /\ d \in Doc /\ d \in Universe(s)
  BY <1>7, <1>10, AlikePods DEF PinnedOn, ObjectsIn
<1>12. HasTemplate(d)
  BY <1>1, <1>8, <1>11 DEF PinsAgree
<1>13. ClaimsVolume(Docs[i], c) /\ Docs[i].pin # 0
  BY <1>6, <1>10, <1>11, <1>12, MountsAreFound, AlikePods DEF PinnedOn
<1>14. PICK j \in DOMAIN Docs : /\ ClaimsVolume(Docs[j], c) /\ Docs[j].pin # 0
                                /\ NodeForPVC(Docs, c) = Docs[j].pin
  BY <1>1, <1>13, NodeOfClaim
<1>15. Docs[j].pin = x.pin
  <2>1. PICK e \in S : Key(e) = Catalog[j] /\ Alike(Docs[j], e)
    BY <1>9
  <2>2. /\ ClaimsVolume(e, c) /\ e.pin # 0 /\ e \in Universe(s)
        /\ e.pin = Docs[j].pin /\ d.pin = x.pin
    BY <1>7, <1>10, <1>14, <2>1, AlikePods
  <2>3. CASE Key(e) # Key(d)
    BY <1>1, <1>8, <1>11, <2>2, <2>3 DEF PinsAgree
  <2>4. CASE Key(e) = Key(d)
    <3>1. i \in DOMAIN Catalog /\ j \in DOMAIN Catalog /\ Catalog[i] = Catalog[j]
      BY <1>1, <1>10, <2>1, <2>4, YamlDocs
    <3>2. i = j
      BY <3>1, CatalogAssumption DEF IsInjective
    <3> QED BY <1>6, <3>2
  <2> QED BY <2>3, <2>4
<1>16. NodeFor(c) = x.pin
  BY <1>14, <1>15 DEF NodeFor
<1> QED BY <1>1, <1>16

\* Once a restore is done, every pinned workload it brought back finds its volumes on
\* its node, for any number of workloads, claims and nodes, when the pins agree.
THEOREM PodsFindTheirVolumes == SeparateTarget /\ PinsAgree => (Spec => []PodsFindVolumes)
<1> SUFFICES ASSUME SeparateTarget, PinsAgree PROVE Spec => []PodsFindVolumes
  OBVIOUS
<1> DEFINE IInv == TypeInv /\ ObjectsInv /\ CaptureInv /\ TargetInv /\ NodeInv
<1>1. Init => IInv
  <2>1. Init => NodeInv
    BY DEF Init, NewRestore, NodeInv
  <2> QED BY <2>1, TypesAtStart, ObjectsInvAtStart, CaptureInvAtStart, TargetInvAtStart
<1>2. IInv /\ [Next]_vars => IInv'
  BY TypesKept, ObjectsInvKept, CaptureInvKept, TargetInvKept, NodeInvKept
<1>3. IInv => PodsFindVolumes
  BY PodsSuffice
<1> QED BY <1>1, <1>2, <1>3, PTL DEF Spec
=============================================================================
