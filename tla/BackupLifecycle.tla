--------------------------- MODULE BackupLifecycle ---------------------------
(***************************************************************************)
(* What a PBSBackup promises its user, without caches, Jobs or retries:    *)
(* the phase moves New -> Scheduled -> Running -> Completed | Failed, may  *)
(* skip ahead but never back, and Completed means that every wanted item   *)
(* has been secured on the backup server.                                  *)
(***************************************************************************)
CONSTANT Items          \* the PVCs a backup may be asked to secure

VARIABLES phase,        \* status.phase
          wanted,       \* the items selected by the spec
          secured       \* the items that are on the backup server

lvars == <<phase, wanted, secured>>

Open == phase \in {"New", "Scheduled", "Running"}

LInit == phase = "New" /\ wanted \in SUBSET Items /\ secured = {}

Wait == phase = "New" /\ phase' = "Scheduled" /\ UNCHANGED <<wanted, secured>>

Start == /\ phase \in {"New", "Scheduled"}
         /\ phase' = "Running"
         /\ UNCHANGED <<wanted, secured>>

\* An upload lands; one that was under way may land after the backup failed.
Secure == /\ secured' \in SUBSET Items /\ secured \subseteq secured'
          /\ UNCHANGED <<phase, wanted>>

Complete == /\ Open /\ wanted \subseteq secured
            /\ phase' = "Completed"
            /\ UNCHANGED <<wanted, secured>>

Fail == Open /\ phase' = "Failed" /\ UNCHANGED <<wanted, secured>>

LNext == Wait \/ Start \/ Secure \/ Complete \/ Fail

LSpec == LInit /\ [][LNext]_lvars
=============================================================================
