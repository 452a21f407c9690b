---------------------------- MODULE MCPBSBackup ----------------------------
(* Instances of PBSBackup for TLC. *)
EXTENDS PBSBackup

\* The first claim is mounted by a hooked pod.
FirstHooked == [c \in Claims |-> IF c = 1 THEN "valid" ELSE "none"]
\* All are; the annotation of the second's pod does not parse.
SecondInvalid == [c \in Claims |-> IF c = 2 THEN "invalid" ELSE "valid"]

\* All gates are open and the claims are at the given homes.
AtHome(home) == [ready |-> TRUE, secret |-> TRUE, home |-> home,
                 nodes |-> Nodes, objects |-> TRUE]

OnePerNode == {AtHome([c \in Claims |-> c])}
\* The last claim is unbound, or does not exist, at first.
LastAt(h) == AtHome([c \in Claims |-> IF c = Max(Claims) THEN h ELSE c])
LastUnbound == {LastAt(Unplaceable)}
LastMissing == {LastAt(Absent)}
=============================================================================
