---------------------------- MODULE MCPBSRestore ----------------------------
(* Instances of PBSRestore for TLC. *)
EXTENDS PBSRestore

\* The first volume is used on the second node, the others are not pinned.
FirstOnSecond == [v \in Volumes |-> IF v = 1 THEN 2 ELSE 0]
\* Every volume has a consumer, on the other node than its number.
AllPinned == [v \in Volumes |-> 3 - v]

\* All gates are open.
OpenWorld == [valid |-> TRUE, ready |-> TRUE, secret |-> TRUE, terminating |-> FALSE,
              nodes |-> Nodes, manifest |-> "good"]
OpenWorlds == {OpenWorld}
=============================================================================
