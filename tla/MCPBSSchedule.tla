--------------------------- MODULE MCPBSSchedule ---------------------------
(* Instances of PBSSchedule for TLC: two ticks between slots, so that a slot *)
(* can be missed, caught up with, and served late.                           *)
EXTENDS PBSSchedule
=============================================================================
