-------------------------- MODULE MCCapabilityRun --------------------------
(* Instances of CapabilityRun for TLC. *)
EXTENDS CapabilityRun

(* Step 3 verifies step 1; step 2 is left for a revised plan. *)
GoalDeps == [n \in Nodes |-> IF n = 3 THEN {1} ELSE {}]
=============================================================================
