-------------------------- MODULE WorkspaceContract --------------------------
(***************************************************************************)
(* What a Compose project relies on: its operations share one workspace,   *)
(* so one of them has it at a time, from the claim that made it active to  *)
(* the row that ends it; commands run in it only for the one that has it,  *)
(* and it is given back when they have ended.  DockerOperation implements  *)
(* it for the runners that hold callback tokens.                           *)
(***************************************************************************)
CONSTANT Ops

VARIABLES
    holders,   \* the operations that have the workspace
    atWork     \* those whose commands run

vars == <<holders, atWork>>

Init == holders = {} /\ atWork = {}

Take(o) == holders = {} /\ holders' = {o} /\ UNCHANGED atWork
Start(o) == holders = {o} /\ atWork = {} /\ atWork' = {o} /\ UNCHANGED holders
End(o) == atWork = {o} /\ atWork' = {} /\ UNCHANGED holders
Release(o) == holders = {o} /\ atWork = {} /\ holders' = {} /\ UNCHANGED atWork

Next == \E o \in Ops : Take(o) \/ Start(o) \/ End(o) \/ Release(o)

Spec == Init /\ [][Next]_vars
=============================================================================
