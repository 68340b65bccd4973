------------------------- MODULE MCDockerOperation -------------------------
(* Instances of DockerOperation for TLC. *)
EXTENDS DockerOperation, TLC

Interchangeable == Permutations(Handlers)
=============================================================================
