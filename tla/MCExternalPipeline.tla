------------------------- MODULE MCExternalPipeline -------------------------
(* Instances of ExternalPipeline for TLC. *)
EXTENDS ExternalPipeline, TLC
=============================================================================
