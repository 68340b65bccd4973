--------------------------- MODULE MCDeliveryJob ---------------------------
(* Instances of DeliveryJob for TLC. *)
EXTENDS DeliveryJob
=============================================================================
