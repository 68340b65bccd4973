-------------------------- MODULE MCDeliverySystem --------------------------
(* The batches of MCDeliveryRun, with executors. *)
EXTENDS DeliverySystem, MCDeliveryRun
=============================================================================
