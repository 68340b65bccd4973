--------------------------- MODULE MCDeliveryRun ---------------------------
(* Small batches for TLC. *)
EXTENDS DeliveryRun, TLC

edge(s, t, c) == [source |-> s, target |-> t, condition |-> c]

(* Two targets that are only built, as compileDeliveryDAG orders them when    *)
(* all builds come first: each has its end, and a barrier follows both.       *)
BuildNodes == 1 .. 5
BuildStage == <<"build", "build", "barrier", "barrier", "barrier">>
BuildEdges == {edge(1, 3, "success"), edge(2, 4, "success"),
               edge(1, 5, "settled"), edge(2, 5, "settled")}
BuildLast == {3, 4}

(* One target taken through its stages, and what follows it in any case. *)
ChainNodes == {1, 2, 3, 4}
ChainStage == <<"plan", "deploy", "health", "barrier">>
ChainEdges == {edge(1, 2, "success"), edge(2, 3, "success"), edge(3, 4, "settled")}
ChainLast == {3}

OneProcess == [w \in Workers |-> "p1"]
Interchangeable == Permutations(Workers)
=============================================================================
