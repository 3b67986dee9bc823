------------------------------ MODULE MCServer ------------------------------
(***************************************************************************)
(* Instances of Server for TLC.                                            *)
(***************************************************************************)
EXTENDS Server, TLC

CONSTANTS ra, rb, rc,   \* requests, as model values
          g1, g2        \* GPU workers, as model values

(* Two requests, three workflows of one partition; any two fit in a batch, *)
(* so batches may hold one request or both.                                *)
MCRequests == {ra, rb}
MCWorkflows == {1, 2, 3}
MCRequestOf == <<ra, ra, rb>>
MCPartitionOf == <<"P", "P", "P">>
MCNodesOf == <<1, 2, 1>>
MCBatches == {S \in SUBSET MCWorkflows : Cardinality(S) <= 2}
MCWorkers == {"c1", "c2"}
MCNoGpu == {}
MCMeets == [P |-> {"c1", "c2"}]
MCGpuGroup == [P |-> 0]
MCFlaky == {"c2"}
(* One workflow each, which may or may not travel together.                *)
MCTwo == {1, 2}
MCTwoRequestOf == <<ra, rb>>
MCTwoPartitionOf == <<"P", "P">>
MCTwoNodesOf == <<1, 2>>
MCTwoBatches == SUBSET MCTwo
(* No CPU workers in a group: two requests that may share a batch need a   *)
(* GPU, and a third one needs no worker at all, which is refused.          *)
MCThreeRequests == {ra, rb, rc}
MCThreeRequestOf == <<ra, rb, rc>>
MCGpuPartitionOf == <<"P", "P", "Q">>
MCGpuBatches == SUBSET MCTwo \cup {{3}}
MCGpuWorkers == {g1, g2}
MCGpuList == MCGpuWorkers \cup {"c1"}
MCGpuMeets == [P |-> MCGpuList, Q |-> MCGpuList]
MCGpuOrNone == [P |-> 1, Q |-> 0]
(* The two GPU workers are interchangeable: no action names or orders them. *)
MCGpuSymmetry == Permutations(MCGpuWorkers)
=============================================================================
