---------------------------- MODULE ShardRewrite ----------------------------
(***************************************************************************)
(* How FlowmeshRuntimeManager (runtime/runtime_manager/flowmesh.py) turns  *)
(* the nodes of a batch and an optimizer's worker assignment into FlowMesh *)
(* nodes: a node assigned to several workers is split into shards, one per *)
(* worker, the references between nodes are redirected to the shards, a    *)
(* merge node gathers the shards where somebody needs the whole, and the   *)
(* flat schedule hint orders the result.                                   *)
(*                                                                         *)
(* A graph is a record: deps (dependsOn), lists (the lengths of the static *)
(* lists in spec.data), ref (how spec refers to the dependencies: "items"  *)
(* is an unindexed items path, "none" no path, "whole" any other path),    *)
(* outputs, and gpus (the nodes that need a GPU).  Nodes are numbered in   *)
(* node_order, which need not be topological; workers in the order of the  *)
(* assignment's keys.  A rewritten node is named <<n, k>>: <<n, 0>> is the *)
(* name of n itself, <<n, k>> its k-th shard.                              *)
(***************************************************************************)
EXTENDS GraphOrder, Deques

NoTotal == 0    \* no static list: None in the code

VARIABLES
  at,         \* how far _build_task_spec has come
  graph,      \* the batch's nodes
  gpuCount,   \* hardware.gpu of the batch
  assignment, \* schedule.worker_assignment
  todo,       \* what is left of the rewrite order
  candidates, \* effective_node_candidates
  parts,      \* partitions_by_raw; its domain is shard_nodes_by_raw
  fmNodes,    \* the rewritten nodes: name -> dependsOn and rows read
  placed,     \* the rewritten worker assignment
  hint        \* node_execution_order

rewriteVars == <<at, graph, gpuCount, assignment, todo, candidates, parts,
                 fmNodes, placed, hint>>

Nodes == DOMAIN graph.deps
WorkerIds == DOMAIN assignment
Sharded == DOMAIN parts

-----------------------------------------------------------------------------
(* Nodes met when walking dependsOn from n.                                *)
Ancestors(n) == Closure(graph.deps[n], graph.deps)

-----------------------------------------------------------------------------
(* Totals: how many rows a node's static lists stand for.                  *)

(* A list of one element serves every row; the others must agree.          *)
SizesAgree(sizes) == sizes \subseteq {1, Max(sizes \cup {1})}
Consistent(n) == \A len \in graph.lists[n] : len \in {1, Max(graph.lists[n])}
StaticTotal(n) ==
  IF graph.lists[n] = {} THEN NoTotal ELSE Max(graph.lists[n] \cup {1})
TotalsOf(S) == {StaticTotal(n) : n \in S} \ {NoTotal}

(* _infer_unsharded_dependency_total: the direct dependencies' lists, or   *)
(* else those of all ancestors; a failure when they disagree.              *)
DependencySource(n) ==
  IF TotalsOf(graph.deps[n]) # {} THEN graph.deps[n] ELSE Ancestors(n)
UsableSource(S) ==
  /\ \A m \in S : Consistent(m)
  /\ TotalsOf(S) # {}
  /\ SizesAgree(TotalsOf(S))

(* A deviation: parts of equal size as long as there are rows.             *)
PartStartRoundedUp(total, count, k) ==
  Minimum(total, k * ((total + count - 1) \div count))

(* _build_index_partitions: the first total % count parts get one more.    *)
PartStart(total, count, k) ==
  k * (total \div count) + Minimum(k, total % count)
IndexPartitions(total, count) ==
  [k \in 1..count |-> <<PartStart(total, count, k - 1), PartStart(total, count, k)>>]

Size(part) == part[2] - part[1]
RowTotal(ps) == IF ps = << >> THEN 0 ELSE ps[Len(ps)][2]

-----------------------------------------------------------------------------
(* _apply_per_node_resource_hints and _collect_node_worker_candidates.     *)

Refuse(step) ==
  /\ at' = step
  /\ UNCHANGED <<graph, gpuCount, assignment, todo, candidates, parts, fmNodes,
                 placed, hint>>

(* A node that needs a GPU when none is asked for.                         *)
GpuRefused == gpuCount <= 0 /\ graph.gpus # {}

CandidatesOf(n) ==
  Keep([w \in WorkerIds |-> w], {w \in WorkerIds : n \in ToSet(assignment[w])})

ValidAssignment ==
  /\ \A w \in WorkerIds : IsInjective(assignment[w])
  /\ UNION {ToSet(assignment[w]) : w \in WorkerIds} = Nodes

(* Without a node on two workers nothing is rewritten.                     *)
CollectCandidates ==
  /\ at = "submit"
  /\ IF GpuRefused \/ ~ValidAssignment
     THEN Refuse("refused")
     ELSE /\ candidates' = [n \in Nodes |-> CandidatesOf(n)]
          /\ IF \A n \in Nodes : Len(candidates'[n]) = 1
             THEN /\ at' = "hint"
                  /\ fmNodes' = [x \in Nodes \X {0} |->
                                   [deps |-> graph.deps[x[1]] \X {0}, reads |-> << >>]]
                  /\ placed' = [w \in WorkerIds |->
                                  [i \in DOMAIN assignment[w] |-> <<assignment[w][i], 0>>]]
                  /\ UNCHANGED todo
             ELSE /\ todo' = HeapOrder(Nodes, graph.deps, [n \in Nodes |-> n])
                  /\ at' = IF Len(todo') = Cardinality(Nodes) THEN "shard" ELSE "cycle"
                  /\ UNCHANGED <<fmNodes, placed>>
          /\ UNCHANGED <<graph, gpuCount, assignment, parts, hint>>

-----------------------------------------------------------------------------
(* One turn of the loop over the rewrite order.                            *)

ShardedDeps(n) == graph.deps[n] \cap Sharded
DepCounts(n) == {Len(parts[d]) : d \in ShardedDeps(n)}
DepRows(n) == {RowTotal(parts[d]) : d \in ShardedDeps(n)}

ShardCount(n) == Min({Len(candidates[n])} \cup DepCounts(n))

(* Whether the number of rows of n is known: its own lists say it, or its  *)
(* sharded dependencies, which must then have as many shards as n gets, or *)
(* the lists of the nodes it depends on.                                   *)
Shardable(n) ==
  /\ Consistent(n)
  /\ Cardinality(DepCounts(n)) <= 1
  /\ StaticTotal(n) = NoTotal =>
       /\ graph.deps[n] # {}
       /\ IF ShardedDeps(n) = {}
          THEN /\ UsableSource(DependencySource(n))
               /\ Max(TotalsOf(DependencySource(n))) > 1
               /\ UsableSource(Ancestors(n))
          ELSE /\ DepCounts(n) = {ShardCount(n)}
               /\ Cardinality(DepRows(n)) = 1

ShardRows(n) ==
  IF StaticTotal(n) # NoTotal THEN StaticTotal(n)
  ELSE IF ShardedDeps(n) # {} THEN Max(DepRows(n) \cup {1})
  ELSE Max(TotalsOf(Ancestors(n)) \cup {1})

(* The workers that get a shard.                                           *)
EffectiveCandidates(n, count) == SubSeq(candidates[n], 1, count)

ShardNode ==
  /\ at = "shard"
  /\ todo # << >>
  /\ LET n == Head(todo)
         count == Minimum(ShardCount(n), Max({1, ShardRows(n)}))
     IN  IF Len(candidates[n]) = 1
         THEN /\ todo' = Tail(todo)
              /\ UNCHANGED <<at, graph, gpuCount, assignment, candidates, parts,
                             fmNodes, placed, hint>>
         ELSE IF ~Shardable(n) THEN Refuse("refused")
         ELSE /\ todo' = Tail(todo)
              /\ parts' = [m \in Sharded \cup {n} |->
                             IF m = n THEN IndexPartitions(ShardRows(n), count)
                             ELSE parts[m]]
              /\ candidates' = [candidates EXCEPT ![n] = EffectiveCandidates(n, count)]
              /\ UNCHANGED <<at, graph, gpuCount, assignment, fmNodes, placed, hint>>

(* The other nodes stay on the worker they were first assigned to.         *)
PinnedCandidates ==
  [n \in Nodes |-> IF n \in Sharded THEN candidates[n] ELSE SubSeq(candidates[n], 1, 1)]

PrunedAssignment ==
  [w \in WorkerIds |-> Keep(assignment[w], {n \in Nodes : w \in ToSet(candidates[n])})]

-----------------------------------------------------------------------------
(* Emitting the rewritten nodes.                                           *)

(* A deviation: only an output gets a merge node.                          *)
MergeRequiredForOutputs == Sharded \cap graph.outputs

(* _compute_merge_required_nodes: the outputs and whatever an unsharded    *)
(* node consumes.                                                          *)
MergeRequired ==
  Sharded \cap (graph.outputs \cup UNION {graph.deps[n] : n \in Nodes \ Sharded})

(* A static list must be cut along the rows or serve all of them.          *)
ListsCut(n) == graph.lists[n] \subseteq {1, RowTotal(parts[n])}

(* A sharded dependency must have a shard of the same index.               *)
ShardsMatch(n) == \A d \in ShardedDeps(n) : Len(parts[d]) >= Len(parts[n])

(* An unsharded dependency is read along the rows, if their number is      *)
(* known to match, or as a whole through a path.                           *)
SlicesInlined(n) ==
  \A d \in graph.deps[n] \ Sharded :
    /\ graph.ref[n] \in {"items", "none"} => Consistent(d)
    /\ graph.ref[n] = "items" => StaticTotal(d) \in {NoTotal, 1, RowTotal(parts[n])}
    /\ graph.ref[n] = "none" => StaticTotal(d) = 1

Emittable(n) == ListsCut(n) /\ ShardsMatch(n) /\ SlicesInlined(n)

(* The rows of each dependency that shard k of n reads, as positions in    *)
(* the dependency's whole output; a dependency read as a whole is left out.*)
RowsRead(n, k) ==
  [d \in ShardedDeps(n) \cup (IF graph.ref[n] = "items" THEN graph.deps[n] ELSE {}) |->
     IF d \in Sharded
     THEN [i \in 1..Size(parts[d][k]) |-> parts[d][k][1] + i - 1]
     ELSE [i \in 1..Size(parts[n][k]) |->
             IF StaticTotal(d) = 1 THEN 0 ELSE parts[n][k][1] + i - 1]]

ShardDeps(n, k) == {<<d, IF d \in Sharded THEN k ELSE 0>> : d \in graph.deps[n]}
ShardNames(n) == {n} \X (DOMAIN parts[n])

(* _build_merge_node: an echo of the shards that hold rows.                *)
MergeNode(n) ==
  [deps |-> ShardNames(n),
   reads |-> SelectSeq([k \in DOMAIN parts[n] |-> <<n, k>>],
                       LAMBDA s : Size(parts[n][s[2]]) > 0)]

RewrittenNames ==
  ((Nodes \ Sharded) \X {0}) \cup (MergeRequired \X {0})
    \cup UNION {ShardNames(n) : n \in Sharded}

RewrittenNode(x) ==
  CASE x[1] \notin Sharded -> [deps |-> graph.deps[x[1]] \X {0}, reads |-> << >>]
    [] x[1] \in Sharded /\ x[2] = 0 -> MergeNode(x[1])
    [] OTHER -> [deps |-> ShardDeps(x[1], x[2]), reads |-> RowsRead(x[1], x[2])]

EmitNodes ==
  /\ at = "shard"
  /\ todo = << >>
  /\ IF \A n \in Sharded : Emittable(n)
     THEN /\ at' = "assign"
          /\ candidates' = PinnedCandidates
          /\ fmNodes' = [x \in RewrittenNames |-> RewrittenNode(x)]
          /\ UNCHANGED <<graph, gpuCount, assignment, todo, parts, placed, hint>>
     ELSE Refuse("refused")

-----------------------------------------------------------------------------
(* _rewrite_worker_assignment_for_shards.                                  *)

ShardIndex(n, w) == CHOOSE k \in DOMAIN candidates[n] : candidates[n][k] = w

(* The merge node goes to the first worker without a shard, if any.        *)
MergeHost(n) ==
  LET without == WorkerIds \ ToSet(candidates[n])
  IN  IF without # {} THEN Min(without) ELSE candidates[n][1]

(* What worker w runs in place of raw node n.                              *)
Placement(n, w) ==
  IF n \notin Sharded THEN <<<<n, 0>>>>
  ELSE <<<<n, ShardIndex(n, w)>>>> \o
       (IF n \in MergeRequired /\ MergeHost(n) = w THEN <<<<n, 0>>>> ELSE << >>)

PlacedShards ==
  [w \in WorkerIds |->
     FlattenSeq([i \in DOMAIN PrunedAssignment[w] |-> Placement(PrunedAssignment[w][i], w)])]

(* Merge nodes whose host runs no shard of theirs come last, in the order  *)
(* of a set of strings: any order.                                         *)
UnplacedMerges ==
  {n \in MergeRequired : <<n, 0>> \notin ToSet(PlacedShards[MergeHost(n)])}

AssignShards ==
  /\ at = "assign"
  /\ \E order \in SetToSeqs(UnplacedMerges) :
       placed' = [w \in WorkerIds |->
                    LET late == Keep(order, {n \in UnplacedMerges : MergeHost(n) = w})
                    IN  PlacedShards[w] \o [i \in DOMAIN late |-> <<late[i], 0>>]]
  /\ at' = IF UNION {ToSet(placed'[w]) : w \in WorkerIds} = DOMAIN fmNodes
           THEN "hint" ELSE "uncovered"
  /\ UNCHANGED <<graph, gpuCount, assignment, todo, candidates, parts, fmNodes, hint>>

-----------------------------------------------------------------------------
(* _build_flat_schedule_hint: the nodes in topological order, those seen   *)
(* first in the workers' lists first.                                      *)
AllPlaced == FlattenSeq(placed)

BuildHint ==
  /\ at = "hint"
  /\ LET names == DOMAIN fmNodes
         deps == [x \in names |-> fmNodes[x].deps]
         rank == [x \in names |-> CHOOSE i \in DOMAIN AllPlaced :
                     /\ AllPlaced[i] = x
                     /\ \A j \in 1..(i - 1) : AllPlaced[j] # x]
         order == HeapOrder(names, deps, rank)
     IN  IF /\ \A w \in WorkerIds : IsInjective(placed[w])
            /\ ToSet(AllPlaced) = names
            /\ Len(order) = Cardinality(names)
         THEN /\ hint' = order
              /\ at' = "hinted"
              /\ UNCHANGED <<graph, gpuCount, assignment, todo, candidates, parts,
                             fmNodes, placed>>
         ELSE Refuse("unhinted")

RewriteNext == CollectCandidates \/ ShardNode \/ EmitNodes \/ AssignShards \/ BuildHint

-----------------------------------------------------------------------------
(* Properties.                                                             *)

(* The index ranges of a sharded node's shards follow one another from 0   *)
(* without gap or overlap and none is empty, so that no shard worker idles *)
(* and no row is computed twice (_build_index_partitions and the capping   *)
(* of the shard count by the number of rows).  A shard that has no list of *)
(* its own computes the rows its dependencies' shards of the same index    *)
(* hold: what _infer_shard_input_size compares leaves no other cut.        *)
ShardRowsExact ==
  \A n \in Sharded :
    /\ parts[n][1][1] = 0
    /\ \A k \in DOMAIN parts[n] : Size(parts[n][k]) > 0
    /\ \A k \in 2..Len(parts[n]) : parts[n][k][1] = parts[n][k - 1][2]
    /\ Len(candidates[n]) = Len(parts[n])
    /\ graph.lists[n] = {} => \A d \in ShardedDeps(n) : parts[d] = parts[n]

(* A rewrite that was accepted node by node never fails on its own result: *)
(* the internal errors of the rewritten assignment and of the hint builder *)
(* (uncovered node, unknown node, duplicate, cycle) cannot be raised, for  *)
(* graphs without a cycle.  Every node sent to FlowMesh runs on one        *)
(* worker, at one place of its list, and depends on nodes that were sent;  *)
(* the hint lists each of them once and after everything it depends on.    *)
RewriteIsSchedulable ==
  /\ at \notin {"cycle", "uncovered", "unhinted"}
  /\ at = "hinted" =>
       /\ IsInjective(AllPlaced) /\ ToSet(AllPlaced) = DOMAIN fmNodes
       /\ \A x \in DOMAIN fmNodes : fmNodes[x].deps \subseteq DOMAIN fmNodes
       /\ IsInjective(hint) /\ ToSet(hint) = DOMAIN fmNodes
       /\ \A i \in DOMAIN hint :
            fmNodes[hint[i]].deps \subseteq {hint[j] : j \in 1..(i - 1)}
=============================================================================
