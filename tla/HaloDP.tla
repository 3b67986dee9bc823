------------------------------- MODULE HaloDP -------------------------------
(***************************************************************************)
(* The schedule search of HaloOptimizer (runtime/optimizer/halo.py and     *)
(* schedule/halo_dp.py).  The solver runs a graph in epochs: an epoch runs *)
(* a set of GPU nodes, at most one per GPU worker, and every CPU node that *)
(* becomes runnable with them.  It looks for the cheapest sequence of      *)
(* epochs, cutting branches by a lower bound and by worker symmetry.       *)
(*                                                                         *)
(* A problem h is a record: deps, kind ("gpu", "db" or "other"), model,    *)
(* exec and init (seconds per GPU node, and to load a model), plans (the   *)
(* profiled plans of a db node: cost and tables touched), window (how many *)
(* queries back a plan finds tables in the cache), gpuWorkers, cpuWorkers  *)
(* (sequences).  Costs are integers, in units of 0.1 ms, and divisions     *)
(* round down.                                                             *)
(***************************************************************************)
EXTENDS GraphOrder, Functions, TLC

NoModel == "no model"
NoNode == 0

GpuNodes(h) == {n \in DOMAIN h.deps : h.kind[n] = "gpu"}
DbNodes(h) == {n \in DOMAIN h.deps : h.kind[n] = "db"}

(* _validate_supported_runtime_nodes, _build_workers and                   *)
(* _build_node_worker_options: only GPU and data retrieval nodes, and a    *)
(* worker of their kind for each.                                          *)
Supported(h) ==
  /\ DOMAIN h.deps = GpuNodes(h) \cup DbNodes(h)
  /\ GpuNodes(h) # {} => h.gpuWorkers # << >>
  /\ DbNodes(h) # {} => h.cpuWorkers # << >>

(* A search state, which is also the key of the memo: nodes done, what     *)
(* each GPU worker ran last, and the epoch.                                *)
StartState(h) ==
  [done |-> {}, epoch |-> 0,
   last |-> [w \in ToSet(h.gpuWorkers) |-> [model |-> NoModel, node |-> NoNode]]]

-----------------------------------------------------------------------------
(* Weights: _resolve_dp_tuning, in thousandths.                            *)

DbShare(h) == (1000 * Cardinality(DbNodes(h))) \div Cardinality(DOMAIN h.deps)
BatchSlack(h) == IF Cardinality(DOMAIN h.deps) > 32 THEN 0 ELSE 1
BoundFactor(h) == IF Cardinality(DOMAIN h.deps) > 32 THEN 250 ELSE 200
Clamp(x, low, high) == Max({low, Minimum(high, x)})
CpuLoadWeight(h, epoch) ==
  (Clamp(350 + (900 * DbShare(h)) \div 1000, 250, 1250)
     * (1000 + Clamp(800 + (1600 * DbShare(h)) \div 1000, 500, 2500) \div (1 + epoch)))
  \div 1000
DepthWeight(h) == Clamp(500 + Max({0, DbShare(h) - 300}), 500, 1600)
EpochPenalty(epoch) == 10000 + 1000 * epoch

-----------------------------------------------------------------------------
(* Which nodes an epoch runs.                                              *)

(* _enumerate_gpu_batches: no GPU node, or a dependency-closed set of them *)
(* whose size is close to the number of GPU workers.                       *)
GpuBatches(h, done, pruned) ==
  LET pending == GpuNodes(h) \ done
      most == Minimum(Max({1, Len(h.gpuWorkers)}), Cardinality(pending))
      least == IF pruned THEN Max({1, most - BatchSlack(h)}) ELSE 1
  IN  {{}} \cup {S \in SUBSET pending :
                   /\ Cardinality(S) \in least..most
                   /\ \A n \in S : h.deps[n] \cap GpuNodes(h) \subseteq done \cup S}

(* _auto_cpu_batch: the CPU nodes that become runnable.                    *)
AutoCpuBatch(h, done, S) ==
  LET fill[k \in 0..Cardinality(DbNodes(h))] ==
        IF k = 0 THEN {}
        ELSE fill[k - 1] \cup {n \in DbNodes(h) \ done :
                                 h.deps[n] \subseteq done \cup S \cup fill[k - 1]}
  IN  fill[Cardinality(DbNodes(h))]

(* _batch_gpu_depths: the longest chain inside the batch that ends at n.   *)
Depth(h, S, n) ==
  LET chain[k \in 0..Cardinality(S)] ==
        [m \in S |-> IF k = 0 \/ h.deps[m] \cap S = {} THEN 0
                     ELSE 1 + Max({chain[k - 1][p] : p \in h.deps[m] \cap S})]
  IN  chain[Cardinality(S)][n]

(* _order_cpu_nodes_by_parent_depth: a stable sort of the topological      *)
(* order by the depth of the first dependency, those without one last.     *)
CpuOrder(h, S, C) ==
  LET topo == SelectSeq(HeapOrder(DOMAIN h.deps, h.deps, [n \in DOMAIN h.deps |-> n]),
                        LAMBDA n : n \in C)
      key(n) == IF h.deps[n] # {} /\ Min(h.deps[n]) \in S
                THEN Depth(h, S, Min(h.deps[n])) ELSE Cardinality(S)
      place(n) == CHOOSE i \in DOMAIN topo : topo[i] = n
  IN  SortSeq(topo, LAMBDA m, n : key(m) < key(n) \/ (key(m) = key(n) /\ place(m) < place(n)))

(* _cpu_assignments: round robin.                                          *)
CpuAssignment(h, order) ==
  {<<h.cpuWorkers[((i - 1) % Len(h.cpuWorkers)) + 1], order[i]>> : i \in DOMAIN order}

-----------------------------------------------------------------------------
(* What an epoch costs.                                                    *)

(* _execute_node: a warm model saves its loading, a parent just run on the *)
(* same worker a tenth of the execution.                                   *)
NodeCost(h, n, last) ==
  (IF last.node \in h.deps[n] THEN (9 * h.exec[n]) \div 10 ELSE h.exec[n])
    + (IF last.model = h.model[n] THEN 0 ELSE h.init[h.model[n]])

(* _query_cost and _cache_multiplier: the tables that the queries of the   *)
(* window touched make a plan cheaper, down to half.                       *)
QueryCost(plan, window) ==
  LET overlap == FoldSeq(+, 0, [i \in DOMAIN window |-> Cardinality(plan.tables \cap window[i])])
  IN  (plan.cost * Max({50, 100 - overlap})) \div 100

(* _apply_cpu_load: each db node takes its cheapest plan, in order.        *)
CpuLoad(h, order) ==
  LET best(n, window) ==
        CHOOSE p \in h.plans[n] :
          \A q \in h.plans[n] : QueryCost(p, window) <= QueryCost(q, window)
      last(window) == SubSeq(window, Max({1, Len(window) - h.window + 1}), Len(window))
      run[k \in 0..Len(order)] ==
        IF k = 0 THEN [cost |-> 0, window |-> << >>]
        ELSE LET p == best(order[k], run[k - 1].window)
             IN  [cost |-> run[k - 1].cost + QueryCost(p, run[k - 1].window),
                  window |-> last(Append(run[k - 1].window, p.tables))]
  IN  run[Len(order)].cost

GpuCost(h, st, g) ==
  LET costs == [n \in DOMAIN g |-> NodeCost(h, n, st.last[g[n]])]
      sum == FoldFunction(+, 0, costs)
      max == Max({costs[n] : n \in DOMAIN g} \cup {0})
  IN  IF Len(h.gpuWorkers) <= 1 THEN max ELSE (93 * max + 7 * sum) \div 100

EpochCost(h, st, g, order) ==
  EpochPenalty(st.epoch) + GpuCost(h, st, g)
    + (CpuLoadWeight(h, st.epoch) * CpuLoad(h, order)) \div 1000
    + 10 * DepthWeight(h) * FoldFunction(+, 0, [n \in DOMAIN g |-> Depth(h, DOMAIN g, n)])

(* A deviation: the whole execution time and the loading of the models.    *)
LowerBoundWithLoading(h, done, epoch) ==
  LET pending == GpuNodes(h) \ done
  IN  FoldFunction(+, 0, [n \in pending |-> h.exec[n] + h.init[h.model[n]]])

(* _lower_bound_remaining: the epochs that the pending nodes need at       *)
(* least, and a share of the pending execution time.                       *)
LowerBound(h, done, epoch) ==
  LET pending == GpuNodes(h) \ done
      gpus == Max({1, Len(h.gpuWorkers)})
      epochs == Max({(Cardinality(pending) + gpus - 1) \div gpus,
                     IF DbNodes(h) \subseteq done THEN 0 ELSE 1})
      work == FoldFunction(+, 0, [n \in pending |-> h.exec[n]])
  IN  IF DOMAIN h.deps \subseteq done THEN 0
      ELSE FoldFunction(+, 0, [i \in 1..epochs |-> EpochPenalty(epoch + i - 1)])
             + (BoundFactor(h) * (work \div gpus)) \div 1000

-----------------------------------------------------------------------------
(* The search.                                                             *)

(* The epochs that may follow a search state: a batch, its GPU nodes on    *)
(* different workers (_gpu_assignments), its CPU nodes in order.  A batch  *)
(* that is empty or lacks a dependency (_batch_feasible) is skipped.       *)
Epochs(h, st, pruned) ==
  UNION {
    LET C == AutoCpuBatch(h, st.done, S)
    IN  IF S \cup C # {} /\ \A n \in S \cup C : h.deps[n] \subseteq st.done \cup S \cup C
        THEN {[gpu |-> g, cpu |-> CpuOrder(h, S, C)] :
                g \in {f \in [S -> ToSet(h.gpuWorkers)] : IsInjective(f)}}
        ELSE {} : S \in GpuBatches(h, st.done, pruned)}

(* _assignment_signature: which nodes go to workers in the same state.     *)
Signature(st, e) ==
  [s \in {st.last[e.gpu[n]] : n \in DOMAIN e.gpu} |->
     {n \in DOMAIN e.gpu : st.last[e.gpu[n]] = s}]

(* _dedup_worker_assignments: one epoch for each signature.                *)
Deduplicated(st, epochs) ==
  {CHOOSE e \in epochs : e.cpu = c[2] /\ Signature(st, e) = c[1] :
     c \in {<<Signature(st, e), e.cpu>> : e \in epochs}}

EpochsTried(h, st) == Deduplicated(st, Epochs(h, st, TRUE))

(* A state that leaves no epoch to try would be searched again without the *)
(* shape pruning.  There is none: of the nodes pending, any number that    *)
(* come first in a topological order make a batch (HaloOptimal).           *)
Closed(h, done) == done # DOMAIN h.deps /\ \A n \in done : h.deps[n] \subseteq done
EpochRemains(h, done) == Epochs(h, [StartState(h) EXCEPT !.done = done], TRUE) # {}

After(h, st, e) ==
  [done |-> st.done \cup DOMAIN e.gpu \cup ToSet(e.cpu),
   epoch |-> st.epoch + 1,
   last |-> [w \in DOMAIN st.last |->
               IF \E n \in DOMAIN e.gpu : e.gpu[n] = w
               THEN LET n == CHOOSE m \in DOMAIN e.gpu : e.gpu[m] = w
                    IN  [model |-> h.model[n], node |-> n]
               ELSE st.last[w]]]

SearchStates(h) ==
  [done : SUBSET DOMAIN h.deps, epoch : 0..Cardinality(DOMAIN h.deps),
   last : [ToSet(h.gpuWorkers) -> [model : DOMAIN h.init \cup {NoModel},
                                   node : DOMAIN h.deps \cup {NoNode}]]]

(* _solve: branch and bound over the epochs, in some order.                *)
Solve(h) ==
  LET solve[st \in SearchStates(h)] ==
        LET try(e, best) ==
              LET cost == EpochCost(h, st, e.gpu, e.cpu)
                  next == After(h, st, e)
                  cut == /\ best.found
                         /\ cost + LowerBound(h, next.done, next.epoch) >= best.cost
                  sub == solve[next]
              IN  IF ~cut /\ (~best.found \/ cost + sub.cost < best.cost)
                  THEN [found |-> TRUE, cost |-> cost + sub.cost,
                        epochs |-> <<e>> \o sub.epochs]
                  ELSE best
        IN  IF st.done = DOMAIN h.deps
            THEN [found |-> TRUE, cost |-> 0, epochs |-> << >>]
            ELSE FoldSet(try, [found |-> FALSE, cost |-> 0, epochs |-> << >>],
                         EpochsTried(h, st))
  IN  solve[StartState(h)]

(* _group_schedule_by_worker: by epoch, then in node order.                *)
GroupByWorker(h, epochs) ==
  LET on(e, w) == {n \in DOMAIN e.gpu : e.gpu[n] = w}
                    \cup {n \in ToSet(e.cpu) : <<w, n>> \in CpuAssignment(h, e.cpu)}
  IN  [w \in 1..Max(ToSet(h.gpuWorkers \o h.cpuWorkers)) |->
         FlattenSeq([i \in DOMAIN epochs |-> SetToSortSeq(on(epochs[i], w), <)])]

-----------------------------------------------------------------------------
(* Reference: the least cost over every sequence of epochs, whatever the   *)
(* bound and the symmetry of workers, with the shape pruning or without.   *)
LeastCost(h, pruned) ==
  LET least[st \in SearchStates(h)] ==
        IF st.done = DOMAIN h.deps THEN 0
        ELSE Min({EpochCost(h, st, e.gpu, e.cpu) + least[After(h, st, e)] :
                    e \in Epochs(h, st, pruned)})
  IN  least[StartState(h)]
=============================================================================
