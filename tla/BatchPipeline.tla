--------------------------- MODULE BatchPipeline ---------------------------
(***************************************************************************)
(* The way of a workflow's rows through the server: the list inputs are    *)
(* cut into slices (routes/jobs.py), the slices that are reserved together *)
(* are coalesced into one graph (runtime/server.py), identical nodes are   *)
(* merged and the graph planned (runtime/optimizer), rewritten into shards *)
(* (ShardRewrite), run by FlowMesh, and the rows dealt out to the slices   *)
(* again and put into the buffers of the request.                          *)
(*                                                                         *)
(* A job is a record: inputs (name -> list of values), size (the input     *)
(* batch size), op and kind of each node, fields (per node the list-valued *)
(* columns: label, the input whose values were written into it, or NoKey   *)
(* and literal items), deps, ref, outputs, optimizer, gpuWorkers,          *)
(* cpuWorkers, pools, estimates (the data profile).  A value is a text, as *)
(* a sequence of words; op stands for the rest of the specification of a   *)
(* node, and the labels of references to other nodes are left out.         *)
(***************************************************************************)
EXTENDS ShardRewrite, HaloDP

CONSTANTS Jobs,      \* the jobs submitted
          Labels,    \* the labels of columns, in alphabetical order
          NoKey,     \* the column holds literal items
          Failed     \* FlowMesh reports a failure instead of rows

(* Jobs as the routes and the compiler let them through: the inputs are    *)
(* lists and the batch size is positive; nodes are numbered, they and the  *)
(* columns are finitely many, and the dependencies have no cycle; there    *)
(* are workers.                                                            *)
ASSUME JobsAssumption ==
  \A j \in Jobs :
    /\ IsFiniteSet(DOMAIN j.inputs) /\ j.size \in Nat \ {0}
    /\ \A k \in DOMAIN j.inputs : j.inputs[k] \in Seq(ToSet(j.inputs[k]))
    /\ DOMAIN j.deps \subseteq Nat /\ IsFiniteSet(DOMAIN j.deps)
    /\ j.deps \in [DOMAIN j.deps -> SUBSET DOMAIN j.deps]
    /\ \A S \in SUBSET DOMAIN j.deps : S # {} => \E n \in S : j.deps[n] \cap S = {}
    /\ j.outputs \subseteq DOMAIN j.deps
    /\ \A n \in DOMAIN j.deps :
         /\ j.fields[n] \in Seq(ToSet(j.fields[n]))
         /\ \A f \in ToSet(j.fields[n]) :
              /\ f.label \in ToSet(Labels)
              /\ IF f.key = NoKey THEN f.items \in Seq(ToSet(f.items))
                 ELSE f.key \in DOMAIN j.inputs
    /\ j.gpuWorkers \in Seq(Nat \ {0}) /\ j.cpuWorkers \in Seq(Nat \ {0})
    /\ j.gpuWorkers \o j.cpuWorkers # << >>

Missing == "missing"

VARIABLES
  job,      \* the job
  pending,  \* its slices that are still to run
  batch,    \* the slices of the batch, in slice order
  columns,  \* the coalesced columns of each node
  sameAs,   \* the node each node was merged into
  cache,    \* plan_cache: slice lengths -> assignment
  result,   \* the rows each node returned
  buffer,   \* output_buffers: per output a list with one place per row
  errors    \* error_info

pipelineVars == <<job, pending, batch, columns, sameAs, cache, result, buffer, errors>>
vars == <<pipelineVars, rewriteVars>>

JobNodes == DOMAIN job.deps

-----------------------------------------------------------------------------
(* Slicing: _input_shape, _chunk_inputs and the loop over the slices.      *)

MaxLen(inputs) == Max({Len(inputs[k]) : k \in DOMAIN inputs} \cup {0})
ShapeOK(inputs) == \A k \in DOMAIN inputs : Len(inputs[k]) \in {1, MaxLen(inputs)}
Varying == {k \in DOMAIN job.inputs : Len(job.inputs[k]) > 1}
Total == MaxLen(job.inputs)

SliceCount == IF Total <= job.size THEN 1 ELSE (Total + job.size - 1) \div job.size
SliceInputs(i) ==
  [k \in DOMAIN job.inputs |->
     IF Len(job.inputs[k]) = 1 \/ SliceCount = 1 THEN job.inputs[k]
     ELSE SubSeq(job.inputs[k], (i - 1) * job.size + 1, Minimum(i * job.size, Total))]
SliceLength(i) == MaxLen(SliceInputs(i))
(* A deviation: the slice's index is taken for its first row.              *)
SliceStartByIndex(i) == i - 1

SliceStart(i) == FoldFunction(+, 0, [j \in 1..(i - 1) |-> SliceLength(j)])

Submit ==
  /\ at = "new"
  /\ IF ShapeOK(job.inputs)
     THEN /\ at' = "idle"
          /\ pending' = 1..SliceCount
          /\ buffer' = [o \in job.outputs |-> [r \in 1..Total |-> Missing]]
     ELSE /\ at' = "rejected"
          /\ UNCHANGED <<pending, buffer>>
  /\ UNCHANGED <<job, batch, columns, sameAs, cache, result, errors, graph, gpuCount,
                 assignment, todo, candidates, parts, fmNodes, placed, hint>>

(* Any slices may be reserved together; they run in slice order.           *)
Reserve ==
  /\ at = "idle"
  /\ \E S \in (SUBSET pending) \ {{}} :
       /\ batch' \in SetToSeqs(S)
       /\ \A i, j \in DOMAIN batch' : i < j => batch'[i] < batch'[j]
       /\ pending' = pending \ S
  /\ at' = "merge"
  /\ UNCHANGED <<job, columns, sameAs, cache, result, buffer, errors, graph, gpuCount,
                 assignment, todo, candidates, parts, fmNodes, placed, hint>>

-----------------------------------------------------------------------------
(* Coalescing: _merge_group_compiled_graph.                                *)

FieldItems(f, inputs) == IF f.key = NoKey THEN f.items ELSE inputs[f.key]

(* The graph of the batch is a copy of the first slice's.                  *)
FirstInputs == SliceInputs(batch[1])

MergedInputs ==
  [k \in DOMAIN job.inputs |->
     IF k \in Varying
     THEN FlattenSeq([i \in DOMAIN batch |-> SliceInputs(batch[i])[k]])
     ELSE FirstInputs[k]]

(* _validate_merged_varying_inputs.                                        *)
MergeLengthsOK ==
  \A k \in Varying :
    /\ \A i \in DOMAIN batch : Len(SliceInputs(batch[i])[k]) = SliceLength(batch[i])
    /\ Len(MergedInputs[k]) <= Total

(* _rewrite_varying_input_literals: the columns are visited node by node.  *)
(* One that is not labelled with a varying input makes its label stand for *)
(* the input whose first slice equals its items, and of the columns of one *)
(* label the last one visited decides.  Every column of the label is then  *)
(* rewritten.                                                              *)
AllFields == UNION {ToSet(job.fields[n]) : n \in JobNodes}
Visited == FlattenSeq([i \in DOMAIN SetToSortSeq(JobNodes, <) |->
                         job.fields[SetToSortSeq(JobNodes, <)[i]]])

Matches(f) == {k \in Varying : FieldItems(f, FirstInputs) = FirstInputs[k]}
Ambiguous(f) == f.label \notin Varying /\ Cardinality(Matches(f)) > 1

InferredFrom(label) == SelectSeq(Visited, LAMBDA f : f.label = label /\ Matches(f) # {})
AliasOf(label) ==
  IF InferredFrom(label) = << >> THEN {} ELSE Matches(Last(InferredFrom(label)))

RewriteTarget(f) == IF f.label \in Varying THEN {f.label} ELSE AliasOf(f.label)
Coalescible ==
  \/ Len(batch) = 1
  \/ /\ MergeLengthsOK
     /\ \A f \in AllFields : ~Ambiguous(f)
     /\ \A k \in Varying \ job.inputOps : \E f \in AllFields : RewriteTarget(f) = {k}

(* A deviation: the slices' values are put together in any order.          *)
CoalescedItemsReversed(f) ==
  IF Len(batch) = 1 \/ RewriteTarget(f) = {} THEN FieldItems(f, FirstInputs)
  ELSE LET k == CHOOSE x \in RewriteTarget(f) : TRUE
       IN  FlattenSeq(Reverse([i \in DOMAIN batch |-> SliceInputs(batch[i])[k]]))

CoalescedItems(f) ==
  IF Len(batch) = 1 \/ RewriteTarget(f) = {} THEN FieldItems(f, FirstInputs)
  ELSE MergedInputs[CHOOSE k \in RewriteTarget(f) : TRUE]

(* The references of a node, in the order of its dependencies.             *)
RefsOf(n) == SetToSortSeq(job.deps[n], <)

(* A deviation: an output is merged as well.                               *)
DeduplicateOutputs(cols) ==
  [n \in JobNodes |->
     CHOOSE m \in JobNodes : job.op[m] = job.op[n] /\ cols[m] = cols[n]]

(* _normalize_label_tokens: the labels of a node are numbered, and a label *)
(* is replaced by its token wherever it occurs, in the texts as well.      *)
LabelsOf(n) == {f.label : f \in ToSet(job.fields[n])}
Token(n, label) ==
  LET own == SelectSeq(Labels, LAMBDA l : l \in LabelsOf(n))
  IN  "__lbl" \o ToString(SelectInSeq(own, LAMBDA l : l = label)) \o "__"
Normal(n, text) ==
  [w \in DOMAIN text |-> IF text[w] \in LabelsOf(n) THEN Token(n, text[w]) ELSE text[w]]

(* _runtime_signature: the operation, the columns and the dependencies.    *)
RuntimeSignature(n, cols, same) ==
  <<job.op[n],
    [i \in DOMAIN cols[n] |->
       <<Token(n, job.fields[n][i].label),
         [r \in DOMAIN cols[n][i] |-> Normal(n, cols[n][i][r])]>>],
    [i \in DOMAIN RefsOf(n) |-> same[RefsOf(n)[i]]]>>

(* _dedupe_runtime_graph: in topological order, a node that is no output   *)
(* is merged into the first one with the same signature.                   *)
Deduplicate(cols) ==
  LET topo == HeapOrder(JobNodes, job.deps, [n \in JobNodes |-> n])
      fold[k \in 0..Len(topo)] ==
        IF k = 0 THEN [n \in JobNodes |-> n]
        ELSE LET n == topo[k]
                 twins == {topo[i] : i \in {j \in 1..(k - 1) :
                              /\ {topo[j], n} \cap job.outputs = {}
                              /\ RuntimeSignature(topo[j], cols, fold[k - 1])
                                   = RuntimeSignature(n, cols, fold[k - 1])}}
             IN  IF twins = {} THEN fold[k - 1]
                 ELSE [fold[k - 1] EXCEPT ![n] = fold[k - 1][CHOOSE m \in twins : TRUE]]
  IN  fold[Len(topo)]

Kept == {sameAs[n] : n \in JobNodes}

Merge ==
  /\ at = "merge"
  /\ IF Coalescible
     THEN LET cols == [n \in JobNodes |->
                         [i \in DOMAIN job.fields[n] |-> CoalescedItems(job.fields[n][i])]]
              same == Deduplicate(cols)
              kept == {same[n] : n \in JobNodes}
          IN  /\ columns' = cols
              /\ sameAs' = same
              /\ graph' = [deps |-> [n \in kept |-> {same[d] : d \in job.deps[n]}],
                           lists |-> [n \in kept |-> {Len(cols[n][i]) : i \in DOMAIN cols[n]}],
                           ref |-> job.ref, outputs |-> {same[o] : o \in job.outputs},
                           gpus |-> {n \in kept : job.kind[n] = "gpu"}]
              /\ at' = "plan"
     ELSE /\ at' = "broken"
          /\ UNCHANGED <<columns, sameAs, graph>>
  /\ UNCHANGED <<job, pending, batch, cache, result, buffer, errors, gpuCount, assignment,
                 todo, candidates, parts, fmNodes, placed, hint>>

-----------------------------------------------------------------------------
(* Planning.                                                               *)

AllWorkers == 1..Max(ToSet(job.gpuWorkers \o job.cpuWorkers))

(* A deviation: a cached plan is not validated.                            *)
FitsAnyGraph(plan) == TRUE

(* _validate_schedule.                                                     *)
FitsGraph(plan) ==
  /\ plan \in [AllWorkers -> Seq(Nodes)]
  /\ UNION {ToSet(plan[w]) : w \in AllWorkers} = Nodes
  /\ \A w \in AllWorkers : IsInjective(plan[w])

(* _build_data_profile_choices: the cheapest estimate of each plan id, or  *)
(* the fallback plan of one second.                                        *)
PlanChoices(n) ==
  LET est == job.estimates[n]
  IN  IF est = {} THEN {[id |-> 0, cost |-> 10000, tables |-> {}]}
      ELSE {e \in est : \A f \in est : f.id = e.id => e.cost <= f.cost}

HaloProblem ==
  [deps |-> graph.deps, kind |-> [n \in Nodes |-> job.kind[n]],
   model |-> [n \in Nodes |-> job.op[n]],
   exec |-> [n \in Nodes |-> job.exec[job.op[n]]], init |-> job.init,
   plans |-> [n \in Nodes |-> PlanChoices(n)], window |-> 1,
   gpuWorkers |-> job.gpuWorkers, cpuWorkers |-> job.cpuWorkers]

(* TopologicalSortOptimizer: the first worker of each kind, or of all.     *)
TopologicalPlan ==
  LET gpu == (job.gpuWorkers \o job.cpuWorkers)[1]
      cpu == IF job.cpuWorkers # << >> THEN job.cpuWorkers[1] ELSE 1
      order == HeapOrder(Nodes, graph.deps, [n \in Nodes |-> n])
  IN  [w \in AllWorkers |->
         Keep(order, {n \in Nodes : w = IF n \in graph.gpus THEN gpu ELSE cpu})]

(* What the optimizer of the job may answer; a plug-in may put a node on   *)
(* any of the worker sets in pools.                                        *)
Plans ==
  CASE job.optimizer = "topological_sort" -> {TopologicalPlan}
    [] job.optimizer = "halo" ->
         IF Supported(HaloProblem)
         THEN {GroupByWorker(HaloProblem, Solve(HaloProblem).epochs)} ELSE {}
    [] job.optimizer = "plugin" ->
         {[w \in AllWorkers |-> SelectSeq(SetToSortSeq(Nodes, <), LAMBDA n : w \in c[n])] :
            c \in [Nodes -> job.pools]}

CacheKey == [i \in DOMAIN batch |-> SliceLength(batch[i])]
CacheHit == CacheKey \in DOMAIN cache /\ FitsGraph(cache[CacheKey])

Plan ==
  /\ at = "plan"
  /\ \/ /\ CacheHit
        /\ assignment' = cache[CacheKey]
        /\ at' = "submit"
        /\ UNCHANGED cache
     \/ /\ ~CacheHit
        /\ \E plan \in Plans :
             /\ FitsGraph(plan)
             /\ assignment' = plan
             /\ cache' = [k \in DOMAIN cache \cup {CacheKey} |->
                            IF k = CacheKey THEN plan ELSE cache[k]]
        /\ at' = "submit"
     \/ /\ ~CacheHit
        /\ \A plan \in Plans : ~FitsGraph(plan)
        /\ at' = "broken"
        /\ UNCHANGED <<assignment, cache>>
  /\ UNCHANGED <<job, pending, batch, columns, sameAs, result, buffer, errors, graph,
                 gpuCount, todo, candidates, parts, fmNodes, placed, hint>>

-----------------------------------------------------------------------------
(* FlowMesh (external) evaluates a node row by row: a column of one value  *)
(* serves every row, columns of other different lengths are an error.  A   *)
(* row is a record of the operation and of what it was applied to.         *)

Rows(op, cols) ==
  LET len == Max({Len(cols[i]) : i \in DOMAIN cols} \cup {1})
  IN  IF \E i \in DOMAIN cols : Len(cols[i]) \notin {1, len} THEN Failed
      ELSE [r \in 1..len |->
              <<op, [i \in DOMAIN cols |-> cols[i][IF Len(cols[i]) = 1 THEN 1 ELSE r]]>>]

(* What node x of the rewritten graph returns, given what the nodes before *)
(* it returned.                                                            *)
Returned(x, out) ==
  LET n == x[1]
      part == parts[n][x[2]]
      cut(c) == IF Len(c) = 1 THEN c ELSE SubSeq(c, part[1] + 1, part[2])
      reads == fmNodes[x].reads
      refs == [i \in DOMAIN RefsOf(n) |-> sameAs[RefsOf(n)[i]]]
      read(d) ==
        IF d \in Sharded THEN out[<<d, x[2]>>]
        ELSE IF d \notin DOMAIN reads THEN out[<<d, 0>>]
        ELSE IF \E i \in DOMAIN reads[d] : reads[d][i] >= Len(out[<<d, 0>>]) THEN << >>
        ELSE [i \in DOMAIN reads[d] |-> out[<<d, 0>>][reads[d][i] + 1]]
  IN  IF \E y \in fmNodes[x].deps : out[y] = Failed THEN Failed
      ELSE IF n \in Sharded /\ x[2] = 0
           THEN FlattenSeq([i \in DOMAIN reads |-> out[reads[i]]])
      ELSE Rows(job.op[n],
                IF n \in Sharded
                THEN [i \in DOMAIN columns[n] |-> cut(columns[n][i])]
                       \o [i \in DOMAIN refs |-> read(refs[i])]
                ELSE columns[n] \o [i \in DOMAIN refs |-> out[<<refs[i], 0>>]])

Run ==
  /\ at = "hinted"
  /\ LET outs[i \in 0..Len(hint)] ==
           IF i = 0 THEN << >>
           ELSE [y \in DOMAIN outs[i - 1] \cup {hint[i]} |->
                   IF y = hint[i] THEN Returned(y, outs[i - 1]) ELSE outs[i - 1][y]]
         final == outs[Len(hint)]
     IN  IF \E y \in DOMAIN final : final[y] = Failed
         THEN at' = "broken" /\ UNCHANGED result
         ELSE at' = "ran" /\ result' = [o \in graph.outputs |-> final[<<o, 0>>]]
  /\ UNCHANGED <<job, pending, batch, columns, sameAs, cache, buffer, errors, graph,
                 gpuCount, assignment, todo, candidates, parts, fmNodes, placed, hint>>

-----------------------------------------------------------------------------
(* Dealing out: the group's rows are cut by the slice lengths, and each    *)
(* slice merged into the buffers of the request (merge_slice_payload).     *)

BatchLength == FoldFunction(+, 0, [i \in DOMAIN batch |-> SliceLength(batch[i])])
Offset(i) == FoldFunction(+, 0, [j \in 1..(i - 1) |-> SliceLength(batch[j])])

RowsOfSlice(o, i) == SubSeq(result[o], Offset(i) + 1, Offset(i) + SliceLength(batch[i]))

BatchRows == UNION {(SliceStart(s) + 1)..(SliceStart(s) + SliceLength(s)) : s \in ToSet(batch)}

Forget ==
  /\ batch' = << >>
  /\ columns' = << >> /\ sameAs' = << >> /\ result' = << >> /\ assignment' = << >>
  /\ graph' = << >> /\ todo' = << >> /\ candidates' = << >> /\ parts' = << >>
  /\ fmNodes' = << >> /\ placed' = << >> /\ hint' = << >>
  /\ UNCHANGED <<job, pending, cache, gpuCount>>

DealOut ==
  /\ at = "ran"
  /\ IF \E o \in graph.outputs : Len(result[o]) # BatchLength
     THEN errors' = errors \cup {"length"} /\ UNCHANGED buffer
     ELSE /\ buffer' =
               [o \in job.outputs |->
                  [r \in 1..Total |->
                     IF r \notin BatchRows THEN buffer[o][r]
                     ELSE LET i == CHOOSE k \in DOMAIN batch :
                                     r \in (SliceStart(batch[k]) + 1)..
                                             (SliceStart(batch[k]) + SliceLength(batch[k]))
                          IN  RowsOfSlice(sameAs[o], i)[r - SliceStart(batch[i])]]]
          /\ errors' = IF \E o \in job.outputs, r \in BatchRows : buffer[o][r] # Missing
                       THEN errors \cup {"overlap"} ELSE errors
  /\ at' = "idle"
  /\ Forget

(* A batch that could not be merged, planned, rewritten or run.            *)
FailBatch ==
  /\ at \in {"broken", "refused", "cycle", "uncovered", "unhinted"}
  /\ errors' = errors \cup {"batch"}
  /\ at' = "idle"
  /\ UNCHANGED buffer
  /\ Forget

(* finalize_state.                                                         *)
Finalize ==
  /\ at = "idle"
  /\ pending = {}
  /\ at' = "done"
  /\ errors' = IF \E o \in job.outputs, r \in 1..Total : buffer[o][r] = Missing
               THEN errors \cup {"missing"} ELSE errors
  /\ UNCHANGED <<job, pending, batch, columns, sameAs, cache, result, buffer, graph,
                 gpuCount, assignment, todo, candidates, parts, fmNodes, placed, hint>>

-----------------------------------------------------------------------------

Init ==
  /\ at = "new"
  /\ job \in Jobs
  /\ gpuCount \in {0, 1}
  /\ pending = {} /\ cache = << >> /\ buffer = << >> /\ errors = {}
  /\ batch = << >> /\ columns = << >> /\ sameAs = << >> /\ result = << >>
  /\ graph = << >> /\ assignment = << >> /\ todo = << >> /\ candidates = << >>
  /\ parts = << >> /\ fmNodes = << >> /\ placed = << >> /\ hint = << >>

Rewrite == RewriteNext /\ UNCHANGED pipelineVars

Next == Submit \/ Reserve \/ Merge \/ Plan \/ Rewrite \/ Run \/ DealOut \/ FailBatch \/ Finalize

Spec == Init /\ [][Next]_vars

-----------------------------------------------------------------------------
(* Reference: the rows of slice s when it runs alone on one worker, with   *)
(* nothing coalesced, merged or cut.                                       *)
Alone(s) ==
  LET topo == HeapOrder(JobNodes, job.deps, [n \in JobNodes |-> n])
      own(n) == [i \in DOMAIN job.fields[n] |->
                   FieldItems(job.fields[n][i], SliceInputs(s))]
      outs[i \in 0..Len(topo)] ==
        IF i = 0 THEN << >>
        ELSE LET n == topo[i]
             IN  [m \in DOMAIN outs[i - 1] \cup {n} |->
                    IF m # n THEN outs[i - 1][m]
                    ELSE Rows(job.op[n],
                              own(n) \o [j \in DOMAIN RefsOf(n) |-> outs[i - 1][RefsOf(n)[j]]])]
  IN  outs[Len(topo)]

-----------------------------------------------------------------------------
(* Properties.                                                             *)

(* What a job must observe for its rows to be told apart: columns with one *)
(* label are the same, and only the column of a varying input has its name *)
(* for a label; a column of other values has in no slice those of a        *)
(* varying input; no text of a node spells a label of the node.  Nothing   *)
(* in the repository asks a job to observe this.                           *)
Unmistakable ==
  /\ \A f, g \in AllFields : f.label = g.label => f = g
  /\ \A f \in AllFields : f.label \in Varying => f.key = f.label
  /\ \A f \in AllFields : f.key \notin Varying =>
       \A s \in 1..SliceCount : \A k \in Varying :
         FieldItems(f, SliceInputs(s)) # SliceInputs(s)[k]
  /\ \A n \in JobNodes : \A f \in ToSet(job.fields[n]) :
       \A text \in ToSet(FieldItems(f, job.inputs)) : ToSet(text) \cap LabelsOf(n) = {}

(* Whatever slices were coalesced, however their nodes were merged, placed *)
(* and cut into shards, a row of such a job that reaches the buffer of the *)
(* request is the row its slice computes when it runs alone.               *)
RowsAsAlone ==
  Unmistakable => \A o \in DOMAIN buffer : \A s \in 1..SliceCount : \A r \in 1..SliceLength(s) :
    LET place == SliceStart(s) + r
    IN  at # "rejected" /\ buffer[o][place] # Missing => buffer[o][place] = Alone(s)[o][r]

(* A job that ends without an error has every row of every output, and no  *)
(* row was written twice, although slices ran in any grouping and order.   *)
ErrorFreeIsComplete ==
  /\ "overlap" \notin errors
  /\ at = "done" /\ errors = {} =>
       \A o \in job.outputs : \A r \in 1..Total : buffer[o][r] # Missing

(* A plan of the built-in optimizers, cached or new, is never refused by   *)
(* the checks that follow it: a batch that FlowMesh could run is not lost  *)
(* between planning and submission (hardware.gpu = 0 is refused for GPU    *)
(* nodes whatever the plan).                                               *)
PlansAccepted ==
  at = "refused" => job.optimizer = "plugin" \/ GpuRefused

(* Each node of h runs in one epoch, none before what it depends on, and   *)
(* no GPU worker has two nodes in an epoch.                                *)
WellPlanned(h, epochs) ==
  LET ran(i) == DOMAIN epochs[i].gpu \cup ToSet(epochs[i].cpu)
  IN  /\ UNION {ran(i) : i \in DOMAIN epochs} = DOMAIN h.deps
      /\ \A i, j \in DOMAIN epochs : i < j => ran(i) \cap ran(j) = {}
      /\ \A i \in DOMAIN epochs :
           /\ \A n \in ran(i) : h.deps[n] \subseteq UNION {ran(j) : j \in 1..i}
           /\ IsInjective(epochs[i].gpu)

(* The branch-and-bound search of HALO, which cuts branches by a lower     *)
(* bound and by worker symmetry, finds a proper schedule for every         *)
(* supported graph, and none whose epochs run as many GPU nodes as the     *)
(* shape pruning asks is cheaper; with up to two GPU workers, for which    *)
(* the pruning allows every size, none is cheaper at all.  The pruning     *)
(* never leaves a search without an epoch, so that the retry without it is *)
(* never needed.                                                           *)
HaloOptimal ==
  at = "plan" /\ job.optimizer = "halo" =>
    \A h \in {HaloProblem} : Supported(h) => \A plan \in {Solve(h)} :
      /\ plan.found /\ WellPlanned(h, plan.epochs)
      /\ plan.cost = LeastCost(h, TRUE)
      /\ Len(h.gpuWorkers) <= 2 => plan.cost = LeastCost(h, FALSE)
      /\ \A done \in SUBSET DOMAIN h.deps : Closed(h, done) => EpochRemains(h, done)

(* One value of an input serves every row: a column whose input has one    *)
(* value is not varied by the rows of the other inputs.                    *)
SingleValueServesEveryRow ==
  at = "plan" => \A n \in JobNodes : \A i \in DOMAIN job.fields[n] :
    job.fields[n][i].key \notin Varying => Len(columns[n][i]) = 1
=============================================================================
