---------------------------- MODULE RuntimeGraph ----------------------------
(***************************************************************************)
(* RuntimeGraphBuilder: from a compiled graph G (op id -> op) to the nodes *)
(* FlowMesh is given: runtime/runtime_graph.py, runtime/runtime_ops.py.    *)
(*                                                                         *)
(* A node is a record: reads (the nodes its data spec refers to, anywhere) *)
(* and deps (RuntimeOp.dependencies).  Values given inline are left out.   *)
(***************************************************************************)
EXTENDS OpGraph, FiniteSets

OpsOf(G, kinds) == {x \in DOMAIN G : G[x].kind \in kinds}

-----------------------------------------------------------------------------
(* _infer_structural_messages: what an op is in the messages of an LLM op. *)
(* msgs: the roles it resolves to ("context": the prompt of an LLM that    *)
(* returns its history, which has no role of its own); reads, llms: the    *)
(* columns and upstream LLM ops met; seen: the ops visited; errs: the      *)
(* assertions that fail.                                                   *)

Leaf(x, role, reads, llms) ==
  [msgs |-> <<role>>, reads |-> reads, llms |-> llms, seen |-> {x}, errs |-> {}]

Over(x, parts, msgs, errs) ==
  [msgs |-> msgs, reads |-> UNION {t.reads : t \in parts}, llms |-> UNION {t.llms : t \in parts},
   seen |-> {x} \cup UNION {t.seen : t \in parts}, errs |-> errs \cup UNION {t.errs : t \in parts}]

(* The role a message gives replaces the one of its content, which must    *)
(* be a user message.                                                      *)
MessageParts(op, trace) ==
  FlattenSeq([i \in DOMAIN op.args |->
     IF op.args[i] \in op.inputs
     THEN [j \in DOMAIN trace[op.args[i]].msgs |->
             IF trace[op.args[i]].msgs[j] = "user" THEN op.roles[i] ELSE "refused"]
     ELSE <<op.roles[i]>>])

FormatErrors(op, parts) ==
  IF op.inputs = {} \/ \E t \in parts : Len(t.msgs) # 1 THEN {"format"} ELSE {}

Traces(G) ==
  LET trace[x \in DOMAIN G] ==
        LET op == G[x]
            at == [y \in op.inputs |-> trace[y]]
            parts == {at[y] : y \in op.inputs}
        IN  CASE op.kind \in LLMKinds ->
                   [Leaf(x, "assistant", {x}, {x}) EXCEPT
                      !.msgs = IF op.history THEN <<"context">> \o @ ELSE @]
              [] op.kind \in {"InputOp", "DataOp"} -> Leaf(x, "user", {}, {})
              [] op.kind = "DataRetrievalOp" -> Leaf(x, "user", {x}, {})
              [] op.kind = "MessageOp" ->
                   LET msgs == MessageParts(op, at)
                   IN  Over(x, parts, msgs,
                            IF "refused" \in ToSet(msgs) THEN {"message"} ELSE {})
              [] op.kind = "FormatOp" -> Over(x, parts, <<"user">>, FormatErrors(op, parts))
              [] op.kind = "LambdaOp" -> Over(x, parts, <<"user">>, {})
  IN  trace

-----------------------------------------------------------------------------
(* The nodes an op becomes: a function from node ids, with the ops that    *)
(* are visited on the way and the errors raised.                           *)

Node(reads, deps) == [reads |-> reads, deps |-> deps]
Built(nodes, seen, errs) == [nodes |-> nodes, seen |-> seen, errs |-> errs]
OneNode(x, reads, deps, seen, errs) == Built([y \in {x} |-> Node(reads, deps)], seen, errs)

(* _build_node_from_data_retrieval_op: the values of an InputOp are        *)
(* written into the params, and cannot be drilled into; the other nodes    *)
(* named by the params are read and waited for.                            *)
FromInput(G, p) == p.node \in OpsOf(G, {"InputOp"})
BuildRetrieval(G, x) ==
  LET op == G[x]
      params == ToSet(op.params)
      named == {p.node : p \in params} \ {NoId}
      reads == {p.node : p \in {q \in params : q.node # NoId /\ ~FromInput(G, q)}}
  IN  OneNode(x, reads, (op.inputs \ OpsOf(G, {"InputOp"})) \cup reads,
              op.inputs \cup (named \cap DOMAIN G),
              IF \E p \in params : FromInput(G, p) /\ p.path # "" THEN {"drilled"} ELSE {})

(* _build_node_from_embedding_op.                                          *)
BuildEmbedding(G, x) ==
  LET content == G[x].args[1]
      reads == {content} \ OpsOf(G, {"InputOp", "DataOp"})
  IN  OneNode(x, reads, reads, {content}, {})

(* The trivial FormatOp around the content of an image is looked through.  *)
BuildImageAsIs(G, x) ==
  LET content == G[x].args[1]
      reads == {content} \ OpsOf(G, {"InputOp"})
  IN  OneNode(x, reads, reads, {content}, {})
BuildImage(G, x) ==
  LET outer == G[x].args[1]
      format == G[outer].kind = "FormatOp" /\ G[outer].bare /\ Cardinality(G[outer].inputs) = 1
      content == IF format THEN CHOOSE y \in G[outer].inputs : TRUE ELSE outer
      reads == {content} \ OpsOf(G, {"InputOp"})
  IN  OneNode(x, reads, reads, {outer}, {})

ColumnReads(columns) == {c.node : c \in {d \in ToSet(columns) : d.node # NoId /\ d.path}}
ColumnsEmpty(columns) == ~\E c \in ToSet(columns) : c.node = NoId \/ c.path

(* _build_node_from_llm_op: row by row, over an aggregated table, or from  *)
(* the messages.                                                           *)
BuildChatAfterLLMs(G, x) ==
  LET op == G[x]
      t == Traces(G)[op.args[1]]
      columns == ColumnReads(op.columns)
  IN  OneNode(x, IF op.rowwise THEN columns ELSE t.reads \cup ColumnReads(op.table),
              t.llms, t.seen, t.errs)
BuildRowwise(G, x, t) ==
  LET rows == ColumnReads(G[x].columns)
  IN  OneNode(x, rows, t.llms \cup rows, t.seen,
              t.errs \cup IF ColumnsEmpty(G[x].columns) THEN {"columns"} ELSE {})
BuildAggregate(G, x, t) ==
  LET table == ColumnReads(G[x].table)
  IN  OneNode(x, t.reads \cup table, t.llms \cup t.reads \cup table, t.seen, t.errs)
BuildPlain(G, x, t) == OneNode(x, t.reads, t.llms \cup t.reads, t.seen, t.errs)
BuildChat(G, x) ==
  LET op == G[x]
      t == Traces(G)[op.args[1]]
  IN  CASE op.rowwise -> BuildRowwise(G, x, t)
        [] ~op.rowwise /\ op.table # << >> -> BuildAggregate(G, x, t)
        [] OTHER -> BuildPlain(G, x, t)

(* _resolve_vlm_image_source: the node the image comes from, if any.       *)
ImageSource(G, op) == {op.image} \cap OpsOf(G, {"ImageGenerationOp", "DataRetrievalOp"})
ImageSourceErrors(G, op) ==
  IF op.image \in OpsOf(G, {"InputOp"}) \/ ImageSource(G, op) # {} THEN {} ELSE {"image"}

(* _build_vlm_nodes_from_image_op: a node that embeds the image, and the   *)
(* LLM node, which has a column of the image source too.                   *)
EmbeddingId(x) == <<"embedding of", x[2]>>
BuildVision(G, x) ==
  LET op == G[x]
      t == Traces(G)[op.args[1]]
      source == ImageSource(G, op)
      rows == ColumnReads(op.columns)
      reads == (IF op.rowwise THEN rows ELSE t.reads) \cup source \cup {EmbeddingId(x)}
  IN  Built([y \in {x, EmbeddingId(x)} |->
               IF y = x THEN Node(reads, t.llms \cup reads) ELSE Node(source, source)],
            t.seen \cup {op.image},
            t.errs \cup ImageSourceErrors(G, op)
                   \cup (IF op.rowwise /\ ColumnsEmpty(op.columns) THEN {"columns"} ELSE {}))

BuildOp(G, x) ==
  CASE G[x].kind = "DataRetrievalOp" -> BuildRetrieval(G, x)
    [] G[x].kind = "EmbeddingOp" -> BuildEmbedding(G, x)
    [] G[x].kind = "ImageGenerationOp" -> BuildImage(G, x)
    [] G[x].kind = "LLMVisionOp" -> BuildVision(G, x)
    [] OTHER -> BuildChat(G, x)

-----------------------------------------------------------------------------
(* RuntimeGraph.topological_order raises on a cycle.                       *)
Ordered(nodes) ==
  LET after(S) == {x \in DOMAIN nodes : (nodes[x].deps \cap DOMAIN nodes) \subseteq S}
  IN  FoldLeft(LAMBDA S, i : after(S), {}, [i \in 1..Cardinality(DOMAIN nodes) |-> i])
        = DOMAIN nodes

(* RuntimeGraphBuilder.build.                                              *)
OutputSources(G) == [x \in OpsOf(G, {"OutputOp"}) |-> CHOOSE y \in G[x].inputs : TRUE]

Build(G) ==
  LET runtime == OpsOf(G, RuntimeKinds)
      outputs == OpsOf(G, {"OutputOp"})
      built == [x \in runtime |-> BuildOp(G, x)]
      ids == UNION {DOMAIN built[x].nodes : x \in runtime}
      nodes == [n \in ids |->
                  LET x == CHOOSE y \in runtime : n \in DOMAIN built[y].nodes
                  IN  built[x].nodes[n]]
      seen == runtime \cup outputs \cup UNION {built[x].seen : x \in runtime}
  IN  [nodes |-> nodes,
       errs |-> (UNION {built[x].errs : x \in runtime})
                \cup (IF \E x \in outputs : OutputSources(G)[x] \notin runtime
                      THEN {"output"} ELSE {})
                \cup (IF runtime = {} THEN {"empty"} ELSE {})
                \cup (IF DOMAIN G \ seen # {} THEN {"unvisited"} ELSE {})
                \cup (IF ~Ordered(nodes) THEN {"cycle"} ELSE {})]

(* output_source_to_outputop: of two outputs of one op the later one in    *)
(* the graph stays, and the order of the graph within a layer is that of   *)
(* a set.                                                                  *)
OutputMaps(G) ==
  LET source == OutputSources(G)
      names(y) == {G[x].name : x \in {z \in DOMAIN source : source[z] = y}}
      served == {source[x] : x \in DOMAIN source}
  IN  {m \in [served -> UNION {names(y) : y \in served}] : \A y \in served : m[y] \in names(y)}

(* to_flowmesh_nodes: only the dependencies that are nodes are exported.   *)
DependsOn(nodes, n) == nodes[n].deps \cap DOMAIN nodes

(* with_node_prefix: the nodes of a graph and the references to them are   *)
(* renamed.  merge_runtime_graphs: the renamed graphs of a batch together. *)
WithNodePrefixDeps(prefix, nodes) ==
  [m \in {<<prefix, n>> : n \in DOMAIN nodes} |->
     Node(nodes[m[2]].reads, {<<prefix, d>> : d \in nodes[m[2]].deps})]
WithNodePrefix(prefix, nodes) ==
  LET remap(S) == {IF n \in DOMAIN nodes THEN <<prefix, n>> ELSE n : n \in S}
  IN  [m \in {<<prefix, n>> : n \in DOMAIN nodes} |->
         Node(remap(nodes[m[2]].reads), remap(nodes[m[2]].deps))]

MergeRuntimeGraphs(graphs) ==
  LET owner(n) == CHOOSE g \in DOMAIN graphs : n \in DOMAIN graphs[g]
  IN  [n \in UNION {DOMAIN graphs[g] : g \in DOMAIN graphs} |-> graphs[owner(n)][n]]

-----------------------------------------------------------------------------
(* The build with task_type_override "data_profile": a value is found at   *)
(* build time for every placeholder of a SQL or S3 retrieval.              *)
(* live: LUMILAKE_DATA_PROFILE_ENABLE_LIVE_SAMPLING.  answered: the SQL    *)
(* retrievals whose sample query returns a row; the S3 sampler of the      *)
(* server always raises.                                                   *)

(* _sample_value_from_structural_outputs: the field the path names, or the *)
(* only one.                                                               *)
StructuralSampleByField(op, path) == path \in op.fields
StructuralSample(op, path) ==
  IF path \in {"", "items"} THEN Cardinality(op.fields) = 1 ELSE path \in op.fields

(* _fetch_sql_sample_value and _fetch_s3_sample_value.                      *)
ReadonlyQuery(op) == op.readonly
FetchSql(x, answered) == x \in answered
FetchS3 == FALSE

(* _sample_value_from_upstream_retrieval: rendered says that a value was   *)
(* found for each placeholder of the query of x.                           *)
UpstreamSample(G, live, answered, x, visited, rendered) ==
  /\ x \notin visited
  /\ \/ G[x].sample
     \/ /\ live /\ rendered
        /\ \/ G[x].mode = "sql" /\ ReadonlyQuery(G[x]) /\ FetchSql(x, answered)
           \/ G[x].mode = "s3" /\ FetchS3

(* _resolve_profile_param; _render_upstream_sample_query calls it for the  *)
(* placeholders of the upstream.                                           *)
ParamResolves(G, live, answered) ==
  LET resolves[p \in UNION {ToSet(G[x].params) : x \in DOMAIN G}, visited \in SUBSET DOMAIN G] ==
        IF p.node \notin DOMAIN G THEN TRUE
        ELSE LET up == G[p.node]
                 next == visited \cup {p.node}
                 rendered == p.node \notin visited /\ \A q \in ToSet(up.params) : resolves[q, next]
             IN  \/ up.kind = "InputOp"
                 \/ up.kind \in {"LLMChatOp", "LLMVisionOp"} /\ StructuralSample(up, p.path)
                 \/ /\ up.kind = "DataRetrievalOp"
                    /\ UpstreamSample(G, live, answered, p.node, visited, rendered)
  IN  resolves

Profiled(G) == {x \in OpsOf(G, {"DataRetrievalOp"}) : G[x].mode \in {"sql", "s3"}}
ProfileBuilds(G, live, answered) ==
  \A x \in Profiled(G) : \A p \in ToSet(G[x].params) : ParamResolves(G, live, answered)[p, {x}]

=============================================================================
