--------------------------- MODULE WorkflowIntake ---------------------------
(***************************************************************************)
(* From the submitted document to the runtime graph: the loop of a parser, *)
(* Graph.from_json over what it emitted, Graph.compile, and the two builds *)
(* of RuntimeGraphBuilder (the graph that runs and the data profile).      *)
(*                                                                         *)
(* The YAML parser goes through its entries in the order of the document,  *)
(* the n8n parser through a set of names: in any order.                    *)
(***************************************************************************)
EXTENDS WorkflowMeaning, Deques

CONSTANTS
  YamlFlows,   \* the YAML documents that may be submitted
  N8nFlows,    \* the n8n documents
  GraphNames,  \* the names under which a batch holds the workflow
  Live         \* LUMILAKE_DATA_PROFILE_ENABLE_LIVE_SAMPLING

(* The lists of a document are lists; submitted inputs are keyed by name.  *)
IsList(s) == s \in Seq(ToSet(s))
ASSUME DocumentAssumption ==
  /\ \A d \in YamlFlows :
       /\ IsList(d.inputs) /\ IsList(d.ops) /\ IsList(d.outputs)
       /\ IsInjective(d.inputs)
       /\ \A e \in ToSet(d.ops) : IsList(e.messages)
  /\ \A d \in N8nFlows :
       /\ IsList(d.nodes)
       /\ \A n \in ToSet(d.nodes) :
            IsList(n.main) /\ IsList(n.refs) /\ IsList(n.filters) /\ IsList(n.limit)

R == INSTANCE RuntimeGraph

VARIABLES
  phase,       \* where the intake is
  pending,     \* the names of the entries or nodes not emitted yet
  todo,        \* what is left of list(pending) in this pass
  progress,    \* something was emitted in this pass
  ids,         \* user_id_to_internal, op_ids
  ops,         \* the ops emitted, in order
  loaded,      \* the ops Graph.from_json has made of them
  graph,       \* the compiled graph, by op id
  rt,          \* the runtime graph: nodes and errors
  served,      \* output_node_map
  merged,      \* the nodes of the merged runtime graph of the batch
  answered,    \* the queries whose sample was returned to the profile build
  err          \* why the document is refused

vars == <<format, wf, phase, pending, todo, progress, ids, ops, loaded, graph, rt, served,
          merged, answered, err>>

Nothing == [x \in {} |-> {}]
Unbuilt == [nodes |-> Nothing, errs |-> {}]

Init ==
  /\ \/ format = "yaml" /\ wf \in YamlFlows
     \/ format = "n8n" /\ wf \in N8nFlows
  /\ phase = "start" /\ pending = {} /\ todo = << >> /\ progress = TRUE
  /\ ids = Nothing /\ ops = << >> /\ loaded = << >> /\ graph = Nothing
  /\ rt = Unbuilt /\ served = Nothing /\ merged = Nothing /\ answered = {} /\ err = ""

Refuse(why) == phase' = "refused" /\ err' = why
UnchangedByParse == UNCHANGED <<format, wf, loaded, graph, rt, served, merged, answered>>

-----------------------------------------------------------------------------
(* The parsers.                                                            *)

YamlStart ==
  /\ phase = "start" /\ IsYaml
  /\ \/ /\ Y!EntriesOK(wf) /\ Y!IdsOK(wf)
        /\ ids' = Y!Register(wf) /\ ops' = Y!InputOps(wf) /\ pending' = Y!EntryIds(wf)
        /\ phase' = "pass" /\ UNCHANGED err
     \/ /\ ~(Y!EntriesOK(wf) /\ Y!IdsOK(wf))
        /\ Refuse("malformed") /\ UNCHANGED <<ids, ops, pending>>
  /\ UNCHANGED <<todo, progress>> /\ UnchangedByParse

N8nStart ==
  /\ phase = "start" /\ ~IsYaml
  /\ \/ /\ N!NodesOK(wf) /\ N!InputsOK(wf)
        /\ ids' = N!TriggerIds(wf) /\ ops' = N!TriggerOps(wf)
        /\ pending' = N!OfTypes(wf, N!BuiltTypes)
        /\ phase' = "pass" /\ UNCHANGED err
     \/ /\ ~(N!NodesOK(wf) /\ N!InputsOK(wf))
        /\ Refuse("malformed") /\ UNCHANGED <<ids, ops, pending>>
  /\ UNCHANGED <<todo, progress>> /\ UnchangedByParse

(* One round of the while loop goes through the names pending when it      *)
(* begins; a round without progress is the last one.                       *)
PassOrders ==
  IF IsYaml
  THEN {Keep([i \in DOMAIN wf.ops |-> wf.ops[i].id], pending)}
  ELSE SetToSeqs(pending)

PassStartKeepsProgress ==
  /\ phase = "pass" /\ todo = << >> /\ pending # {} /\ progress
  /\ todo' \in PassOrders
  /\ UNCHANGED <<phase, pending, progress, ids, ops, err>> /\ UnchangedByParse
PassStart ==
  /\ phase = "pass" /\ todo = << >> /\ pending # {} /\ progress
  /\ todo' \in PassOrders /\ progress' = FALSE
  /\ UNCHANGED <<phase, pending, ids, ops, err>> /\ UnchangedByParse

PassStuck ==
  /\ phase = "pass" /\ todo = << >> /\ pending # {} /\ ~progress
  /\ Refuse("unresolved")
  /\ UNCHANGED <<pending, todo, progress, ids, ops>> /\ UnchangedByParse

(* A visit of the name at the head.                                        *)
Unknown(u) == IsYaml /\ ~(ToSet(Y!EntryOf(wf, u).inputs) \subseteq DOMAIN ids)
MustWaitForN8n(u) ==
  ~IsYaml /\ ~(N!ResolveDependencies(wf, N!NodeNamed(wf, u)) \subseteq DOMAIN ids)
MustWait(u) ==
  IF IsYaml THEN ToSet(Y!EntryOf(wf, u).inputs) \cap pending # {}
  ELSE LET deps == N!ResolveDependencies(wf, N!NodeNamed(wf, u))
       IN  deps \cap pending # {} \/ ~(deps \subseteq DOMAIN ids)
Made(u) ==
  IF IsYaml THEN Y!BuildOpDict(Y!EntryOf(wf, u), ids, ops)
  ELSE N!MakeOps(wf, ids, N!NodeNamed(wf, u))

VisitUnknown ==
  /\ phase = "pass" /\ todo # << >> /\ Unknown(Head(todo))
  /\ Refuse("unknown")
  /\ UNCHANGED <<pending, todo, progress, ids, ops>> /\ UnchangedByParse

VisitWaits ==
  /\ phase = "pass" /\ todo # << >> /\ ~Unknown(Head(todo)) /\ MustWait(Head(todo))
  /\ todo' = Tail(todo)
  /\ UNCHANGED <<phase, pending, progress, ids, ops, err>> /\ UnchangedByParse

VisitFails ==
  /\ phase = "pass" /\ todo # << >> /\ ~Unknown(Head(todo)) /\ ~MustWait(Head(todo))
  /\ Made(Head(todo)).err # ""
  /\ Refuse(Made(Head(todo)).err)
  /\ UNCHANGED <<pending, todo, progress, ids, ops>> /\ UnchangedByParse

VisitEmits ==
  /\ phase = "pass" /\ todo # << >> /\ ~Unknown(Head(todo)) /\ ~MustWait(Head(todo))
  /\ LET u == Head(todo)
         made == Made(u)
     IN  /\ made.err = ""
         /\ IF IsYaml THEN ops' = ops \o made.ops /\ UNCHANGED ids
            ELSE ops' = N!AddOps(ops, made.ops) /\ ids' = [x \in DOMAIN ids \cup {u} |->
                                                   IF x = u THEN made.id ELSE ids[x]]
         /\ pending' = pending \ {u} /\ progress' = TRUE /\ todo' = Tail(todo)
  /\ UNCHANGED <<phase, err>> /\ UnchangedByParse

YamlOutputs ==
  /\ phase = "pass" /\ todo = << >> /\ pending = {} /\ IsYaml
  /\ LET outs == Y!EmitOutputs(wf, ids)
     IN  \/ outs.err = "" /\ ops' = ops \o outs.ops /\ phase' = "load" /\ UNCHANGED err
         \/ outs.err # "" /\ Refuse(outs.err) /\ UNCHANGED ops
  /\ UNCHANGED <<pending, todo, progress, ids>> /\ UnchangedByParse

N8nOutputs ==
  /\ phase = "pass" /\ todo = << >> /\ pending = {} /\ ~IsYaml
  /\ ops' = N!AddOps(ops, N!ChainOutputs(wf, ids)) /\ phase' = "load"
  /\ UNCHANGED <<pending, todo, progress, ids, err>> /\ UnchangedByParse

-----------------------------------------------------------------------------
(* Graph.from_json, one op at a time, and Graph.compile.                   *)

UnchangedAfterParse == UNCHANGED <<format, wf, pending, todo, progress, ids, ops>>

LoadOp ==
  /\ phase = "load" /\ Len(loaded) < Len(ops)
  /\ LET op == ops[Len(loaded) + 1]
     IN  \/ /\ LookedUp(op) \subseteq IdsOf(loaded)
            /\ loaded' = Append(loaded, FromJson(op, IdsOf(loaded)))
            /\ UNCHANGED <<phase, err>>
         \/ ~(LookedUp(op) \subseteq IdsOf(loaded)) /\ Refuse("missing op") /\ UNCHANGED loaded
  /\ UNCHANGED <<graph, rt, served, merged, answered>> /\ UnchangedAfterParse

InputsGiven == IF IsYaml THEN ToSet(wf.inputs) ELSE wf.inputs

Compile ==
  /\ phase = "load" /\ Len(loaded) = Len(ops)
  /\ LET ok == /\ NamesUnique(loaded, "InputOp") /\ NamesUnique(loaded, "OutputOp")
               /\ InputNames(loaded) = InputsGiven
     IN  \/ ok /\ graph' = GraphOf(loaded) /\ phase' = "build" /\ UNCHANGED err
         \/ ~ok /\ Refuse("compile") /\ UNCHANGED graph
  /\ UNCHANGED <<loaded, rt, served, merged, answered>> /\ UnchangedAfterParse

(* The builds: server.preview_schedule, server.execute.                    *)
BuildRuntime ==
  /\ phase = "build"
  /\ rt' = R!Build(graph)
  /\ \/ rt'.errs = {} /\ phase' = "profile" /\ served' \in R!OutputMaps(graph) /\ UNCHANGED err
     \/ rt'.errs # {} /\ Refuse("build") /\ UNCHANGED served
  /\ UNCHANGED <<loaded, graph, merged, answered>> /\ UnchangedAfterParse

Queries == {x \in R!Profiled(graph) : graph[x].mode = "sql"}
BuildProfile ==
  /\ phase = "profile"
  /\ answered' \in SUBSET Queries
  /\ \/ R!ProfileBuilds(graph, Live, answered') /\ phase' = "merge" /\ UNCHANGED err
     \/ ~R!ProfileBuilds(graph, Live, answered') /\ Refuse("profile")
  /\ UNCHANGED <<loaded, graph, rt, served, merged>> /\ UnchangedAfterParse

(* The optimizer merges the graphs of a batch, each under its prefix.      *)
MergeGraphs ==
  /\ phase = "merge"
  /\ merged' = R!MergeRuntimeGraphs([g \in GraphNames |-> R!WithNodePrefix(g, rt.nodes)])
  /\ phase' = "done"
  /\ UNCHANGED <<loaded, graph, rt, served, answered, err>> /\ UnchangedAfterParse

Parse ==
  \/ YamlStart \/ N8nStart \/ PassStart \/ PassStuck
  \/ VisitUnknown \/ VisitWaits \/ VisitFails \/ VisitEmits \/ YamlOutputs \/ N8nOutputs

Next == Parse \/ LoadOp \/ Compile \/ BuildRuntime \/ BuildProfile \/ MergeGraphs

(* A parser is one function call, which is not suspended.                  *)
Spec == Init /\ [][Next]_vars /\ WF_vars(Parse)

-----------------------------------------------------------------------------
(* Properties, against what the document says.                             *)

RuntimeBuilt == phase \in {"profile", "merge", "done"}

(* A document that keeps the rules of the parsers is refused by none of    *)
(* them, whatever the order of its entries and of the visits, nor by       *)
(* Graph.from_json or Graph.compile; RuntimeGraphBuilder.build refuses it  *)
(* only for one of the limits Buildable names, and the profile build for   *)
(* want of a sample (ProfileNeedsSamples).  "cycle detected" and           *)
(* "Unresolved n8n dependencies" are only said of a cycle, or of a name    *)
(* that no node has.                                                       *)
RefusalsJustified ==
  /\ phase = "refused" /\ err \notin {"build", "profile"} => ~KeepsRules
  /\ err = "build" => ~Supported
  /\ err = "unresolved" =>
       ~Acyclic \/ \E u \in Built : ~(Declared(u) \subseteq Parts)

(* The runtime graph moves exactly the data the document names: each node  *)
(* reads the nodes whose results reach it through formats, messages, code, *)
(* params, columns and images, and no other (its own embedding aside), but *)
(* for a query two of whose places have one label, which may miss some of  *)
(* them; and every output is served by the node of the part it names.      *)
Apart(u) == KindOf(u) = "DataRetrievalOp" => LabelsApart(u)
ReadsExact ==
  RuntimeBuilt /\ Supported =>
    /\ \A u \in {v \in Built : Runs(v)} :
         LET reads == rt.nodes[ids[u]].reads \ {R!EmbeddingId(ids[u])}
             named == {ids[v] : v \in Sources[u]}
         IN  reads \subseteq named /\ (Apart(u) => reads = named)
    /\ \A i \in DOMAIN ops : ops[i].kind = "OutputOp" =>
         \E n \in DOMAIN served : n \in ops[i].inputs /\ served[n] = ops[i].name

(* What a node reads is there when FlowMesh runs it: every node named in   *)
(* its data spec is among the dependencies it is exported with.            *)
ReadsScheduled ==
  RuntimeBuilt /\ Supported =>
    \A n \in DOMAIN rt.nodes : rt.nodes[n].reads \subseteq R!DependsOn(rt.nodes, n)

(* Workflows of one batch that come from the same document do not read     *)
(* each other: in the merged graph every node reads the nodes of its own   *)
(* workflow, and waits for them.                                           *)
GraphsApart ==
  phase = "done" /\ Supported =>
    \A g \in GraphNames : \A n \in DOMAIN rt.nodes :
      /\ merged[<<g, n>>].reads = {<<g, r>> : r \in rt.nodes[n].reads}
      /\ merged[<<g, n>>].reads \subseteq R!DependsOn(merged, <<g, n>>)

(* A reference in a prompt stays one: Graph.from_json takes no content     *)
(* that names a part for literal text.                                     *)
ReferencesKept ==
  KeepsRules =>
    \A i \in DOMAIN loaded : ops[i].kind = "MessageOp" =>
      ToSet(ops[i].args) \cap IdsOf(ops) \subseteq loaded[i].inputs

(* Each placeholder of a query is bound to what its own place names, part  *)
(* and field, when the labels are apart: no place takes the label of       *)
(* another, however often a part is named, and none is left out.  And no   *)
(* graph is built in which a query takes a field of an input, since the    *)
(* whole value would be written in (runtime_graph.py, "cannot be           *)
(* drilled"), in documents that break other rules or limits too.           *)
PathOf(r) == IF ~IsYaml /\ r.path = "" THEN "items" ELSE r.path
PlaceholdersBound ==
  RuntimeBuilt =>
    \A u \in {v \in Built : KindOf(v) = "DataRetrievalOp"} :
      LET params == graph[ids[u]].params
      IN  /\ ~DrillsInput(u)
          /\ Supported /\ LabelsApart(u) =>
               /\ \A i, j \in DOMAIN params : params[i].label = params[j].label => i = j
               /\ \A r \in {p \in References(u) : p.node # "" /\ Runs(p.node)} :
                    \E i \in DOMAIN params :
                      params[i].node = ids[r.node] /\ params[i].path = PathOf(r)

(* The profile build fails only for want of a sample: among the ops that   *)
(* give values to the placeholders of some query, directly or through the  *)
(* placeholders of another, one has no sample: a query without             *)
(* sample_value and without an answer, an LLM op without the one typed     *)
(* field, or an op of another kind.                                        *)
SampleFrom(x) ==
  LET op == graph[x]
  IN  CASE op.kind = "InputOp" -> TRUE
        [] op.kind = "DataRetrievalOp" ->
             op.sample \/ (Live /\ op.mode = "sql" /\ op.readonly /\ x \in answered)
        [] OTHER -> op.kind \in {"LLMChatOp", "LLMVisionOp"} /\ Cardinality(op.fields) = 1
ValuesOf(S) == {p.node : p \in UNION {ToSet(graph[x].params) : x \in S}} \ {NoId}
AboveQueries ==
  FoldLeft(LAMBDA S, i : S \cup ValuesOf(S), ValuesOf(R!Profiled(graph)), loaded)
ProfileNeedsSamples ==
  err = "profile" => \E x \in AboveQueries : ~SampleFrom(x)

(* The loops of the parsers come to an end, with a graph or an error: no   *)
(* document, cyclic or not, keeps them going round without progress.       *)
ParseEnds == <>(phase \notin {"start", "pass"})

(* What the comment at the loop of the n8n parser says, "Build workflow    *)
(* nodes in dependency order": a document whose references all name its    *)
(* nodes is not refused for an unknown reference.                          *)
ReferencesResolve ==
  err = "unknown" => ~(WellFormed /\ Closed /\ Acyclic)

=============================================================================
