----------------------------- MODULE N8nParser -----------------------------
(***************************************************************************)
(* The parser of exported n8n workflows: parser/n8n.py.                    *)
(*                                                                         *)
(* A workflow is a record: nodes (in the order of the document) and inputs *)
(* (the names of the submitted inputs).  A node is a record: name, type,   *)
(* main and models (the sources of its incoming edges, in order), and what *)
(* its parameters and notes say, the texts by the references {{ $('X').p }}*)
(* in them: refs in the prompt, the query, the task or the folder key;     *)
(* table in the table block of a prompt; filters and limit of a select.    *)
(* system: it has system messages, which name no node.  A reference is a   *)
(* record: node and path ("" when it names no field).                      *)
(* inputs are the names in the notes (inputs, input, filters).             *)
(* opIds maps the names of the nodes built so far to their ops.            *)
(***************************************************************************)
EXTENDS OpGraph, FiniteSets, Deques

BuiltTypes == {"chain", "code", "postgres", "s3", "agent"}
NodeTypes == BuiltTypes \cup {"trigger", "model"}
DataSources == {"postgres", "s3"}

Made(ops, id) == [err |-> "", ops |-> ops, id |-> id]
NotMade(why) == [err |-> why, ops |-> << >>, id |-> NoId]

-----------------------------------------------------------------------------
(* _parse_and_validate_nodes, _index_nodes and the allowed types.          *)

NodeNames(wf) == {wf.nodes[i].name : i \in DOMAIN wf.nodes}
NodeNamed(wf, x) == wf.nodes[CHOOSE i \in DOMAIN wf.nodes : wf.nodes[i].name = x]
OfTypes(wf, types) == {x \in NodeNames(wf) : NodeNamed(wf, x).type \in types}

NodesOK(wf) ==
  /\ wf.nodes # << >>
  /\ \A i, j \in DOMAIN wf.nodes : wf.nodes[i].name = wf.nodes[j].name => i = j
  /\ \A i \in DOMAIN wf.nodes : ~wf.nodes[i].malformed /\ wf.nodes[i].type \in NodeTypes

(* _resolve_input_key: the input of a trigger may differ in case.          *)
InputKeys(wf, n) == IF n.name \in wf.inputs THEN {n.name} ELSE n.folded \cap wf.inputs
InputsOK(wf) == \A x \in OfTypes(wf, {"trigger"}) : InputKeys(wf, NodeNamed(wf, x)) # {}

TriggerOps(wf) ==
  LET triggers == Keep(wf.nodes, {n \in ToSet(wf.nodes) : n.type = "trigger"})
  IN  [i \in DOMAIN triggers |->
         [Op(MakeId("input", triggers[i].name), "InputOp") EXCEPT
            !.name = CHOOSE k \in InputKeys(wf, triggers[i]) : TRUE]]
TriggerIds(wf) == [x \in OfTypes(wf, {"trigger"}) |-> MakeId("input", x)]

-----------------------------------------------------------------------------
(* _resolve_dependencies: the nodes that must be built first.              *)

MainIncoming(wf, n) == SelectSeq(n.main, LAMBDA x : x \notin OfTypes(wf, DataSources))
MainUpstream(wf, n) == IF MainIncoming(wf, n) = << >> THEN {} ELSE {MainIncoming(wf, n)[1]}
RefNames(refs) == {r.node : r \in ToSet(refs)}
FilterNames(n) == (RefNames(n.filters) \cup RefNames(n.limit)) \ {""}
CodeInputs(wf, n) == IF n.inputs = << >> THEN MainIncoming(wf, n) ELSE n.inputs

(* _resolve_data_nodes: the data sources upstream of a node, not looking   *)
(* past a postgres node.                                                   *)
DataNodes(wf, n) ==
  LET next(S) == S \cup UNION {ToSet(NodeNamed(wf, x).main) :
                                 x \in {y \in S \cap NodeNames(wf) :
                                          NodeNamed(wf, y).type # "postgres"}}
      reach[k \in 0..Len(wf.nodes)] == IF k = 0 THEN ToSet(n.main) ELSE next(reach[k - 1])
  IN  reach[Len(wf.nodes)]
PostgresUpstream(wf, n) ==
  LET found == DataNodes(wf, n) \cap OfTypes(wf, {"postgres"})
      s3 == DataNodes(wf, n) \cap OfTypes(wf, {"s3"})
  IN  IF Cardinality(found) = 1 /\ Cardinality(s3) <= 1 THEN found ELSE {}

ChainDependencies(wf, n) ==
  LET refs == RefNames(n.refs) \cup RefNames(n.table)
  IN  MainUpstream(wf, n)
      \cup (IF n.mode \in {"rowwise", "aggregate"} THEN refs
            ELSE refs \ OfTypes(wf, DataSources))
      \cup (IF n.opType = "text-generation" /\ n.mode = "rowwise"
            THEN UNION {FilterNames(NodeNamed(wf, x)) : x \in PostgresUpstream(wf, n)} ELSE {})
      \cup ToSet(n.inputs) \cup ({n.image} \ {""})

ResolveDependencies(wf, n) ==
  CASE n.type = "code" -> ToSet(CodeInputs(wf, n))
    [] n.type = "chain" -> ChainDependencies(wf, n)
    [] n.type = "postgres" -> FilterNames(n) \cup RefNames(n.refs) \cup MainUpstream(wf, n)
    [] n.type \in {"s3", "agent"} -> RefNames(n.refs) \cup ToSet(n.main)

-----------------------------------------------------------------------------
(* Placeholders.  The values of an input are written in when the node has  *)
(* the very name of the input; the other references name their op.         *)

Inlined(wf, opIds, ref) == ref.node \in wf.inputs /\ ref.node \in DOMAIN opIds /\ ref.path = ""
Param(wf, opIds, label, ref) ==
  [label |-> label, node |-> IF Inlined(wf, opIds, ref) THEN NoId ELSE opIds[ref.node],
   path |-> IF ref.path = "" THEN "items" ELSE ref.path]

(* _next_sql_label: the label of a reference used again is numbered.       *)
QueryLabelUnnumbered(refs, i) == <<refs[i].node, 1>>
QueryLabel(refs, i) ==
  <<refs[i].node, Cardinality({j \in 1..i : refs[j].node = refs[i].node})>>
QueryParams(wf, opIds, refs) ==
  [i \in DOMAIN refs |-> Param(wf, opIds, QueryLabel(refs, i), refs[i])]

(* _sql_param_label: the words of the column without what stands between   *)
(* them, and Min or Max for a comparison, run together: two columns may    *)
(* have one label.  Texts are sequences of words.                          *)
Punctuation == {".", "-", " "}
FilterLabel(f) ==
  LET words == SelectSeq(f.column, LAMBDA w : w \notin Punctuation)
  IN  (IF words = << >> THEN <<"value">> ELSE words)
      \o (IF f.op \in {">", ">="} THEN <<"Min">>
          ELSE IF f.op \in {"<", "<="} THEN <<"Max">> ELSE << >>)

(* _build_sql_template_and_params: the filters that name a node, then the  *)
(* limit; the first one with a label is the one that binds it.             *)
Comparisons(n) ==
  LET limit == [i \in DOMAIN n.limit |->
                  [column |-> <<"limit">>, op |-> "", node |-> n.limit[i].node,
                   path |-> n.limit[i].path]]
      named == {f \in ToSet(n.filters) \cup ToSet(limit) : f.node # ""}
  IN  Keep(n.filters \o limit, named)
SqlParams(wf, opIds, n) ==
  LET all == Comparisons(n)
      bound == Keep([i \in DOMAIN all |-> i], {i \in DOMAIN all :
                 \A j \in 1..(i - 1) : FilterLabel(all[j]) # FilterLabel(all[i])})
  IN  [i \in DOMAIN bound |-> Param(wf, opIds, FilterLabel(all[bound[i]]), all[bound[i]])]

ParamNodes(params) == {p.node : p \in ToSet(params)} \ {NoId}
KnownRefs(opIds, refs) == RefNames(refs) \ {""} \subseteq DOMAIN opIds
IdsNamed(opIds, names) == {opIds[x] : x \in names \cap DOMAIN opIds}

Retrieval(n, mode, params, inputs) ==
  LET op == [Op(MakeId("retrieval", n.name), "DataRetrievalOp") EXCEPT
               !.mode = mode, !.params = params, !.inputs = ParamNodes(params) \cup inputs]
  IN  Made(<<op>>, op.id)

(* _make_postgres_retrieval_op.  A limit is a number or a field.           *)
MakePostgres(wf, opIds, n) ==
  LET main == IdsNamed(opIds, ToSet(MainIncoming(wf, n)))
  IN  IF n.execute
      THEN IF ~KnownRefs(opIds, n.refs) THEN NotMade("unknown")
           ELSE Retrieval(n, "sql", QueryParams(wf, opIds, n.refs), main)
      ELSE IF ~KnownRefs(opIds, n.filters) \/ ~KnownRefs(opIds, n.limit) THEN NotMade("unknown")
      ELSE IF \E i \in DOMAIN n.limit : n.limit[i].path = "" THEN NotMade("limit")
      ELSE Retrieval(n, "sql", SqlParams(wf, opIds, n), main \cup IdsNamed(opIds, FilterNames(n)))

MakeAgent(wf, opIds, n) ==
  IF ~KnownRefs(opIds, n.refs) THEN NotMade("unknown")
  ELSE Retrieval(n, "agent", QueryParams(wf, opIds, n.refs),
                 IdsNamed(opIds, ToSet(MainIncoming(wf, n))))

(* _parse_s3_folder_key: labelled by the path, numbered; the values of an  *)
(* input are written in whatever the path.                                 *)
FolderLabel(refs, i) ==
  IF refs[i].path = "" THEN <<"value", i>>
  ELSE <<refs[i].path, Cardinality({j \in 1..i : refs[j].path = refs[i].path})>>
FolderParams(wf, opIds, refs) ==
  [i \in DOMAIN refs |->
     [label |-> FolderLabel(refs, i),
      node |-> IF refs[i].node \in wf.inputs THEN NoId ELSE opIds[refs[i].node],
      path |-> IF refs[i].path = "" THEN "items" ELSE refs[i].path]]

(* A key taken from a query must name a field of it.                       *)
FolderOK(wf, refs) ==
  \A r \in ToSet(refs) : r.path = "" => r.node \notin OfTypes(wf, {"postgres"})

MakeS3(wf, opIds, n) ==
  IF n.main = << >> \/ n.main[1] \notin DOMAIN opIds THEN NotMade("upstream")
  ELSE IF ~KnownRefs(opIds, n.refs) THEN NotMade("unknown")
  ELSE IF ~FolderOK(wf, n.refs) THEN NotMade("path")
  ELSE Retrieval(n, "s3", FolderParams(wf, opIds, n.refs), {opIds[n.main[1]]})

(* _make_lake_retrieval_op: the same, from a node marked lakeRetrieval.    *)
MakeLake(wf, opIds, n) == MakeS3(wf, opIds, n)

MakeCode(wf, opIds, n) ==
  LET ins == ToSet(CodeInputs(wf, n))
      op == [Op(MakeId("lambda", n.name), "LambdaOp") EXCEPT !.inputs = IdsNamed(opIds, ins)]
  IN  IF ins = {} THEN NotMade("inputs")
      ELSE IF ~(ins \subseteq DOMAIN opIds) THEN NotMade("unknown")
      ELSE Made(<<op>>, op.id)

-----------------------------------------------------------------------------
(* _make_chain_ops.                                                        *)

(* _build_prompt_content: an empty prompt is the upstream op, references   *)
(* go through a FormatOp.                                                  *)
PromptContent(wf, opIds, n) ==
  LET upstream == MainUpstream(wf, n) \cap DOMAIN opIds
      format == [Op(MakeId("format", n.name), "FormatOp") EXCEPT
                   !.args = [i \in DOMAIN n.refs |-> opIds[n.refs[i].node]],
                   !.inputs = IdsNamed(opIds, RefNames(n.refs)), !.bare = n.bare]
  IN  IF n.refs = << >>
      THEN IF n.text = "" /\ n.table = << >> /\ upstream # {}
           THEN Made(<< >>, opIds[CHOOSE x \in upstream : TRUE])
           ELSE Made(<< >>, Text(n.text))
      ELSE IF KnownRefs(opIds, n.refs) THEN Made(<<format>>, format.id)
      ELSE NotMade("unknown")

ChainMessage(n, content) ==
  [Op(MakeId("message", n.name), "MessageOp") EXCEPT
     !.roles = <<"system", "user">>, !.args = <<Text("system"), content>>]

ChainOp(n, kind, prefix, message) ==
  [Op(MakeId(prefix, n.name), kind) EXCEPT
     !.inputs = {message}, !.args = <<message>>, !.history = n.history]

(* _resolve_model_config: exactly one model.                               *)
ModelOK(wf, n) == Len(n.models) = 1 /\ n.models[1] \in OfTypes(wf, {"model"})

(* _extract_rowwise_columns: references to nodes not built are left out.   *)
ColumnRefs(opIds, refs) == Keep(refs, {r \in ToSet(refs) : r.node \in DOMAIN opIds})
ColumnsOK(wf, opIds, refs) ==
  \A r \in ToSet(ColumnRefs(opIds, refs)) :
    /\ r.node \in OfTypes(wf, {"postgres"}) => r.path # ""
    /\ r.node \in OfTypes(wf, {"trigger"}) => r.node \in wf.inputs
Columns(wf, opIds, refs) ==
  LET known == ColumnRefs(opIds, refs)
  IN  [i \in DOMAIN known |->
         [node |-> IF known[i].node \in OfTypes(wf, {"trigger"}) THEN NoId
                   ELSE opIds[known[i].node],
          path |-> TRUE]]

MakeRowwise(wf, opIds, n) ==
  LET columns == Columns(wf, opIds, n.refs)
      message == ChainMessage(n, Text("row"))
      llm == [ChainOp(n, "LLMChatOp", "llm", message.id) EXCEPT
                !.rowwise = TRUE, !.columns = columns]
  IN  IF ~ColumnsOK(wf, opIds, n.refs) THEN NotMade("column")
      ELSE Made(<<message, llm>>, llm.id)

(* The system messages come before the prompt: it is neither empty nor a   *)
(* reference alone then.  A literal prompt becomes a DataOp, unless it     *)
(* begins like an op id.                                                   *)
AfterSystem(n) ==
  IF n.system THEN [name |-> n.name, main |-> n.main, refs |-> n.refs, table |-> n.table,
                    text |-> "system and text", bare |-> FALSE]
  ELSE n
MakeImageGeneration(wf, opIds, n) ==
  LET prompt == PromptContent(wf, opIds, AfterSystem(n))
      literal == prompt.id[1] = "text" /\ AfterSystem(n).text # "op-like"
      data == Op(MakeId("data", n.name), "DataOp")
      content == IF literal THEN data.id ELSE prompt.id
      image == [ChainOp(n, "ImageGenerationOp", "imagegen", content) EXCEPT !.history = FALSE]
  IN  IF prompt.err # "" THEN prompt
      ELSE Made(prompt.ops \o (IF literal THEN <<data>> ELSE << >>) \o <<image>>, image.id)

MakeImageUnderstanding(wf, opIds, n) ==
  LET columns == Columns(wf, opIds, n.refs)
      prompt == IF columns # << >> THEN Made(<< >>, Text("row")) ELSE PromptContent(wf, opIds, n)
      message == ChainMessage(n, prompt.id)
      vision == [ChainOp(n, "LLMVisionOp", "llmvision", message.id) EXCEPT
                   !.image = opIds[n.image], !.rowwise = (columns # << >>), !.columns = columns]
  IN  IF n.image \notin DOMAIN opIds THEN NotMade("image")
      ELSE IF ~ColumnsOK(wf, opIds, n.refs) THEN NotMade("column")
      ELSE IF prompt.err # "" THEN prompt
      ELSE Made(prompt.ops \o <<message, vision>>, vision.id)

(* Plain, or over the table of the references in the table block.          *)
MakeTextGeneration(wf, opIds, n) ==
  LET prompt == PromptContent(wf, opIds, n)
      message == ChainMessage(n, prompt.id)
      rows == IF n.opType = "text-generation" /\ n.mode = "aggregate" THEN ColumnRefs(opIds, n.table) ELSE << >>
      llm == [ChainOp(n, "LLMChatOp", "llm", message.id) EXCEPT
                !.fields = n.fields,
                !.table = [i \in DOMAIN rows |-> [node |-> opIds[rows[i].node], path |-> TRUE]]]
  IN  IF prompt.err # "" THEN prompt ELSE Made(prompt.ops \o <<message, llm>>, llm.id)

MakeChain(wf, opIds, n) ==
  IF ~ModelOK(wf, n) THEN NotMade("model")
  ELSE CASE n.opType = "text-generation" /\ n.mode = "rowwise" -> MakeRowwise(wf, opIds, n)
         [] n.opType = "image-generation" -> MakeImageGeneration(wf, opIds, n)
         [] n.opType = "image-understanding" -> MakeImageUnderstanding(wf, opIds, n)
         [] n.opType \in {"", "data-retrieval"} -> NotMade("op-type")
         [] OTHER -> MakeTextGeneration(wf, opIds, n)

MakeOps(wf, opIds, n) ==
  CASE n.type = "chain" -> MakeChain(wf, opIds, n)
    [] n.type = "postgres" -> MakePostgres(wf, opIds, n)
    [] n.type = "s3" /\ ~n.lake -> MakeS3(wf, opIds, n)
    [] n.type = "s3" /\ n.lake -> MakeLake(wf, opIds, n)
    [] n.type = "agent" -> MakeAgent(wf, opIds, n)
    [] n.type = "code" -> MakeCode(wf, opIds, n)

-----------------------------------------------------------------------------
(* add_op leaves out an op whose id is there already, so of two outputs    *)
(* with one name the first stays.                                          *)
AddOps(emitted, ops) ==
  LET fresh == {i \in DOMAIN ops : /\ ops[i].id \notin IdsOf(emitted)
                                   /\ \A j \in 1..(i - 1) : ops[j].id # ops[i].id}
      added == Keep([i \in DOMAIN ops |-> i], fresh)
  IN  emitted \o [i \in DOMAIN added |-> ops[added[i]]]

ChainOutputs(wf, opIds) ==
  LET outs == Keep(wf.nodes, {n \in ToSet(wf.nodes) : n.type = "chain" /\ n.output # ""})
  IN  [i \in DOMAIN outs |->
         [Op(MakeId("output", outs[i].output), "OutputOp") EXCEPT
            !.inputs = {opIds[outs[i].name]}, !.name = outs[i].output]]

=============================================================================
