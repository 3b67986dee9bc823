----------------------------- MODULE YamlParser -----------------------------
(***************************************************************************)
(* The YAML workflow parser: parser/yaml_parser.py.                        *)
(*                                                                         *)
(* A workflow is a record: inputs (the names of the submitted inputs), ops *)
(* (the entries, in the order of the document) and outputs (name and ref). *)
(* References are user-facing ids, strings; known maps them to op ids      *)
(* (user_id_to_internal), emitted is graph_ops, in insertion order.        *)
(* malformed stands for every field of the wrong type or a missing one.    *)
(***************************************************************************)
EXTENDS OpGraph, Deques

SupportedOps ==
  {"DataOp", "DataRetrievalOp", "MessageOp", "LLMChatOp", "LLMVisionOp",
   "ImageGenerationOp", "EmbeddingOp", "FormatOp", "LambdaOp"}

OpIdPrefix ==
  [DataOp |-> "data", DataRetrievalOp |-> "retrieval", MessageOp |-> "message",
   LLMChatOp |-> "llm", LLMVisionOp |-> "llmvision", ImageGenerationOp |-> "imagegen",
   EmbeddingOp |-> "embedding", FormatOp |-> "format", LambdaOp |-> "lambda"]

Emitted(ops) == [err |-> "", ops |-> ops]
Refused(why) == [err |-> why, ops |-> << >>]

-----------------------------------------------------------------------------
(* _compile_workflow before its loop: the entries are read, then every id  *)
(* is registered, so that a reference may precede what it names.           *)

EntriesOK(wf) ==
  /\ \A i \in DOMAIN wf.ops : ~wf.ops[i].malformed
  /\ \A i \in DOMAIN wf.outputs : ~wf.outputs[i].malformed

IdsOK(wf) ==
  \A i \in DOMAIN wf.ops :
    /\ wf.ops[i].id \notin ToSet(wf.inputs)
    /\ \A j \in DOMAIN wf.ops : wf.ops[i].id = wf.ops[j].id => i = j
    /\ wf.ops[i].op \in SupportedOps

EntryOf(wf, u) == wf.ops[CHOOSE i \in DOMAIN wf.ops : wf.ops[i].id = u]
EntryIds(wf) == {wf.ops[i].id : i \in DOMAIN wf.ops}

Register(wf) ==
  [u \in ToSet(wf.inputs) \cup EntryIds(wf) |->
     IF u \in ToSet(wf.inputs) THEN MakeId("input", u)
     ELSE MakeId(OpIdPrefix[EntryOf(wf, u).op], u)]

InputOps(wf) ==
  [i \in DOMAIN wf.inputs |->
     [Op(MakeId("input", wf.inputs[i]), "InputOp") EXCEPT !.name = wf.inputs[i]]]

-----------------------------------------------------------------------------
(* _build_op_dict and the _emit functions: the implicit ops, then the op.  *)

Resolve(known, u) == IF u \in DOMAIN known THEN known[u] ELSE Text(u)
ResolveAll(known, s) == [i \in DOMAIN s |-> Resolve(known, s[i])]
IsEmitted(emitted, id, kind) == id \in IdsOf(emitted) /\ OpWithId(emitted, id).kind = kind

EntryOp(e, known) ==
  [Op(known[e.id], e.op) EXCEPT !.inputs = {known[u] : u \in ToSet(e.inputs)}]

EmitDataOp(e, known) == Emitted(<<[EntryOp(e, known) EXCEPT !.inputs = {}]>>)

(* _resolve_data_spec: the nodes of the params must be known, but they do  *)
(* not become inputs.                                                      *)
ResolveDataSpec(e, known) ==
  [i \in DOMAIN e.params |->
     [e.params[i] EXCEPT !.node = IF @ = "" THEN NoId ELSE known[@]]]
EmitDataRetrievalOp(e, known) ==
  IF \E i \in DOMAIN e.params : e.params[i].node \notin DOMAIN known \cup {""}
  THEN Refused("unknown")
  ELSE Emitted(<<[EntryOp(e, known) EXCEPT !.params = ResolveDataSpec(e, known),
                                           !.mode = e.mode, !.sample = e.sample,
                                           !.readonly = e.readonly]>>)

(* A content that is an id is the op, in any role.                         *)
MessageOp(id, inputs, roles, contents) ==
  [Op(id, "MessageOp") EXCEPT !.inputs = inputs, !.roles = roles, !.args = contents]
EmitMessageOp(e, known) ==
  IF e.messages = << >> THEN Refused("malformed")
  ELSE Emitted(<<MessageOp(known[e.id], EntryOp(e, known).inputs,
                           [i \in DOMAIN e.messages |-> e.messages[i].role],
                           [i \in DOMAIN e.messages |-> Resolve(known, e.messages[i].content)])>>)

FormatOp(id, args, bare) ==
  [Op(id, "FormatOp") EXCEPT !.inputs = ToSet(args), !.args = args, !.bare = bare]
EmitFormatOp(e, known) ==
  Emitted(<<[EntryOp(e, known) EXCEPT !.args = ResolveAll(known, e.kwargs), !.bare = e.bare]>>)

EmitLambdaOp(e, known) == Emitted(<<EntryOp(e, known)>>)

(* _wrap_user_content_refs: the user messages that name an op share one    *)
(* implicit FormatOp, unless the op is a FormatOp that is emitted already. *)
WrappedAt(e, known, emitted) ==
  {i \in DOMAIN e.messages :
     /\ e.messages[i].role = "user"
     /\ e.messages[i].content \in DOMAIN known
     /\ ~IsEmitted(emitted, known[e.messages[i].content], "FormatOp")}

(* _build_inline_messages: the FormatOp it adds, if any, and the contents. *)
InlineFormat(e, known, emitted) ==
  LET wrapped == Keep([i \in DOMAIN e.messages |-> i], WrappedAt(e, known, emitted))
      refs == [i \in DOMAIN wrapped |-> known[e.messages[wrapped[i]].content]]
  IN  IF e.prompt THEN <<FormatOp(MakeId("format", e.id), ResolveAll(known, e.kwargs), e.bare)>>
      ELSE IF wrapped = << >> THEN << >>
      ELSE <<FormatOp(MakeId("format", e.id), refs, Len(refs) = 1)>>
InlineContents(e, known, emitted) ==
  [i \in DOMAIN e.messages |->
     IF IF e.prompt THEN e.messages[i].role = "user" ELSE i \in WrappedAt(e, known, emitted)
     THEN MakeId("format", e.id)
     ELSE Resolve(known, e.messages[i].content)]

TableOf(known, rows) ==
  [i \in DOMAIN rows |->
     [rows[i] EXCEPT !.node = IF @ = "" THEN NoId ELSE Resolve(known, @)]]

(* _emit_llm_like_op.                                                      *)
LLMOp(e, known, messages) ==
  LET table == TableOf(known, e.table)
      columns == TableOf(known, e.columns)
      nodes == {table[i].node : i \in DOMAIN table} \cup {columns[i].node : i \in DOMAIN columns}
  IN  [EntryOp(e, known) EXCEPT
         !.inputs = {messages} \cup (IF e.op = "LLMChatOp" THEN nodes \ {NoId} ELSE {}),
         !.args = <<messages>>, !.history = e.history, !.fields = e.fields,
         !.table = table, !.rowwise = e.rowwise, !.columns = columns]
EmitLLMLikeOpFormatLast(e, known, emitted) ==
  LET format == InlineFormat(e, known, emitted)
      message == MessageOp(MakeId("message", e.id), {},
                           [i \in DOMAIN e.messages |-> e.messages[i].role],
                           InlineContents(e, known, emitted))
  IN  IF e.messagesRef # "" THEN Emitted(<<LLMOp(e, known, Resolve(known, e.messagesRef))>>)
      ELSE Emitted(<<message>> \o format \o <<LLMOp(e, known, message.id)>>)
EmitLLMLikeOp(e, known, emitted) ==
  IF e.messagesRef # "" THEN
    IF e.messagesRef \notin DOMAIN known THEN Refused("unknown")
    ELSE IF ~IsEmitted(emitted, known[e.messagesRef], "MessageOp") THEN Refused("pending")
    ELSE Emitted(<<LLMOp(e, known, known[e.messagesRef])>>)
  ELSE IF e.messages = << >> THEN Refused("malformed")
  ELSE IF e.prompt /\ ~(ToSet(e.kwargs) \subseteq DOMAIN known) THEN Refused("unknown")
  ELSE LET format == InlineFormat(e, known, emitted)
           contents == InlineContents(e, known, emitted)
           upstream == {known[u] : u \in ToSet(e.inputs)} \cup IdsOf(format)
           message == MessageOp(MakeId("message", e.id), upstream \cap ToSet(contents),
                                [i \in DOMAIN e.messages |-> e.messages[i].role], contents)
       IN  Emitted(format \o <<message, LLMOp(e, known, message.id)>>)

EmitLLMVisionOp(e, known, emitted) ==
  LET chat == EmitLLMLikeOp(e, known, emitted)
  IN  IF e.image \notin DOMAIN known THEN Refused("unknown")
      ELSE [chat EXCEPT !.ops =
              [i \in DOMAIN @ |-> IF i = Len(@) THEN [@[i] EXCEPT !.image = known[e.image]]
                                  ELSE @[i]]]

(* A FormatOp that is emitted already is the content, anything else is     *)
(* wrapped.                                                                *)
EmitImageGenerationOp(e, known, emitted) ==
  LET image(content) == [EntryOp(e, known) EXCEPT !.inputs = {content}, !.args = <<content>>]
      format == FormatOp(MakeId("format", e.id), <<known[e.content]>>, TRUE)
  IN  IF e.content \notin DOMAIN known THEN Refused("unknown")
      ELSE IF IsEmitted(emitted, known[e.content], "FormatOp")
           THEN Emitted(<<image(known[e.content])>>)
           ELSE Emitted(<<format, image(format.id)>>)

EmitEmbeddingOp(e, known) ==
  IF e.content \notin DOMAIN known THEN Refused("unknown")
  ELSE Emitted(<<[EntryOp(e, known) EXCEPT !.inputs = {known[e.content]},
                                           !.args = <<known[e.content]>>]>>)

BuildOpDict(e, known, emitted) ==
  CASE e.op = "DataOp" -> EmitDataOp(e, known)
    [] e.op = "DataRetrievalOp" -> EmitDataRetrievalOp(e, known)
    [] e.op = "MessageOp" -> EmitMessageOp(e, known)
    [] e.op = "LLMChatOp" -> EmitLLMLikeOp(e, known, emitted)
    [] e.op = "LLMVisionOp" -> EmitLLMVisionOp(e, known, emitted)
    [] e.op = "ImageGenerationOp" -> EmitImageGenerationOp(e, known, emitted)
    [] e.op = "EmbeddingOp" -> EmitEmbeddingOp(e, known)
    [] e.op = "FormatOp" -> EmitFormatOp(e, known)
    [] e.op = "LambdaOp" -> EmitLambdaOp(e, known)

-----------------------------------------------------------------------------
(* The OutputOps.                                                          *)

OutputOp(name, source) ==
  [Op(MakeId("output", name), "OutputOp") EXCEPT !.inputs = {source}, !.name = name]

EmitOutputs(wf, known) ==
  LET outs == wf.outputs
  IN  IF \E i \in DOMAIN outs : outs[i].ref \notin DOMAIN known THEN Refused("unknown")
      ELSE IF \E i, j \in DOMAIN outs : i # j /\ outs[i].name = outs[j].name
           THEN Refused("duplicate")
      ELSE Emitted([i \in DOMAIN outs |-> OutputOp(outs[i].name, known[outs[i].ref])])

=============================================================================
