------------------------------ MODULE OpGraph ------------------------------
(***************************************************************************)
(* Serialized ops (what both parsers emit), Op.from_json and Graph:        *)
(* ops/*.py, graphs/graph.py.                                              *)
(*                                                                         *)
(* An op id is a pair <<prefix, name>> (make_id); a literal text in a      *)
(* place where an id may stand is <<"text", t>>.  One record shape serves  *)
(* every op class; the fields a class has not keep their defaults.         *)
(***************************************************************************)
EXTENDS Naturals, Sequences, SequencesExt

NoId == <<"none", "">>
Text(t) == <<"text", t>>
MakeId(prefix, name) == <<prefix, name>>

(* inputs: _inputs.  args, roles: the contents of a MessageOp with their   *)
(* roles; the arguments of a FormatOp; messages or content of an LLM op.   *)
(* bare: the template is "{ref0}".  params: label, node and path of the    *)
(* placeholders of a DataRetrievalOp, inlined when the values are given.   *)
(* sample: it has a sample_value.  readonly: its template is one SELECT.   *)
(* fields: the names of the structural_outputs.  name: of an InputOp or    *)
(* OutputOp.                                                               *)
Op(id, kind) ==
  [id |-> id, kind |-> kind, inputs |-> {}, args |-> << >>, roles |-> << >>,
   bare |-> FALSE, params |-> << >>, mode |-> "", sample |-> FALSE, readonly |-> TRUE,
   image |-> NoId, history |-> FALSE, fields |-> {}, table |-> << >>,
   rowwise |-> FALSE, columns |-> << >>, name |-> ""]

LLMKinds == {"LLMChatOp", "LLMVisionOp", "ImageGenerationOp", "EmbeddingOp"}
RuntimeKinds == LLMKinds \cup {"DataRetrievalOp"}

IdsOf(ops) == {ops[i].id : i \in DOMAIN ops}
OpWithId(ops, id) == ops[CHOOSE i \in DOMAIN ops : ops[i].id = id]

-----------------------------------------------------------------------------
(* Op._from_json.  loaded: the ids of the ops that stand before it in the  *)
(* serialized graph.                                                       *)

(* The lookups other_ops[...]: a missing id is a KeyError.                 *)
LookedUp(op) ==
  CASE op.kind \in LLMKinds \cup {"FormatOp"} -> ToSet(op.args)
    [] op.kind \in {"DataRetrievalOp", "LambdaOp", "OutputOp"} -> op.inputs
    [] OTHER -> {}

Linked(op, ids) == [op EXCEPT !.inputs = ids]

(* A content that names no op loaded so far is taken for text.             *)
MessageFromJson(op, loaded) ==
  [Linked(op, ToSet(op.args) \cap loaded) EXCEPT
     !.args = [i \in DOMAIN @ |-> IF @[i] \in loaded THEN @[i] ELSE Text(@[i][2])]]

(* Without the edge from an image source that is not loaded, and with      *)
(* neither structural outputs nor a table.                                 *)
LLMVisionFromJson(op, loaded) ==
  [Linked(op, ToSet(op.args) \cup ({op.image} \cap loaded)) EXCEPT
     !.fields = {}, !.table = << >>]

LLMChatFromJson(op) == Linked(op, ToSet(op.args))
ImageGenerationFromJson(op) == Linked(op, ToSet(op.args))
EmbeddingFromJson(op) == Linked(op, ToSet(op.args))
FormatFromJson(op) == Linked(op, ToSet(op.args))
LambdaFromJson(op) == op
DataRetrievalFromJson(op) == op
OutputFromJson(op) == op

FromJson(op, loaded) ==
  CASE op.kind = "MessageOp" -> MessageFromJson(op, loaded)
    [] op.kind = "LLMVisionOp" -> LLMVisionFromJson(op, loaded)
    [] op.kind = "LLMChatOp" -> LLMChatFromJson(op)
    [] op.kind = "ImageGenerationOp" -> ImageGenerationFromJson(op)
    [] op.kind = "EmbeddingOp" -> EmbeddingFromJson(op)
    [] op.kind = "FormatOp" -> FormatFromJson(op)
    [] op.kind = "LambdaOp" -> LambdaFromJson(op)
    [] op.kind = "DataRetrievalOp" -> DataRetrievalFromJson(op)
    [] op.kind = "OutputOp" -> OutputFromJson(op)
    [] op.kind \in {"InputOp", "DataOp"} -> op

-----------------------------------------------------------------------------
(* Graph.__init__ and Graph.compile.                                       *)

NamesUnique(ops, kind) ==
  \A i, j \in DOMAIN ops :
    ops[i].kind = kind /\ ops[j].kind = kind /\ ops[i].name = ops[j].name => i = j

(* Graph.topological_sort rebuilds the graph from the edges: an op without *)
(* one is not in it any more.                                              *)
GraphOf(ops) ==
  LET used == UNION {ops[i].inputs : i \in DOMAIN ops}
      kept == {i \in DOMAIN ops : ops[i].inputs # {} \/ ops[i].id \in used}
  IN  [x \in {ops[i].id : i \in kept} |-> OpWithId(ops, x)]

InputNames(ops) == {ops[i].name : i \in {j \in DOMAIN ops : ops[j].kind = "InputOp"}}

=============================================================================
