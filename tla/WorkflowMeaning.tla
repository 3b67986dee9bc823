-------------------------- MODULE WorkflowMeaning --------------------------
(***************************************************************************)
(* What a document says, read without the parsers: the parts it names, the *)
(* kind of each, which parts each one uses, the rules a document is held   *)
(* to (KeepsRules) and what the builder asks beyond them (Buildable).  The *)
(* intake is checked against this.                                         *)
(***************************************************************************)
EXTENDS OpGraph, FiniteSets

VARIABLES
  format,      \* which parser was asked
  wf           \* the document

Y == INSTANCE YamlParser
N == INSTANCE N8nParser

IsYaml == format = "yaml"
Built == IF IsYaml THEN Y!EntryIds(wf) ELSE N!OfTypes(wf, N!BuiltTypes)
InputParts == IF IsYaml THEN ToSet(wf.inputs) ELSE N!OfTypes(wf, {"trigger"})
Parts == Built \cup InputParts
Part(u) == IF IsYaml THEN Y!EntryOf(wf, u) ELSE N!NodeNamed(wf, u)

ChainKind(n) ==
  IF n.opType = "image-generation" THEN "ImageGenerationOp"
  ELSE IF n.opType = "image-understanding" THEN "LLMVisionOp" ELSE "LLMChatOp"
KindOf(u) ==
  IF u \in InputParts THEN "InputOp"
  ELSE IF IsYaml THEN Part(u).op
  ELSE IF Part(u).type = "chain" THEN ChainKind(Part(u))
  ELSE IF Part(u).type = "code" THEN "LambdaOp" ELSE "DataRetrievalOp"
Runs(u) == KindOf(u) \in RuntimeKinds

-----------------------------------------------------------------------------
(* The parts a part uses, by what it uses them for.                        *)

(* In the text of a prompt.                                                *)
Prompts == {"LLMChatOp", "LLMVisionOp"}
Contents(messages) == {messages[i].content : i \in DOMAIN messages}
OtherContents(messages) ==
  {messages[i].content : i \in {j \in DOMAIN messages : messages[j].role # "user"}}
YamlPromptUses(e) ==
  IF e.op \in Prompts /\ e.messagesRef # "" THEN {e.messagesRef}
  ELSE IF e.op = "FormatOp" THEN ToSet(e.kwargs)
  ELSE IF e.op \in Prompts /\ e.prompt
       THEN ToSet(e.kwargs) \cup (OtherContents(e.messages) \cap Parts)
  ELSE Contents(e.messages) \cap Parts
(* An n8n prompt with references may stand for one prompt a row.           *)
RowByRow(n) == n.mode = "rowwise" \/ (n.opType = "image-understanding" /\ n.refs # << >>)
N8nPromptUses(n) ==
  IF n.type # "chain" \/ RowByRow(n) THEN {}
  ELSE IF n.refs # << >> THEN N!RefNames(n.refs)
  ELSE IF n.text = "" /\ n.table = << >> /\ ~(n.opType = "image-generation" /\ n.system)
       THEN N!MainUpstream(wf, n) ELSE {}
PromptUses(u) == IF IsYaml THEN YamlPromptUses(Part(u)) ELSE N8nPromptUses(Part(u))

(* As the values of a placeholder of a query: the places that name a part, *)
(* with the field they take of it.                                         *)
References(u) ==
  LET e == Part(u)
  IN  IF KindOf(u) # "DataRetrievalOp" THEN {}
      ELSE IF IsYaml THEN ToSet(e.params)
      ELSE IF e.type = "postgres" /\ ~e.execute THEN ToSet(e.filters) \cup ToSet(e.limit)
      ELSE ToSet(e.refs)
ParamUses(u) == {r.node : r \in References(u)} \ {""}

(* As a column of a table, whole (content of an image or embedding), as    *)
(* the image, or as an argument of code.                                   *)
ColumnUses(u) ==
  LET e == Part(u)
  IN  IF IsYaml THEN {c.node : c \in ToSet(e.columns) \cup ToSet(e.table)} \ {""}
      ELSE IF e.type = "chain" /\ RowByRow(e) THEN N!RefNames(e.refs)
      ELSE N!RefNames(e.table)
WholeUses(u) == IF IsYaml THEN {Part(u).content} \ {""} ELSE {}
ImageUses(u) == {Part(u).image} \ {""}
CodeUses(u) ==
  IF KindOf(u) # "LambdaOp" THEN {}
  ELSE IF IsYaml THEN ToSet(Part(u).inputs) ELSE ToSet(N!CodeInputs(wf, Part(u)))

Uses(u) ==
  IF u \in InputParts THEN {}
  ELSE PromptUses(u) \cup ParamUses(u) \cup ColumnUses(u) \cup WholeUses(u)
       \cup ImageUses(u) \cup CodeUses(u)

(* The parts that run and whose results reach u, directly or through       *)
(* formats, messages and code.                                             *)
Sources ==
  LET source[u \in Parts] ==
        UNION {IF Runs(v) THEN {v} ELSE source[v] : v \in Uses(u)}
  IN  source

Declared(u) ==
  IF u \in InputParts THEN {}
  ELSE IF IsYaml THEN ToSet(Part(u).inputs)
  ELSE N!ResolveDependencies(wf, Part(u))

(* No part needs itself: of any parts to build, one needs none of them.    *)
Acyclic == \A P \in SUBSET Built : P # {} => \E u \in P : Declared(u) \cap P = {}

-----------------------------------------------------------------------------
(* The rules the parsers and Graph hold a document to.                     *)

PromptFits(u) ==
  LET e == Part(u)
  IN  IsYaml =>
        IF e.op \in Prompts /\ e.messagesRef # "" THEN KindOf(e.messagesRef) = "MessageOp"
        ELSE e.op \in Prompts \cup {"MessageOp"} => e.messages # << >>

ChainFits(n) ==
  /\ N!ModelOK(wf, n) /\ n.opType \notin {"", "data-retrieval"}
  /\ n.mode = "rowwise" => n.opType = "text-generation" /\ n.refs # << >>
  /\ RowByRow(n) => \A r \in ToSet(n.refs) :
       r.path # "" \/ r.node \notin N!OfTypes(wf, {"postgres"})
  /\ n.mode \notin {"rowwise", "aggregate"} =>
       N!RefNames(n.refs) \cap N!OfTypes(wf, N!DataSources) = {}
  /\ n.opType = "image-generation" => n.text # "op-like"
NodeFits(u) ==
  /\ Part(u).type = "chain" => ChainFits(Part(u))
  /\ Part(u).type = "postgres" => \A r \in ToSet(Part(u).limit) : r.path # ""
  /\ Part(u).type = "s3" => Part(u).main # << >> /\ N!FolderOK(wf, Part(u).refs)
  /\ Part(u).type = "code" => CodeUses(u) # {}

PartFits(u) ==
  /\ PromptFits(u)
  /\ KindOf(u) = "LLMVisionOp" => ImageUses(u) # {}
  /\ IsYaml /\ KindOf(u) \in {"ImageGenerationOp", "EmbeddingOp"} => WholeUses(u) # {}
  /\ ~IsYaml => NodeFits(u)

OutputsFit ==
  LET outs == wf.outputs
      served(n) == n.type = "chain" /\ n.output # ""
  IN  IF IsYaml
      THEN /\ \A i \in DOMAIN outs : outs[i].ref \in Parts
           /\ \A i, j \in DOMAIN outs : outs[i].name = outs[j].name => i = j
      ELSE \A m, n \in ToSet(wf.nodes) :
             served(m) /\ served(n) /\ m.output = n.output => m.name = n.name

WellFormed ==
  IF IsYaml THEN Y!EntriesOK(wf) /\ Y!IdsOK(wf)
  ELSE N!NodesOK(wf) /\ N!InputsOK(wf) /\ wf.inputs = N!OfTypes(wf, {"trigger"})

Closed ==
  \A u \in Built : /\ Uses(u) \cup Declared(u) \subseteq Parts
                   /\ IsYaml => Uses(u) \subseteq Declared(u)

KeepsRules ==
  /\ WellFormed /\ Closed /\ Acyclic /\ OutputsFit
  /\ \A u \in Built : PartFits(u)

-----------------------------------------------------------------------------
(* What RuntimeGraphBuilder asks on top of the rules, or builds wrongly    *)
(* without saying so.  The parsers do not look for any of it.  Three of    *)
(* these limits go against what the repository shows: DrillsInput against  *)
(* the example in the docstring of the YAML parser (node: query, path:     *)
(* data), MessagesBuilt against its "the parser recognises that the string *)
(* resolves to another op", which holds in user messages only, and         *)
(* ImagePromptBuilt against both parsers, which take any prompt.           *)

(* The values of an input are written in, all of them.  (The parser does   *)
(* that itself for an S3 key of n8n, whatever the path.)                   *)
DrillsInput(u) ==
  \E r \in References(u) :
    r.node \in InputParts /\ r.path # "" /\ ~(~IsYaml /\ Part(u).type = "s3")
ParamsBuilt(u) ==
  ~DrillsInput(u) /\ \A v \in ParamUses(u) : Runs(v) \/ v \in InputParts

(* One text, that of a prompt: not a history, not a list of messages.      *)
OneText(v) ==
  /\ KindOf(v) # "MessageOp"
  /\ KindOf(v) \in LLMKinds => ~Part(v).history
(* The parts whose answer a message is, without a format around it: a      *)
(* message cannot be the answer of an LLM.                                 *)
HeldWhole(u) ==
  LET e == Part(u)
  IN  IF ~IsYaml THEN IF e.refs = << >> THEN PromptUses(u) ELSE {}
      ELSE IF e.op = "FormatOp" THEN {}
      ELSE (IF e.op = "MessageOp" THEN Contents(e.messages) ELSE OtherContents(e.messages))
             \cap PromptUses(u)
MessagesBuilt(u) ==
  LET e == Part(u)
  IN  IF KindOf(u) = "ImageGenerationOp" \/ (IsYaml /\ e.op \in Prompts /\ e.messagesRef # "")
      THEN TRUE
      ELSE /\ \A v \in PromptUses(u) : OneText(v)
           /\ \A v \in HeldWhole(u) : KindOf(v) \notin LLMKinds
           /\ IsYaml /\ (e.op = "FormatOp" \/ (e.op \in Prompts /\ e.prompt)) => e.kwargs # << >>

(* The prompt of an image comes from one node of the runtime graph, as it  *)
(* is.  Over an input, a DataOp or a text of its own the graph has an      *)
(* orphan, over a template of several parts the node reads the FormatOp,   *)
(* which is no node.                                                       *)
PromptNode(v) ==
  \/ Runs(v)
  \/ KindOf(v) = "FormatOp" /\ Part(v).bare /\ \E w \in Parts : Runs(w) /\ Uses(v) = {w}
ImagePromptBuilt(u) ==
  LET e == Part(u)
  IN  IF IsYaml THEN \A v \in WholeUses(u) : PromptNode(v)
      ELSE /\ ~e.system /\ (e.refs # << >> => e.bare)
           /\ \E v \in Parts : Runs(v) /\ PromptUses(u) = {v}

ColumnsBuilt(u) ==
  LET e == Part(u)
  IN  /\ \A v \in ColumnUses(u) : Runs(v) \/ (~IsYaml /\ v \in wf.inputs)
      /\ IsYaml => \A c \in ToSet(e.columns) \cup ToSet(e.table) : c.path \/ c.node = ""
      /\ IsYaml /\ e.rowwise => e.columns # << >> /\ PromptUses(u) = {}

PartBuilt(u) ==
  /\ ParamsBuilt(u) /\ MessagesBuilt(u) /\ ColumnsBuilt(u)
  /\ \A v \in ImageUses(u) : KindOf(v) \in {"InputOp", "ImageGenerationOp", "DataRetrievalOp"}
  /\ KindOf(u) = "ImageGenerationOp" => ImagePromptBuilt(u)
  /\ KindOf(u) = "EmbeddingOp" =>
       \A v \in WholeUses(u) : Runs(v) \/ KindOf(v) \in {"InputOp", "DataOp"}

(* Formats, messages and code serve some prompt in the end.                *)
Prompting ==
  LET grown(S) == S \cup UNION {Uses(v) : v \in {w \in S : ~Runs(w)}}
      first == UNION {PromptUses(v) \cup WholeUses(v) : v \in {w \in Built : Runs(w)}}
  IN  FoldLeft(LAMBDA S, i : grown(S), first, [i \in 1..Cardinality(Parts) |-> i])

(* An output is the result of a part that runs, and of two outputs of one  *)
(* part one is lost.                                                       *)
OutputsBuilt ==
  IsYaml => /\ \A i \in DOMAIN wf.outputs : Runs(wf.outputs[i].ref)
            /\ \A i, j \in DOMAIN wf.outputs : wf.outputs[i].ref = wf.outputs[j].ref => i = j

Buildable ==
  /\ OutputsBuilt
  /\ \A u \in Built : PartBuilt(u)
  /\ \E u \in Built : Runs(u)
  /\ \A u \in Built : ~Runs(u) /\ KindOf(u) # "DataOp" => u \in Prompting

Supported == KeepsRules /\ Buildable

(* The places of a query that name a part have labels of their own.  A     *)
(* YAML document gives the labels; those of a select are made from the     *)
(* columns and may meet, and the second place is then bound to what the    *)
(* first one names.                                                        *)
LabelsApart(u) ==
  LET e == Part(u)
  IN  IF IsYaml
      THEN \A i, j \in DOMAIN e.params : e.params[i].label = e.params[j].label => i = j
      ELSE e.type = "postgres" /\ ~e.execute =>
             LET named == N!Comparisons(e)
             IN  \A i, j \in DOMAIN named :
                   N!FilterLabel(named[i]) = N!FilterLabel(named[j]) => i = j

=============================================================================
