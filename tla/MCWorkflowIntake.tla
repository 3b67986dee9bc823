------------------------- MODULE MCWorkflowIntake -------------------------
(***************************************************************************)
(* Documents for WorkflowIntake: each shape in every order of its entries, *)
(* so that references point forwards and backwards.                        *)
(***************************************************************************)
EXTENDS WorkflowIntake

Entry(id, op, inputs) ==
  [id |-> id, op |-> op, inputs |-> inputs, malformed |-> FALSE, params |-> << >>,
   mode |-> "sql", sample |-> FALSE, readonly |-> TRUE, messages |-> << >>, messagesRef |-> "",
   prompt |-> FALSE, kwargs |-> << >>, bare |-> FALSE, history |-> FALSE, fields |-> {},
   table |-> << >>, rowwise |-> FALSE, columns |-> << >>, image |-> "", content |-> ""]
User(c) == [role |-> "user", content |-> c]
System(c) == [role |-> "system", content |-> c]
Fill(label, node, path) == [label |-> label, node |-> node, path |-> path]
Column(node) == [node |-> node, path |-> TRUE]

Chat(id, inputs, messages) == [Entry(id, "LLMChatOp", inputs) EXCEPT !.messages = messages]
Query(id, inputs, params) == [Entry(id, "DataRetrievalOp", inputs) EXCEPT !.params = params]
Format(id, args) == [Entry(id, "FormatOp", args) EXCEPT !.kwargs = args]
Out(ref) == [name |-> "out_" \o ref, ref |-> ref, malformed |-> FALSE]

(* The documents with these entries, in every order.                       *)
Docs(inputs, entries, outputs) ==
  {[inputs |-> inputs, ops |-> s, outputs |-> outputs] : s \in SetToSeqs(entries)}

(* A query, its answer in a prompt, the answer of that in the next one.    *)
Chained ==
  Docs(<<"q">>, {Query("r", <<"q">>, <<Fill("a", "q", "")>>),
                 Chat("a", <<"r", "q">>, <<System("sys"), User("r"), User("q")>>),
                 Chat("b", <<"a">>, <<User("a")>>)},
       <<Out("b"), Out("r")>>)

(* A message with a format in it, used by two LLM ops.                     *)
Shared ==
  Docs(<<"q">>, {Query("r", <<"q">>, <<Fill("a", "q", "")>>),
                 Format("f", <<"q", "r">>),
                 [Entry("m", "MessageOp", <<"d", "f">>) EXCEPT
                    !.messages = <<System("d"), User("f")>>],
                 Entry("d", "DataOp", << >>),
                 [Entry("a", "LLMChatOp", <<"m">>) EXCEPT !.messagesRef = "m"]},
       <<Out("a")>>)

(* An inline prompt over a format, an op and an input.                     *)
Inline ==
  Docs(<<"q">>, {Chat("a", <<"q">>, <<User("q")>>),
                 Format("f", <<"a", "q">>),
                 Chat("b", <<"f", "a">>, <<User("f"), User("a")>>),
                 [Chat("c", <<"b", "q">>, <<System("q"), User("text")>>) EXCEPT
                    !.prompt = TRUE, !.kwargs = <<"b">>, !.bare = TRUE]},
       <<Out("b"), Out("c")>>)

(* Queries that feed each other, row by row and aggregated LLM ops.        *)
Queries4 ==
  Docs(<<"q">>, {[Query("r", <<"q">>, <<Fill("a", "q", "")>>) EXCEPT !.sample = TRUE],
                 Query("s", <<"r">>, <<Fill("a", "r", "x")>>),
                 Query("t", <<"r", "s">>, <<Fill("a", "r", "x"), Fill("b", "s", "y")>>),
                 [Chat("a", <<"t">>, <<User("row")>>) EXCEPT
                    !.rowwise = TRUE, !.columns = <<Column("t"), Column("")>>],
                 [Chat("b", <<"s">>, <<User("all")>>) EXCEPT !.table = <<Column("s")>>]},
       <<Out("a"), Out("b")>>)

(* A typed answer in a query; code over an answer and a query.             *)
Typed ==
  Docs(<<"q">>, {[Chat("a", <<"q">>, <<User("q")>>) EXCEPT !.fields = {"x"}],
                 Query("r", <<"a">>, <<Fill("a", "a", "")>>),
                 Entry("k", "LambdaOp", <<"a", "r">>),
                 Chat("b", <<"k">>, <<User("k")>>)},
       <<Out("b")>>)

(* Images: given, generated, understood; embeddings.  Prompts of images    *)
(* that the builder takes (a format of one part), refuses (an input) or    *)
(* has the node read from a format (of two parts).                         *)
Images ==
  Docs(<<"q", "p">>, {Chat("a", <<"q">>, <<User("q")>>),
                 [Entry("g", "ImageGenerationOp", <<"a">>) EXCEPT !.content = "a"],
                 [Entry("v", "LLMVisionOp", <<"g", "a">>) EXCEPT
                    !.messages = <<User("a")>>, !.image = "g"],
                 [Entry("w", "LLMVisionOp", <<"p">>) EXCEPT
                    !.messages = <<User("what")>>, !.image = "p"],
                 [Entry("e", "EmbeddingOp", <<"a">>) EXCEPT !.content = "a"]},
       <<Out("v"), Out("e")>>)
ImagePrompts ==
  LET image(content) == [Entry("g", "ImageGenerationOp", <<content>>) EXCEPT !.content = content]
      a == Chat("a", <<"q">>, <<User("q")>>)
  IN  Docs(<<"q">>, {image("q")}, <<Out("g")>>)
      \cup Docs(<<"q">>, {a, [Format("f", <<"a">>) EXCEPT !.bare = TRUE], image("f")}, <<Out("g")>>)
      \cup Docs(<<"q">>, {a, Format("f", <<"a", "q">>), image("f")}, <<Out("g")>>)

(* Documents that must be refused, or that leave the rules; the query of   *)
(* the docstring of the parser, which takes the field "data" of an input;  *)
(* a system message that is an answer; a label used twice; a format that   *)
(* serves nothing.                                                         *)
Refusals ==
  Docs(<<"q">>, {Chat("a", <<"b">>, <<User("b")>>), Chat("b", <<"a">>, <<User("a")>>),
                 Chat("c", <<"q">>, <<User("q")>>)}, <<Out("a")>>)
  \cup Docs(<<"q">>, {Chat("a", <<"z">>, <<User("z")>>)}, <<Out("a")>>)
  \cup Docs(<<"q">>, {Chat("q", << >>, <<User("q")>>)}, << >>)
  \cup Docs(<<"q">>, {Chat("a", <<"q">>, <<User("q")>>)}, <<Out("z")>>)
  \cup Docs(<<"q">>, {Query("r", << >>, <<Fill("a", "z", "")>>)}, <<Out("r")>>)
  \cup Docs(<<"q">>, {Query("r", <<"q">>, <<Fill("entity", "q", "data")>>),
                      Chat("a", <<"r">>, <<System("sys"), User("r")>>)}, <<Out("a")>>)
  \cup Docs(<<"q">>, {Chat("a", <<"q">>, <<User("q")>>),
                      Chat("b", <<"a">>, <<System("a"), User("text")>>)}, <<Out("b")>>)
  \cup Docs(<<"q">>, {Chat("a", <<"q">>, <<User("q")>>),
                      Query("r", <<"q", "a">>, <<Fill("a", "q", ""), Fill("a", "a", "")>>)},
            <<Out("r")>>)
  \cup Docs(<<"q">>, {[Chat("a", <<"q">>, <<User("q")>>) EXCEPT !.history = TRUE],
                      Chat("b", <<"a">>, <<User("a")>>)}, <<Out("b")>>)
  \cup Docs(<<"q">>, {Format("f", <<"q">>), Chat("a", <<"q">>, <<User("f")>>)}, <<Out("a")>>)
  \cup Docs(<<"q">>, {Format("f", <<"q">>), Chat("a", <<"q">>, <<User("q")>>)}, <<Out("a")>>)
  \cup Docs(<<"q">>, {[Format("f", <<"b">>) EXCEPT !.inputs = << >>],
                      Chat("a", <<"f">>, <<User("f")>>),
                      Chat("b", <<"q">>, <<User("q")>>)}, <<Out("a")>>)

MCYamlFlows ==
  Chained \cup Shared \cup Inline \cup Queries4 \cup Typed \cup Images \cup ImagePrompts
  \cup Refusals

-----------------------------------------------------------------------------
NodeOf(name, type, main) ==
  [name |-> name, type |-> type, malformed |-> FALSE, folded |-> {}, main |-> main,
   models |-> << >>, refs |-> << >>, table |-> << >>, filters |-> << >>, limit |-> << >>,
   inputs |-> << >>, execute |-> FALSE, opType |-> "", mode |-> "", image |-> "",
   text |-> "text", system |-> FALSE, bare |-> FALSE, history |-> FALSE, fields |-> {}, output |-> "", lake |-> FALSE]
Ref(node, path) == [node |-> node, path |-> path]
Filter(column, op, node, path) == [column |-> column, op |-> op, node |-> node, path |-> path]
Trigger(name) == NodeOf(name, "trigger", << >>)
Model == NodeOf("model", "model", << >>)
Prompt(name, main, refs) ==
  [NodeOf(name, "chain", main) EXCEPT
     !.models = <<"model">>, !.refs = refs, !.opType = "text-generation"]
Served(n) == [n EXCEPT !.output = n.name]
Rowwise(n) == [n EXCEPT !.mode = "rowwise"]
Select(name, main, filters) == [NodeOf(name, "postgres", main) EXCEPT !.filters = filters]
Execute(name, main, refs) ==
  [NodeOf(name, "postgres", main) EXCEPT !.execute = TRUE, !.refs = refs]
Export(nodes) ==
  [nodes |-> <<Trigger("q"), Model>> \o nodes, inputs |-> {"q"}]

MCN8nFlows ==
  {(* Prompts and code. *)
   Export(<<Served(Prompt("c", <<"k">>, <<Ref("k", "")>>)),
            Prompt("a", <<"q">>, <<Ref("q", "")>>),
            [NodeOf("k", "code", <<"a", "b">>) EXCEPT !.inputs = <<"a", "b">>],
            Prompt("b", <<"a">>, <<Ref("a", ""), Ref("q", "")>>)>>),
   (* A query whose answer is gone through row by row. *)
   Export(<<Served(Rowwise(Prompt("c", <<"p">>, <<Ref("p", "x"), Ref("q", "")>>))),
            Select("p", <<"a">>, <<Filter(<<"col">>, ">=", "a", "lo"),
                                   Filter(<<"col">>, "<=", "a", "hi"),
                                   Filter(<<"t", ".", "col">>, "=", "q", "")>>),
            [Prompt("a", <<"q">>, <<Ref("q", "")>>) EXCEPT !.fields = {"lo", "hi"}]>>),
   (* One node named twice in a query; an agent; an aggregate. *)
   Export(<<Served([Prompt("c", <<"p">>, <<Ref("h", "")>>) EXCEPT
                      !.mode = "aggregate", !.table = <<Ref("p", "x")>>]),
            Execute("p", <<"h">>, <<Ref("h", "x"), Ref("h", "y"), Ref("q", "")>>),
            [NodeOf("h", "agent", <<"q">>) EXCEPT !.refs = <<Ref("q", "")>>]>>),
   (* Files named by a query, an image of them understood. *)
   Export(<<Execute("p", <<"q">>, <<Ref("q", "")>>),
            [NodeOf("s", "s3", <<"p">>) EXCEPT !.refs = <<Ref("p", "key"), Ref("q", "key")>>],
            [NodeOf("l", "s3", <<"s">>) EXCEPT !.refs = <<Ref("s", ""), Ref("p", "key")>>,
                                               !.lake = TRUE],
            Served([Prompt("v", <<"l">>, << >>) EXCEPT
                      !.opType = "image-understanding", !.image = "l"])>>),
   (* An image of an answer; a limit; an empty prompt. *)
   Export(<<[Prompt("a", <<"q">>, << >>) EXCEPT !.text = "", !.fields = {"n"}],
            Served([Prompt("g", <<"a">>, <<Ref("a", "")>>) EXCEPT
                      !.opType = "image-generation", !.bare = TRUE]),
            [Select("p", <<"q">>, << >>) EXCEPT !.limit = <<Ref("a", "n")>>]>>),
   (* Two filters whose labels meet, price > and priceMin =, by two nodes. *)
   Export(<<Prompt("a", <<"q">>, <<Ref("q", "")>>), Prompt("b", <<"q">>, <<Ref("q", "")>>),
            Select("p", <<"q">>, <<Filter(<<"price">>, ">", "a", "lo"),
                                   Filter(<<"price", "Min">>, "=", "b", "hi")>>)>>),
   (* An image of an answer after system messages; one of a text; an empty *)
   (* prompt of an image.                                                  *)
   Export(<<Prompt("a", <<"q">>, <<Ref("q", "")>>),
            [Prompt("g", <<"a">>, <<Ref("a", "")>>) EXCEPT
               !.opType = "image-generation", !.bare = TRUE, !.system = TRUE]>>),
   Export(<<Served([Prompt("g", <<"q">>, << >>) EXCEPT !.opType = "image-generation"])>>),
   Export(<<Prompt("a", <<"q">>, <<Ref("q", "")>>),
            Served([Prompt("g", <<"a">>, << >>) EXCEPT
                      !.opType = "image-generation", !.text = ""])>>),
   (* The image of an answer, judged row by row. *)
   Export(<<Prompt("a", <<"q">>, <<Ref("q", "")>>),
            [Prompt("g", <<"a">>, <<Ref("a", "")>>) EXCEPT
               !.opType = "image-generation", !.bare = TRUE],
            Served([Prompt("v", <<"g">>, <<Ref("q", ""), Ref("a", "")>>) EXCEPT
                      !.opType = "image-understanding", !.image = "g"])>>),
   (* Refused: a cycle, a name no node has, a missing model. *)
   Export(<<Prompt("a", <<"q">>, <<Ref("b", "")>>), Prompt("b", <<"a">>, <<Ref("a", "")>>)>>),
   Export(<<Prompt("a", <<"q">>, <<Ref("z", "")>>), Served(Prompt("b", <<"q">>, << >>))>>),
   Export(<<[Prompt("a", <<"q">>, <<Ref("q", "")>>) EXCEPT !.models = << >>]>>),
   [nodes |-> <<Trigger("q"), Model>>, inputs |-> {}],
   (* A trigger that differs from its input in case; an input too many. *)
   [nodes |-> <<[Trigger("Q") EXCEPT !.folded = {"q"}], Model,
                Served(Prompt("a", <<"Q">>, <<Ref("Q", "")>>))>>, inputs |-> {"q"}],
   [nodes |-> <<Trigger("q"), Model, Served(Prompt("a", <<"q">>, <<Ref("q", "")>>))>>,
    inputs |-> {"q", "z"}]}

(* A prompt that names a query which is no main upstream of another.       *)
MCDataInPrompt ==
  {Export(<<Served(Prompt("a", <<"p">>, <<Ref("p", "x")>>)),
            Execute("p", <<"q">>, <<Ref("q", "")>>)>>)}

=============================================================================
