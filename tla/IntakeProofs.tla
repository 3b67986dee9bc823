---------------------------- MODULE IntakeProofs ----------------------------
(***************************************************************************)
(* Theorems about the intake, for every set of documents and any number of *)
(* graphs in a batch: what "unresolved" means, that nodes wait for what    *)
(* they read, that merging keeps the graphs of a batch apart, and that     *)
(* neither the parsers nor Graph refuse a document that keeps the rules.   *)
(*                                                                         *)
(* The last two theorems rest on the order of what is emitted: a visit     *)
(* that need not wait emits ops that need no op but each other, in order,  *)
(* and the ops of earlier visits.  That is shown for each kind of entry    *)
(* and of node, and then for a visit, a parse and a load.                  *)
(***************************************************************************)
EXTENDS WorkflowIntake, CollectionProofs

(* The names the entry or node called u waits for.                         *)
Needs(u) == IF IsYaml THEN ToSet(Y!EntryOf(wf, u).inputs)
            ELSE N!ResolveDependencies(wf, N!NodeNamed(wf, u))

(* A cycle, or a name that no part has: the second half of                 *)
(* RefusalsJustified.                                                      *)
Unresolvable == ~Acyclic \/ \E u \in Built : ~(Declared(u) \subseteq Parts)
UnresolvedMeansCycle == err = "unresolved" => Unresolvable

(* What is parsed is one of the documents.                                 *)
Document ==
  \/ format = "yaml" /\ wf \in YamlFlows
  \/ format = "n8n" /\ wf \in N8nFlows

(* The checks the parser makes before its loop.                            *)
Checked == IF IsYaml THEN Y!EntriesOK(wf) /\ Y!IdsOK(wf)
           ELSE N!NodesOK(wf) /\ N!InputsOK(wf)

(* In the loop of a parser: a pass visits every pending name once, and as  *)
(* long as it makes no progress those it has visited have to wait.         *)
PassInv ==
  phase = "pass" =>
    /\ Checked
    /\ pending \subseteq Built
    /\ todo \in Seq(pending) /\ IsInjective(todo)
    /\ ~IsYaml => DOMAIN ids = InputParts \cup (Built \ pending)
    /\ ~progress => \A u \in pending \ Range(todo) : MustWait(u)

(* The invariant of the loop.                                              *)
LoopInv ==
  /\ Document
  /\ progress \in BOOLEAN
  /\ phase = "start" => todo = << >> /\ progress
  /\ phase # "refused" => err = ""
  /\ PassInv
  /\ UnresolvedMeansCycle
-----------------------------------------------------------------------------
(* The document is not changed, nor is what it means.                      *)
LEMMA MeaningSame ==
  ASSUME UNCHANGED <<format, wf>>
  PROVE  /\ Built' = Built /\ Parts' = Parts /\ Acyclic' = Acyclic
         /\ \A u : Declared(u)' = Declared(u)
         /\ KeepsRules' = KeepsRules
<1>1. /\ IsYaml' = IsYaml /\ Built' = Built /\ InputParts' = InputParts
      /\ Parts' = Parts /\ WellFormed' = WellFormed
  BY DEF IsYaml, Built, InputParts, Parts, WellFormed
<1>2. \A u : Part(u)' = Part(u)
  BY <1>1 DEF Part
<1>3. \A u : KindOf(u)' = KindOf(u)
  BY <1>1, <1>2 DEF KindOf, ChainKind
<1>4. \A u : Runs(u)' = Runs(u)
  BY <1>3 DEF Runs
<1>5. \A u : PromptUses(u)' = PromptUses(u)
  <2>1. \A e : YamlPromptUses(e)' = YamlPromptUses(e)
    BY <1>1 DEF YamlPromptUses, Prompts, Contents, OtherContents
  <2>2. \A n : N8nPromptUses(n)' = N8nPromptUses(n)
    BY DEF N8nPromptUses, RowByRow
  <2> QED BY <1>1, <1>2, <2>1, <2>2 DEF PromptUses
<1>6. \A u : ParamUses(u)' = ParamUses(u)
  BY <1>1, <1>2, <1>3 DEF ParamUses, References
<1>7. \A u : /\ ColumnUses(u)' = ColumnUses(u) /\ WholeUses(u)' = WholeUses(u)
             /\ ImageUses(u)' = ImageUses(u)
  BY <1>1, <1>2, <1>3 DEF ColumnUses, WholeUses, ImageUses, RowByRow
<1>8. \A u : CodeUses(u)' = CodeUses(u) /\ Declared(u)' = Declared(u)
  BY <1>1, <1>2, <1>3 DEF CodeUses, Declared
<1>9. \A u : Uses(u)' = Uses(u)
  BY <1>1, <1>5, <1>6, <1>7, <1>8 DEF Uses
<1>10. Closed' = Closed
  BY <1>1, <1>8, <1>9 DEF Closed
<1>11. Acyclic' = Acyclic
  BY <1>1, <1>8 DEF Acyclic
<1>12. OutputsFit' = OutputsFit
  BY <1>1, <1>4 DEF OutputsFit
<1>13. \A u : PromptFits(u)' = PromptFits(u)
  BY <1>1, <1>2, <1>3 DEF PromptFits, Prompts
<1>14. \A n : ChainFits(n)' = ChainFits(n)
  BY <1>1, <1>4 DEF ChainFits, RowByRow
<1>15. \A u : NodeFits(u)' = NodeFits(u)
  BY <1>2, <1>8, <1>14, <1>4 DEF NodeFits
<1>16. \A u : PartFits(u)' = PartFits(u)
  BY <1>1, <1>3, <1>7, <1>13, <1>15 DEF PartFits
<1> QED BY <1>1, <1>8, <1>10, <1>11, <1>12, <1>16 DEF KeepsRules

(* The document does not change, and neither does what is read off it.     *)
LEMMA NamesSame ==
  ASSUME UNCHANGED <<format, wf>>
  PROVE  /\ Built' = Built /\ InputParts' = InputParts /\ IsYaml' = IsYaml
         /\ Checked' = Checked /\ Document' = Document
         /\ \A u : Needs(u)' = Needs(u)
         /\ Unresolvable' = Unresolvable
<1>1. IsYaml' = IsYaml
  BY DEF IsYaml
<1>2. Built' = Built /\ InputParts' = InputParts /\ Checked' = Checked /\ Document' = Document
  BY <1>1 DEF Built, InputParts, Checked, Document
<1>3. \A u : Needs(u)' = Needs(u)
  BY <1>1 DEF Needs
<1>4. Unresolvable' = Unresolvable
  BY MeaningSame DEF Unresolvable
<1> QED BY <1>1, <1>2, <1>3, <1>4

(* No emit function of the YAML parser says "unresolved".                  *)
LEMMA YamlErrors ==
  ASSUME NEW e, e.op \in Y!SupportedOps, NEW known, NEW emitted
  PROVE  Y!BuildOpDict(e, known, emitted).err # "unresolved"
<1>1. \A o : Y!Emitted(o).err = ""
  BY DEF Y!Emitted
<1>2. /\ Y!Refused("unknown").err = "unknown" /\ Y!Refused("pending").err = "pending"
      /\ Y!Refused("malformed").err = "malformed"
  BY DEF Y!Refused
<1>3. Y!EmitLLMLikeOp(e, known, emitted).err # "unresolved"
  BY <1>1, <1>2 DEF Y!EmitLLMLikeOp
<1>4. Y!EmitLLMVisionOp(e, known, emitted).err # "unresolved"
  <2> DEFINE chat == Y!EmitLLMLikeOp(e, known, emitted)
  <2>1. chat.err # "unresolved"
    BY <1>3
  <2>2. \A x : [chat EXCEPT !.ops = x].err = chat.err
    BY DEF Y!EmitLLMLikeOp, Y!Emitted, Y!Refused
  <2> HIDE DEF chat
  <2> QED BY <1>2, <2>1, <2>2 DEF Y!EmitLLMVisionOp, chat
<1>5. /\ Y!EmitDataOp(e, known).err # "unresolved"
      /\ Y!EmitDataRetrievalOp(e, known).err # "unresolved"
      /\ Y!EmitMessageOp(e, known).err # "unresolved"
  BY <1>1, <1>2 DEF Y!EmitDataOp, Y!EmitDataRetrievalOp, Y!EmitMessageOp
<1>6. /\ Y!EmitFormatOp(e, known).err # "unresolved"
      /\ Y!EmitLambdaOp(e, known).err # "unresolved"
      /\ Y!EmitEmbeddingOp(e, known).err # "unresolved"
      /\ Y!EmitImageGenerationOp(e, known, emitted).err # "unresolved"
  BY <1>1, <1>2
     DEF Y!EmitFormatOp, Y!EmitLambdaOp, Y!EmitEmbeddingOp, Y!EmitImageGenerationOp
<1> QED BY <1>3, <1>4, <1>5, <1>6 DEF Y!BuildOpDict, Y!SupportedOps

(* Nor does any make function of the n8n parser.                           *)
LEMMA N8nErrors ==
  ASSUME NEW d, NEW known, NEW n, n.type \in N!BuiltTypes
  PROVE  N!MakeOps(d, known, n).err # "unresolved"
<1>1. \A o, x : N!Made(o, x).err = ""
  BY DEF N!Made
<1>2. \A why : N!NotMade(why).err = why
  BY DEF N!NotMade
<1>3. /\ N!MakePostgres(d, known, n).err # "unresolved"
      /\ N!MakeAgent(d, known, n).err # "unresolved"
      /\ N!MakeS3(d, known, n).err # "unresolved"
      /\ N!MakeLake(d, known, n).err # "unresolved"
  BY <1>1, <1>2 DEF N!MakePostgres, N!MakeAgent, N!MakeS3, N!MakeLake, N!Retrieval
<1>4. N!MakeCode(d, known, n).err # "unresolved"
  BY <1>1, <1>2 DEF N!MakeCode
<1>5. \A m : N!PromptContent(d, known, m).err # "unresolved"
  BY <1>1, <1>2 DEF N!PromptContent
<1>6. N!MakeChain(d, known, n).err # "unresolved"
  <2>1. /\ N!MakeRowwise(d, known, n).err # "unresolved"
        /\ N!MakeTextGeneration(d, known, n).err # "unresolved"
    BY <1>1, <1>2, <1>5 DEF N!MakeRowwise, N!MakeTextGeneration
  <2>2. N!MakeImageGeneration(d, known, n).err # "unresolved"
    <3> DEFINE a == N!AfterSystem(n)
               p == N!PromptContent(d, known, a)
    <3>1. p.err # "unresolved"
      BY <1>5
    <3> HIDE DEF a, p
    <3> QED BY <1>1, <1>2, <3>1 DEF N!MakeImageGeneration, a, p
  <2>3. N!MakeImageUnderstanding(d, known, n).err # "unresolved"
    BY <1>1, <1>2, <1>5 DEF N!MakeImageUnderstanding
  <2> QED BY <1>2, <2>1, <2>2, <2>3 DEF N!MakeChain
<1> QED BY <1>3, <1>4, <1>6 DEF N!MakeOps, N!BuiltTypes

(* No emit function of either parser does.                                 *)
LEMMA MadeErrors ==
  ASSUME Checked, NEW u \in Built
  PROVE  Made(u).err # "unresolved"
<1>1. CASE IsYaml
  <2>1. PICK i \in DOMAIN wf.ops : wf.ops[i].id = u
    BY <1>1 DEF Built, Y!EntryIds
  <2>2. Y!EntryOf(wf, u).op \in Y!SupportedOps
    BY <1>1, <2>1 DEF Checked, Y!IdsOK, Y!EntryOf
  <2> QED BY <1>1, <2>2, YamlErrors DEF Made
<1>2. CASE ~IsYaml
  BY <1>2, N8nErrors DEF Built, N!OfTypes, Made
<1> QED BY <1>1, <1>2

-----------------------------------------------------------------------------
(* A pass goes through all pending names, each once.                       *)
LEMMA PassComplete ==
  ASSUME Document, Checked, pending \subseteq Built, NEW t \in PassOrders
  PROVE  t \in Seq(pending) /\ IsInjective(t) /\ Range(t) = pending
<1>1. CASE IsYaml
  <2> DEFINE s == [i \in DOMAIN wf.ops |-> wf.ops[i].id]
  <2>1. wf.ops \in Seq(ToSet(wf.ops))
    BY <1>1, DocumentAssumption DEF Document, IsYaml, IsList
  <2>2. s \in Seq(Built) /\ DOMAIN s = DOMAIN wf.ops /\ DOMAIN s = 1..Len(wf.ops)
    <3>1. /\ Len(wf.ops) \in Nat /\ DOMAIN wf.ops = 1..Len(wf.ops)
          /\ \A i \in DOMAIN wf.ops : wf.ops[i].id \in Built
      BY <1>1, <2>1 DEF Built, Y!EntryIds
    <3> QED BY <3>1
  <2>3. Range(s) = Built
    BY <1>1 DEF Built, Y!EntryIds, Range
  <2>4. IsInjective(s)
    BY <1>1 DEF Checked, Y!IdsOK, IsInjective
  <2> HIDE DEF s
  <2>5. t = Keep(s, pending)
    BY <1>1 DEF PassOrders, s
  <2>6. t \in Seq(Built) /\ Range(t) = pending /\ IsInjective(t)
    <3>1. /\ Keep(s, pending) \in Seq(Built)
          /\ Range(Keep(s, pending)) = Range(s) \cap pending
          /\ IsInjective(s) => IsInjective(Keep(s, pending))
      BY <2>2, KeepElements
    <3>2. Range(s) \cap pending = pending
      BY <2>3
    <3> QED BY <2>4, <2>5, <3>1, <3>2
  <2>7. \A i \in 1..Len(t) : t[i] \in pending
    BY <2>6 DEF Range
  <2> QED BY <2>6, <2>7
<1>2. CASE ~IsYaml
  <2> DEFINE D == 1..Cardinality(pending)
  <2>1. IsFiniteSet(pending)
    <3> DEFINE f == [i \in DOMAIN wf.nodes |-> wf.nodes[i].name]
    <3>1. wf.nodes \in Seq(ToSet(wf.nodes))
      BY <1>2, DocumentAssumption DEF Document, IsYaml, IsList
    <3>2. DOMAIN wf.nodes = 1..Len(wf.nodes) /\ Len(wf.nodes) \in Nat
      BY <3>1
    <3>3. IsFiniteSet(DOMAIN wf.nodes)
      <4>1. 1 \in Int /\ Len(wf.nodes) \in Int
        BY <3>2
      <4>2. IsFiniteSet(1..Len(wf.nodes))
        BY <4>1, FS_Interval
      <4> QED BY <3>2, <4>2
    <3>4. f \in Surjection(DOMAIN wf.nodes, N!NodeNames(wf))
      BY DEF Surjection, N!NodeNames
    <3> HIDE DEF f
    <3>5. IsFiniteSet(N!NodeNames(wf))
      BY <3>3, <3>4, FS_Surjection
    <3>6. pending \in SUBSET N!NodeNames(wf)
      BY <1>2 DEF Built, N!OfTypes
    <3> QED BY <3>5, <3>6, FS_Subset
  <2>2. Cardinality(pending) \in Nat
    BY <2>1, FS_CardinalityType
  <2>3. t \in [D -> pending] /\ \A i, j \in D : i # j => t[i] # t[j]
    BY <1>2 DEF PassOrders, SetToSeqs
  <2>4. t \in Seq(pending) /\ IsInjective(t)
    BY <2>2, <2>3 DEF IsInjective
  <2>5. t \in Injection(D, pending)
    BY <2>3, <2>4 DEF Injection
  <2>6. Cardinality(D) = Cardinality(pending)
    BY <2>2, FS_Interval
  <2> HIDE DEF D
  <2>7. t \in Surjection(D, pending)
    BY <2>1, <2>5, <2>6, FS_Injection
  <2>8. Range(t) = pending
    BY <2>3, <2>7 DEF Surjection, Range
  <2> QED BY <2>4, <2>8
<1> QED BY <1>1, <1>2

(* The rest of a pass, once its head has been visited.                     *)
LEMMA PassTail ==
  ASSUME NEW S, NEW t \in Seq(S), IsInjective(t), t # << >>
  PROVE  /\ Head(t) \in S /\ Tail(t) \in Seq(S \ {Head(t)})
         /\ IsInjective(Tail(t)) /\ Range(t) = {Head(t)} \cup Range(Tail(t))
<1>1. /\ Len(t) \in Nat \ {0} /\ DOMAIN t = 1..Len(t) /\ Head(t) = t[1]
      /\ Tail(t) \in Seq(S) /\ Len(Tail(t)) = Len(t) - 1
      /\ \A i \in 1..(Len(t) - 1) : Tail(t)[i] = t[i + 1]
  OBVIOUS
<1>2. \A i \in 1..(Len(t) - 1) : t[i + 1] \in S /\ t[i + 1] # t[1]
  BY <1>1 DEF IsInjective
<1>3. Tail(t) \in Seq(S \ {Head(t)})
  <2>1. \A i \in 1..Len(Tail(t)) : Tail(t)[i] \in S \ {Head(t)}
    BY <1>1, <1>2
  <2>2. PICK u \in Seq(S) : u = Tail(t)
    BY <1>1
  <2>3. PICK B : B = S \ {Head(t)}
    OBVIOUS
  <2>4. \A i \in 1..Len(u) : u[i] \in B
    BY <2>1, <2>2, <2>3
  <2>5. u \in Seq(B)
    BY ONLY <2>4, u \in Seq(S)
  <2> QED BY <2>2, <2>3, <2>5
<1>4. IsInjective(Tail(t))
  BY <1>1 DEF IsInjective
<1>5. ASSUME NEW x \in Range(t) PROVE x = Head(t) \/ x \in Range(Tail(t))
  <2>1. PICK i \in 1..Len(t) : t[i] = x
    BY <1>1 DEF Range
  <2>2. CASE i = 1
    BY <1>1, <2>1, <2>2
  <2>3. CASE i # 1
    <3>1. i - 1 \in 1..(Len(t) - 1) /\ (i - 1) + 1 = i
      BY <1>1, <2>1, <2>3
    <3>2. Tail(t)[i - 1] = x
      BY <1>1, <2>1, <3>1
    <3>3. DOMAIN Tail(t) = 1..(Len(t) - 1)
      BY <1>1
    <3> QED BY <3>1, <3>2, <3>3 DEF Range
  <2> QED BY <2>2, <2>3
<1>6. ASSUME NEW x \in Range(Tail(t)) PROVE x \in Range(t)
  <2>1. PICK i \in 1..(Len(t) - 1) : Tail(t)[i] = x
    BY <1>1 DEF Range
  <2>2. i + 1 \in 1..Len(t) /\ t[i + 1] = x
    BY <1>1, <2>1
  <2> QED BY <1>1, <2>2 DEF Range
<1>7. Head(t) \in Range(t) /\ Head(t) \in S
  BY <1>1 DEF Range
<1> QED BY <1>3, <1>4, <1>5, <1>6, <1>7

(* An entry or a node is no input, and needs what it says it needs.        *)
LEMMA NamesMean ==
  ASSUME Checked, NEW u \in Built
  PROVE  u \notin InputParts /\ Declared(u) = Needs(u)
<1>1. u \notin InputParts
  BY DEF Checked, Built, InputParts, Y!EntryIds, Y!IdsOK, N!OfTypes, N!BuiltTypes, Y!ToSet,
     ToSet
<1> QED BY <1>1 DEF Declared, Needs, Part

(* A pass that has visited every pending name without progress leaves a    *)
(* document that cannot be resolved.                                       *)
LEMMA StuckUnresolvable ==
  ASSUME PassInv, phase = "pass", pending # {}, ~progress, todo = << >>
  PROVE  Unresolvable
<1>1. /\ pending \subseteq Built /\ \A u \in pending : MustWait(u)
      /\ ~IsYaml => DOMAIN ids = InputParts \cup (Built \ pending)
      /\ \A u \in Built : Declared(u) = Needs(u)
  BY NamesMean DEF PassInv, Range
<1>2. CASE \A u \in pending : Needs(u) \cap pending # {}
  BY <1>1, <1>2 DEF Unresolvable, Acyclic
<1>3. CASE \E u \in pending : Needs(u) \cap pending = {}
  <2>1. PICK u \in pending : Needs(u) \cap pending = {}
    BY <1>3
  <2>2. ~IsYaml /\ ~(Needs(u) \subseteq DOMAIN ids)
    BY <1>1, <2>1 DEF MustWait, Needs
  <2>3. ~(Needs(u) \subseteq Parts)
    BY <1>1, <2>1, <2>2 DEF Parts
  <2> QED BY <1>1, <2>3 DEF Unresolvable
<1> QED BY <1>2, <1>3

-----------------------------------------------------------------------------
(* Every step keeps the invariant of the loop.                             *)

(* Outside the loop nothing is left to say but that err is not the loop's. *)
LEMMA LeaveLoop ==
  ASSUME LoopInv, UNCHANGED <<format, wf, progress>>, phase' \notin {"start", "pass"},
         phase' # "refused" => err' = "", err' # "unresolved"
  PROVE  LoopInv'
BY NamesSame DEF LoopInv, PassInv, UnresolvedMeansCycle

(* The checks of a document, and what the loop begins with.                *)
LEMMA StartStep ==
  ASSUME LoopInv, YamlStart \/ N8nStart
  PROVE  LoopInv'
<1>1. UNCHANGED <<format, wf, todo, progress>> /\ phase = "start" /\ err = "" /\ todo = << >>
  BY DEF YamlStart, N8nStart, UnchangedByParse, LoopInv
<1>2. CASE phase' = "refused"
  BY <1>1, <1>2, LeaveLoop DEF YamlStart, N8nStart, Refuse
<1>3. CASE phase' # "refused"
  <2>1. phase' = "pass" /\ Checked /\ pending' = Built /\ err' = ""
    BY <1>1, <1>3 DEF YamlStart, N8nStart, Refuse, Checked, Built
  <2>2. ~IsYaml => DOMAIN ids' = InputParts
    BY <1>1, <1>3 DEF YamlStart, N8nStart, Refuse, InputParts, N!TriggerIds
  <2>3. todo' \in Seq(pending') /\ IsInjective(todo')
    <3>1. \A S : << >> \in Seq(S)
      OBVIOUS
    <3>2. IsInjective(<< >>)
      BY DEF IsInjective
    <3> QED BY <1>1, <3>1, <3>2
  <2>4. progress' => PassInv'
    BY <1>1, <2>1, <2>2, <2>3, NamesSame DEF PassInv
  <2>5. progress'
    BY <1>1 DEF LoopInv
  <2> QED BY <1>1, <2>1, <2>4, <2>5, NamesSame DEF LoopInv, UnresolvedMeansCycle
<1> QED BY <1>2, <1>3

(* A pass begins with all pending names, none of them visited.             *)
LEMMA PassStartStep ==
  ASSUME LoopInv, PassStart
  PROVE  LoopInv'
<1>1. /\ UNCHANGED <<format, wf, phase, pending, ids, err>> /\ phase = "pass"
      /\ todo' \in PassOrders /\ progress' = FALSE
  BY DEF PassStart, UnchangedByParse
<1>2. /\ Document /\ Checked /\ pending \subseteq Built
      /\ ~IsYaml => DOMAIN ids = InputParts \cup (Built \ pending)
  BY <1>1 DEF LoopInv, PassInv
<1>3. todo' \in Seq(pending) /\ IsInjective(todo') /\ Range(todo') = pending
  BY <1>1, <1>2, PassComplete
<1>4. progress' \in BOOLEAN
  BY <1>1
<1>5. PassInv'
  BY <1>1, <1>2, <1>3, NamesSame DEF PassInv
<1> QED BY <1>1, <1>4, <1>5, NamesSame DEF LoopInv, UnresolvedMeansCycle

(* The last pass, which made no progress.                                  *)
LEMMA PassStuckStep ==
  ASSUME LoopInv, PassStuck
  PROVE  LoopInv'
<1>1. /\ UNCHANGED <<format, wf, progress>> /\ phase' = "refused"
      /\ phase = "pass" /\ todo = << >> /\ pending # {} /\ ~progress
  BY DEF PassStuck, UnchangedByParse, Refuse
<1>2. Unresolvable
  BY <1>1, StuckUnresolvable DEF LoopInv
<1> QED BY <1>1, <1>2, NamesSame DEF LoopInv, PassInv, UnresolvedMeansCycle

(* A visit that ends the parse.                                            *)
LEMMA VisitEndsStep ==
  ASSUME LoopInv, VisitUnknown \/ VisitFails
  PROVE  LoopInv'
<1>1. /\ UNCHANGED <<format, wf, progress>> /\ phase' = "refused"
      /\ phase = "pass" /\ todo # << >>
  BY DEF VisitUnknown, VisitFails, UnchangedByParse, Refuse
<1>2. Checked /\ Head(todo) \in Built
  BY <1>1, PassTail DEF LoopInv, PassInv
<1>3. err' = "unknown" \/ err' = Made(Head(todo)).err
  BY DEF VisitUnknown, VisitFails, Refuse
<1>4. err' # "unresolved"
  BY <1>2, <1>3, MadeErrors
<1> QED BY <1>1, <1>4, LeaveLoop

(* A visit that is put off: it joins the names that have to wait.          *)
LEMMA VisitWaitsStep ==
  ASSUME LoopInv, VisitWaits
  PROVE  LoopInv'
<1>1. /\ UNCHANGED <<format, wf, phase, pending, progress, ids, err>> /\ phase = "pass"
      /\ todo # << >> /\ MustWait(Head(todo)) /\ todo' = Tail(todo)
  BY DEF VisitWaits, UnchangedByParse
<1>2. /\ Document /\ Checked /\ pending \subseteq Built /\ todo \in Seq(pending)
      /\ IsInjective(todo)
      /\ ~IsYaml => DOMAIN ids = InputParts \cup (Built \ pending)
      /\ ~progress => \A u \in pending \ Range(todo) : MustWait(u)
  BY <1>1 DEF LoopInv, PassInv
<1>3. /\ todo' \in Seq(pending) /\ IsInjective(todo')
      /\ Range(todo) = {Head(todo)} \cup Range(todo')
  <2>1. Tail(todo) \in Seq(pending)
    BY <1>1, <1>2
  <2>2. /\ IsInjective(Tail(todo))
        /\ Range(todo) = {Head(todo)} \cup Range(Tail(todo))
    BY <1>1, <1>2, PassTail
  <2> QED BY <1>1, <2>1, <2>2
<1>4. \A u : MustWait(u)' = MustWait(u)
  BY <1>1 DEF MustWait, IsYaml
<1>5. ~progress => \A u \in pending \ Range(todo') : MustWait(u)
  BY <1>1, <1>2, <1>3
<1>6. PassInv'
  BY <1>1, <1>2, <1>3, <1>4, <1>5, NamesSame DEF PassInv
<1> QED BY <1>1, <1>6, NamesSame DEF LoopInv, UnresolvedMeansCycle

(* A visit that emits: the name is not pending any more.                   *)
LEMMA VisitEmitsStep ==
  ASSUME LoopInv, VisitEmits
  PROVE  LoopInv'
<1> DEFINE u == Head(todo)
<1>1. /\ UNCHANGED <<format, wf, phase, err>> /\ phase = "pass" /\ todo # << >>
      /\ pending' = pending \ {u} /\ progress' = TRUE /\ todo' = Tail(todo)
      /\ ~IsYaml => DOMAIN ids' = DOMAIN ids \cup {u}
  BY DEF VisitEmits, UnchangedByParse
<1>2. /\ Document /\ Checked /\ pending \subseteq Built /\ todo \in Seq(pending)
      /\ IsInjective(todo)
      /\ ~IsYaml => DOMAIN ids = InputParts \cup (Built \ pending)
  BY <1>1 DEF LoopInv, PassInv
<1>3. u \in pending /\ todo' \in Seq(pending \ {u}) /\ IsInjective(todo')
  BY <1>1, <1>2, PassTail
<1> HIDE DEF u
<1>4. ~IsYaml => DOMAIN ids' = InputParts \cup (Built \ pending')
  BY <1>1, <1>2, <1>3
<1>5. progress' \in BOOLEAN /\ progress'
  BY <1>1
<1>6. PassInv'
  BY <1>1, <1>2, <1>3, <1>4, <1>5, NamesSame DEF PassInv
<1> QED BY <1>1, <1>5, <1>6, NamesSame DEF LoopInv, UnresolvedMeansCycle

(* The outputs, and everything after the parse.                            *)
LEMMA AfterLoopStep ==
  ASSUME LoopInv,
         \/ YamlOutputs \/ N8nOutputs \/ LoadOp \/ Compile
         \/ BuildRuntime \/ BuildProfile \/ MergeGraphs
  PROVE  LoopInv'
<1>1. UNCHANGED <<format, wf, progress>> /\ phase \notin {"start", "refused"}
  BY DEF YamlOutputs, N8nOutputs, LoadOp, Compile, BuildRuntime, BuildProfile, MergeGraphs,
     UnchangedByParse, UnchangedAfterParse
<1>2. err = ""
  BY <1>1 DEF LoopInv
<1>3. phase' \notin {"start", "pass"}
  BY DEF YamlOutputs, N8nOutputs, LoadOp, Compile, BuildRuntime, BuildProfile, MergeGraphs,
     Refuse
<1>4. Y!EmitOutputs(wf, ids).err # "unresolved"
  BY DEF Y!EmitOutputs, Y!Emitted, Y!Refused
<1>5. (phase' # "refused" => err' = "") /\ err' # "unresolved"
  BY <1>2, <1>4 DEF YamlOutputs, N8nOutputs, LoadOp, Compile, BuildRuntime, BuildProfile,
     MergeGraphs, Refuse, UnchangedByParse
<1> QED BY <1>1, <1>3, <1>5, LeaveLoop

(* The invariant of the loop, over every step of the intake.               *)
LEMMA LoopInvariance == Spec => []LoopInv
<1>1. Init => LoopInv
  BY DEF Init, LoopInv, Document, PassInv, UnresolvedMeansCycle
<1>2. LoopInv /\ [Next]_vars => LoopInv'
  <2> SUFFICES ASSUME LoopInv, [Next]_vars PROVE LoopInv'
    OBVIOUS
  <2>1. CASE UNCHANGED vars
    <3>1. UNCHANGED <<format, wf, phase, pending, todo, progress, ids, err>>
      BY <2>1 DEF vars
    <3>2. \A u : MustWait(u)' = MustWait(u)
      BY <3>1 DEF MustWait, IsYaml
    <3>3. PassInv'
      BY <3>1, <3>2, NamesSame DEF LoopInv, PassInv
    <3> QED BY <3>1, <3>3, NamesSame DEF LoopInv, UnresolvedMeansCycle
  <2> QED
    BY <2>1, StartStep, PassStartStep, PassStuckStep, VisitEndsStep, VisitWaitsStep,
       VisitEmitsStep, AfterLoopStep DEF Next, Parse
<1> QED BY <1>1, <1>2, PTL DEF Spec

(* Both parsers give up on pending names only when some of them wait for   *)
(* each other, or one for a name that no part of the document has: no      *)
(* order of the document or of the visits makes them miss one that could   *)
(* be emitted.                                                             *)
THEOREM UnresolvedJustified == Spec => []UnresolvedMeansCycle
<1>1. LoopInv => UnresolvedMeansCycle
  BY DEF LoopInv
<1> QED BY <1>1, LoopInvariance, PTL

-----------------------------------------------------------------------------
(* The names of nodes under the prefix of their graph.                     *)
Renamed(g, nodes, S) == {IF m \in DOMAIN nodes THEN <<g, m>> ELSE m : m \in S}

(* The nodes of a graph under its prefix are found in the merged graph as  *)
(* they were renamed: no other graph of the batch has them.                *)
LEMMA MergedNode ==
  ASSUME NEW nodes, NEW g \in GraphNames, NEW n \in DOMAIN nodes,
         NEW all, all = R!MergeRuntimeGraphs([h \in GraphNames |-> R!WithNodePrefix(h, nodes)])
  PROVE  /\ <<g, n>> \in DOMAIN all
         /\ all[<<g, n>>].reads = Renamed(g, nodes, nodes[n].reads)
         /\ all[<<g, n>>].deps = Renamed(g, nodes, nodes[n].deps)
<1> DEFINE graphs == [h \in GraphNames |-> R!WithNodePrefix(h, nodes)]
           owner(x) == CHOOSE h \in GraphNames : x \in DOMAIN graphs[h]
<1>1. \A h \in GraphNames : DOMAIN graphs[h] = {<<h, m>> : m \in DOMAIN nodes}
  BY DEF R!WithNodePrefix
<1>2. DOMAIN graphs = GraphNames
  OBVIOUS
<1>3. graphs[g][<<g, n>>] =
        R!Node(Renamed(g, nodes, nodes[n].reads), Renamed(g, nodes, nodes[n].deps))
  BY DEF R!WithNodePrefix, Renamed
<1>4. all = [x \in UNION {DOMAIN graphs[h] : h \in GraphNames} |-> graphs[owner(x)][x]]
  BY <1>2 DEF R!MergeRuntimeGraphs
<1> HIDE DEF graphs
<1>5. owner(<<g, n>>) = g
  BY <1>1
<1>6. <<g, n>> \in UNION {DOMAIN graphs[h] : h \in GraphNames}
  BY <1>1
<1> HIDE DEF owner
<1>7. <<g, n>> \in DOMAIN all /\ all[<<g, n>>] = graphs[g][<<g, n>>]
  BY <1>4, <1>5, <1>6
<1> QED BY <1>3, <1>7 DEF R!Node

(* Every node an op becomes waits for what it reads: a retrieval for the   *)
(* parameters, an LLM node for its prompt and its columns whichever of the *)
(* three forms it takes, an embedding and an image for their content, the  *)
(* two nodes of a vision op for the image.                                 *)
WaitsForReads(nodes) == \A n \in DOMAIN nodes : nodes[n].reads \subseteq nodes[n].deps

(* An op that becomes one node.                                            *)
LEMMA OneNodeWaits ==
  ASSUME NEW x, NEW reads, NEW deps, NEW seen, NEW errs, reads \subseteq deps
  PROVE  WaitsForReads(R!OneNode(x, reads, deps, seen, errs).nodes)
BY DEF WaitsForReads, R!OneNode, R!Built, R!Node

(* The form of an LLM node does not matter.                                *)
LEMMA ChatWaits ==
  ASSUME NEW G, NEW x
  PROVE  WaitsForReads(R!BuildChat(G, x).nodes)
<1> DEFINE t == R!Traces(G)[G[x].args[1]]
<1>1. WaitsForReads(R!BuildRowwise(G, x, t).nodes)
  BY OneNodeWaits DEF R!BuildRowwise
<1>2. WaitsForReads(R!BuildAggregate(G, x, t).nodes)
  BY OneNodeWaits DEF R!BuildAggregate
<1>3. WaitsForReads(R!BuildPlain(G, x, t).nodes)
  BY OneNodeWaits DEF R!BuildPlain
<1>4. R!BuildChat(G, x) \in {R!BuildRowwise(G, x, t), R!BuildAggregate(G, x, t),
                             R!BuildPlain(G, x, t)}
  BY DEF R!BuildChat
<1> QED BY <1>1, <1>2, <1>3, <1>4

(* The other ops, and the two nodes of a vision op.                        *)
LEMMA OpWaits ==
  ASSUME NEW G, NEW x
  PROVE  WaitsForReads(R!BuildOp(G, x).nodes)
<1>1. WaitsForReads(R!BuildRetrieval(G, x).nodes)
  BY OneNodeWaits DEF R!BuildRetrieval
<1>2. WaitsForReads(R!BuildEmbedding(G, x).nodes)
  BY OneNodeWaits DEF R!BuildEmbedding
<1>3. WaitsForReads(R!BuildImage(G, x).nodes)
  BY OneNodeWaits DEF R!BuildImage
<1>4. WaitsForReads(R!BuildVision(G, x).nodes)
  BY DEF WaitsForReads, R!BuildVision, R!Built, R!Node
<1>5. R!BuildOp(G, x) \in {R!BuildRetrieval(G, x), R!BuildEmbedding(G, x),
                           R!BuildImage(G, x), R!BuildVision(G, x), R!BuildChat(G, x)}
  BY DEF R!BuildOp
<1> QED BY <1>1, <1>2, <1>3, <1>4, <1>5, ChatWaits

(* RuntimeGraphBuilder.build takes each node from the op it comes from.    *)
LEMMA BuildWaits ==
  ASSUME NEW G
  PROVE  WaitsForReads(R!Build(G).nodes)
<1> DEFINE runtime == R!OpsOf(G, R!RuntimeKinds)
           built == [x \in runtime |-> R!BuildOp(G, x)]
           ids0 == UNION {DOMAIN built[x].nodes : x \in runtime}
           from(n) == CHOOSE y \in runtime : n \in DOMAIN built[y].nodes
<1>1. R!Build(G).nodes = [n \in ids0 |-> built[from(n)].nodes[n]]
  <2>1. \E e : R!Build(G) = [nodes |-> [n \in ids0 |-> built[from(n)].nodes[n]], errs |-> e]
    BY DEF R!Build
  <2> HIDE DEF built, ids0, from
  <2> QED BY <2>1
<1>2. ASSUME NEW n \in ids0
      PROVE  built[from(n)].nodes[n].reads \subseteq built[from(n)].nodes[n].deps
  <2>1. PICK y \in runtime : n \in DOMAIN built[y].nodes
    OBVIOUS
  <2>2. from(n) \in runtime /\ n \in DOMAIN built[from(n)].nodes
    BY <2>1
  <2> HIDE DEF from
  <2>3. built[from(n)] = R!BuildOp(G, from(n))
    BY <2>2
  <2>4. WaitsForReads(built[from(n)].nodes)
    BY <2>3, OpWaits
  <2> HIDE DEF built
  <2> QED BY <2>2, <2>4 DEF WaitsForReads
<1> HIDE DEF ids0, built, from
<1> QED BY <1>1, <1>2 DEF WaitsForReads

(* Every node of a runtime graph waits for every node it reads, whatever   *)
(* the document: FlowMesh never runs one before the results it is to read  *)
(* are there.                                                              *)
THEOREM NodesWaitForReads == Spec => []WaitsForReads(rt.nodes)
<1>1. Init => WaitsForReads(rt.nodes)
  <2> SUFFICES ASSUME Init PROVE \A n \in DOMAIN rt.nodes : FALSE
    BY DEF WaitsForReads
  <2>1. rt.nodes = Nothing /\ DOMAIN Nothing = {}
    BY DEF Init, Unbuilt, Nothing
  <2> QED BY <2>1
<1>2. WaitsForReads(rt.nodes) /\ [Next]_vars => WaitsForReads(rt.nodes)'
  <2> SUFFICES ASSUME WaitsForReads(rt.nodes), [Next]_vars
               PROVE  WaitsForReads(rt.nodes)'
    OBVIOUS
  <2>1. CASE UNCHANGED rt
    BY <2>1 DEF WaitsForReads
  <2>2. CASE BuildRuntime
    <3>1. rt' = R!Build(graph)
      BY <2>2 DEF BuildRuntime
    <3> QED BY <3>1, BuildWaits
  <2>3. UNCHANGED rt \/ BuildRuntime
    BY DEF Next, Parse, YamlStart, N8nStart, PassStart, PassStuck, VisitUnknown, VisitWaits,
       VisitFails, VisitEmits, YamlOutputs, N8nOutputs, LoadOp, Compile, BuildProfile,
       MergeGraphs, UnchangedByParse, vars
  <2> QED BY <2>1, <2>2, <2>3
<1> QED BY <1>1, <1>2, PTL DEF Spec

(* The merged graph of a batch is the merge of the graphs as they run.     *)
MergedInv ==
  phase = "done" =>
    merged = R!MergeRuntimeGraphs([g \in GraphNames |-> R!WithNodePrefix(g, rt.nodes)])

(* MergeGraphs is the last step, and it leaves rt alone.                   *)
LEMMA MergedInvariance == Spec => []MergedInv
<1>1. Init => MergedInv
  BY DEF Init, MergedInv
<1>2. MergedInv /\ [Next]_vars => MergedInv'
  <2> SUFFICES ASSUME MergedInv, [Next]_vars PROVE MergedInv'
    OBVIOUS
  <2>1. CASE UNCHANGED vars
    BY <2>1 DEF vars, MergedInv
  <2>2. CASE Parse
    <3>1. phase' # "done"
      BY <2>2 DEF Parse, YamlStart, N8nStart, PassStart, PassStuck, VisitUnknown, VisitWaits,
         VisitFails, VisitEmits, YamlOutputs, N8nOutputs, Refuse
    <3> QED BY <3>1 DEF MergedInv
  <2>3. CASE LoadOp \/ Compile \/ BuildRuntime \/ BuildProfile
    <3>1. phase' # "done"
      BY <2>3 DEF LoadOp, Compile, BuildRuntime, BuildProfile, Refuse
    <3> QED BY <3>1 DEF MergedInv
  <2>4. CASE MergeGraphs
    <3>1. /\ rt' = rt
          /\ merged' = R!MergeRuntimeGraphs(
                         [g \in GraphNames |-> R!WithNodePrefix(g, rt.nodes)])
      BY <2>4 DEF MergeGraphs
    <3> QED BY <3>1 DEF MergedInv
  <2> QED BY <2>1, <2>2, <2>3, <2>4 DEF Next
<1> QED BY <1>1, <1>2, PTL DEF Spec

(* No node reads anything that is not a node of the graph, as the model    *)
(* checker finds of every document that keeps the rules.                   *)
ReadsInGraph ==
  RuntimeBuilt /\ Supported =>
    \A n \in DOMAIN rt.nodes : rt.nodes[n].reads \subseteq DOMAIN rt.nodes

(* Merging is sound: as long as nothing outside a graph is read, every     *)
(* node of a workflow is exported with the dependencies it reads, and so   *)
(* is every node of the merged graph of a batch, which reads the nodes of  *)
(* its own workflow only: for any number of workflows and any graph.       *)
THEOREM MergeKeepsApart == Spec => [](ReadsInGraph => ReadsScheduled /\ GraphsApart)
<1>1. WaitsForReads(rt.nodes) /\ ReadsInGraph => ReadsScheduled
  BY DEF WaitsForReads, ReadsInGraph, ReadsScheduled, R!DependsOn
<1>2. MergedInv /\ ReadsScheduled => GraphsApart
  <2> SUFFICES ASSUME MergedInv, ReadsScheduled, phase = "done", Supported,
                      NEW g \in GraphNames, NEW n \in DOMAIN rt.nodes
               PROVE  /\ merged[<<g, n>>].reads = {<<g, r>> : r \in rt.nodes[n].reads}
                      /\ merged[<<g, n>>].reads \subseteq R!DependsOn(merged, <<g, n>>)
    BY DEF GraphsApart
  <2>1. rt.nodes[n].reads \subseteq rt.nodes[n].deps \cap DOMAIN rt.nodes
    BY DEF ReadsScheduled, RuntimeBuilt, R!DependsOn
  <2>2. merged = R!MergeRuntimeGraphs([h \in GraphNames |-> R!WithNodePrefix(h, rt.nodes)])
    BY DEF MergedInv
  <2>3. /\ merged[<<g, n>>].reads = Renamed(g, rt.nodes, rt.nodes[n].reads)
        /\ merged[<<g, n>>].deps = Renamed(g, rt.nodes, rt.nodes[n].deps)
        /\ \A m \in DOMAIN rt.nodes : <<g, m>> \in DOMAIN merged
    <3>1. PICK nodes, all : nodes = rt.nodes /\ all = merged
      OBVIOUS
    <3>2. all = R!MergeRuntimeGraphs([h \in GraphNames |-> R!WithNodePrefix(h, nodes)])
      BY <2>2, <3>1
    <3>3. ASSUME NEW m \in DOMAIN nodes
          PROVE  /\ <<g, m>> \in DOMAIN all
                 /\ all[<<g, m>>].reads = Renamed(g, nodes, nodes[m].reads)
                 /\ all[<<g, m>>].deps = Renamed(g, nodes, nodes[m].deps)
      BY <3>2, MergedNode
    <3> QED BY <3>1, <3>3
  <2>4. merged[<<g, n>>].reads = {<<g, r>> : r \in rt.nodes[n].reads}
    BY <2>1, <2>3 DEF Renamed
  <2>5. {<<g, r>> : r \in rt.nodes[n].reads} \subseteq merged[<<g, n>>].deps \cap DOMAIN merged
    BY <2>1, <2>3 DEF Renamed
  <2> QED BY <2>4, <2>5 DEF R!DependsOn
<1> QED BY <1>1, <1>2, MergedInvariance, NodesWaitForReads, PTL

-----------------------------------------------------------------------------
(* What is emitted is loaded: the ops stand in an order in which           *)
(* Graph.from_json finds every op that one of them names.                  *)

(* The ops that Graph.from_json must have when it comes to op: those it    *)
(* looks up, and the contents of a message that are no text.               *)
Needed(op) ==
  LookedUp(op) \cup
  (IF op.kind = "MessageOp" THEN {a \in ToSet(op.args) : a[1] # "text"} ELSE {})

(* The kinds of the ops of parts, and of all ops.                          *)
BodyKinds == RuntimeKinds \cup {"DataOp", "MessageOp", "FormatOp", "LambdaOp"}
OpKinds == BodyKinds \cup {"InputOp", "OutputOp"}

(* The fields of an op; the id of a message is one, and no id is a text.   *)
IsOp(op) ==
  /\ DOMAIN op = DOMAIN Op(NoId, "")
  /\ op.kind \in OpKinds
  /\ op.id[1] # "text"
  /\ op.id[1] = "message" => op.kind = "MessageOp"

(* The ids of the first n ops of s.                                        *)
IdsUpTo(s, n) == {s[i].id : i \in 1..n}

(* Ops in order, after ops with the ids S.                                 *)
InOrder(s, S) ==
  /\ IsList(s)
  /\ \A i \in DOMAIN s : IsOp(s[i]) /\ Needed(s[i]) \subseteq S \cup IdsUpTo(s, i - 1)

(* Ops of some kinds only.                                                 *)
AllOf(s, kinds) == \A i \in DOMAIN s : s[i].kind \in kinds

(* A sequence is a list.                                                   *)
LEMMA SeqIsList ==
  ASSUME NEW A, NEW s \in Seq(A)
  PROVE  /\ IsList(s) /\ Len(s) \in Nat /\ DOMAIN s = 1..Len(s)
         /\ IdsUpTo(s, Len(s)) = IdsOf(s) /\ ToSet(s) = Range(s)
<1>1. Len(s) \in Nat /\ DOMAIN s = 1..Len(s)
  OBVIOUS
<1>2. \A i \in 1..Len(s) : s[i] \in ToSet(s)
  BY <1>1 DEF ToSet
<1>3. s \in Seq(ToSet(s))
  BY <1>1, <1>2
<1> QED BY <1>1, <1>3 DEF IsList, IdsUpTo, IdsOf, ToSet, Range

(* Ops after ops.                                                          *)
LEMMA ConcatInOrder ==
  ASSUME NEW s, NEW t, NEW S, InOrder(s, S), InOrder(t, S \cup IdsOf(s))
  PROVE  /\ InOrder(s \o t, S) /\ IdsOf(s \o t) = IdsOf(s) \cup IdsOf(t)
         /\ \A kinds : AllOf(s, kinds) /\ AllOf(t, kinds) => AllOf(s \o t, kinds)
<1> DEFINE A == ToSet(s) \cup ToSet(t)
<1>1. s \in Seq(A) /\ t \in Seq(A)
  <2>1. s \in Seq(ToSet(s)) /\ t \in Seq(ToSet(t))
    BY DEF InOrder, IsList
  <2> QED BY <2>1
<1> HIDE DEF A
<1>2. /\ Len(s) \in Nat /\ Len(t) \in Nat /\ DOMAIN s = 1..Len(s) /\ DOMAIN t = 1..Len(t)
      /\ s \o t \in Seq(A) /\ DOMAIN (s \o t) = 1..(Len(s) + Len(t))
      /\ \A i \in 1..Len(s) : (s \o t)[i] = s[i]
      /\ \A i \in 1..Len(t) : (s \o t)[Len(s) + i] = t[i]
  BY <1>1
<1>3. PICK r : r = s \o t
  OBVIOUS
<1>4. /\ r \in Seq(A) /\ DOMAIN r = 1..(Len(s) + Len(t))
      /\ \A i \in 1..Len(s) : r[i] = s[i]
      /\ \A i \in 1..Len(t) : r[Len(s) + i] = t[i]
  BY <1>2, <1>3
<1>5. \A i \in DOMAIN r : \/ i \in 1..Len(s)
                          \/ i - Len(s) \in 1..Len(t) /\ i = Len(s) + (i - Len(s))
  BY <1>2, <1>4
<1>6. IdsOf(r) = IdsOf(s) \cup IdsOf(t)
  <2>1. ASSUME NEW x \in IdsOf(r) PROVE x \in IdsOf(s) \cup IdsOf(t)
    BY <1>2, <1>4, <1>5 DEF IdsOf
  <2>2. ASSUME NEW x \in IdsOf(s) PROVE x \in IdsOf(r)
    BY <1>2, <1>4 DEF IdsOf
  <2>3. ASSUME NEW x \in IdsOf(t) PROVE x \in IdsOf(r)
    <3>1. PICK i \in 1..Len(t) : x = t[i].id
      BY <1>2 DEF IdsOf
    <3>2. Len(s) + i \in DOMAIN r /\ r[Len(s) + i].id = x
      BY <1>2, <1>4, <3>1
    <3> QED BY <3>2 DEF IdsOf
  <2> QED BY <2>1, <2>2, <2>3
<1>7. ASSUME NEW i \in 1..Len(s) PROVE IdsUpTo(s, i - 1) \subseteq IdsUpTo(r, i - 1)
  <2>1. \A j \in 1..(i - 1) : r[j] = s[j]
    BY <1>2, <1>4
  <2> QED BY <2>1 DEF IdsUpTo
<1>8. ASSUME NEW i \in 1..Len(t)
      PROVE  IdsOf(s) \cup IdsUpTo(t, i - 1) \subseteq IdsUpTo(r, Len(s) + i - 1)
  <2>1. ASSUME NEW x \in IdsOf(s) PROVE x \in IdsUpTo(r, Len(s) + i - 1)
    <3>1. PICK j \in 1..Len(s) : x = s[j].id
      BY <1>2 DEF IdsOf
    <3>2. j \in 1..(Len(s) + i - 1) /\ r[j].id = x
      BY <1>2, <1>4, <3>1
    <3> QED BY <3>2 DEF IdsUpTo
  <2>2. ASSUME NEW x \in IdsUpTo(t, i - 1) PROVE x \in IdsUpTo(r, Len(s) + i - 1)
    <3>1. PICK j \in 1..(i - 1) : x = t[j].id
      BY DEF IdsUpTo
    <3>2. j \in 1..Len(t) /\ Len(s) + j \in 1..(Len(s) + i - 1)
      BY <1>2, <3>1
    <3>3. r[Len(s) + j].id = x
      BY <1>4, <3>1, <3>2
    <3> QED BY <3>2, <3>3 DEF IdsUpTo
  <2> QED BY <2>1, <2>2
<1>9. ASSUME NEW i \in DOMAIN r
      PROVE  IsOp(r[i]) /\ Needed(r[i]) \subseteq S \cup IdsUpTo(r, i - 1)
  <2>1. CASE i \in 1..Len(s)
    <3>1. IsOp(s[i]) /\ Needed(s[i]) \subseteq S \cup IdsUpTo(s, i - 1) /\ r[i] = s[i]
      BY <2>1, <1>2, <1>4 DEF InOrder
    <3> QED BY <3>1, <2>1, <1>7
  <2>2. CASE i \notin 1..Len(s)
    <3>1. PICK j \in 1..Len(t) : i = Len(s) + j
      BY <2>2, <1>5
    <3>2. /\ IsOp(t[j]) /\ Needed(t[j]) \subseteq (S \cup IdsOf(s)) \cup IdsUpTo(t, j - 1)
          /\ r[i] = t[j]
      BY <3>1, <1>2, <1>4 DEF InOrder
    <3>3. IdsOf(s) \cup IdsUpTo(t, j - 1) \subseteq IdsUpTo(r, i - 1)
      BY <3>1, <1>8
    <3> QED BY <3>2, <3>3
  <2> QED BY <2>1, <2>2
<1>10. InOrder(r, S)
  BY <1>4, <1>9, SeqIsList DEF InOrder
<1>11. \A kinds : AllOf(s, kinds) /\ AllOf(t, kinds) => AllOf(r, kinds)
  BY <1>2, <1>4, <1>5 DEF AllOf
<1> QED BY <1>3, <1>6, <1>10, <1>11

(* No op, one op, two ops.                                                 *)
LEMMA NoOps ==
  ASSUME NEW S
  PROVE  InOrder(<< >>, S) /\ IdsOf(<< >>) = {} /\ \A kinds : AllOf(<< >>, kinds)
<1>1. << >> \in Seq({}) /\ DOMAIN << >> = {}
  OBVIOUS
<1> QED BY <1>1, SeqIsList DEF InOrder, IdsOf, AllOf

(* One op.                                                                 *)
LEMMA OneOp ==
  ASSUME NEW a, NEW S, IsOp(a), Needed(a) \subseteq S
  PROVE  /\ InOrder(<<a>>, S) /\ IdsOf(<<a>>) = {a.id}
         /\ \A kinds : a.kind \in kinds => AllOf(<<a>>, kinds)
<1>1. <<a>> \in Seq({a}) /\ DOMAIN <<a>> = {1} /\ <<a>>[1] = a
  OBVIOUS
<1> QED BY <1>1, SeqIsList DEF InOrder, IdsOf, AllOf

(* An op, and one that may need it.                                        *)
LEMMA TwoOps ==
  ASSUME NEW a, NEW b, NEW S, IsOp(a), Needed(a) \subseteq S, IsOp(b),
         Needed(b) \subseteq S \cup {a.id}
  PROVE  /\ InOrder(<<a, b>>, S) /\ IdsOf(<<a, b>>) = {a.id, b.id}
         /\ \A kinds : a.kind \in kinds /\ b.kind \in kinds => AllOf(<<a, b>>, kinds)
<1>1. <<a, b>> \in Seq({a, b}) /\ DOMAIN <<a, b>> = {1, 2} /\ <<a, b>>[1] = a /\ <<a, b>>[2] = b
  OBVIOUS
<1>2. IdsUpTo(<<a, b>>, 2 - 1) = {a.id}
  BY <1>1 DEF IdsUpTo
<1> QED BY <1>1, <1>2, SeqIsList DEF InOrder, IdsOf, AllOf

(* An element that Keep(s, S) lists comes after all those of S that come   *)
(* before it in s.                                                         *)
LEMMA KeepOrder ==
  ASSUME NEW A, NEW s \in Seq(A), NEW S, NEW p \in DOMAIN Keep(s, S)
  PROVE  \E i \in DOMAIN s :
           /\ Keep(s, S)[p] = s[i]
           /\ {s[j] : j \in 1..(i - 1)} \cap S \subseteq {Keep(s, S)[q] : q \in 1..(p - 1)}
<1>1. PICK f : /\ \A n \in 0..Len(s) : f[n] = KeepStep(f, s, S, n)
               /\ Keep(s, S) = f[Len(s)]
  BY KeepUnfold
<1>2. /\ Len(s) \in Nat /\ DOMAIN s = 1..Len(s)
      /\ \A i \in 1..Len(s) : s[i] \in A
  OBVIOUS
<1> DEFINE Upto(n) == {s[i] : i \in 1..n} \cap S
           Before(t, r) == {t[q] : q \in 1..(r - 1)}
           Ok(n) == /\ f[n] \in Seq(A)
                    /\ Range(f[n]) = Upto(n)
                    /\ \A r \in DOMAIN f[n] : \E i \in 1..n :
                         f[n][r] = s[i] /\ Upto(i - 1) \subseteq Before(f[n], r)
           Bad == {n \in 0..Len(s) : ~ Ok(n)}
<1>3. Ok(0)
  <2>1. f[0] = << >>
    BY <1>1, <1>2 DEF KeepStep
  <2>2. Range(<< >>) = {} /\ Upto(0) = {} /\ DOMAIN << >> = {}
    BY DEF Range
  <2> QED BY <2>1, <2>2
<1>4. ASSUME NEW n \in 1..Len(s), Ok(n - 1)
      PROVE  Ok(n)
  <2>1. f[n] = IF s[n] \in S THEN Append(f[n - 1], s[n]) ELSE f[n - 1]
    <3>1. n \in 0..Len(s) /\ n # 0
      BY <1>2
    <3>2. f[n] = KeepStep(f, s, S, n)
      BY <1>1, <3>1, Zenon
    <3> QED BY <3>1, <3>2 DEF KeepStep
  <2>2. 1..n = (1..(n - 1)) \cup {n}
    BY <1>2
  <2>3. Upto(n) = Upto(n - 1) \cup ({s[n]} \cap S)
    BY <2>2
  <2>4. s[n] \in A
    BY <1>2
  <2>5. CASE s[n] \in S
    <3>1. PICK t \in Seq(A) : t = f[n - 1]
      BY <1>4
    <3>2. PICK u : u = Append(t, s[n])
      OBVIOUS
    <3>3. u \in Seq(A) /\ Range(u) = Range(t) \cup {s[n]}
      BY <2>4, <3>2, AppendElements
    <3>4. /\ Len(t) \in Nat /\ DOMAIN t = 1..Len(t) /\ DOMAIN u = 1..(Len(t) + 1)
          /\ u[Len(t) + 1] = s[n] /\ \A q \in 1..Len(t) : u[q] = t[q]
      BY <2>4, <3>2
    <3>5. ASSUME NEW r \in DOMAIN u
          PROVE  \E i \in 1..n : u[r] = s[i] /\ Upto(i - 1) \subseteq Before(u, r)
      <4>1. CASE r \in 1..Len(t)
        <5>1. PICK i \in 1..(n - 1) : t[r] = s[i] /\ Upto(i - 1) \subseteq Before(t, r)
          <6> HIDE DEF Upto, Before
          <6>1. \A x \in DOMAIN t : \E i \in 1..(n - 1) :
                  t[x] = s[i] /\ Upto(i - 1) \subseteq Before(t, x)
            BY <1>4, <3>1
          <6> QED BY <3>4, <4>1, <6>1
        <5>2. Before(u, r) = Before(t, r)
          <6>1. \A q \in 1..(r - 1) : q \in 1..Len(t) /\ u[q] = t[q]
            BY <3>4, <4>1
          <6> QED BY <6>1
        <5>3. i \in 1..n /\ u[r] = s[i]
          BY <5>1, <3>4, <4>1, <2>2
        <5> HIDE DEF Upto, Before
        <5> QED BY <5>1, <5>2, <5>3
      <4>2. CASE r = Len(t) + 1
        <5>1. Range(t) = Upto(n - 1)
          BY <1>4, <3>1
        <5>2. Range(t) = Before(u, r)
          <6>1. 1..(r - 1) = DOMAIN t /\ \A q \in DOMAIN t : u[q] = t[q]
            BY <3>4, <4>2
          <6> QED BY <6>1 DEF Range
        <5>3. n \in 1..n /\ u[r] = s[n]
          BY <3>4, <4>2
        <5> HIDE DEF Upto, Before
        <5> QED BY <5>1, <5>2, <5>3
      <4> QED BY <3>4, <4>1, <4>2
    <3>6. Range(u) = Upto(n)
      <4>1. Range(t) = Upto(n - 1)
        BY <1>4, <3>1
      <4> HIDE DEF Upto
      <4> QED BY <2>3, <2>5, <3>3, <4>1
    <3>7. f[n] = u
      BY <2>1, <2>5, <3>1, <3>2
    <3> HIDE DEF Upto, Before
    <3> QED BY <3>3, <3>5, <3>6, <3>7
  <2>6. CASE s[n] \notin S
    <3>1. Upto(n) = Upto(n - 1) /\ f[n] = f[n - 1]
      BY <2>1, <2>3, <2>6
    <3> HIDE DEF Upto, Before
    <3>2. \A i \in 1..(n - 1) : i \in 1..n
      OBVIOUS
    <3> QED BY <1>4, <3>1, <3>2
  <2> QED BY <2>5, <2>6
<1>5. ASSUME Bad # {} PROVE FALSE
  <2> HIDE DEF Ok
  <2>1. Bad \in SUBSET Nat
    BY <1>2
  <2>2. PICK m \in Bad : \A k \in Bad : m <= k
    BY <2>1, <1>5, SmallestNat
  <2>3. m # 0
    BY <1>3
  <2>4. m \in 1..Len(s) /\ m - 1 \in 0..Len(s)
    BY <2>1, <2>3, <1>2
  <2>5. Ok(m - 1)
    BY <2>1, <2>2, <2>4
  <2>6. Ok(m)
    BY <1>4, <2>4, <2>5
  <2> QED BY <2>6
<1>6. Ok(Len(s))
  <2> HIDE DEF Ok
  <2> QED BY <1>2, <1>5
<1>7. PICK i \in 1..Len(s) : f[Len(s)][p] = s[i] /\ Upto(i - 1) \subseteq Before(f[Len(s)], p)
  BY <1>1, <1>6
<1> QED BY <1>1, <1>2, <1>7

(* add_op: an op that is there already is left out.                        *)
LEMMA AddOpsInOrder ==
  ASSUME NEW s, NEW o, InOrder(o, IdsOf(s))
  PROVE  \E t : /\ N!AddOps(s, o) = s \o t /\ InOrder(t, IdsOf(s))
                /\ IdsOf(s) \cup IdsOf(t) = IdsOf(s) \cup IdsOf(o)
                /\ \A i \in DOMAIN t : t[i] \in ToSet(o)
                /\ \A i, j \in DOMAIN t : t[i].id = t[j].id => i = j
<1> DEFINE D == DOMAIN o
           fresh == {i \in D : /\ o[i].id \notin IdsOf(s)
                               /\ \A j \in 1..(i - 1) : o[j].id # o[i].id}
           idx == [i \in D |-> i]
           added == Keep(idx, fresh)
           new == [i \in DOMAIN added |-> o[added[i]]]
<1>1. N!AddOps(s, o) = s \o new
  BY DEF N!AddOps, N!IdsOf, IdsOf, N!Keep, Keep
<1>2. /\ Len(o) \in Nat /\ D = 1..Len(o)
      /\ \A i \in D : IsOp(o[i]) /\ Needed(o[i]) \subseteq IdsOf(s) \cup IdsUpTo(o, i - 1)
  BY DEF InOrder, IsList
<1> HIDE DEF D
<1>3. idx \in Seq(D) /\ DOMAIN idx = D /\ \A i \in D : idx[i] = i
  BY <1>2
<1>4. Range(idx) = D
  BY <1>3 DEF Range
<1> HIDE DEF idx
<1>5. fresh \subseteq D
  OBVIOUS
<1>6. \A i \in fresh : o[i].id \notin IdsOf(s)
  OBVIOUS
<1>14. \A i, j \in fresh : o[i].id = o[j].id => i = j
  <2> SUFFICES ASSUME NEW i \in fresh, NEW j \in fresh, o[i].id = o[j].id, i < j PROVE FALSE
    BY <1>2, <1>5
  <2> QED BY <1>2
<1>7. ASSUME NEW i \in D, o[i].id \notin IdsOf(s)
      PROVE  \E j \in fresh : j <= i /\ o[j].id = o[i].id
  <2> DEFINE T == {j \in D : o[j].id = o[i].id}
  <2>1. T \in SUBSET Nat /\ i \in T
    BY <1>2
  <2> HIDE DEF T
  <2>2. PICK j \in T : \A k \in T : j <= k
    BY <2>1, SmallestNat
  <2>3. j \in D /\ o[j].id = o[i].id /\ j <= i
    BY <2>1, <2>2 DEF T
  <2>4. ASSUME NEW k \in 1..(j - 1) PROVE o[k].id # o[j].id
    <3>1. k \in D /\ ~(j <= k)
      BY <1>2, <2>3
    <3> QED BY <2>2, <2>3, <3>1 DEF T
  <2>5. j \in fresh
    BY <1>7, <2>3, <2>4
  <2> QED BY <2>3, <2>5
<1> HIDE DEF fresh
<1>8. added \in Seq(D) /\ Range(added) = fresh /\ IsInjective(added)
  <2>1. /\ Keep(idx, fresh) \in Seq(D) /\ Range(Keep(idx, fresh)) = Range(idx) \cap fresh
        /\ IsInjective(idx) => IsInjective(Keep(idx, fresh))
    BY <1>3, KeepElements
  <2>2. IsInjective(idx)
    BY <1>3 DEF IsInjective
  <2> QED BY <1>4, <1>5, <2>1, <2>2
<1>9. ASSUME NEW p \in DOMAIN added
      PROVE  /\ added[p] \in D
             /\ \A j \in fresh : j < added[p] => \E q \in 1..(p - 1) : added[q] = j
  <2>1. PICK i \in DOMAIN idx :
          /\ added[p] = idx[i]
          /\ {idx[j] : j \in 1..(i - 1)} \cap fresh \subseteq {added[q] : q \in 1..(p - 1)}
    BY <1>3, KeepOrder
  <2> HIDE DEF added
  <2>2. i \in D /\ added[p] = i
    BY <1>3, <2>1
  <2>3. ASSUME NEW j \in fresh, j < added[p] PROVE \E q \in 1..(p - 1) : added[q] = j
    <3>1. j \in 1..(i - 1) /\ j \in D /\ idx[j] = j
      BY <1>2, <1>3, <1>5, <2>2, <2>3
    <3> QED BY <2>1, <3>1
  <2> QED BY <2>2, <2>3
<1> HIDE DEF added
<1>10. /\ Len(added) \in Nat /\ DOMAIN added = 1..Len(added)
       /\ new \in Seq(ToSet(o)) /\ DOMAIN new = 1..Len(added)
       /\ \A p \in 1..Len(added) : new[p] = o[added[p]]
  <2>1. Len(added) \in Nat /\ DOMAIN added = 1..Len(added)
    BY <1>8
  <2>2. \A p \in DOMAIN added : o[added[p]] \in ToSet(o)
    BY <1>9 DEF ToSet, D
  <2> QED BY <2>1, <2>2
<1> HIDE DEF new
<1>11. ASSUME NEW p \in DOMAIN new
       PROVE  IsOp(new[p]) /\ Needed(new[p]) \subseteq IdsOf(s) \cup IdsUpTo(new, p - 1)
  <2>1. p \in DOMAIN added /\ added[p] \in D /\ new[p] = o[added[p]]
    BY <1>9, <1>10
  <2>2. /\ IsOp(new[p])
        /\ Needed(new[p]) \subseteq IdsOf(s) \cup IdsUpTo(o, added[p] - 1)
    BY <1>2, <2>1
  <2>3. ASSUME NEW x \in IdsUpTo(o, added[p] - 1), x \notin IdsOf(s)
        PROVE  x \in IdsUpTo(new, p - 1)
    <3>1. PICK i \in 1..(added[p] - 1) : x = o[i].id
      BY DEF IdsUpTo
    <3>2. i \in D /\ i < added[p]
      BY <1>2, <2>1, <3>1
    <3>3. PICK j \in fresh : j <= i /\ o[j].id = x
      BY <1>7, <2>3, <3>1, <3>2
    <3>4. j < added[p]
      BY <1>2, <1>5, <2>1, <3>2, <3>3
    <3>5. PICK q \in 1..(p - 1) : added[q] = j
      BY <1>9, <2>1, <3>3, <3>4
    <3>6. q \in 1..Len(added) /\ new[q].id = x
      BY <1>10, <2>1, <3>3, <3>5
    <3> QED BY <3>5, <3>6 DEF IdsUpTo
  <2> QED BY <2>2, <2>3
<1>12. InOrder(new, IdsOf(s))
  BY <1>10, <1>11, SeqIsList DEF InOrder
<1>13. IdsOf(s) \cup IdsOf(new) = IdsOf(s) \cup IdsOf(o)
  <2>1. ASSUME NEW x \in IdsOf(new) PROVE x \in IdsOf(o)
    BY <1>9, <1>10 DEF IdsOf, D
  <2>2. ASSUME NEW x \in IdsOf(o), x \notin IdsOf(s) PROVE x \in IdsOf(new)
    <3>1. PICK i \in D : x = o[i].id
      BY DEF IdsOf, D
    <3>2. PICK j \in fresh : o[j].id = x
      BY <1>7, <2>2, <3>1
    <3>3. PICK p \in DOMAIN added : added[p] = j
      BY <1>8, <3>2 DEF Range
    <3>4. p \in DOMAIN new /\ new[p].id = x
      BY <1>10, <3>2, <3>3
    <3> QED BY <3>4 DEF IdsOf
  <2> QED BY <2>1, <2>2
<1>15. \A i \in DOMAIN new : new[i] \in ToSet(o)
  BY <1>9, <1>10 DEF ToSet, D
<1>16. ASSUME NEW i \in DOMAIN new, NEW j \in DOMAIN new, new[i].id = new[j].id PROVE i = j
  <2>1. added[i] \in fresh /\ added[j] \in fresh
    BY <1>8, <1>10 DEF Range
  <2>2. added[i] = added[j]
    BY <1>10, <1>14, <1>16, <2>1
  <2> QED BY <1>8, <1>10, <2>2 DEF IsInjective
<1> QED BY <1>1, <1>12, <1>13, <1>15, <1>16

-----------------------------------------------------------------------------
(* An op as make functions build it.                                       *)
Fields == DOMAIN Op(NoId, "")
Shaped(op, id, kind) == DOMAIN op = Fields /\ op.id = id /\ op.kind = kind

(* Op gives every field; the parsers and the graph share it.               *)
LEMMA OpShaped ==
  ASSUME NEW id, NEW kind
  PROVE  /\ Shaped(Op(id, kind), id, kind) /\ Op(id, kind).inputs = {}
         /\ Op(id, kind).args = << >>
         /\ Op(id, kind).name = ""
         /\ Y!Op(id, kind) = Op(id, kind) /\ N!Op(id, kind) = Op(id, kind)
BY DEF Shaped, Fields, Op, Y!Op, N!Op, Y!NoId, N!NoId, NoId

(* A MessageOp of the YAML parser (_emit_message_op).                      *)
LEMMA MessageShape ==
  ASSUME NEW id, NEW inputs, NEW roles, NEW contents
  PROVE  /\ Shaped(Y!MessageOp(id, inputs, roles, contents), id, "MessageOp")
         /\ Y!MessageOp(id, inputs, roles, contents).args = contents
<1>1. /\ Shaped(Y!Op(id, "MessageOp"), id, "MessageOp")
      /\ {"args", "inputs", "roles"} \subseteq Fields
  BY OpShaped DEF Fields, Op
<1> QED BY <1>1 DEF Shaped, Y!MessageOp, Fields, Op

(* A FormatOp of the YAML parser (_emit_format_op).                        *)
LEMMA FormatShape ==
  ASSUME NEW id, NEW args, NEW bare
  PROVE  /\ Shaped(Y!FormatOp(id, args, bare), id, "FormatOp")
         /\ Y!FormatOp(id, args, bare).args = args
<1>1. /\ Shaped(Y!Op(id, "FormatOp"), id, "FormatOp")
      /\ {"args", "inputs", "bare"} \subseteq Fields
  BY OpShaped DEF Fields, Op
<1> QED BY <1>1 DEF Shaped, Y!FormatOp, Fields, Op

(* The op of an entry, before the fields of its kind.                      *)
LEMMA EntryShape ==
  ASSUME NEW e, NEW known
  PROVE  /\ Shaped(Y!EntryOp(e, known), known[e.id], e.op)
         /\ Y!EntryOp(e, known).inputs = {known[u] : u \in ToSet(e.inputs)}
<1>1. Shaped(Y!Op(known[e.id], e.op), known[e.id], e.op)
  <2>1. \A id, kind : Shaped(Y!Op(id, kind), id, kind)
    BY OpShaped
  <2> QED BY <2>1
<1>2. "inputs" \in Fields /\ "id" \in Fields /\ "kind" \in Fields
  BY DEF Fields, Op
<1> QED BY <1>1, <1>2 DEF Shaped, Y!EntryOp, Y!ToSet, ToSet

(* The op of a prompt has its message for its argument.                    *)
LEMMA LLMShape ==
  ASSUME NEW e, NEW known, NEW m
  PROVE  Shaped(Y!LLMOp(e, known, m), known[e.id], e.op) /\ Y!LLMOp(e, known, m).args = <<m>>
<1>1. /\ Shaped(Y!EntryOp(e, known), known[e.id], e.op)
      /\ {"id", "kind", "inputs", "args", "history", "fields", "table", "rowwise", "columns"}
           \subseteq Fields
  BY EntryShape DEF Fields, Op
<1> QED BY <1>1 DEF Shaped, Y!LLMOp

(* A visit that may emit: what the document names before u has been        *)
(* emitted.                                                                *)
Visit(u) ==
  /\ Document /\ KeepsRules /\ u \in Built
  /\ InOrder(ops, {})
  /\ \A v \in Parts \ pending : v \in DOMAIN ids /\ ids[v] \in IdsOf(ops)
  /\ Needs(u) \cap pending = {}
  /\ IF IsYaml THEN ids = Y!Register(wf)
     ELSE Needs(u) \subseteq DOMAIN ids /\ DOMAIN ids \subseteq Parts \ pending

(* The ops a visit of u is to make: in order after those emitted, among    *)
(* them the one the document calls u.                                      *)
Makes(made, id) ==
  /\ made.err = "" /\ InOrder(made.ops, IdsOf(ops)) /\ AllOf(made.ops, BodyKinds)
  /\ id \in IdsOf(made.ops)

(* What is known of an entry that may be emitted.                          *)
YamlReady(u, e) ==
  /\ IsYaml /\ u \notin InputParts
  /\ e = Part(u) /\ e.id = u /\ e.op \in Y!SupportedOps /\ KindOf(u) = e.op
  /\ IsList(e.messages) /\ PartFits(u)
  /\ DOMAIN ids = Parts /\ ids[u] = <<Y!OpIdPrefix[e.op], u>>
  /\ \A v \in Uses(u) \cup ToSet(e.inputs) : v \in Parts /\ ids[v] \in IdsOf(ops)

(* An entry visited that need not wait is ready: what it uses was emitted. *)
LEMMA EntryReady ==
  ASSUME NEW u, Visit(u), IsYaml
  PROVE  YamlReady(u, Part(u))
<1> DEFINE e == Part(u)
<1>1. /\ wf \in YamlFlows /\ Checked /\ Closed /\ PartFits(u) /\ u \notin InputParts
      /\ Declared(u) = Needs(u) /\ Needs(u) = ToSet(e.inputs)
  <2>1. wf \in YamlFlows /\ Checked /\ Closed /\ PartFits(u) /\ u \in Built
    BY DEF Visit, Document, IsYaml, KeepsRules, WellFormed, Checked
  <2> QED BY <2>1, NamesMean DEF Needs, Part
<1>2. PICK i \in DOMAIN wf.ops : wf.ops[i].id = u /\ e = wf.ops[i]
  <2>1. \E i \in DOMAIN wf.ops : wf.ops[i].id = u
    BY DEF Visit, Built, Y!EntryIds
  <2> QED BY <2>1 DEF Part, Y!EntryOf
<1>3. e.id = u /\ e.op \in Y!SupportedOps /\ IsList(e.messages) /\ KindOf(u) = e.op
  <2>1. e \in ToSet(wf.ops)
    BY <1>2 DEF ToSet
  <2> QED BY <1>1, <1>2, <2>1, DocumentAssumption DEF Checked, Y!IdsOK, KindOf
<1>4. DOMAIN ids = Parts /\ ids[u] = <<Y!OpIdPrefix[e.op], u>>
  <2>1. ids = Y!Register(wf)
    BY DEF Visit
  <2>2. u \in Built /\ u \notin Y!ToSet(wf.inputs) /\ Y!EntryOf(wf, u) = e
    BY <1>1 DEF Visit, InputParts, Y!ToSet, ToSet, Part
  <2> QED BY <2>1, <2>2
       DEF Y!Register, Parts, Built, InputParts, Y!ToSet, ToSet, Y!MakeId
<1>5. \A v \in Uses(u) \cup ToSet(e.inputs) : v \in Parts /\ ids[v] \in IdsOf(ops)
  <2>1. Uses(u) \subseteq Declared(u) /\ Declared(u) \subseteq Parts
    BY <1>1 DEF Closed, Visit
  <2>2. Declared(u) \cap pending = {}
    BY <1>1 DEF Visit
  <2> QED BY <1>1, <2>1, <2>2 DEF Visit
<1> QED BY <1>1, <1>3, <1>4, <1>5 DEF YamlReady

(* The emit functions that make one op.                                    *)
LEMMA YamlMakesOne ==
  ASSUME NEW u, NEW e, YamlReady(u, e),
         e.op \in {"DataOp", "DataRetrievalOp", "FormatOp", "LambdaOp"}
  PROVE  Makes(Y!BuildOpDict(e, ids, ops), ids[u])
<1> DEFINE o == Y!EntryOp(e, ids)
<1>1. /\ Shaped(o, ids[u], e.op) /\ o.inputs = {ids[v] : v \in ToSet(e.inputs)}
      /\ ids[u][1] = Y!OpIdPrefix[e.op]
  BY EntryShape DEF YamlReady
<1>2. o.inputs \subseteq IdsOf(ops)
  BY <1>1 DEF YamlReady
<1>3. /\ {"inputs", "args", "bare", "params", "mode", "sample", "readonly"} \subseteq Fields
      /\ "id" \in Fields /\ "kind" \in Fields
  BY DEF Fields, Op
<1>4. ids[u][1] \notin {"text", "message"}
  BY <1>1 DEF Y!OpIdPrefix
<1>5. ASSUME NEW x, Shaped(x, ids[u], e.op), LookedUp(x) \subseteq IdsOf(ops)
      PROVE  Makes(Y!Emitted(<<x>>), ids[u])
  <2>1. IsOp(x) /\ Needed(x) \subseteq IdsOf(ops) /\ x.kind \in BodyKinds
    BY <1>4, <1>5 DEF Shaped, IsOp, Fields, Needed, OpKinds, BodyKinds, RuntimeKinds
  <2> QED BY <1>5, <2>1, OneOp DEF Makes, Y!Emitted, Shaped
<1> HIDE DEF o
<1>6. CASE e.op = "DataOp"
  <2>1. Shaped([o EXCEPT !.inputs = {}], ids[u], e.op)
    BY <1>1, <1>3 DEF Shaped
  <2>2. LookedUp([o EXCEPT !.inputs = {}]) = {}
    BY <1>6, <2>1 DEF Shaped, LookedUp, LLMKinds
  <2> QED BY <1>5, <1>6, <2>1, <2>2 DEF Y!BuildOpDict, Y!EmitDataOp, o
<1>7. CASE e.op = "LambdaOp"
  <2>1. LookedUp(o) = o.inputs
    BY <1>1, <1>7 DEF Shaped, LookedUp, LLMKinds
  <2> QED BY <1>1, <1>2, <1>5, <1>7, <2>1 DEF Y!BuildOpDict, Y!EmitLambdaOp, o
<1>8. CASE e.op = "FormatOp"
  <2> DEFINE x == [o EXCEPT !.args = Y!ResolveAll(ids, e.kwargs), !.bare = e.bare]
  <2>1. Shaped(x, ids[u], e.op) /\ x.args = Y!ResolveAll(ids, e.kwargs)
    BY <1>1, <1>3 DEF Shaped
  <2>2. \A i \in DOMAIN e.kwargs : e.kwargs[i] \in Uses(u)
    <3>1. \A i \in DOMAIN e.kwargs : e.kwargs[i] \in PromptUses(u)
      BY <1>8 DEF YamlReady, PromptUses, YamlPromptUses, Prompts, ToSet
    <3> QED BY <3>1 DEF Uses, YamlReady
  <2>3. \A i \in DOMAIN e.kwargs : Y!Resolve(ids, e.kwargs[i]) \in IdsOf(ops)
    BY <2>2 DEF YamlReady, Y!Resolve
  <2>4. ToSet(x.args) \subseteq IdsOf(ops)
    <3>1. PICK a : a = Y!ResolveAll(ids, e.kwargs)
      OBVIOUS
    <3>2. DOMAIN a = DOMAIN e.kwargs /\ \A i \in DOMAIN a : a[i] = Y!Resolve(ids, e.kwargs[i])
      BY <3>1 DEF Y!ResolveAll
    <3>3. ToSet(a) \subseteq IdsOf(ops)
      BY <2>3, <3>2 DEF ToSet
    <3> QED BY <2>1, <3>1, <3>3
  <2>5. LookedUp(x) \subseteq IdsOf(ops)
    BY <1>8, <2>1, <2>4 DEF LookedUp, Shaped, LLMKinds
  <2> HIDE DEF x
  <2> QED BY <1>5, <1>8, <2>1, <2>5 DEF Y!BuildOpDict, Y!EmitFormatOp, o, x
<1>9. CASE e.op = "DataRetrievalOp"
  <2> DEFINE x == [o EXCEPT !.params = Y!ResolveDataSpec(e, ids),
                            !.mode = e.mode, !.sample = e.sample,
                            !.readonly = e.readonly]
  <2>1. Shaped(x, ids[u], e.op) /\ x.inputs = o.inputs
    BY <1>1, <1>3 DEF Shaped
  <2>2. LookedUp(x) \subseteq IdsOf(ops)
    BY <1>2, <1>9, <2>1 DEF LookedUp, Shaped, LLMKinds
  <2>3. \A i \in DOMAIN e.params : e.params[i].node \in DOMAIN ids \cup {""}
    <3>1. \A i \in DOMAIN e.params : e.params[i].node \in ParamUses(u) \cup {""}
      BY <1>9 DEF YamlReady, ParamUses, References, ToSet
    <3> QED BY <3>1 DEF Uses, YamlReady
  <2> HIDE DEF x
  <2> QED BY <1>5, <1>9, <2>1, <2>2, <2>3 DEF Y!BuildOpDict, Y!EmitDataRetrievalOp, o, x
<1> QED BY <1>6, <1>7, <1>8, <1>9

(* Contents that are emitted FormatOps or not, and the implicit FormatOp.  *)
LEMMA YamlMakesImage ==
  ASSUME NEW u, NEW e, YamlReady(u, e), e.op = "ImageGenerationOp"
  PROVE  Makes(Y!BuildOpDict(e, ids, ops), ids[u])
<1> DEFINE o == Y!EntryOp(e, ids)
           image(content) == [o EXCEPT !.inputs = {content}, !.args = <<content>>]
           format0 == Y!FormatOp(Y!MakeId("format", e.id), <<ids[e.content]>>, TRUE)
<1>1. /\ Shaped(o, ids[u], e.op) /\ ids[u][1] = "imagegen"
      /\ {"inputs", "args"} \subseteq Fields /\ "id" \in Fields /\ "kind" \in Fields
  BY EntryShape DEF YamlReady, Fields, Op, Y!OpIdPrefix
<1>2. e.content \in DOMAIN ids /\ ids[e.content] \in IdsOf(ops)
  <2>1. WholeUses(u) # {} /\ WholeUses(u) = {e.content} \ {""}
    BY DEF YamlReady, PartFits, WholeUses
  <2>2. e.content \in Uses(u)
    BY <2>1 DEF Uses, YamlReady
  <2> QED BY <2>2 DEF YamlReady
<1>3. ASSUME NEW c
      PROVE  /\ Shaped(image(c), ids[u], e.op) /\ IsOp(image(c)) /\ Needed(image(c)) = {c}
             /\ image(c).kind \in BodyKinds
  <2>1. Shaped(image(c), ids[u], e.op) /\ image(c).args = <<c>>
    BY <1>1 DEF Shaped
  <2> HIDE DEF image
  <2>2. ToSet(image(c).args) = {c}
    BY <2>1 DEF ToSet
  <2> QED BY <1>1, <2>1, <2>2
          DEF Shaped, IsOp, Needed, Fields, LookedUp, LLMKinds, OpKinds, BodyKinds, RuntimeKinds
<1>4. /\ Shaped(format0, <<"format", u>>, "FormatOp") /\ IsOp(format0)
      /\ format0.kind \in BodyKinds
      /\ Needed(format0) = {ids[e.content]}
  <2>0. Y!MakeId("format", e.id) = <<"format", u>> /\ <<"format", u>>[1] = "format"
    BY DEF Y!MakeId, YamlReady
  <2>1. Shaped(format0, <<"format", u>>, "FormatOp") /\ format0.args = <<ids[e.content]>>
    <3>1. PICK id, args, x : /\ id = <<"format", u>> /\ args = <<ids[e.content]>>
                             /\ x = Y!FormatOp(id, args, TRUE)
      OBVIOUS
    <3>2. Shaped(x, id, "FormatOp") /\ x.args = args
      BY <3>1, FormatShape
    <3> QED BY <2>0, <3>1, <3>2
  <2> HIDE DEF format0
  <2>2. ToSet(format0.args) = {ids[e.content]}
    BY <2>1 DEF ToSet
  <2> QED BY <2>0, <2>1, <2>2
          DEF Shaped, IsOp, Needed, Fields, LookedUp, LLMKinds, OpKinds, BodyKinds, RuntimeKinds
<1>5. Makes(Y!Emitted(<<image(ids[e.content])>>), ids[u])
  <2>1. image(ids[e.content]).id = ids[u]
    BY <1>3 DEF Shaped
  <2> HIDE DEF image
  <2> QED BY <1>2, <1>3, <2>1, OneOp DEF Makes, Y!Emitted
<1>6. Makes(Y!Emitted(<<format0, image(format0.id)>>), ids[u])
  <2>1. image(format0.id).id = ids[u]
    BY <1>3 DEF Shaped
  <2> HIDE DEF image, format0
  <2>2. /\ Needed(format0) \subseteq IdsOf(ops)
        /\ Needed(image(format0.id)) \subseteq IdsOf(ops) \cup {format0.id}
    BY <1>2, <1>3, <1>4
  <2>3. PICK a, b : a = format0 /\ b = image(format0.id)
    OBVIOUS
  <2>4. /\ InOrder(<<a, b>>, IdsOf(ops)) /\ IdsOf(<<a, b>>) = {a.id, b.id}
        /\ AllOf(<<a, b>>, BodyKinds)
    BY <1>3, <1>4, <2>2, <2>3, TwoOps
  <2> QED BY <2>1, <2>3, <2>4 DEF Makes, Y!Emitted
<1> HIDE DEF image, format0
<1>7. Y!BuildOpDict(e, ids, ops) = Y!EmitImageGenerationOp(e, ids, ops)
  BY DEF Y!BuildOpDict
<1> QED BY <1>2, <1>5, <1>6, <1>7 DEF Y!EmitImageGenerationOp, image, format0, o

(* An EmbeddingOp is made, and needs its content only.                     *)
LEMMA YamlMakesEmbedding ==
  ASSUME NEW u, NEW e, YamlReady(u, e), e.op = "EmbeddingOp"
  PROVE  Makes(Y!BuildOpDict(e, ids, ops), ids[u])
<1> DEFINE o == Y!EntryOp(e, ids)
           x == [o EXCEPT !.inputs = {ids[e.content]}, !.args = <<ids[e.content]>>]
<1>1. /\ Shaped(o, ids[u], e.op) /\ ids[u][1] = "embedding"
      /\ {"inputs", "args"} \subseteq Fields /\ "id" \in Fields /\ "kind" \in Fields
  BY EntryShape DEF YamlReady, Fields, Op, Y!OpIdPrefix
<1>2. e.content \in DOMAIN ids /\ ids[e.content] \in IdsOf(ops)
  <2>1. WholeUses(u) # {} /\ WholeUses(u) = {e.content} \ {""}
    BY DEF YamlReady, PartFits, WholeUses
  <2>2. e.content \in Uses(u)
    BY <2>1 DEF Uses, YamlReady
  <2> QED BY <2>2 DEF YamlReady
<1>3. Shaped(x, ids[u], e.op) /\ x.args = <<ids[e.content]>>
  BY <1>1 DEF Shaped
<1> HIDE DEF x
<1>4. ToSet(x.args) = {ids[e.content]}
  BY <1>3 DEF ToSet
<1>5. IsOp(x) /\ Needed(x) \subseteq IdsOf(ops) /\ x.kind \in BodyKinds
  BY <1>1, <1>2, <1>3, <1>4
       DEF Shaped, IsOp, Needed, Fields, LookedUp, LLMKinds, OpKinds, BodyKinds, RuntimeKinds
<1>6. Makes(Y!Emitted(<<x>>), ids[u])
  BY <1>3, <1>5, OneOp DEF Makes, Y!Emitted, Shaped
<1> QED BY <1>2, <1>6 DEF Y!BuildOpDict, Y!EmitEmbeddingOp, x, o

(* The contents of a message: an op that is emitted, or a text.            *)
LEMMA YamlMakesMessage ==
  ASSUME NEW u, NEW e, YamlReady(u, e), e.op = "MessageOp"
  PROVE  Makes(Y!BuildOpDict(e, ids, ops), ids[u])
<1> DEFINE contents == [i \in DOMAIN e.messages |-> Y!Resolve(ids, e.messages[i].content)]
           roles == [i \in DOMAIN e.messages |-> e.messages[i].role]
           x == Y!MessageOp(ids[e.id], Y!EntryOp(e, ids).inputs, roles, contents)
<1>1. Shaped(x, ids[u], "MessageOp") /\ x.args = contents /\ ids[u][1] = "message"
  BY MessageShape DEF YamlReady, Y!OpIdPrefix
<1>2. ASSUME NEW i \in DOMAIN e.messages
      PROVE  contents[i] \in IdsOf(ops) \/ contents[i][1] = "text"
  <2>1. CASE e.messages[i].content \in DOMAIN ids
    <3>1. e.messages[i].content \in PromptUses(u)
      BY <2>1 DEF YamlReady, PromptUses, YamlPromptUses, Prompts, Contents
    <3>2. e.messages[i].content \in Uses(u)
      BY <3>1 DEF Uses, YamlReady
    <3> QED BY <2>1, <3>2 DEF Y!Resolve, YamlReady
  <2>2. CASE e.messages[i].content \notin DOMAIN ids
    BY <2>2 DEF Y!Resolve, Y!Text
  <2> QED BY <2>1, <2>2
<1>3. \A a \in ToSet(contents) : a \in IdsOf(ops) \/ a[1] = "text"
  BY <1>2 DEF ToSet
<1> HIDE DEF x, contents
<1>4. IsOp(x) /\ Needed(x) \subseteq IdsOf(ops) /\ x.kind \in BodyKinds
  BY <1>1, <1>3
       DEF Shaped, IsOp, Needed, Fields, LookedUp, LLMKinds, OpKinds, BodyKinds, RuntimeKinds
<1>5. Makes(Y!Emitted(<<x>>), ids[u])
  BY <1>1, <1>4, OneOp DEF Makes, Y!Emitted, Shaped
<1>6. e.messages # << >>
  BY DEF YamlReady, PartFits, PromptFits, Prompts
<1> QED BY <1>5, <1>6 DEF Y!BuildOpDict, Y!EmitMessageOp, x, contents, YamlReady

-----------------------------------------------------------------------------
(* The op of a prompt looks up its message, and nothing else.              *)
LEMMA LLMNeeds ==
  ASSUME NEW u, NEW e, YamlReady(u, e), e.op \in Prompts, NEW m
  PROVE  /\ IsOp(Y!LLMOp(e, ids, m)) /\ Needed(Y!LLMOp(e, ids, m)) = {m}
         /\ Y!LLMOp(e, ids, m).id = ids[u] /\ Y!LLMOp(e, ids, m).kind \in BodyKinds
<1>1. PICK x : x = Y!LLMOp(e, ids, m)
  OBVIOUS
<1>2. Shaped(x, ids[u], e.op) /\ x.args = <<m>>
  <2>1. e.id = u
    BY DEF YamlReady
  <2>2. Shaped(x, ids[e.id], e.op) /\ x.args = <<m>>
    BY <1>1, LLMShape
  <2> QED BY <2>1, <2>2
<1>3. ToSet(x.args) = {m}
  BY <1>2 DEF ToSet
<1>4. ids[u][1] \in {"llm", "llmvision"}
  BY DEF YamlReady, Y!OpIdPrefix, Prompts
<1> QED BY <1>1, <1>2, <1>3, <1>4
     DEF Shaped, IsOp, Needed, Fields, LookedUp, LLMKinds, OpKinds, BodyKinds, RuntimeKinds,
         Prompts

(* The list of messages that an entry names has been emitted.              *)
LEMMA MessageEmitted ==
  ASSUME NEW u, NEW e, Visit(u), YamlReady(u, e), e.op \in Prompts, e.messagesRef # ""
  PROVE  /\ e.messagesRef \in DOMAIN ids /\ ids[e.messagesRef] \in IdsOf(ops)
         /\ Y!IsEmitted(ops, ids[e.messagesRef], "MessageOp")
<1> DEFINE v == e.messagesRef
<1>1. v \in PromptUses(u) /\ KindOf(v) = "MessageOp"
  BY DEF YamlReady, PromptUses, YamlPromptUses, PartFits, PromptFits
<1>2. v \in Parts /\ v \in DOMAIN ids /\ ids[v] \in IdsOf(ops)
  BY <1>1 DEF YamlReady, Uses
<1>3. v \notin InputParts /\ Part(v).op = "MessageOp" /\ v \in Built
  BY <1>1, <1>2 DEF KindOf, YamlReady, Parts
<1>4. ids[v] = <<"message", v>>
  <2>1. ids = Y!Register(wf)
    BY DEF Visit, YamlReady
  <2>2. v \notin Y!ToSet(wf.inputs) /\ Y!EntryOf(wf, v).op = "MessageOp" /\ v \in Y!EntryIds(wf)
    BY <1>3 DEF InputParts, Y!ToSet, ToSet, Part, YamlReady, Built
  <2>3. Y!OpIdPrefix["MessageOp"] = "message"
    BY DEF Y!OpIdPrefix
  <2>4. ids[v] = Y!MakeId(Y!OpIdPrefix[Y!EntryOf(wf, v).op], v)
    BY <2>1, <2>2 DEF Y!Register
  <2> QED BY <2>2, <2>3, <2>4 DEF Y!MakeId
<1> HIDE DEF v
<1>5. PICK i \in DOMAIN ops : ops[i].id = ids[v] /\ Y!OpWithId(ops, ids[v]) = ops[i]
  BY <1>2 DEF IdsOf, Y!OpWithId
<1>6. IsOp(ops[i]) /\ ops[i].id[1] = "message"
  <2>1. <<"message", v>>[1] = "message"
    OBVIOUS
  <2> QED BY <1>4, <1>5, <2>1 DEF Visit, InOrder
<1>7. ops[i].kind = "MessageOp"
  BY <1>6 DEF IsOp
<1> QED BY <1>2, <1>5, <1>7 DEF v, Y!IsEmitted, Y!IdsOf, IdsOf

(* The uses of an inline prompt.                                           *)
LEMMA InlineUses ==
  ASSUME NEW u, NEW e, YamlReady(u, e), e.op \in Prompts, e.messagesRef = ""
  PROVE  /\ e.messages # << >>
         /\ e.prompt => \A i \in DOMAIN e.kwargs :
              e.kwargs[i] \in DOMAIN ids /\ ids[e.kwargs[i]] \in IdsOf(ops)
         /\ \A i \in DOMAIN e.messages :
              e.messages[i].content \in DOMAIN ids /\ (e.prompt => e.messages[i].role # "user")
                => ids[e.messages[i].content] \in IdsOf(ops)
<1>1. e.messages # << >>
  BY DEF YamlReady, PartFits, PromptFits
<1>2. \A v \in PromptUses(u) : v \in DOMAIN ids /\ ids[v] \in IdsOf(ops)
  BY DEF YamlReady, Uses
<1>3. PromptUses(u) = YamlPromptUses(e) /\ DOMAIN ids = Parts
  BY DEF YamlReady, PromptUses
<1>4. ASSUME e.prompt, NEW i \in DOMAIN e.kwargs PROVE e.kwargs[i] \in PromptUses(u)
  BY <1>3, <1>4 DEF YamlPromptUses, Prompts, ToSet
<1>5. ASSUME NEW i \in DOMAIN e.messages, e.messages[i].content \in DOMAIN ids,
             e.prompt => e.messages[i].role # "user"
      PROVE  e.messages[i].content \in PromptUses(u)
  <2>1. CASE e.prompt
    BY <1>3, <1>5, <2>1 DEF YamlPromptUses, Prompts, OtherContents
  <2>2. CASE ~e.prompt
    BY <1>3, <1>5, <2>2 DEF YamlPromptUses, Prompts, Contents
  <2> QED BY <2>1, <2>2
<1> QED BY <1>1, <1>2, <1>4, <1>5

(* A FormatOp of emitted ops.                                              *)
LEMMA FormatNeeds ==
  ASSUME NEW u, NEW args, NEW bare, \A i \in DOMAIN args : args[i] \in IdsOf(ops)
  PROVE  /\ InOrder(<<Y!FormatOp(Y!MakeId("format", u), args, bare)>>, IdsOf(ops))
         /\ IdsOf(<<Y!FormatOp(Y!MakeId("format", u), args, bare)>>) = {<<"format", u>>}
         /\ AllOf(<<Y!FormatOp(Y!MakeId("format", u), args, bare)>>, BodyKinds)
<1>1. Y!MakeId("format", u) = <<"format", u>> /\ <<"format", u>>[1] = "format"
  BY DEF Y!MakeId
<1>2. PICK x : x = Y!FormatOp(Y!MakeId("format", u), args, bare)
  OBVIOUS
<1>3. Shaped(x, <<"format", u>>, "FormatOp") /\ x.args = args
  BY <1>1, <1>2, FormatShape
<1>4. ToSet(x.args) \subseteq IdsOf(ops)
  BY <1>3 DEF ToSet
<1>5. /\ IsOp(x) /\ Needed(x) \subseteq IdsOf(ops) /\ x.kind \in BodyKinds
      /\ x.id = <<"format", u>>
  BY <1>1, <1>3, <1>4
     DEF Shaped, IsOp, Needed, Fields, LookedUp, LLMKinds, OpKinds, BodyKinds, RuntimeKinds
<1> QED BY <1>2, <1>5, OneOp

(* The indices of a list that are in W, in order.                          *)
LEMMA KeepIndices ==
  ASSUME NEW s, IsList(s), NEW W, W \subseteq DOMAIN s, NEW k,
         k = Keep([i \in DOMAIN s |-> i], W)
  PROVE  k \in Seq(DOMAIN s) /\ Range(k) = W /\ (W # {} => k # << >>)
<1>1. s \in Seq(ToSet(s))
  BY DEF IsList
<1>2. PICK n \in Nat : DOMAIN s = 1..n
  BY <1>1
<1>3. PICK idx : idx = [i \in 1..n |-> i]
  OBVIOUS
<1>4. idx \in Seq(1..n) /\ Range(idx) = 1..n
  BY <1>3 DEF Range
<1>5. k \in Seq(1..n) /\ Range(k) = Range(idx) \cap W
  BY <1>2, <1>3, <1>4, KeepElements
<1>6. Range(<< >>) = {}
  BY DEF Range
<1> QED BY <1>2, <1>4, <1>5, <1>6

(* The implicit FormatOp of an inline prompt, and the contents of its      *)
(* message.                                                                *)
LEMMA InlinePrompt ==
  ASSUME NEW u, NEW e, YamlReady(u, e), e.op \in Prompts, e.messagesRef = ""
  PROVE  /\ InOrder(Y!InlineFormat(e, ids, ops), IdsOf(ops))
         /\ AllOf(Y!InlineFormat(e, ids, ops), BodyKinds)
         /\ \A a \in ToSet(Y!InlineContents(e, ids, ops)) :
              \/ a \in IdsOf(ops) \cup IdsOf(Y!InlineFormat(e, ids, ops))
              \/ a[1] = "text"
<1> DEFINE W == Y!WrappedAt(e, ids, ops)
           idx == [i \in DOMAIN e.messages |-> i]
           wrapped == Keep(idx, W)
           refs == [i \in DOMAIN wrapped |-> ids[e.messages[wrapped[i]].content]]
           fmt == Y!InlineFormat(e, ids, ops)
           contents == Y!InlineContents(e, ids, ops)
<1>1. /\ e.prompt => \A i \in DOMAIN e.kwargs :
              e.kwargs[i] \in DOMAIN ids /\ ids[e.kwargs[i]] \in IdsOf(ops)
      /\ \A i \in DOMAIN e.messages :
              e.messages[i].content \in DOMAIN ids /\ (e.prompt => e.messages[i].role # "user")
                => ids[e.messages[i].content] \in IdsOf(ops)
  BY InlineUses
<1>2. IsList(e.messages) /\ e.id = u
  BY DEF YamlReady
<1>3. W \subseteq DOMAIN e.messages /\ \A i \in W : e.messages[i].content \in DOMAIN ids
  BY DEF Y!WrappedAt
<1> HIDE DEF W
<1>4. wrapped \in Seq(DOMAIN e.messages) /\ Range(wrapped) = W /\ (W # {} => wrapped # << >>)
  <2>1. PICK m : m = e.messages
    OBVIOUS
  <2>2. PICK k : k = Keep([i \in DOMAIN m |-> i], W)
    OBVIOUS
  <2>3. IsList(m) /\ W \subseteq DOMAIN m /\ k = wrapped
    BY <1>2, <1>3, <2>1, <2>2
  <2>4. k \in Seq(DOMAIN m) /\ Range(k) = W /\ (W # {} => k # << >>)
    BY <2>2, <2>3, KeepIndices
  <2> QED BY <2>1, <2>3, <2>4
<1>5. fmt = IF e.prompt
            THEN <<Y!FormatOp(Y!MakeId("format", u), Y!ResolveAll(ids, e.kwargs), e.bare)>>
            ELSE IF wrapped = << >> THEN << >>
            ELSE <<Y!FormatOp(Y!MakeId("format", u), refs, Len(refs) = 1)>>
  <2>1. Y!Keep(idx, W) = Keep(idx, W)
    BY DEF Y!Keep, Keep
  <2>2. fmt = IF e.prompt
              THEN <<Y!FormatOp(Y!MakeId("format", e.id), Y!ResolveAll(ids, e.kwargs), e.bare)>>
              ELSE IF Y!Keep(idx, W) = << >> THEN << >>
              ELSE LET r == [i \in DOMAIN Y!Keep(idx, W) |->
                               ids[e.messages[Y!Keep(idx, W)[i]].content]]
                   IN  <<Y!FormatOp(Y!MakeId("format", e.id), r, Len(r) = 1)>>
    BY DEF Y!InlineFormat, W
  <2> HIDE DEF idx, fmt
  <2> QED BY <1>2, <2>1, <2>2
<1> HIDE DEF wrapped, fmt
<1>6. CASE e.prompt
  <2>1. PICK args : args = Y!ResolveAll(ids, e.kwargs)
    OBVIOUS
  <2>2. DOMAIN args = DOMAIN e.kwargs /\ \A i \in DOMAIN args : args[i] \in IdsOf(ops)
    BY <1>1, <1>6, <2>1 DEF Y!ResolveAll, Y!Resolve
  <2>3. fmt = <<Y!FormatOp(Y!MakeId("format", u), args, e.bare)>>
    BY <1>5, <1>6, <2>1
  <2>4. InOrder(fmt, IdsOf(ops)) /\ IdsOf(fmt) = {<<"format", u>>} /\ AllOf(fmt, BodyKinds)
    BY <2>2, <2>3, FormatNeeds
  <2>5. ASSUME NEW i \in DOMAIN e.messages
        PROVE  \/ contents[i] \in IdsOf(ops) \cup IdsOf(fmt)
               \/ contents[i][1] = "text"
    <3>1. CASE e.messages[i].role = "user"
      <4>1. contents[i] = <<"format", u>>
        BY <1>2, <1>6, <3>1 DEF Y!InlineContents, Y!MakeId
      <4> QED BY <2>4, <4>1
    <3>2. CASE e.messages[i].role # "user"
      <4>1. contents[i] = Y!Resolve(ids, e.messages[i].content)
        BY <1>6, <3>2 DEF Y!InlineContents
      <4>2. CASE e.messages[i].content \in DOMAIN ids
        <5>1. contents[i] = ids[e.messages[i].content]
          BY <4>1, <4>2 DEF Y!Resolve
        <5>2. ids[e.messages[i].content] \in IdsOf(ops)
          BY <1>1, <1>6, <3>2, <4>2
        <5> QED BY <5>1, <5>2
      <4>3. CASE e.messages[i].content \notin DOMAIN ids
        <5>1. contents[i] = <<"text", e.messages[i].content>>
          BY <4>1, <4>3 DEF Y!Resolve, Y!Text
        <5>2. <<"text", e.messages[i].content>>[1] = "text"
          OBVIOUS
        <5> HIDE DEF contents
        <5> QED BY <5>1, <5>2
      <4> QED BY <4>2, <4>3
    <3> QED BY <3>1, <3>2
  <2>6. DOMAIN contents = DOMAIN e.messages
    BY DEF Y!InlineContents
  <2> HIDE DEF contents
  <2>7. \A a \in ToSet(contents) : a \in IdsOf(ops) \cup IdsOf(fmt) \/ a[1] = "text"
    BY <2>5, <2>6 DEF ToSet
  <2> QED BY <2>4, <2>7 DEF contents, fmt
<1>7. CASE ~e.prompt
  <2>1. \A i \in W : ids[e.messages[i].content] \in IdsOf(ops)
    BY <1>1, <1>3, <1>7
  <2>2. /\ InOrder(fmt, IdsOf(ops)) /\ AllOf(fmt, BodyKinds)
        /\ wrapped # << >> => IdsOf(fmt) = {<<"format", u>>}
    <3>1. CASE wrapped = << >>
      BY <1>5, <1>7, <3>1, NoOps
    <3>2. CASE wrapped # << >>
      <4>1. \A i \in DOMAIN wrapped : wrapped[i] \in W
        BY <1>4 DEF Range
      <4>2. PICK args : args = refs
        OBVIOUS
      <4>3. \A i \in DOMAIN args : args[i] \in IdsOf(ops)
        BY <2>1, <4>1, <4>2
      <4>4. PICK b : b = (Len(refs) = 1)
        OBVIOUS
      <4>5. fmt = <<Y!FormatOp(Y!MakeId("format", u), args, b)>>
        BY <1>5, <1>7, <3>2, <4>2, <4>4
      <4> QED BY <4>3, <4>5, FormatNeeds
    <3> QED BY <3>1, <3>2
  <2>3. W # {} => wrapped # << >>
    BY <1>4
  <2>5. ASSUME NEW i \in DOMAIN e.messages
        PROVE  \/ contents[i] \in IdsOf(ops) \cup IdsOf(fmt)
               \/ contents[i][1] = "text"
    <3>1. CASE i \in W
      <4>1. contents[i] = <<"format", u>>
        BY <1>2, <1>7, <3>1 DEF Y!InlineContents, Y!MakeId, W
      <4> QED BY <2>2, <2>3, <3>1, <4>1
    <3>2. CASE i \notin W
      <4>1. contents[i] = Y!Resolve(ids, e.messages[i].content)
        BY <1>7, <3>2 DEF Y!InlineContents, W
      <4>2. CASE e.messages[i].content \in DOMAIN ids
        <5>1. contents[i] = ids[e.messages[i].content]
          BY <4>1, <4>2 DEF Y!Resolve
        <5>2. ids[e.messages[i].content] \in IdsOf(ops)
          BY <1>1, <1>7, <3>2, <4>2
        <5> QED BY <5>1, <5>2
      <4>3. CASE e.messages[i].content \notin DOMAIN ids
        <5>1. contents[i] = <<"text", e.messages[i].content>>
          BY <4>1, <4>3 DEF Y!Resolve, Y!Text
        <5>2. <<"text", e.messages[i].content>>[1] = "text"
          OBVIOUS
        <5> HIDE DEF contents
        <5> QED BY <5>1, <5>2
      <4> QED BY <4>2, <4>3
    <3> QED BY <3>1, <3>2
  <2>6. DOMAIN contents = DOMAIN e.messages
    BY DEF Y!InlineContents
  <2> HIDE DEF contents
  <2>7. \A a \in ToSet(contents) : a \in IdsOf(ops) \cup IdsOf(fmt) \/ a[1] = "text"
    BY <2>5, <2>6 DEF ToSet
  <2> QED BY <2>2, <2>7 DEF contents, fmt
<1> QED BY <1>6, <1>7

(* The ops of a prompt: the implicit FormatOp, if any, the message, and    *)
(* the op itself.                                                          *)
LEMMA YamlMakesLLM ==
  ASSUME NEW u, NEW e, Visit(u), YamlReady(u, e), e.op \in Prompts
  PROVE  Makes(Y!EmitLLMLikeOp(e, ids, ops), ids[u])
<1>1. \A o : Y!Emitted(o).err = "" /\ Y!Emitted(o).ops = o
  BY DEF Y!Emitted
<1>2. CASE e.messagesRef # ""
  <2>1. PICK x : x = Y!LLMOp(e, ids, ids[e.messagesRef])
    OBVIOUS
  <2>2. Y!EmitLLMLikeOp(e, ids, ops) = Y!Emitted(<<x>>)
    BY <1>2, <2>1, MessageEmitted DEF Y!EmitLLMLikeOp
  <2>3. IsOp(x) /\ Needed(x) \subseteq IdsOf(ops) /\ x.id = ids[u] /\ x.kind \in BodyKinds
    <3>1. PICK m : m = ids[e.messagesRef]
      OBVIOUS
    <3>2. m \in IdsOf(ops)
      BY <1>2, <3>1, MessageEmitted
    <3>3. IsOp(x) /\ Needed(x) = {m} /\ x.id = ids[u] /\ x.kind \in BodyKinds
      BY <2>1, <3>1, LLMNeeds
    <3> QED BY <3>2, <3>3
  <2> QED BY <1>1, <2>2, <2>3, OneOp DEF Makes
<1>3. CASE e.messagesRef = ""
  <2> DEFINE fmt == Y!InlineFormat(e, ids, ops)
             contents == Y!InlineContents(e, ids, ops)
             upstream == {ids[v] : v \in Y!ToSet(e.inputs)} \cup Y!IdsOf(fmt)
             message == Y!MessageOp(Y!MakeId("message", e.id), upstream \cap Y!ToSet(contents),
                                    [i \in DOMAIN e.messages |-> e.messages[i].role], contents)
             llm == Y!LLMOp(e, ids, message.id)
  <2>1. e.messages # << >> /\ (e.prompt => Y!ToSet(e.kwargs) \subseteq DOMAIN ids)
    BY <1>3, InlineUses DEF Y!ToSet
  <2>2. Y!EmitLLMLikeOp(e, ids, ops) = Y!Emitted(fmt \o <<message, llm>>)
    BY <1>3, <2>1 DEF Y!EmitLLMLikeOp
  <2>3. /\ InOrder(fmt, IdsOf(ops)) /\ AllOf(fmt, BodyKinds)
        /\ \A a \in ToSet(contents) : a \in IdsOf(ops) \cup IdsOf(fmt) \/ a[1] = "text"
    BY <1>3, InlinePrompt
  <2>4. Y!MakeId("message", e.id) = <<"message", u>> /\ <<"message", u>>[1] = "message"
    BY DEF Y!MakeId, YamlReady
  <2>5. Shaped(message, <<"message", u>>, "MessageOp") /\ message.args = contents
    BY <2>4, MessageShape
  <2> HIDE DEF fmt, contents, message
  <2>6. /\ IsOp(message) /\ Needed(message) \subseteq IdsOf(ops) \cup IdsOf(fmt)
        /\ message.kind \in BodyKinds
    BY <2>3, <2>4, <2>5
       DEF Shaped, IsOp, Needed, Fields, LookedUp, LLMKinds, OpKinds, BodyKinds, RuntimeKinds
  <2>7. IsOp(llm) /\ Needed(llm) = {message.id} /\ llm.id = ids[u] /\ llm.kind \in BodyKinds
    BY LLMNeeds
  <2> HIDE DEF llm
  <2>8. PICK t : t = <<message, llm>>
    OBVIOUS
  <2>9. /\ InOrder(t, IdsOf(ops) \cup IdsOf(fmt)) /\ IdsOf(t) = {message.id, llm.id}
        /\ AllOf(t, BodyKinds)
    BY <2>6, <2>7, <2>8, TwoOps
  <2>10. /\ InOrder(fmt \o t, IdsOf(ops)) /\ IdsOf(fmt \o t) = IdsOf(fmt) \cup IdsOf(t)
         /\ AllOf(fmt \o t, BodyKinds)
    BY <2>3, <2>9, ConcatInOrder
  <2> QED BY <1>1, <2>2, <2>7, <2>8, <2>9, <2>10 DEF Makes
<1> QED BY <1>2, <1>3

(* An image on an op changes nothing of that.                              *)
LEMMA ImageSet ==
  ASSUME NEW s, NEW S, InOrder(s, S), NEW x, NEW t,
         t = [i \in DOMAIN s |-> IF i = Len(s) THEN [s[i] EXCEPT !.image = x] ELSE s[i]]
  PROVE  InOrder(t, S) /\ IdsOf(t) = IdsOf(s) /\ \A kinds : AllOf(s, kinds) => AllOf(t, kinds)
<1>1. Len(s) \in Nat /\ DOMAIN s = 1..Len(s) /\ DOMAIN t = 1..Len(s)
  BY DEF InOrder, IsList
<1>2. ASSUME NEW i \in DOMAIN s
      PROVE  /\ t[i].id = s[i].id /\ t[i].kind = s[i].kind /\ IsOp(t[i])
             /\ Needed(t[i]) = Needed(s[i])
  <2>1. IsOp(s[i])
    BY DEF InOrder
  <2>2. CASE i = Len(s)
    <3>1. PICK a : a = s[i]
      OBVIOUS
    <3>2. PICK b : b = [a EXCEPT !.image = x]
      OBVIOUS
    <3>3. DOMAIN b = DOMAIN a /\ DOMAIN a = DOMAIN Op(NoId, "")
      BY <2>1, <3>1, <3>2 DEF IsOp
    <3>4. b.id = a.id /\ b.kind = a.kind /\ b.args = a.args /\ b.inputs = a.inputs
      BY <3>2, <3>3 DEF Op
    <3>5. IsOp(b)
      BY <2>1, <3>1, <3>3, <3>4 DEF IsOp
    <3>6. Needed(b) = Needed(a)
      BY <3>4 DEF Needed, LookedUp
    <3> QED BY <2>2, <3>1, <3>2, <3>4, <3>5, <3>6
  <2>3. CASE i # Len(s)
    BY <2>1, <2>3
  <2> QED BY <2>2, <2>3
<1>3. \A n \in Nat : n <= Len(s) => IdsUpTo(t, n) = IdsUpTo(s, n)
  <2> SUFFICES ASSUME NEW n \in Nat, n <= Len(s) PROVE IdsUpTo(t, n) = IdsUpTo(s, n)
    OBVIOUS
  <2>1. \A i \in 1..n : t[i].id = s[i].id
    BY <1>1, <1>2
  <2> QED BY <2>1 DEF IdsUpTo
<1>4. IdsOf(t) = IdsOf(s) /\ \A kinds : AllOf(s, kinds) => AllOf(t, kinds)
  BY <1>1, <1>2 DEF IdsOf, AllOf
<1>5. t \in Seq(ToSet(t))
  BY <1>1 DEF ToSet
<1>6. ASSUME NEW i \in DOMAIN t
      PROVE  IsOp(t[i]) /\ Needed(t[i]) \subseteq S \cup IdsUpTo(t, i - 1)
  <2>1. i - 1 \in Nat /\ i - 1 <= Len(s) /\ i \in DOMAIN s
    BY <1>1
  <2> QED BY <1>2, <1>3, <2>1 DEF InOrder
<1> QED BY <1>4, <1>5, <1>6 DEF InOrder, IsList

(* An LLMVisionOp is made as a chat is, and its image is known.            *)
LEMMA YamlMakesVision ==
  ASSUME NEW u, NEW e, Visit(u), YamlReady(u, e), e.op = "LLMVisionOp"
  PROVE  Makes(Y!EmitLLMVisionOp(e, ids, ops), ids[u])
<1>1. Makes(Y!EmitLLMLikeOp(e, ids, ops), ids[u])
  BY YamlMakesLLM DEF Prompts
<1>2. e.image \in DOMAIN ids
  <2>1. ImageUses(u) # {} /\ ImageUses(u) = {e.image} \ {""}
    BY DEF YamlReady, PartFits, ImageUses
  <2>2. e.image \in Uses(u)
    BY <2>1 DEF Uses, YamlReady
  <2> QED BY <2>2 DEF YamlReady
<1>3. PICK chat : chat = Y!EmitLLMLikeOp(e, ids, ops)
  OBVIOUS
<1>4. DOMAIN chat = {"err", "ops"}
  BY <1>3 DEF Y!EmitLLMLikeOp, Y!Emitted, Y!Refused
<1>5. PICK t : t = [i \in DOMAIN chat.ops |->
                      IF i = Len(chat.ops) THEN [chat.ops[i] EXCEPT !.image = ids[e.image]]
                      ELSE chat.ops[i]]
  OBVIOUS
<1>6. Y!EmitLLMVisionOp(e, ids, ops) = [chat EXCEPT !.ops = t]
  BY <1>2, <1>3, <1>4, <1>5 DEF Y!EmitLLMVisionOp
<1>7. [chat EXCEPT !.ops = t].err = chat.err /\ [chat EXCEPT !.ops = t].ops = t
  BY <1>4
<1>8. /\ InOrder(t, IdsOf(ops)) /\ IdsOf(t) = IdsOf(chat.ops)
      /\ AllOf(chat.ops, BodyKinds) => AllOf(t, BodyKinds)
  <2>1. PICK s : s = chat.ops
    OBVIOUS
  <2>2. InOrder(s, IdsOf(ops))
    BY <1>1, <1>3, <2>1 DEF Makes
  <2>3. t = [i \in DOMAIN s |->
                IF i = Len(s) THEN [s[i] EXCEPT !.image = ids[e.image]] ELSE s[i]]
    BY <1>5, <2>1
  <2> QED BY <2>1, <2>2, <2>3, ImageSet
<1> QED BY <1>1, <1>3, <1>6, <1>7, <1>8 DEF Makes

(* Every entry whose references are emitted is.                            *)
LEMMA YamlMakes ==
  ASSUME NEW u, Visit(u), IsYaml
  PROVE  Makes(Made(u), ids[u])
<1> DEFINE e == Part(u)
<1>1. YamlReady(u, e)
  BY EntryReady
<1>2. Made(u) = Y!BuildOpDict(e, ids, ops) /\ e.op \in Y!SupportedOps
  BY <1>1 DEF Made, Part, YamlReady
<1> HIDE DEF e
<1>3. CASE e.op \in {"DataOp", "DataRetrievalOp", "FormatOp", "LambdaOp"}
  BY <1>1, <1>2, <1>3, YamlMakesOne
<1>4. CASE e.op = "ImageGenerationOp"
  BY <1>1, <1>2, <1>4, YamlMakesImage
<1>5. CASE e.op = "EmbeddingOp"
  BY <1>1, <1>2, <1>5, YamlMakesEmbedding
<1>6. CASE e.op = "MessageOp"
  BY <1>1, <1>2, <1>6, YamlMakesMessage
<1>7. CASE e.op = "LLMChatOp"
  <2>1. Y!BuildOpDict(e, ids, ops) = Y!EmitLLMLikeOp(e, ids, ops)
    BY <1>7 DEF Y!BuildOpDict
  <2> QED BY <1>1, <1>2, <1>7, <2>1, YamlMakesLLM DEF Prompts
<1>8. CASE e.op = "LLMVisionOp"
  <2>1. Y!BuildOpDict(e, ids, ops) = Y!EmitLLMVisionOp(e, ids, ops)
    BY <1>8 DEF Y!BuildOpDict
  <2> QED BY <1>1, <1>2, <1>8, <2>1, YamlMakesVision
<1> QED BY <1>2, <1>3, <1>4, <1>5, <1>6, <1>7, <1>8 DEF Y!SupportedOps

-----------------------------------------------------------------------------
(* What is known of a node that may be made.                               *)
N8nReady(u, n) ==
  /\ ~IsYaml /\ n = Part(u) /\ n.name = u /\ n.type \in N!BuiltTypes
  /\ IsList(n.main) /\ IsList(n.refs) /\ IsList(n.filters) /\ IsList(n.limit)
  /\ PartFits(u) /\ u \notin InputParts /\ wf.inputs = InputParts
  /\ N!ResolveDependencies(wf, n) \subseteq DOMAIN ids
  /\ \A v \in DOMAIN ids : ids[v] \in IdsOf(ops)

(* A node visited that need not wait is ready: what it names was emitted.  *)
LEMMA NodeReady ==
  ASSUME NEW u, Visit(u), ~IsYaml
  PROVE  N8nReady(u, Part(u))
<1> DEFINE n == Part(u)
<1>1. wf \in N8nFlows /\ Checked /\ PartFits(u) /\ wf.inputs = InputParts
  BY DEF Visit, Document, IsYaml, KeepsRules, WellFormed, Checked, InputParts
<1>2. u \notin InputParts /\ N!ResolveDependencies(wf, n) \subseteq DOMAIN ids
  BY <1>1, NamesMean DEF Visit, Needs, Part
<1>3. PICK i \in DOMAIN wf.nodes : wf.nodes[i].name = u /\ n = wf.nodes[i]
  <2>1. \E i \in DOMAIN wf.nodes : wf.nodes[i].name = u
    BY DEF Visit, Built, N!OfTypes, N!NodeNames
  <2> QED BY <2>1 DEF Part, N!NodeNamed
<1>4. n.name = u /\ n.type \in N!BuiltTypes
  BY <1>3 DEF Visit, Built, N!OfTypes, Part
<1>5. IsList(n.main) /\ IsList(n.refs) /\ IsList(n.filters) /\ IsList(n.limit)
  <2>1. n \in ToSet(wf.nodes)
    BY <1>3 DEF ToSet
  <2> QED BY <1>1, <2>1, DocumentAssumption
<1>6. \A v \in DOMAIN ids : ids[v] \in IdsOf(ops)
  BY DEF Visit
<1> QED BY <1>1, <1>2, <1>4, <1>5, <1>6 DEF N8nReady

(* The names a node refers to, by type.                                    *)
LEMMA NodeRefs ==
  ASSUME NEW u, NEW n, N8nReady(u, n)
  PROVE  /\ n.type \in {"postgres", "s3", "agent"} => N!RefNames(n.refs) \subseteq DOMAIN ids
         /\ n.type = "postgres" => N!FilterNames(n) \subseteq DOMAIN ids
         /\ n.type = "s3" => n.main # << >> /\ n.main[1] \in DOMAIN ids
         /\ n.type = "code" => /\ N!ToSet(N!CodeInputs(wf, n)) \subseteq DOMAIN ids
                               /\ N!ToSet(N!CodeInputs(wf, n)) # {}
<1>1. N!ResolveDependencies(wf, n) \subseteq DOMAIN ids
  BY DEF N8nReady
<1>2. ASSUME n.type = "postgres"
      PROVE  N!RefNames(n.refs) \subseteq DOMAIN ids /\ N!FilterNames(n) \subseteq DOMAIN ids
  BY <1>1, <1>2 DEF N!ResolveDependencies
<1>3. ASSUME n.type \in {"s3", "agent"}
      PROVE  N!RefNames(n.refs) \subseteq DOMAIN ids /\ N!ToSet(n.main) \subseteq DOMAIN ids
  BY <1>1, <1>3 DEF N!ResolveDependencies
<1>4. ASSUME n.type = "s3" PROVE n.main # << >> /\ n.main[1] \in DOMAIN ids
  <2>1. n.main # << >>
    BY <1>4 DEF N8nReady, PartFits, NodeFits
  <2>2. n.main \in Seq(ToSet(n.main))
    BY DEF N8nReady, IsList
  <2>3. 1 \in DOMAIN n.main
    BY <2>1, <2>2
  <2> QED BY <1>3, <1>4, <2>1, <2>3 DEF N!ToSet
<1>5. ASSUME n.type = "code"
      PROVE  /\ N!ToSet(N!CodeInputs(wf, n)) \subseteq DOMAIN ids
             /\ N!ToSet(N!CodeInputs(wf, n)) # {}
  <2>1. N!ToSet(N!CodeInputs(wf, n)) \subseteq DOMAIN ids
    BY <1>1, <1>5 DEF N!ResolveDependencies
  <2>2. CodeUses(u) # {}
    BY <1>5 DEF N8nReady, PartFits, NodeFits
  <2>3. CodeUses(u) = ToSet(N!CodeInputs(wf, n))
    BY <2>2 DEF CodeUses, N8nReady
  <2> QED BY <2>1, <2>2, <2>3 DEF N!ToSet, ToSet
<1> QED BY <1>2, <1>3, <1>4, <1>5

(* A retrieval, whose inputs are the ops of its params and others.         *)
LEMMA RetrievalMakes ==
  ASSUME NEW u, NEW n, N8nReady(u, n), NEW mode, NEW params, NEW inputs,
         \A i \in DOMAIN params : params[i].node \in IdsOf(ops) \cup {NoId},
         inputs \subseteq IdsOf(ops)
  PROVE  Makes(N!Retrieval(n, mode, params, inputs), N!Retrieval(n, mode, params, inputs).id)
<1> DEFINE o == N!Op(N!MakeId("retrieval", n.name), "DataRetrievalOp")
           x == [o EXCEPT !.mode = mode, !.params = params,
                          !.inputs = N!ParamNodes(params) \cup inputs]
<1>1. N!MakeId("retrieval", n.name) = <<"retrieval", u>> /\ <<"retrieval", u>>[1] = "retrieval"
  BY DEF N!MakeId, N8nReady
<1>2. Shaped(o, <<"retrieval", u>>, "DataRetrievalOp")
  BY <1>1, OpShaped
<1>3. {"id", "kind", "mode", "params", "inputs"} \subseteq Fields
  BY DEF Fields, Op
<1> HIDE DEF o
<1>4. /\ Shaped(x, <<"retrieval", u>>, "DataRetrievalOp")
      /\ x.inputs = N!ParamNodes(params) \cup inputs
  BY <1>2, <1>3 DEF Shaped
<1>5. N!Retrieval(n, mode, params, inputs) = N!Made(<<x>>, x.id)
  BY DEF N!Retrieval, o
<1> HIDE DEF x
<1>6. N!ParamNodes(params) \subseteq IdsOf(ops)
  BY DEF N!ParamNodes, N!ToSet, N!NoId, NoId
<1>7. IsOp(x) /\ Needed(x) \subseteq IdsOf(ops) /\ x.kind \in BodyKinds
  BY <1>1, <1>4, <1>6
     DEF Shaped, IsOp, Needed, Fields, LookedUp, LLMKinds, OpKinds, BodyKinds, RuntimeKinds
<1>8. /\ InOrder(<<x>>, IdsOf(ops)) /\ IdsOf(<<x>>) = {x.id} /\ AllOf(<<x>>, BodyKinds)
  BY <1>7, OneOp
<1>9. /\ N!Made(<<x>>, x.id).err = "" /\ N!Made(<<x>>, x.id).ops = <<x>>
      /\ N!Made(<<x>>, x.id).id = x.id
  BY DEF N!Made
<1> QED BY <1>5, <1>8, <1>9 DEF Makes

(* The node a param is bound to.                                           *)
LEMMA ParamNode ==
  ASSUME NEW u, NEW n, N8nReady(u, n), NEW label, NEW ref, ref.node \in DOMAIN ids
  PROVE  N!Param(wf, ids, label, ref).node \in IdsOf(ops) \cup {NoId}
BY DEF N8nReady, N!Param, N!NoId, NoId

(* The placeholders of a query name ops that were emitted.                 *)
LEMMA QueryNodes ==
  ASSUME NEW u, NEW n, N8nReady(u, n), N!RefNames(n.refs) \subseteq DOMAIN ids
  PROVE  \A i \in DOMAIN N!QueryParams(wf, ids, n.refs) :
           N!QueryParams(wf, ids, n.refs)[i].node \in IdsOf(ops) \cup {NoId}
<1>1. DOMAIN N!QueryParams(wf, ids, n.refs) = DOMAIN n.refs
  BY DEF N!QueryParams
<1>2. SUFFICES ASSUME NEW i \in DOMAIN n.refs
      PROVE  N!QueryParams(wf, ids, n.refs)[i].node \in IdsOf(ops) \cup {NoId}
  BY <1>1
<1>3. n.refs[i].node \in DOMAIN ids
  BY DEF N!RefNames, N!ToSet
<1>4. PICK r : r = n.refs[i]
  OBVIOUS
<1>5. N!QueryParams(wf, ids, n.refs)[i] = N!Param(wf, ids, N!QueryLabel(n.refs, i), r)
  BY <1>4 DEF N!QueryParams
<1> QED BY <1>3, <1>4, <1>5, ParamNode

(* Of the filters and the limit, those are bound that name a node.         *)
LEMMA SqlNodes ==
  ASSUME NEW u, NEW n, N8nReady(u, n), N!FilterNames(n) \subseteq DOMAIN ids
  PROVE  \A i \in DOMAIN N!SqlParams(wf, ids, n) :
           N!SqlParams(wf, ids, n)[i].node \in IdsOf(ops) \cup {NoId}
<1> DEFINE limit == [i \in DOMAIN n.limit |->
                       [column |-> <<"limit">>, op |-> "", node |-> n.limit[i].node,
                        path |-> n.limit[i].path]]
           named == {f \in N!ToSet(n.filters) \cup N!ToSet(limit) : f.node # ""}
           all == N!Keep(n.filters \o limit, named)
           first == {i \in DOMAIN all :
                       \A j \in 1..(i - 1) : N!FilterLabel(all[j]) # N!FilterLabel(all[i])}
           bound == N!Keep([i \in DOMAIN all |-> i], first)
<1>1. N!SqlParams(wf, ids, n) =
        [i \in DOMAIN bound |-> N!Param(wf, ids, N!FilterLabel(all[bound[i]]), all[bound[i]])]
  BY DEF N!SqlParams, N!Comparisons
<1>2. ASSUME NEW f \in named PROVE f.node \in DOMAIN ids
  <2>1. f.node # "" /\ f \in N!ToSet(n.filters) \cup N!ToSet(limit)
    OBVIOUS
  <2>2. f \in N!ToSet(limit) => f.node \in N!RefNames(n.limit)
    <3> SUFFICES ASSUME f \in N!ToSet(limit) PROVE f.node \in N!RefNames(n.limit)
      OBVIOUS
    <3>1. PICK i \in DOMAIN n.limit : f = limit[i]
      BY DEF N!ToSet
    <3>2. f.node = n.limit[i].node
      BY <3>1
    <3>3. n.limit[i] \in N!ToSet(n.limit)
      BY DEF N!ToSet
    <3> QED BY <3>2, <3>3 DEF N!RefNames
  <2>3. f \in N!ToSet(n.filters) => f.node \in N!RefNames(n.filters)
    BY DEF N!RefNames
  <2> QED BY <2>1, <2>2, <2>3 DEF N!FilterNames
<1>3. PICK A : n.filters \in Seq(A) /\ limit \in Seq(A)
  <2>1. n.filters \in Seq(ToSet(n.filters)) /\ n.limit \in Seq(ToSet(n.limit))
    BY DEF N8nReady, IsList
  <2>2. PICK m \in Nat : DOMAIN n.limit = 1..m
    BY <2>1
  <2>3. limit \in Seq(ToSet(limit))
    <3>1. DOMAIN limit = 1..m
      BY <2>2
    <3> HIDE DEF limit
    <3>2. \A i \in 1..m : limit[i] \in ToSet(limit)
      BY <3>1 DEF ToSet
    <3>3. limit = [i \in 1..m |-> limit[i]]
      BY <2>2 DEF limit
    <3> QED BY <3>2, <3>3
  <2>4. PICK B : B = ToSet(n.filters) \cup ToSet(limit)
    OBVIOUS
  <2> HIDE DEF limit
  <2>5. n.filters \in Seq(B) /\ limit \in Seq(B)
    BY <2>1, <2>3, <2>4
  <2> QED BY <2>5
<1> HIDE DEF limit, named
<1>4. all \in Seq(A) /\ \A i \in DOMAIN all : all[i] \in named
  <2>1. PICK s : s = n.filters \o limit
    OBVIOUS
  <2>2. s \in Seq(A)
    BY <1>3, <2>1
  <2>3. Keep(s, named) \in Seq(A) /\ Range(Keep(s, named)) = Range(s) \cap named
    BY <2>2, KeepElements
  <2>4. all = Keep(s, named)
    BY <2>1 DEF N!Keep, Keep
  <2> QED BY <2>3, <2>4 DEF Range
<1> HIDE DEF all
<1>5. \A i \in DOMAIN bound : bound[i] \in DOMAIN all
  <2>1. first \subseteq DOMAIN all
    OBVIOUS
  <2>2. IsList(all)
    BY <1>4, SeqIsList
  <2> HIDE DEF first
  <2>3. PICK k : k = Keep([i \in DOMAIN all |-> i], first)
    OBVIOUS
  <2>4. k \in Seq(DOMAIN all)
    BY <2>1, <2>2, <2>3, KeepIndices
  <2>5. bound = k
    BY <2>3 DEF N!Keep, Keep
  <2> QED BY <2>4, <2>5
<1> HIDE DEF bound
<1>6. ASSUME NEW i \in DOMAIN bound
      PROVE  N!Param(wf, ids, N!FilterLabel(all[bound[i]]), all[bound[i]]).node
               \in IdsOf(ops) \cup {NoId}
  <2>1. PICK f : f = all[bound[i]]
    OBVIOUS
  <2>2. f.node \in DOMAIN ids
    BY <1>2, <1>4, <1>5, <2>1
  <2>3. N!Param(wf, ids, N!FilterLabel(f), f).node \in IdsOf(ops) \cup {NoId}
    BY <2>2, ParamNode
  <2> QED BY <2>1, <2>3
<1> QED BY <1>1, <1>6

(* The ops that names stand for.                                           *)
LEMMA NamedEmitted ==
  ASSUME NEW u, NEW n, N8nReady(u, n), NEW names
  PROVE  N!IdsNamed(ids, names) \subseteq IdsOf(ops)
BY DEF N8nReady, N!IdsNamed

(* The nodes that retrieve data (_make_postgres_op and the like).          *)
LEMMA N8nMakesRetrieval ==
  ASSUME NEW u, NEW n, N8nReady(u, n), n.type \in {"postgres", "s3", "agent"}
  PROVE  Makes(N!MakeOps(wf, ids, n), N!MakeOps(wf, ids, n).id)
<1>1. N!RefNames(n.refs) \subseteq DOMAIN ids /\ N!KnownRefs(ids, n.refs)
  BY NodeRefs DEF N!KnownRefs
<1>2. \A names : N!IdsNamed(ids, names) \subseteq IdsOf(ops)
  BY NamedEmitted
<1>3. PICK query : query = N!QueryParams(wf, ids, n.refs)
  OBVIOUS
<1>4. \A i \in DOMAIN query : query[i].node \in IdsOf(ops) \cup {NoId}
  BY <1>1, <1>3, QueryNodes
<1>5. PICK main : main = N!IdsNamed(ids, N!ToSet(N!MainIncoming(wf, n)))
  OBVIOUS
<1>6. main \subseteq IdsOf(ops)
  BY <1>2, <1>5
<1>7. CASE n.type = "agent"
  <2>1. N!MakeOps(wf, ids, n) = N!Retrieval(n, "agent", query, main)
    BY <1>1, <1>3, <1>5, <1>7 DEF N!MakeOps, N!MakeAgent
  <2> QED BY <1>4, <1>6, <2>1, RetrievalMakes
<1>8. CASE n.type = "postgres"
  <2>1. N!MakeOps(wf, ids, n) = N!MakePostgres(wf, ids, n)
    BY <1>8 DEF N!MakeOps
  <2>2. CASE n.execute
    <3>1. N!MakeOps(wf, ids, n) = N!Retrieval(n, "sql", query, main)
      BY <1>1, <1>3, <1>5, <2>1, <2>2 DEF N!MakePostgres
    <3> QED BY <1>4, <1>6, <3>1, RetrievalMakes
  <2>3. CASE ~n.execute
    <3>1. N!FilterNames(n) \subseteq DOMAIN ids
      BY <1>8, NodeRefs
    <3>2. N!KnownRefs(ids, n.filters) /\ N!KnownRefs(ids, n.limit)
      BY <3>1 DEF N!KnownRefs, N!FilterNames
    <3>3. \A i \in DOMAIN n.limit : n.limit[i].path # ""
      BY <1>8 DEF N8nReady, PartFits, NodeFits, ToSet
    <3>4. PICK params : params = N!SqlParams(wf, ids, n)
      OBVIOUS
    <3>5. \A i \in DOMAIN params : params[i].node \in IdsOf(ops) \cup {NoId}
      BY <3>1, <3>4, SqlNodes
    <3>6. PICK inputs : inputs = main \cup N!IdsNamed(ids, N!FilterNames(n))
      OBVIOUS
    <3>7. inputs \subseteq IdsOf(ops)
      BY <1>2, <1>6, <3>6
    <3>8. N!MakeOps(wf, ids, n) = N!Retrieval(n, "sql", params, inputs)
      BY <1>5, <2>1, <2>3, <3>2, <3>3, <3>4, <3>6 DEF N!MakePostgres
    <3> QED BY <3>5, <3>7, <3>8, RetrievalMakes
  <2> QED BY <2>2, <2>3
<1>9. CASE n.type = "s3"
  <2>1. N!MakeOps(wf, ids, n) = N!MakeS3(wf, ids, n)
    BY <1>9 DEF N!MakeOps, N!MakeLake
  <2>2. n.main # << >> /\ n.main[1] \in DOMAIN ids
    BY <1>9, NodeRefs
  <2>3. N!FolderOK(wf, n.refs)
    BY <1>9 DEF N8nReady, PartFits, NodeFits
  <2>4. PICK params : params = N!FolderParams(wf, ids, n.refs)
    OBVIOUS
  <2>5. \A i \in DOMAIN params : params[i].node \in IdsOf(ops) \cup {NoId}
    <3>1. DOMAIN params = DOMAIN n.refs
      BY <2>4 DEF N!FolderParams
    <3> SUFFICES ASSUME NEW i \in DOMAIN n.refs PROVE params[i].node \in IdsOf(ops) \cup {NoId}
      BY <3>1
    <3>2. n.refs[i].node \in DOMAIN ids
      BY <1>1 DEF N!RefNames, N!ToSet
    <3>3. params[i].node \in {NoId, ids[n.refs[i].node]}
      BY <2>4 DEF N!FolderParams, N!NoId, NoId
    <3> QED BY <3>2, <3>3 DEF N8nReady
  <2>6. PICK inputs : inputs = {ids[n.main[1]]}
    OBVIOUS
  <2>7. inputs \subseteq IdsOf(ops)
    BY <2>2, <2>6 DEF N8nReady
  <2>8. N!MakeOps(wf, ids, n) = N!Retrieval(n, "s3", params, inputs)
    BY <1>1, <2>1, <2>2, <2>3, <2>4, <2>6 DEF N!MakeS3
  <2> QED BY <2>5, <2>7, <2>8, RetrievalMakes
<1> QED BY <1>7, <1>8, <1>9

(* A code node makes a LambdaOp of the ops it names.                       *)
LEMMA N8nMakesCode ==
  ASSUME NEW u, NEW n, N8nReady(u, n), n.type = "code"
  PROVE  Makes(N!MakeOps(wf, ids, n), N!MakeOps(wf, ids, n).id)
<1> DEFINE ins == N!ToSet(N!CodeInputs(wf, n))
           o == N!Op(N!MakeId("lambda", n.name), "LambdaOp")
           x == [o EXCEPT !.inputs = N!IdsNamed(ids, ins)]
<1>1. N!MakeId("lambda", n.name) = <<"lambda", u>> /\ <<"lambda", u>>[1] = "lambda"
  BY DEF N!MakeId, N8nReady
<1>2. Shaped(o, <<"lambda", u>>, "LambdaOp")
  BY <1>1, OpShaped
<1>3. {"id", "kind", "inputs"} \subseteq Fields
  BY DEF Fields, Op
<1>4. ins \subseteq DOMAIN ids /\ ins # {} /\ N!IdsNamed(ids, ins) \subseteq IdsOf(ops)
  BY NodeRefs, NamedEmitted
<1> HIDE DEF o, ins
<1>5. Shaped(x, <<"lambda", u>>, "LambdaOp") /\ x.inputs = N!IdsNamed(ids, ins)
  BY <1>2, <1>3 DEF Shaped
<1>6. N!MakeOps(wf, ids, n) = N!Made(<<x>>, x.id)
  BY <1>4 DEF N!MakeOps, N!MakeCode, o, ins
<1> HIDE DEF x
<1>7. IsOp(x) /\ Needed(x) \subseteq IdsOf(ops) /\ x.kind \in BodyKinds
  BY <1>1, <1>4, <1>5
     DEF Shaped, IsOp, Needed, Fields, LookedUp, LLMKinds, OpKinds, BodyKinds, RuntimeKinds
<1>8. /\ InOrder(<<x>>, IdsOf(ops)) /\ IdsOf(<<x>>) = {x.id} /\ AllOf(<<x>>, BodyKinds)
  BY <1>7, OneOp
<1>9. /\ N!Made(<<x>>, x.id).err = "" /\ N!Made(<<x>>, x.id).ops = <<x>>
      /\ N!Made(<<x>>, x.id).id = x.id
  BY DEF N!Made
<1> QED BY <1>6, <1>8, <1>9 DEF Makes

-----------------------------------------------------------------------------
(* A FormatOp, a message and the op of a chain, as the make functions      *)
(* build them.                                                             *)
LEMMA ChainOpShape ==
  ASSUME NEW n, NEW kind, NEW prefix, NEW m
  PROVE  /\ Shaped(N!ChainOp(n, kind, prefix, m), <<prefix, n.name>>, kind)
         /\ N!ChainOp(n, kind, prefix, m).args = <<m>>
<1>1. \A i, k : Shaped(N!Op(i, k), i, k)
  BY OpShaped
<1>2. PICK o : o = N!Op(<<prefix, n.name>>, kind)
  OBVIOUS
<1>3. Shaped(o, <<prefix, n.name>>, kind)
  BY <1>1, <1>2
<1>4. {"id", "kind", "inputs", "args", "history"} \subseteq Fields
  BY DEF Fields, Op
<1> QED BY <1>2, <1>3, <1>4 DEF Shaped, N!ChainOp, N!MakeId

(* The message of a chain: the system text and its content.                *)
LEMMA ChainMessageShape ==
  ASSUME NEW n, NEW content
  PROVE  /\ Shaped(N!ChainMessage(n, content), <<"message", n.name>>, "MessageOp")
         /\ N!ChainMessage(n, content).args = <<<<"text", "system">>, content>>
<1>1. \A i, k : Shaped(N!Op(i, k), i, k)
  BY OpShaped
<1>2. PICK o : o = N!Op(<<"message", n.name>>, "MessageOp")
  OBVIOUS
<1>3. Shaped(o, <<"message", n.name>>, "MessageOp")
  BY <1>1, <1>2
<1>4. {"id", "kind", "args", "roles"} \subseteq Fields
  BY DEF Fields, Op
<1> QED BY <1>2, <1>3, <1>4 DEF Shaped, N!ChainMessage, N!MakeId, N!Text

(* The message of a chain needs its content, unless that is a text.        *)
LEMMA ChainMessageNeeds ==
  ASSUME NEW n, NEW content, NEW S, content \in S \/ content[1] = "text"
  PROVE  /\ IsOp(N!ChainMessage(n, content)) /\ Needed(N!ChainMessage(n, content)) \subseteq S
         /\ N!ChainMessage(n, content).kind \in BodyKinds
<1>1. PICK x : x = N!ChainMessage(n, content)
  OBVIOUS
<1>2. /\ Shaped(x, <<"message", n.name>>, "MessageOp")
      /\ x.args = <<<<"text", "system">>, content>>
  BY <1>1, ChainMessageShape
<1>3. PICK t : t = <<"text", "system">>
  OBVIOUS
<1>4. t[1] = "text" /\ <<"message", n.name>>[1] = "message"
  BY <1>3
<1>5. ToSet(<<t, content>>) = {t, content}
  BY DEF ToSet
<1>6. {a \in ToSet(x.args) : a[1] # "text"} \subseteq S
  BY <1>2, <1>3, <1>4, <1>5
<1> QED BY <1>1, <1>2, <1>4, <1>6
     DEF Shaped, IsOp, Needed, Fields, LookedUp, LLMKinds, OpKinds, BodyKinds, RuntimeKinds

(* An op of a chain, whatever is added to it, looks up its message or its  *)
(* content.                                                                *)
LEMMA ChainOpNeeds ==
  ASSUME NEW x, NEW id, NEW kind \in LLMKinds, NEW m,
         Shaped(x, id, kind), x.args = <<m>>, id[1] \notin {"text", "message"}
  PROVE  IsOp(x) /\ Needed(x) = {m} /\ x.kind \in BodyKinds
<1>1. ToSet(x.args) = {m}
  BY DEF ToSet
<1> QED BY <1>1
     DEF Shaped, IsOp, Needed, Fields, LookedUp, LLMKinds, OpKinds, BodyKinds, RuntimeKinds

(* The references of a chain are known, and what else it names.            *)
LEMMA ChainRefs ==
  ASSUME NEW u, NEW n, N8nReady(u, n), n.type = "chain"
  PROVE  /\ ChainFits(n) /\ KindOf(u) = ChainKind(n)
         /\ n.image # "" => n.image \in DOMAIN ids
         /\ N!RefNames(n.refs) \subseteq DOMAIN ids
<1>1. ChainFits(n) /\ KindOf(u) = ChainKind(n)
  BY DEF N8nReady, PartFits, NodeFits, KindOf
<1>2. N!ChainDependencies(wf, n) \subseteq DOMAIN ids
  BY DEF N8nReady, N!ResolveDependencies
<1>3. n.image # "" => n.image \in DOMAIN ids
  BY <1>2 DEF N!ChainDependencies
<1>4. N!RefNames(n.refs) \subseteq DOMAIN ids
  <2>1. CASE n.mode \in {"rowwise", "aggregate"}
    BY <1>2, <2>1 DEF N!ChainDependencies
  <2>2. CASE n.mode \notin {"rowwise", "aggregate"}
    <3>1. N!RefNames(n.refs) \cap N!OfTypes(wf, N!DataSources) = {}
      BY <1>1, <2>2 DEF ChainFits
    <3>2. N!RefNames(n.refs) \ N!OfTypes(wf, N!DataSources) \subseteq DOMAIN ids
      BY <1>2, <2>2 DEF N!ChainDependencies
    <3> QED BY <3>1, <3>2
  <2> QED BY <2>1, <2>2
<1> QED BY <1>1, <1>3, <1>4

(* The content of a prompt: an op there is, a text, or a FormatOp.         *)
LEMMA PromptMade ==
  ASSUME NEW u, NEW n, N8nReady(u, n), n.type = "chain",
         NEW m, m.name = n.name, m.refs = n.refs, NEW p, p = N!PromptContent(wf, ids, m)
  PROVE  /\ p.err = "" /\ InOrder(p.ops, IdsOf(ops)) /\ AllOf(p.ops, BodyKinds)
         /\ p.id \in IdsOf(ops) \cup IdsOf(p.ops) \/ p.id[1] = "text"
         /\ n.refs # << >> => p.id = <<"format", u>> /\ p.id \in IdsOf(p.ops)
<1>2. CASE m.refs = << >>
  <2> DEFINE upstream == N!MainUpstream(wf, m) \cap DOMAIN ids
  <2>1. PICK c : p = N!Made(<< >>, c) /\ (c \in IdsOf(ops) \/ c[1] = "text")
    <3>1. CASE m.text = "" /\ m.table = << >> /\ upstream # {}
      <4>1. PICK x \in upstream : p = N!Made(<< >>, ids[x])
        <5>1. (CHOOSE x \in upstream : TRUE) \in upstream
          BY <3>1
        <5>2. p = N!Made(<< >>, ids[CHOOSE x \in upstream : TRUE])
          BY <1>2, <3>1 DEF N!PromptContent
        <5> QED BY <5>1, <5>2
      <4>2. ids[x] \in IdsOf(ops)
        BY DEF N8nReady
      <4> QED BY <4>1, <4>2
    <3>2. CASE ~(m.text = "" /\ m.table = << >> /\ upstream # {})
      <4>1. p = N!Made(<< >>, N!Text(m.text))
        BY <1>2, <3>2 DEF N!PromptContent
      <4>2. N!Text(m.text)[1] = "text"
        BY DEF N!Text
      <4> QED BY <4>1, <4>2
    <3> QED BY <3>1, <3>2
  <2>2. p.ops = << >> /\ p.err = "" /\ p.id = c
    <3>1. PICK o : o = << >>
      OBVIOUS
    <3>2. p = N!Made(o, c)
      BY <2>1, <3>1
    <3> QED BY ONLY <3>1, <3>2 DEF N!Made
  <2> QED BY <1>2, <2>1, <2>2, NoOps
<1>3. CASE m.refs # << >>
  <2> DEFINE o == N!Op(N!MakeId("format", m.name), "FormatOp")
             args == [i \in DOMAIN m.refs |-> ids[m.refs[i].node]]
             x == [o EXCEPT !.args = args, !.inputs = N!IdsNamed(ids, N!RefNames(m.refs)),
                            !.bare = m.bare]
  <2>1. N!MakeId("format", m.name) = <<"format", u>> /\ <<"format", u>>[1] = "format"
    BY DEF N!MakeId, N8nReady
  <2>2. Shaped(o, <<"format", u>>, "FormatOp")
    BY <2>1, OpShaped
  <2>3. {"id", "kind", "inputs", "args", "bare"} \subseteq Fields
    BY DEF Fields, Op
  <2>4. N!RefNames(m.refs) \subseteq DOMAIN ids
    BY ChainRefs
  <2>5. N!KnownRefs(ids, m.refs)
    BY <2>4 DEF N!KnownRefs
  <2>6. p = N!Made(<<x>>, x.id)
    BY <1>3, <2>5 DEF N!PromptContent
  <2>7. \A i \in DOMAIN args : args[i] \in IdsOf(ops)
    BY <2>4 DEF N!RefNames, N!ToSet, N8nReady
  <2> HIDE DEF o, args
  <2>8. Shaped(x, <<"format", u>>, "FormatOp") /\ x.args = args
    BY <2>2, <2>3 DEF Shaped
  <2> HIDE DEF x
  <2>9. ToSet(x.args) \subseteq IdsOf(ops)
    BY <2>7, <2>8 DEF ToSet
  <2>10. /\ IsOp(x) /\ Needed(x) \subseteq IdsOf(ops) /\ x.kind \in BodyKinds
         /\ x.id = <<"format", u>>
    BY <2>1, <2>8, <2>9
       DEF Shaped, IsOp, Needed, Fields, LookedUp, LLMKinds, OpKinds, BodyKinds, RuntimeKinds
  <2>11. p.ops = <<x>> /\ p.id = x.id /\ p.err = ""
    <3>1. PICK s, i : s = <<x>> /\ i = x.id
      OBVIOUS
    <3>2. p = N!Made(s, i)
      BY <2>6, <3>1
    <3> QED BY ONLY <3>1, <3>2 DEF N!Made
  <2>12. InOrder(<<x>>, IdsOf(ops)) /\ IdsOf(<<x>>) = {x.id} /\ AllOf(<<x>>, BodyKinds)
    BY <2>10, OneOp
  <2> QED BY <2>10, <2>11, <2>12
<1> QED BY <1>2, <1>3

(* A prompt, its message and the op that takes it.                         *)
LEMMA PromptThenOp ==
  ASSUME NEW u, NEW n, N8nReady(u, n), NEW p, InOrder(p, IdsOf(ops)), AllOf(p, BodyKinds),
         NEW c, c \in IdsOf(ops) \cup IdsOf(p) \/ c[1] = "text",
         NEW x, NEW id, NEW kind \in LLMKinds, Shaped(x, id, kind),
         id[1] \notin {"text", "message"}, x.args = <<N!ChainMessage(n, c).id>>,
         NEW made, made = N!Made(p \o <<N!ChainMessage(n, c), x>>, x.id)
  PROVE  Makes(made, made.id)
<1>1. PICK m : m = N!ChainMessage(n, c)
  OBVIOUS
<1>2. IsOp(m) /\ Needed(m) \subseteq IdsOf(ops) \cup IdsOf(p) /\ m.kind \in BodyKinds
  BY <1>1, ChainMessageNeeds
<1>3. x.args = <<m.id>>
  BY <1>1
<1>4. IsOp(x) /\ Needed(x) = {m.id} /\ x.kind \in BodyKinds
  <2>1. PICK i : i = m.id
    OBVIOUS
  <2>2. x.args = <<i>>
    BY <1>3, <2>1
  <2> QED BY <2>1, <2>2, ChainOpNeeds
<1>5. PICK t : t = <<m, x>>
  OBVIOUS
<1>6. InOrder(t, IdsOf(ops) \cup IdsOf(p)) /\ IdsOf(t) = {m.id, x.id} /\ AllOf(t, BodyKinds)
  BY <1>2, <1>4, <1>5, TwoOps
<1>7. /\ InOrder(p \o t, IdsOf(ops)) /\ IdsOf(p \o t) = IdsOf(p) \cup IdsOf(t)
      /\ AllOf(p \o t, BodyKinds)
  BY <1>6, ConcatInOrder
<1>8. made.err = "" /\ made.ops = p \o t /\ made.id = x.id
  BY <1>1, <1>5 DEF N!Made
<1> QED BY <1>6, <1>7, <1>8 DEF Makes

(* The columns of a chain are references of it.                            *)
LEMMA ColumnsKept ==
  ASSUME NEW refs, IsList(refs)
  PROVE  ToSet(N!ColumnRefs(ids, refs)) \subseteq ToSet(refs)
<1>1. refs \in Seq(ToSet(refs))
  BY DEF IsList
<1>2. PICK S : S = {r \in N!ToSet(refs) : r.node \in DOMAIN ids}
  OBVIOUS
<1>3. N!ColumnRefs(ids, refs) = Keep(refs, S)
  BY <1>2 DEF N!ColumnRefs, N!Keep, Keep
<1>4. Keep(refs, S) \in Seq(ToSet(refs))
  BY <1>1, KeepElements
<1>5. PICK k : k = Keep(refs, S)
  OBVIOUS
<1>6. \A i \in DOMAIN k : k[i] \in ToSet(refs)
  BY <1>4, <1>5
<1>7. ToSet(k) \subseteq ToSet(refs)
  BY <1>6 DEF ToSet
<1> QED BY <1>3, <1>5, <1>7

(* The four forms of a chain.                                              *)
LEMMA N8nMakesRowwise ==
  ASSUME NEW u, NEW n, N8nReady(u, n), n.type = "chain", n.mode = "rowwise"
  PROVE  Makes(N!MakeRowwise(wf, ids, n), N!MakeRowwise(wf, ids, n).id)
<1>1. ChainFits(n) /\ wf.inputs = N!OfTypes(wf, {"trigger"})
  BY ChainRefs DEF N8nReady, InputParts
<1>2. N!ColumnsOK(wf, ids, n.refs)
  <2> SUFFICES ASSUME NEW r \in N!ToSet(N!ColumnRefs(ids, n.refs))
               PROVE  /\ r.node \in N!OfTypes(wf, {"postgres"}) => r.path # ""
                      /\ r.node \in N!OfTypes(wf, {"trigger"}) => r.node \in wf.inputs
    BY DEF N!ColumnsOK
  <2>1. r \in ToSet(n.refs)
    BY ColumnsKept DEF N8nReady, N!ToSet, ToSet
  <2> QED BY <1>1, <2>1 DEF ChainFits, RowByRow
<1> DEFINE c == N!Text("row")
           m == N!ChainMessage(n, c)
           o == N!ChainOp(n, "LLMChatOp", "llm", m.id)
           x == [o EXCEPT !.rowwise = TRUE, !.columns = N!Columns(wf, ids, n.refs)]
<1>3. N!MakeRowwise(wf, ids, n) = N!Made(<<m, x>>, x.id)
  BY <1>2 DEF N!MakeRowwise
<1>4. Shaped(o, <<"llm", n.name>>, "LLMChatOp") /\ o.args = <<m.id>>
  <2>1. PICK i : i = m.id
    OBVIOUS
  <2>2. o = N!ChainOp(n, "LLMChatOp", "llm", i)
    BY <2>1
  <2> HIDE DEF o
  <2> QED BY <2>1, <2>2, ChainOpShape
<1>5. c[1] = "text"
  BY DEF N!Text
<1> HIDE DEF c, m, o
<1>6. Shaped(x, <<"llm", n.name>>, "LLMChatOp") /\ x.args = <<m.id>>
  BY <1>4 DEF Shaped, Fields, Op
<1> HIDE DEF x
<1>7. << >> \o <<m, x>> = <<m, x>> /\ <<"llm", n.name>>[1] = "llm"
  OBVIOUS
<1>8. PICK p, id, kind, made :
        /\ p = << >> /\ id = <<"llm", n.name>> /\ kind = "LLMChatOp"
        /\ made = N!MakeRowwise(wf, ids, n)
  OBVIOUS
<1>9. /\ InOrder(p, IdsOf(ops)) /\ AllOf(p, BodyKinds) /\ kind \in LLMKinds
      /\ id[1] \notin {"text", "message"} /\ Shaped(x, id, kind)
      /\ x.args = <<N!ChainMessage(n, c).id>>
  BY <1>6, <1>7, <1>8, NoOps DEF LLMKinds, m
<1>10. made = N!Made(p \o <<N!ChainMessage(n, c), x>>, x.id)
  BY <1>3, <1>7, <1>8 DEF m
<1>11. Makes(made, made.id)
  BY <1>5, <1>9, <1>10, PromptThenOp
<1> QED BY <1>8, <1>11

(* A chain that generates text.                                            *)
LEMMA N8nMakesText ==
  ASSUME NEW u, NEW n, N8nReady(u, n), n.type = "chain"
  PROVE  Makes(N!MakeTextGeneration(wf, ids, n), N!MakeTextGeneration(wf, ids, n).id)
<1> DEFINE p == N!PromptContent(wf, ids, n)
           m == N!ChainMessage(n, p.id)
           rows == IF n.opType = "text-generation" /\ n.mode = "aggregate"
                   THEN N!ColumnRefs(ids, n.table) ELSE << >>
           table == [i \in DOMAIN rows |-> [node |-> ids[rows[i].node], path |-> TRUE]]
           o == N!ChainOp(n, "LLMChatOp", "llm", m.id)
           x == [o EXCEPT !.fields = n.fields, !.table = table]
<1>1. /\ p.err = "" /\ InOrder(p.ops, IdsOf(ops)) /\ AllOf(p.ops, BodyKinds)
      /\ p.id \in IdsOf(ops) \cup IdsOf(p.ops) \/ p.id[1] = "text"
  BY PromptMade
<1>2. N!MakeTextGeneration(wf, ids, n) = N!Made(p.ops \o <<m, x>>, x.id)
  BY <1>1 DEF N!MakeTextGeneration
<1>3. Shaped(o, <<"llm", n.name>>, "LLMChatOp") /\ o.args = <<m.id>>
  <2>1. PICK i : i = m.id
    OBVIOUS
  <2>2. o = N!ChainOp(n, "LLMChatOp", "llm", i)
    BY <2>1
  <2> HIDE DEF o
  <2> QED BY <2>1, <2>2, ChainOpShape
<1> HIDE DEF p, m, o, table
<1>4. Shaped(x, <<"llm", n.name>>, "LLMChatOp") /\ x.args = <<m.id>>
  BY <1>3 DEF Shaped, Fields, Op
<1> HIDE DEF x
<1>5. <<"llm", n.name>>[1] = "llm"
  OBVIOUS
<1>6. PICK q, c, id, kind, made :
        /\ q = p.ops /\ c = p.id /\ id = <<"llm", n.name>> /\ kind = "LLMChatOp"
        /\ made = N!MakeTextGeneration(wf, ids, n)
  OBVIOUS
<1>7. /\ InOrder(q, IdsOf(ops)) /\ AllOf(q, BodyKinds) /\ kind \in LLMKinds
      /\ c \in IdsOf(ops) \cup IdsOf(q) \/ c[1] = "text"
      /\ id[1] \notin {"text", "message"} /\ Shaped(x, id, kind)
      /\ x.args = <<N!ChainMessage(n, c).id>>
  BY <1>1, <1>4, <1>5, <1>6 DEF LLMKinds, m
<1>8. made = N!Made(q \o <<N!ChainMessage(n, c), x>>, x.id)
  BY <1>2, <1>6 DEF m
<1>9. Makes(made, made.id)
  BY <1>7, <1>8, PromptThenOp
<1> QED BY <1>6, <1>9

(* A chain that understands an image.                                      *)
LEMMA N8nMakesVision ==
  ASSUME NEW u, NEW n, N8nReady(u, n), n.type = "chain", n.opType = "image-understanding"
  PROVE  Makes(N!MakeImageUnderstanding(wf, ids, n), N!MakeImageUnderstanding(wf, ids, n).id)
<1> DEFINE columns == N!Columns(wf, ids, n.refs)
           p == IF columns # << >> THEN N!Made(<< >>, N!Text("row"))
                ELSE N!PromptContent(wf, ids, n)
           m == N!ChainMessage(n, p.id)
           o == N!ChainOp(n, "LLMVisionOp", "llmvision", m.id)
           x == [o EXCEPT !.image = ids[n.image], !.rowwise = (columns # << >>),
                          !.columns = columns]
<1>1. ChainFits(n) /\ n.image \in DOMAIN ids /\ wf.inputs = N!OfTypes(wf, {"trigger"})
  <2>1. ChainFits(n) /\ KindOf(u) = "LLMVisionOp" /\ (n.image # "" => n.image \in DOMAIN ids)
    BY ChainRefs DEF ChainKind
  <2>2. ImageUses(u) # {} /\ ImageUses(u) = {n.image} \ {""}
    BY <2>1 DEF N8nReady, PartFits, ImageUses
  <2> QED BY <2>1, <2>2 DEF N8nReady, InputParts
<1>2. N!ColumnsOK(wf, ids, n.refs)
  <2> SUFFICES ASSUME NEW r \in N!ToSet(N!ColumnRefs(ids, n.refs))
               PROVE  /\ r.node \in N!OfTypes(wf, {"postgres"}) => r.path # ""
                      /\ r.node \in N!OfTypes(wf, {"trigger"}) => r.node \in wf.inputs
    BY DEF N!ColumnsOK
  <2>1. r \in ToSet(n.refs)
    BY ColumnsKept DEF N8nReady, N!ToSet, ToSet
  <2>2. n.refs # << >>
    <3> SUFFICES ASSUME n.refs = << >> PROVE FALSE
      OBVIOUS
    <3>1. ToSet(<< >>) = {}
      BY DEF ToSet
    <3> QED BY <2>1, <3>1
  <2> QED BY <1>1, <2>1, <2>2 DEF ChainFits, RowByRow
<1>3. /\ p.err = "" /\ InOrder(p.ops, IdsOf(ops)) /\ AllOf(p.ops, BodyKinds)
      /\ p.id \in IdsOf(ops) \cup IdsOf(p.ops) \/ p.id[1] = "text"
  <2> HIDE DEF columns
  <2>1. CASE columns # << >>
    <3>1. PICK s, i : s = << >> /\ i = N!Text("row")
      OBVIOUS
    <3>2. p = N!Made(s, i)
      BY <2>1, <3>1
    <3>3. i[1] = "text"
      BY <3>1 DEF N!Text
    <3> HIDE DEF p
    <3>4. p.err = "" /\ p.ops = s /\ p.id = i
      BY <3>2 DEF N!Made
    <3> QED BY <3>1, <3>3, <3>4, NoOps
  <2>2. CASE columns = << >>
    <3>1. p = N!PromptContent(wf, ids, n)
      BY <2>2
    <3> HIDE DEF p
    <3> QED BY <3>1, PromptMade
  <2> QED BY <2>1, <2>2
<1>4. N!MakeImageUnderstanding(wf, ids, n) = N!Made(p.ops \o <<m, x>>, x.id)
  BY <1>1, <1>2, <1>3 DEF N!MakeImageUnderstanding
<1> HIDE DEF p
<1>5. Shaped(o, <<"llmvision", n.name>>, "LLMVisionOp") /\ o.args = <<m.id>>
  <2>1. PICK i : i = m.id
    OBVIOUS
  <2>2. o = N!ChainOp(n, "LLMVisionOp", "llmvision", i)
    BY <2>1
  <2> HIDE DEF o
  <2> QED BY <2>1, <2>2, ChainOpShape
<1> HIDE DEF m, o, columns
<1>6. Shaped(x, <<"llmvision", n.name>>, "LLMVisionOp") /\ x.args = <<m.id>>
  BY <1>5 DEF Shaped, Fields, Op
<1> HIDE DEF x
<1>7. <<"llmvision", n.name>>[1] = "llmvision"
  OBVIOUS
<1>8. PICK q, c, id, kind, made :
        /\ q = p.ops /\ c = p.id /\ id = <<"llmvision", n.name>> /\ kind = "LLMVisionOp"
        /\ made = N!MakeImageUnderstanding(wf, ids, n)
  OBVIOUS
<1>9. /\ InOrder(q, IdsOf(ops)) /\ AllOf(q, BodyKinds) /\ kind \in LLMKinds
      /\ c \in IdsOf(ops) \cup IdsOf(q) \/ c[1] = "text"
      /\ id[1] \notin {"text", "message"} /\ Shaped(x, id, kind)
      /\ x.args = <<N!ChainMessage(n, c).id>>
  BY <1>3, <1>6, <1>7, <1>8 DEF LLMKinds, m
<1>10. made = N!Made(q \o <<N!ChainMessage(n, c), x>>, x.id)
  BY <1>4, <1>8 DEF m
<1>11. Makes(made, made.id)
  BY <1>9, <1>10, PromptThenOp
<1> QED BY <1>8, <1>11

(* A chain that generates an image.                                        *)
LEMMA N8nMakesImage ==
  ASSUME NEW u, NEW n, N8nReady(u, n), n.type = "chain", n.opType = "image-generation"
  PROVE  Makes(N!MakeImageGeneration(wf, ids, n), N!MakeImageGeneration(wf, ids, n).id)
<1> DEFINE a == N!AfterSystem(n)
           p == N!PromptContent(wf, ids, a)
           literal == p.id[1] = "text" /\ a.text # "op-like"
           data == N!Op(N!MakeId("data", n.name), "DataOp")
           content == IF literal THEN data.id ELSE p.id
           o == N!ChainOp(n, "ImageGenerationOp", "imagegen", content)
           x == [o EXCEPT !.history = FALSE]
           more == IF literal THEN <<data>> ELSE << >>
<1>1. a.name = n.name /\ a.refs = n.refs /\ a.text # "op-like"
  BY ChainRefs DEF ChainFits, N!AfterSystem
<1> HIDE DEF a
<1>2. /\ p.err = "" /\ InOrder(p.ops, IdsOf(ops)) /\ AllOf(p.ops, BodyKinds)
      /\ p.id \in IdsOf(ops) \cup IdsOf(p.ops) \/ p.id[1] = "text"
  BY <1>1, PromptMade
<1>3. N!MakeImageGeneration(wf, ids, n) = N!Made(p.ops \o more \o <<x>>, x.id)
  BY <1>2 DEF N!MakeImageGeneration, a
<1> HIDE DEF p
<1>4. IsOp(data) /\ Needed(data) = {} /\ data.kind \in BodyKinds
  <2>1. N!MakeId("data", n.name) = <<"data", n.name>> /\ <<"data", n.name>>[1] = "data"
    BY DEF N!MakeId
  <2>2. Shaped(data, <<"data", n.name>>, "DataOp")
    BY <2>1, OpShaped
  <2> HIDE DEF data
  <2> QED BY <2>1, <2>2
          DEF Shaped, IsOp, Needed, Fields, LookedUp, LLMKinds, OpKinds, BodyKinds, RuntimeKinds
<1> HIDE DEF data
<1>5. /\ InOrder(p.ops \o more, IdsOf(ops)) /\ AllOf(p.ops \o more, BodyKinds)
      /\ content \in IdsOf(ops) \cup IdsOf(p.ops \o more)
  <2>1. CASE literal
    <3>1. PICK t : t = <<data>>
      OBVIOUS
    <3>2. /\ InOrder(t, IdsOf(ops) \cup IdsOf(p.ops)) /\ IdsOf(t) = {data.id}
          /\ AllOf(t, BodyKinds)
      BY <1>4, <3>1, OneOp
    <3>3. /\ InOrder(p.ops \o t, IdsOf(ops)) /\ AllOf(p.ops \o t, BodyKinds)
          /\ IdsOf(p.ops \o t) = IdsOf(p.ops) \cup IdsOf(t)
      BY <1>2, <3>2, ConcatInOrder
    <3>4. more = t /\ content = data.id
      BY <2>1, <3>1
    <3> HIDE DEF more, content
    <3> QED BY <3>2, <3>3, <3>4
  <2>2. CASE ~literal
    <3>1. more = << >> /\ content = p.id /\ p.id[1] # "text"
      BY <1>1, <2>2
    <3>2. p.ops \o << >> = p.ops
      <4>1. p.ops \in Seq(ToSet(p.ops))
        BY <1>2 DEF InOrder, IsList
      <4> QED BY <4>1
    <3> HIDE DEF more, content
    <3> QED BY <1>2, <3>1, <3>2
  <2> QED BY <2>1, <2>2
<1> HIDE DEF content, more
<1>6. Shaped(o, <<"imagegen", n.name>>, "ImageGenerationOp") /\ o.args = <<content>>
  BY ChainOpShape
<1> HIDE DEF o
<1>7. Shaped(x, <<"imagegen", n.name>>, "ImageGenerationOp") /\ x.args = <<content>>
  BY <1>6 DEF Shaped, Fields, Op
<1> HIDE DEF x
<1>8. IsOp(x) /\ Needed(x) = {content} /\ x.kind \in BodyKinds
  <2>1. PICK id, kind : id = <<"imagegen", n.name>> /\ kind = "ImageGenerationOp"
    OBVIOUS
  <2>2. id[1] = "imagegen" /\ kind \in LLMKinds
    BY <2>1 DEF LLMKinds
  <2> QED BY <1>7, <2>1, <2>2, ChainOpNeeds
<1>9. PICK q, t : q = p.ops \o more /\ t = <<x>>
  OBVIOUS
<1>10. InOrder(t, IdsOf(ops) \cup IdsOf(q)) /\ IdsOf(t) = {x.id} /\ AllOf(t, BodyKinds)
  BY <1>5, <1>8, <1>9, OneOp
<1>11. /\ InOrder(q \o t, IdsOf(ops)) /\ IdsOf(q \o t) = IdsOf(q) \cup IdsOf(t)
       /\ AllOf(q \o t, BodyKinds)
  BY <1>5, <1>9, <1>10, ConcatInOrder
<1>12. PICK s, i, made : s = q \o t /\ i = x.id /\ made = N!MakeImageGeneration(wf, ids, n)
  OBVIOUS
<1>13. made = N!Made(s, i)
  BY <1>3, <1>9, <1>12
<1>14. made.err = "" /\ made.ops = s /\ made.id = i
  BY <1>13 DEF N!Made
<1> QED BY <1>10, <1>11, <1>12, <1>14 DEF Makes

(* Every node whose dependencies are made is.                              *)
LEMMA N8nMakes ==
  ASSUME NEW u, Visit(u), ~IsYaml
  PROVE  Makes(Made(u), Made(u).id)
<1> DEFINE n == Part(u)
<1>1. N8nReady(u, n)
  BY NodeReady
<1>2. Made(u) = N!MakeOps(wf, ids, n) /\ n.type \in N!BuiltTypes
  BY <1>1 DEF Made, Part, N8nReady
<1> HIDE DEF n
<1>3. CASE n.type \in {"postgres", "s3", "agent"}
  BY <1>1, <1>2, <1>3, N8nMakesRetrieval
<1>4. CASE n.type = "code"
  BY <1>1, <1>2, <1>4, N8nMakesCode
<1>5. CASE n.type = "chain"
  <2>1. ChainFits(n)
    BY <1>1, <1>5, ChainRefs
  <2>2. N!MakeOps(wf, ids, n) = N!MakeChain(wf, ids, n) /\ N!ModelOK(wf, n)
    BY <1>5, <2>1 DEF N!MakeOps, ChainFits
  <2>3. CASE n.opType = "text-generation" /\ n.mode = "rowwise"
    <3>1. N!MakeChain(wf, ids, n) = N!MakeRowwise(wf, ids, n)
      BY <2>2, <2>3 DEF N!MakeChain
    <3> QED BY <1>1, <1>2, <1>5, <2>2, <2>3, <3>1, N8nMakesRowwise
  <2>4. CASE n.opType = "image-generation"
    <3>1. N!MakeChain(wf, ids, n) = N!MakeImageGeneration(wf, ids, n)
      BY <2>2, <2>4 DEF N!MakeChain
    <3> QED BY <1>1, <1>2, <1>5, <2>2, <2>4, <3>1, N8nMakesImage
  <2>5. CASE n.opType = "image-understanding"
    <3>1. N!MakeChain(wf, ids, n) = N!MakeImageUnderstanding(wf, ids, n)
      BY <2>2, <2>5 DEF N!MakeChain
    <3> QED BY <1>1, <1>2, <1>5, <2>2, <2>5, <3>1, N8nMakesVision
  <2>6. CASE /\ ~(n.opType = "text-generation" /\ n.mode = "rowwise")
             /\ n.opType \notin {"image-generation", "image-understanding"}
    <3>1. N!MakeChain(wf, ids, n) = N!MakeTextGeneration(wf, ids, n)
      BY <2>1, <2>2, <2>6 DEF N!MakeChain, ChainFits
    <3> QED BY <1>1, <1>2, <1>5, <2>2, <3>1, N8nMakesText
  <2> QED BY <2>3, <2>4, <2>5, <2>6
<1> QED BY <1>2, <1>3, <1>4, <1>5 DEF N!BuiltTypes

-----------------------------------------------------------------------------
(* What Graph.from_json makes of an op.                                    *)
LEMMA FromJsonKeeps ==
  ASSUME NEW op, IsOp(op), NEW S, NEW x, x = FromJson(op, S)
  PROVE  /\ x.id = op.id /\ x.kind = op.kind /\ x.name = op.name
         /\ op.kind = "MessageOp" => x.inputs = ToSet(op.args) \cap S
<1>1. /\ DOMAIN op = Fields /\ op.kind \in OpKinds
      /\ {"id", "kind", "name", "inputs", "args", "fields", "table"} \subseteq Fields
  BY DEF IsOp, Fields, Op
<1>2. \A I : /\ Linked(op, I).id = op.id /\ Linked(op, I).kind = op.kind
             /\ Linked(op, I).name = op.name /\ Linked(op, I).inputs = I
             /\ DOMAIN Linked(op, I) = Fields
  BY <1>1 DEF Linked
<1>3. CASE op.kind = "MessageOp"
  <2>1. PICK l : l = Linked(op, ToSet(op.args) \cap S)
    OBVIOUS
  <2>2. /\ l.id = op.id /\ l.kind = op.kind /\ l.name = op.name
        /\ l.inputs = ToSet(op.args) \cap S /\ DOMAIN l = Fields
    BY <1>2, <2>1
  <2>3. \E a : x = [l EXCEPT !.args = a]
    BY <1>3, <2>1 DEF FromJson, MessageFromJson
  <2> QED BY <1>1, <2>2, <2>3
<1>4. CASE op.kind = "LLMVisionOp"
  <2>1. PICK l : l = Linked(op, ToSet(op.args) \cup ({op.image} \cap S))
    OBVIOUS
  <2>2. /\ l.id = op.id /\ l.kind = op.kind /\ l.name = op.name /\ DOMAIN l = Fields
    BY <1>2, <2>1
  <2>3. x = [l EXCEPT !.fields = {}, !.table = << >>]
    BY <1>4, <2>1 DEF FromJson, LLMVisionFromJson
  <2> QED BY <1>1, <1>4, <2>2, <2>3
<1>5. CASE op.kind \in {"LLMChatOp", "ImageGenerationOp", "EmbeddingOp", "FormatOp"}
  <2>1. x = Linked(op, ToSet(op.args))
    BY <1>5 DEF FromJson, LLMChatFromJson, ImageGenerationFromJson, EmbeddingFromJson,
       FormatFromJson
  <2> QED BY <1>2, <1>5, <2>1
<1>6. CASE op.kind \in {"LambdaOp", "DataRetrievalOp", "OutputOp", "InputOp", "DataOp"}
  <2>1. x = op
    BY <1>6 DEF FromJson, LambdaFromJson, DataRetrievalFromJson, OutputFromJson
  <2> QED BY <1>6, <2>1
<1> QED BY <1>1, <1>3, <1>4, <1>5, <1>6 DEF OpKinds, BodyKinds, RuntimeKinds, LLMKinds

(* Names of inputs and of outputs, when ops are appended.                  *)
LEMMA NamesAppended ==
  ASSUME NEW s, IsList(s), NEW t, IsList(t), NEW kind
  PROVE  /\ NamesUnique(s, kind) /\ (\A i \in DOMAIN t : t[i].kind # kind)
              => NamesUnique(s \o t, kind)
         /\ NamesUnique(t, kind) /\ (\A i \in DOMAIN s : s[i].kind # kind)
              => NamesUnique(s \o t, kind)
         /\ (\A i \in DOMAIN t : t[i].kind # "InputOp") => InputNames(s \o t) = InputNames(s)
<1>1. PICK A : s \in Seq(A) /\ t \in Seq(A)
  <2>1. s \in Seq(ToSet(s)) /\ t \in Seq(ToSet(t))
    BY DEF IsList
  <2>2. PICK B : B = ToSet(s) \cup ToSet(t)
    OBVIOUS
  <2>3. s \in Seq(B) /\ t \in Seq(B)
    BY <2>1, <2>2
  <2> QED BY <2>3
<1>2. PICK r : r = s \o t
  OBVIOUS
<1>3. /\ Len(s) \in Nat /\ Len(t) \in Nat /\ DOMAIN s = 1..Len(s) /\ DOMAIN t = 1..Len(t)
      /\ DOMAIN r = 1..(Len(s) + Len(t))
      /\ \A i \in 1..Len(s) : r[i] = s[i]
      /\ \A i \in 1..Len(t) : r[Len(s) + i] = t[i]
  BY <1>1, <1>2
<1>4. \A i \in DOMAIN r : \/ i \in DOMAIN s /\ r[i] = s[i]
                          \/ \E j \in DOMAIN t : i = Len(s) + j /\ r[i] = t[j]
  <2> SUFFICES ASSUME NEW i \in DOMAIN r, i \notin DOMAIN s
               PROVE  \E j \in DOMAIN t : i = Len(s) + j /\ r[i] = t[j]
    BY <1>3
  <2>1. i - Len(s) \in DOMAIN t /\ i = Len(s) + (i - Len(s))
    BY <1>3
  <2> QED BY <1>3, <2>1
<1>5. NamesUnique(s, kind) /\ (\A i \in DOMAIN t : t[i].kind # kind) => NamesUnique(r, kind)
  BY <1>4 DEF NamesUnique
<1>6. NamesUnique(t, kind) /\ (\A i \in DOMAIN s : s[i].kind # kind) => NamesUnique(r, kind)
  BY <1>4 DEF NamesUnique
<1>7. (\A i \in DOMAIN t : t[i].kind # "InputOp") => InputNames(r) = InputNames(s)
  <2> SUFFICES ASSUME \A i \in DOMAIN t : t[i].kind # "InputOp"
               PROVE  InputNames(r) = InputNames(s)
    OBVIOUS
  <2>1. ASSUME NEW i \in DOMAIN r, r[i].kind = "InputOp" PROVE i \in DOMAIN s /\ r[i] = s[i]
    BY <1>4, <2>1
  <2>2. \A i \in DOMAIN s : i \in DOMAIN r /\ r[i] = s[i]
    BY <1>3
  <2> QED BY <2>1, <2>2 DEF InputNames
<1> QED BY <1>2, <1>5, <1>6, <1>7

-----------------------------------------------------------------------------
(* The invariant of a document that keeps the rules: its ops are in order, *)
(* in the loop every part that is not pending has its op, inputs and       *)
(* outputs have names of their own, what is loaded is what was emitted,    *)
(* and only a build may refuse it.                                         *)
LoopEmitted ==
  /\ AllOf(ops, BodyKinds \cup {"InputOp"})
  /\ \A v \in Parts \ pending : v \in DOMAIN ids /\ ids[v] \in IdsOf(ops)
  /\ IsYaml => ids = Y!Register(wf)

(* What was emitted.                                                       *)
Emission ==
  /\ InOrder(ops, {})
  /\ NamesUnique(ops, "OutputOp")
  /\ phase # "start" => NamesUnique(ops, "InputOp") /\ InputNames(ops) = InputsGiven
  /\ phase = "pass" => LoopEmitted

(* What was loaded.                                                        *)
Loading ==
  /\ IsList(loaded) /\ Len(loaded) <= Len(ops)
  /\ \A i \in DOMAIN loaded : loaded[i] = FromJson(ops[i], IdsUpTo(ops, i - 1))
  /\ phase \in {"start", "pass"} => loaded = << >>

(* Only a build refuses.                                                   *)
Accepted == phase = "refused" => err \in {"build", "profile"}

(* The invariant.                                                          *)
SaneInv == KeepsRules => Emission /\ Loading /\ Accepted

(* The ops of the inputs.                                                  *)
InputsEmitted(s, known) ==
  /\ InOrder(s, {}) /\ AllOf(s, {"InputOp"})
  /\ NamesUnique(s, "InputOp") /\ InputNames(s) = InputsGiven
  /\ \A v \in InputParts : v \in DOMAIN known /\ known[v] \in IdsOf(s)

(* InputOps by name.                                                       *)
LEMMA InputOpsListed ==
  ASSUME NEW names, IsList(names), IsInjective(names),
         NEW s, s = [i \in DOMAIN names |-> s[i]],
         \A i \in DOMAIN names : /\ Shaped(s[i], <<"input", names[i]>>, "InputOp")
                                 /\ s[i].name = names[i]
  PROVE  /\ InOrder(s, {}) /\ AllOf(s, {"InputOp"}) /\ NamesUnique(s, "InputOp")
         /\ InputNames(s) = ToSet(names)
         /\ \A v \in ToSet(names) : <<"input", v>> \in IdsOf(s)
<1>1. names \in Seq(ToSet(names))
  BY DEF IsList
<1>2. PICK k \in Nat : DOMAIN names = 1..k
  BY <1>1
<1>0. DOMAIN s = DOMAIN names
  OBVIOUS
<1>3. ASSUME NEW i \in DOMAIN s
      PROVE  IsOp(s[i]) /\ Needed(s[i]) = {} /\ s[i].kind = "InputOp"
  <2>1. PICK x, id : x = s[i] /\ id = <<"input", names[i]>>
    OBVIOUS
  <2>2. Shaped(x, id, "InputOp") /\ id[1] = "input"
    BY <1>0, <2>1
  <2>3. IsOp(x) /\ Needed(x) = {} /\ x.kind = "InputOp"
    BY <2>2
         DEF Shaped, IsOp, Needed, Fields, LookedUp, LLMKinds, OpKinds, BodyKinds, RuntimeKinds
  <2> QED BY <2>1, <2>3
<1>4. IsList(s)
  <2>1. s \in Seq(ToSet(s))
    <3>1. \A i \in 1..k : s[i] \in ToSet(s)
      BY <1>0, <1>2 DEF ToSet
    <3> QED BY <1>2, <3>1
  <2> QED BY <2>1 DEF IsList
<1>5. InOrder(s, {}) /\ AllOf(s, {"InputOp"})
  BY <1>3, <1>4 DEF InOrder, AllOf
<1>6. NamesUnique(s, "InputOp")
  BY <1>0 DEF NamesUnique, IsInjective
<1>7. InputNames(s) = ToSet(names)
  BY <1>0, <1>3 DEF InputNames, ToSet
<1>8. \A v \in ToSet(names) : <<"input", v>> \in IdsOf(s)
  BY <1>0 DEF ToSet, IdsOf, Shaped
<1> QED BY <1>5, <1>6, <1>7, <1>8

(* The inputs of a YAML document, which are keyed by name.                 *)
LEMMA YamlInputs ==
  ASSUME Document, IsYaml
  PROVE  InputsEmitted(Y!InputOps(wf), Y!Register(wf))
<1>1. IsList(wf.inputs) /\ IsInjective(wf.inputs)
  BY DocumentAssumption DEF Document, IsYaml
<1>2. PICK s, names : s = Y!InputOps(wf) /\ names = wf.inputs
  OBVIOUS
<1>3. ASSUME NEW i \in DOMAIN names
      PROVE  Shaped(s[i], <<"input", names[i]>>, "InputOp") /\ s[i].name = names[i]
  <2>1. PICK o : o = Y!Op(<<"input", names[i]>>, "InputOp")
    OBVIOUS
  <2>2. s[i] = [o EXCEPT !.name = names[i]]
    BY <1>2, <2>1 DEF Y!InputOps, Y!MakeId
  <2>3. Shaped(o, <<"input", names[i]>>, "InputOp")
    <3>1. \A id, kind : Shaped(Y!Op(id, kind), id, kind)
      BY OpShaped
    <3> QED BY <2>1, <3>1
  <2>4. {"id", "kind", "name"} \subseteq Fields
    BY DEF Fields, Op
  <2> QED BY <2>2, <2>3, <2>4 DEF Shaped
<1>4. s = [i \in DOMAIN names |-> s[i]]
  BY <1>2 DEF Y!InputOps
<1>5. /\ InOrder(s, {}) /\ AllOf(s, {"InputOp"}) /\ NamesUnique(s, "InputOp")
      /\ InputNames(s) = ToSet(names)
      /\ \A v \in ToSet(names) : <<"input", v>> \in IdsOf(s)
  BY <1>1, <1>2, <1>3, <1>4, InputOpsListed
<1>6. \A v \in ToSet(names) : v \in DOMAIN Y!Register(wf) /\ Y!Register(wf)[v] = <<"input", v>>
  BY <1>2 DEF Y!Register, Y!ToSet, ToSet, Y!MakeId
<1> QED BY <1>2, <1>5, <1>6 DEF InputsEmitted, InputsGiven, InputParts

(* The triggers of an n8n document, whose nodes have names of their own.   *)
LEMMA N8nInputs ==
  ASSUME Document, ~IsYaml, WellFormed
  PROVE  InputsEmitted(N!TriggerOps(wf), N!TriggerIds(wf))
<1>1. IsList(wf.nodes)
  BY DocumentAssumption DEF Document, IsYaml
<1>2. /\ \A i, j \in DOMAIN wf.nodes : wf.nodes[i].name = wf.nodes[j].name => i = j
      /\ wf.inputs = InputParts
  BY DEF WellFormed, N!NodesOK, InputParts
<1>3. PICK S, tr : S = {n \in N!ToSet(wf.nodes) : n.type = "trigger"} /\ tr = Keep(wf.nodes, S)
  OBVIOUS
<1>4. /\ tr \in Seq(ToSet(wf.nodes)) /\ Range(tr) = Range(wf.nodes) \cap S /\ IsInjective(tr)
  <2>1. wf.nodes \in Seq(ToSet(wf.nodes))
    BY <1>1 DEF IsList
  <2>2. IsInjective(wf.nodes)
    BY <1>2 DEF IsInjective
  <2> QED BY <1>3, <2>1, <2>2, KeepElements
<1>5. ASSUME NEW n \in ToSet(wf.nodes)
      PROVE  N!NodeNamed(wf, n.name) = n /\ n.name \in N!NodeNames(wf)
  <2>1. PICK i \in DOMAIN wf.nodes : n = wf.nodes[i]
    BY DEF ToSet
  <2>2. (CHOOSE j \in DOMAIN wf.nodes : wf.nodes[j].name = n.name) = i
    BY <1>2, <2>1
  <2> QED BY <2>1, <2>2 DEF N!NodeNamed, N!NodeNames
<1>6. ASSUME NEW i \in DOMAIN tr
      PROVE  /\ tr[i] \in ToSet(wf.nodes) /\ tr[i].type = "trigger"
             /\ N!NodeNamed(wf, tr[i].name) = tr[i] /\ tr[i].name \in InputParts
  <2>1. tr[i] \in ToSet(wf.nodes) /\ tr[i].type = "trigger"
    <3>1. tr[i] \in S
      BY <1>4 DEF Range
    <3> QED BY <1>3, <3>1 DEF N!ToSet, ToSet
  <2>2. N!NodeNamed(wf, tr[i].name) = tr[i] /\ tr[i].name \in N!NodeNames(wf)
    BY <1>5, <2>1
  <2> QED BY <2>1, <2>2 DEF InputParts, N!OfTypes
<1>7. PICK names : names = [i \in DOMAIN tr |-> tr[i].name]
  OBVIOUS
<1>8. IsList(names) /\ IsInjective(names) /\ ToSet(names) = InputParts
  <2>1. PICK k \in Nat : DOMAIN tr = 1..k
    BY <1>4
  <2>2. DOMAIN names = 1..k /\ \A i \in 1..k : names[i] = tr[i].name
    BY <1>7, <2>1
  <2>3. names \in Seq(ToSet(names))
    <3>1. \A i \in 1..k : names[i] \in ToSet(names)
      BY <2>2 DEF ToSet
    <3> QED BY <1>7, <2>1, <3>1
  <2>4. IsInjective(names)
    <3> SUFFICES ASSUME NEW i \in 1..k, NEW j \in 1..k, names[i] = names[j] PROVE i = j
      BY <2>2 DEF IsInjective
    <3>1. tr[i] = tr[j]
      BY <1>6, <2>1, <2>2
    <3> QED BY <1>4, <2>1, <3>1 DEF IsInjective
  <2>5. ToSet(names) \subseteq InputParts
    BY <1>6, <2>1, <2>2 DEF ToSet
  <2>6. ASSUME NEW v \in InputParts PROVE v \in ToSet(names)
    <3>1. PICK j \in DOMAIN wf.nodes : wf.nodes[j].name = v /\ N!NodeNamed(wf, v) = wf.nodes[j]
      <4>1. \E j \in DOMAIN wf.nodes : wf.nodes[j].name = v
        BY DEF InputParts, N!OfTypes, N!NodeNames
      <4> QED BY <4>1 DEF N!NodeNamed
    <3>2. wf.nodes[j].type = "trigger" /\ wf.nodes[j] \in Range(wf.nodes)
      BY <3>1 DEF InputParts, N!OfTypes, Range
    <3>3. wf.nodes[j] \in Range(tr)
      BY <1>3, <1>4, <3>2 DEF N!ToSet, Range
    <3>4. PICK i \in DOMAIN tr : tr[i] = wf.nodes[j]
      BY <3>3 DEF Range
    <3> QED BY <2>1, <2>2, <3>1, <3>4 DEF ToSet
  <2> QED BY <2>3, <2>4, <2>5, <2>6 DEF IsList
<1>9. PICK s : s = N!TriggerOps(wf)
  OBVIOUS
<1>10. /\ s = [i \in DOMAIN names |-> s[i]]
       /\ \A i \in DOMAIN tr :
            s[i] = [N!Op(N!MakeId("input", tr[i].name), "InputOp") EXCEPT
                      !.name = CHOOSE k \in N!InputKeys(wf, tr[i]) : TRUE]
  <2>1. N!Keep(wf.nodes, S) = tr
    BY <1>3 DEF N!Keep, Keep
  <2>2. s = [i \in DOMAIN N!Keep(wf.nodes, S) |->
               [N!Op(N!MakeId("input", N!Keep(wf.nodes, S)[i].name), "InputOp") EXCEPT
                  !.name = CHOOSE k \in N!InputKeys(wf, N!Keep(wf.nodes, S)[i]) : TRUE]]
    BY <1>3, <1>9 DEF N!TriggerOps
  <2> QED BY <1>7, <2>1, <2>2
<1>11. ASSUME NEW i \in DOMAIN names
       PROVE  Shaped(s[i], <<"input", names[i]>>, "InputOp") /\ s[i].name = names[i]
  <2>1. i \in DOMAIN tr /\ names[i] = tr[i].name
    BY <1>7
  <2>2. N!InputKeys(wf, tr[i]) = {names[i]}
    BY <1>2, <1>6, <2>1 DEF N!InputKeys
  <2>3. (CHOOSE k \in N!InputKeys(wf, tr[i]) : TRUE) = names[i]
    BY <2>2
  <2>4. PICK o : o = N!Op(<<"input", names[i]>>, "InputOp")
    OBVIOUS
  <2>5. s[i] = [o EXCEPT !.name = names[i]]
    BY <1>10, <2>1, <2>3, <2>4 DEF N!MakeId
  <2>6. Shaped(o, <<"input", names[i]>>, "InputOp")
    <3>1. \A id, kind : Shaped(N!Op(id, kind), id, kind)
      BY OpShaped
    <3> QED BY <2>4, <3>1
  <2>7. {"id", "kind", "name"} \subseteq Fields
    BY DEF Fields, Op
  <2> QED BY <2>5, <2>6, <2>7 DEF Shaped
<1>12. /\ InOrder(s, {}) /\ AllOf(s, {"InputOp"}) /\ NamesUnique(s, "InputOp")
       /\ InputNames(s) = ToSet(names)
       /\ \A v \in ToSet(names) : <<"input", v>> \in IdsOf(s)
  BY <1>8, <1>10, <1>11, InputOpsListed
<1>13. \A v \in InputParts : /\ v \in DOMAIN N!TriggerIds(wf)
                             /\ N!TriggerIds(wf)[v] = <<"input", v>>
  BY DEF InputParts, N!TriggerIds, N!MakeId
<1> QED BY <1>2, <1>8, <1>9, <1>12, <1>13 DEF InputsEmitted, InputsGiven

-----------------------------------------------------------------------------
(* What the document says does not change.                                 *)
LEMMA GivenSame ==
  ASSUME UNCHANGED <<format, wf>>
  PROVE  KeepsRules' = KeepsRules /\ Parts' = Parts /\ IsYaml' = IsYaml /\ InputsGiven' = InputsGiven
<1>1. KeepsRules' = KeepsRules /\ Parts' = Parts
  BY MeaningSame
<1>2. IsYaml' = IsYaml
  BY DEF IsYaml
<1> QED BY <1>1, <1>2 DEF InputsGiven

(* A step that leaves the ops alone.                                       *)
LEMMA SaneFrame ==
  ASSUME SaneInv, UNCHANGED <<format, wf, ops, loaded>>,
         phase' = "start" => phase = "start",
         phase = "start" => phase' = "start",
         phase' = "pass" => phase = "pass" /\ UNCHANGED <<ids, pending>>,
         phase' = "refused" => err' \in {"build", "profile"} \/ UNCHANGED <<phase, err>>
  PROVE  SaneInv'
<1> SUFFICES ASSUME KeepsRules' PROVE (Emission /\ Loading /\ Accepted)'
  BY DEF SaneInv
<1>1. /\ Emission /\ Loading /\ Accepted
      /\ Parts' = Parts /\ IsYaml' = IsYaml /\ InputsGiven' = InputsGiven
  BY GivenSame DEF SaneInv
<1>2. phase' = "pass" => LoopEmitted'
  BY <1>1 DEF Emission, LoopEmitted
<1>3. Emission'
  BY <1>1, <1>2 DEF Emission
<1>4. Loading'
  BY <1>1 DEF Loading
<1>5. Accepted'
  BY <1>1 DEF Accepted
<1> QED BY <1>3, <1>4, <1>5

(* The first ops of a document that keeps the rules.                       *)
LEMMA SaneStart ==
  ASSUME LoopInv, SaneInv, YamlStart \/ N8nStart
  PROVE  SaneInv'
<1>1. UNCHANGED <<format, wf, loaded>> /\ phase = "start"
  BY DEF YamlStart, N8nStart, UnchangedByParse
<1> SUFFICES ASSUME KeepsRules' PROVE (Emission /\ Loading /\ Accepted)'
  BY DEF SaneInv
<1>2. /\ KeepsRules /\ Emission /\ Loading /\ Document /\ WellFormed
      /\ Parts' = Parts /\ IsYaml' = IsYaml /\ InputsGiven' = InputsGiven
  BY <1>1, GivenSame DEF SaneInv, KeepsRules, LoopInv
<1>3. /\ phase' = "pass" /\ InputsEmitted(ops', ids') /\ pending' = Built
      /\ IsYaml => ids' = Y!Register(wf)
  <2>1. CASE IsYaml
    <3>1. /\ ids' = Y!Register(wf) /\ ops' = Y!InputOps(wf) /\ pending' = Y!EntryIds(wf)
          /\ phase' = "pass"
      BY <1>2, <2>1 DEF YamlStart, N8nStart, WellFormed
    <3>2. InputsEmitted(Y!InputOps(wf), Y!Register(wf))
      BY <1>2, <2>1, YamlInputs
    <3>3. Built = Y!EntryIds(wf)
      BY <2>1 DEF Built
    <3> QED BY <3>1, <3>2, <3>3
  <2>2. CASE ~IsYaml
    <3>1. /\ ids' = N!TriggerIds(wf) /\ ops' = N!TriggerOps(wf) /\ phase' = "pass"
          /\ pending' = N!OfTypes(wf, N!BuiltTypes)
      BY <1>2, <2>2 DEF YamlStart, N8nStart, WellFormed
    <3>2. InputsEmitted(N!TriggerOps(wf), N!TriggerIds(wf))
      BY <1>2, <2>2, N8nInputs
    <3>3. Built = N!OfTypes(wf, N!BuiltTypes)
      BY <2>2 DEF Built
    <3> QED BY <2>2, <3>1, <3>2, <3>3
  <2> QED BY <2>1, <2>2
<1>4. PICK s, known : s = ops' /\ known = ids'
  OBVIOUS
<1>5. /\ InOrder(s, {}) /\ AllOf(s, {"InputOp"}) /\ NamesUnique(s, "InputOp")
      /\ InputNames(s) = InputsGiven
      /\ \A v \in InputParts : v \in DOMAIN known /\ known[v] \in IdsOf(s)
  BY <1>3, <1>4 DEF InputsEmitted
<1>6. NamesUnique(s, "OutputOp") /\ AllOf(s, BodyKinds \cup {"InputOp"})
  BY <1>5 DEF AllOf, NamesUnique
<1>7. \A v \in Parts \ Built : v \in DOMAIN known /\ known[v] \in IdsOf(s)
  BY <1>5 DEF Parts
<1>8. LoopEmitted'
  BY <1>1, <1>2, <1>3, <1>4, <1>6, <1>7 DEF LoopEmitted
<1>9. Emission'
  BY <1>2, <1>3, <1>4, <1>5, <1>6, <1>8 DEF Emission
<1>10. Loading'
  <2>1. loaded = << >> /\ loaded' = << >>
    BY <1>1, <1>2 DEF Loading
  <2>2. IsList(s) /\ Len(s) \in Nat
    BY <1>5 DEF InOrder, IsList
  <2>3. IsList(<< >>) /\ Len(<< >>) = 0 /\ DOMAIN << >> = {}
    BY NoOps DEF InOrder
  <2>4. Len(loaded') <= Len(ops')
    BY <1>4, <2>1, <2>2, <2>3
  <2> QED BY <2>1, <2>3, <2>4 DEF Loading
<1>11. Accepted'
  BY <1>3 DEF Accepted
<1> QED BY <1>9, <1>10, <1>11

(* A pass: its beginning, and the names that are put off.                  *)
LEMMA SanePass ==
  ASSUME SaneInv, PassStart \/ VisitWaits
  PROVE  SaneInv'
<1>1. UNCHANGED <<format, wf, ops, loaded, phase, ids, pending, err>>
  BY DEF PassStart, VisitWaits, UnchangedByParse
<1> QED BY <1>1, SaneFrame

(* A visit that does not have to wait, as the lemmas about emission take   *)
(* it.                                                                     *)
LEMMA VisitReady ==
  ASSUME LoopInv, SaneInv, KeepsRules, phase = "pass", todo # << >>,
         ~MustWait(Head(todo))
  PROVE  Head(todo) \in pending /\ Visit(Head(todo))
<1> DEFINE u == Head(todo)
<1>1. /\ Document /\ Checked /\ pending \subseteq Built
      /\ ~IsYaml => DOMAIN ids = InputParts \cup (Built \ pending)
  BY DEF LoopInv, PassInv
<1>2. u \in pending
  BY PassTail DEF LoopInv, PassInv
<1>3. InOrder(ops, {}) /\ LoopEmitted
  BY DEF SaneInv, Emission
<1> HIDE DEF u
<1>4. Needs(u) \cap pending = {} /\ (~IsYaml => Needs(u) \subseteq DOMAIN ids)
  BY DEF MustWait, Needs, u
<1>5. ~IsYaml => DOMAIN ids \subseteq Parts \ pending
  <2>1. \A v \in Built : v \notin InputParts
    BY <1>1, NamesMean
  <2> QED BY <1>1, <2>1 DEF Parts
<1>6. Visit(u)
  BY <1>1, <1>2, <1>3, <1>4, <1>5 DEF Visit, LoopEmitted
<1> QED BY <1>2, <1>6 DEF u

(* No visit and no round ends the parse of such a document.                *)
LEMMA SaneNotStuck ==
  ASSUME LoopInv, SaneInv, PassStuck \/ VisitUnknown \/ VisitFails
  PROVE  SaneInv'
<1>1. UNCHANGED <<format, wf>> /\ phase = "pass"
  BY DEF PassStuck, VisitUnknown, VisitFails, UnchangedByParse
<1>2. ASSUME KeepsRules PROVE FALSE
  <2>1. CASE PassStuck
    <3>1. Unresolvable
      BY <2>1, StuckUnresolvable DEF PassStuck, LoopInv
    <3> QED BY <1>2, <3>1 DEF Unresolvable, KeepsRules, Closed
  <2>2. CASE VisitUnknown
    <3>1. /\ IsYaml /\ todo # << >>
          /\ ~(ToSet(Y!EntryOf(wf, Head(todo)).inputs) \subseteq DOMAIN ids)
      BY <2>2 DEF VisitUnknown, Unknown
    <3>2. Head(todo) \in Built /\ Checked
      BY <1>1, <3>1, PassTail DEF LoopInv, PassInv
    <3>3. Declared(Head(todo)) = ToSet(Y!EntryOf(wf, Head(todo)).inputs)
      BY <3>1, <3>2, NamesMean DEF Needs
    <3>4. Declared(Head(todo)) \subseteq Parts
      BY <1>2, <3>2 DEF KeepsRules, Closed
    <3>5. ids = Y!Register(wf)
      BY <1>1, <1>2, <3>1 DEF SaneInv, Emission, LoopEmitted
    <3>6. DOMAIN ids = Parts
      BY <3>1, <3>5 DEF Y!Register, Parts, Built, InputParts, Y!ToSet, ToSet
    <3> QED BY <3>1, <3>3, <3>4, <3>6
  <2>3. CASE VisitFails
    <3>1. todo # << >> /\ ~MustWait(Head(todo)) /\ Made(Head(todo)).err # ""
      BY <2>3 DEF VisitFails
    <3>2. Visit(Head(todo))
      BY <1>1, <1>2, <3>1, VisitReady
    <3>3. Made(Head(todo)).err = ""
      BY <3>2, YamlMakes, N8nMakes DEF Makes
    <3> QED BY <3>1, <3>3
  <2> QED BY <2>1, <2>2, <2>3
<1> QED BY <1>1, <1>2, GivenSame DEF SaneInv

(* Ops of other kinds appended to the ops emitted.                         *)
LEMMA SaneAppend ==
  ASSUME NEW t, InOrder(ops, {}), InOrder(t, IdsOf(ops)), NEW s, s = ops \o t,
         AllOf(t, BodyKinds \cup {"OutputOp"})
  PROVE  /\ InOrder(s, {}) /\ IdsOf(s) = IdsOf(ops) \cup IdsOf(t)
         /\ \A kinds : AllOf(ops, kinds) /\ AllOf(t, kinds) => AllOf(s, kinds)
         /\ NamesUnique(ops, "InputOp") => NamesUnique(s, "InputOp")
         /\ InputNames(s) = InputNames(ops)
         /\ AllOf(t, BodyKinds) /\ NamesUnique(ops, "OutputOp") => NamesUnique(s, "OutputOp")
         /\ AllOf(ops, BodyKinds \cup {"InputOp"}) /\ NamesUnique(t, "OutputOp")
              => NamesUnique(s, "OutputOp")
<1>1. IsList(ops) /\ IsList(t)
  BY DEF InOrder
<1>2. /\ "InputOp" \notin BodyKinds \cup {"OutputOp"}
      /\ "OutputOp" \notin BodyKinds \cup {"InputOp"}
  BY DEF BodyKinds, RuntimeKinds, LLMKinds
<1>3. \A i \in DOMAIN t : t[i].kind # "InputOp"
  BY <1>2 DEF AllOf
<1>4. {} \cup IdsOf(ops) = IdsOf(ops)
  OBVIOUS
<1>5. /\ InOrder(s, {}) /\ IdsOf(s) = IdsOf(ops) \cup IdsOf(t)
      /\ \A kinds : AllOf(ops, kinds) /\ AllOf(t, kinds) => AllOf(s, kinds)
  BY <1>4, ConcatInOrder
<1>6. /\ NamesUnique(ops, "InputOp") => NamesUnique(s, "InputOp")
      /\ InputNames(s) = InputNames(ops)
  BY <1>1, <1>3, NamesAppended
<1>7. AllOf(t, BodyKinds) /\ NamesUnique(ops, "OutputOp") => NamesUnique(s, "OutputOp")
  <2>1. AllOf(t, BodyKinds) => \A i \in DOMAIN t : t[i].kind # "OutputOp"
    BY <1>2 DEF AllOf
  <2> QED BY <1>1, <2>1, NamesAppended
<1>8. AllOf(ops, BodyKinds \cup {"InputOp"}) /\ NamesUnique(t, "OutputOp")
              => NamesUnique(s, "OutputOp")
  <2>1. AllOf(ops, BodyKinds \cup {"InputOp"}) => \A i \in DOMAIN ops : ops[i].kind # "OutputOp"
    BY <1>2 DEF AllOf
  <2> QED BY <1>1, <2>1, NamesAppended
<1> QED BY <1>5, <1>6, <1>7, <1>8

(* Nothing is loaded yet.                                                  *)
LEMMA NoneLoaded ==
  ASSUME Loading, phase = "pass", loaded' = loaded, InOrder(ops', {})
  PROVE  Loading'
<1>1. loaded = << >> /\ loaded' = << >> /\ IsList(loaded)
  BY DEF Loading
<1>2. PICK s : s = ops'
  OBVIOUS
<1>3. Len(s) \in Nat
  BY <1>2 DEF InOrder, IsList
<1>4. Len(<< >>) = 0 /\ DOMAIN << >> = {}
  OBVIOUS
<1> QED BY <1>1, <1>2, <1>3, <1>4 DEF Loading

(* A visit that emits.                                                     *)
LEMMA SaneEmits ==
  ASSUME LoopInv, SaneInv, VisitEmits
  PROVE  SaneInv'
<1> DEFINE u == Head(todo)
<1>1. /\ UNCHANGED <<format, wf, loaded, phase>> /\ phase = "pass" /\ todo # << >>
      /\ ~MustWait(u) /\ pending' = pending \ {u}
      /\ IF IsYaml THEN ops' = ops \o Made(u).ops /\ UNCHANGED ids
         ELSE /\ ops' = N!AddOps(ops, Made(u).ops)
              /\ ids' = [x \in DOMAIN ids \cup {u} |-> IF x = u THEN Made(u).id ELSE ids[x]]
  BY DEF VisitEmits, UnchangedByParse
<1> SUFFICES ASSUME KeepsRules' PROVE (Emission /\ Loading /\ Accepted)'
  BY DEF SaneInv
<1>2. /\ KeepsRules /\ Emission /\ Loading /\ LoopEmitted
      /\ Parts' = Parts /\ IsYaml' = IsYaml /\ InputsGiven' = InputsGiven
  BY <1>1, GivenSame DEF SaneInv, Emission
<1>3. u \in pending /\ Visit(u)
  BY <1>1, <1>2, VisitReady
<1> HIDE DEF u
<1>4. PICK t, known : /\ ops' = ops \o t /\ InOrder(t, IdsOf(ops)) /\ AllOf(t, BodyKinds)
                      /\ ids' = known /\ u \in DOMAIN known
                      /\ known[u] \in IdsOf(ops) \cup IdsOf(t)
                      /\ \A v \in DOMAIN ids : v # u => v \in DOMAIN known /\ known[v] = ids[v]
                      /\ IsYaml => known = ids
  <2>1. CASE IsYaml
    <3>1. Makes(Made(u), ids[u])
      BY <1>3, <2>1, YamlMakes
    <3>2. u \in DOMAIN ids
      <4>1. ids = Y!Register(wf) /\ u \in Y!EntryIds(wf)
        BY <1>3, <2>1 DEF Visit, Built
      <4> QED BY <4>1 DEF Y!Register
    <3>3. PICK t : t = Made(u).ops
      OBVIOUS
    <3> QED BY <1>1, <2>1, <3>1, <3>2, <3>3 DEF Makes
  <2>2. CASE ~IsYaml
    <3>1. Makes(Made(u), Made(u).id)
      BY <1>3, <2>2, N8nMakes
    <3>2. PICK o, id : o = Made(u).ops /\ id = Made(u).id
      OBVIOUS
    <3>3. InOrder(o, IdsOf(ops)) /\ AllOf(o, BodyKinds) /\ id \in IdsOf(o)
      BY <3>1, <3>2 DEF Makes
    <3>4. PICK t : /\ N!AddOps(ops, o) = ops \o t /\ InOrder(t, IdsOf(ops))
                   /\ IdsOf(ops) \cup IdsOf(t) = IdsOf(ops) \cup IdsOf(o)
                   /\ \A i \in DOMAIN t : t[i] \in ToSet(o)
      BY <3>3, AddOpsInOrder
    <3>5. AllOf(t, BodyKinds)
      BY <3>3, <3>4 DEF AllOf, ToSet
    <3>6. PICK known : known = [x \in DOMAIN ids \cup {u} |-> IF x = u THEN id ELSE ids[x]]
      OBVIOUS
    <3>7. ops' = ops \o t /\ ids' = known
      BY <1>1, <2>2, <3>2, <3>4, <3>6
    <3>8. id \in IdsOf(ops) \cup IdsOf(t)
      BY <3>3, <3>4
    <3> QED BY <2>2, <3>4, <3>5, <3>6, <3>7, <3>8
  <2> QED BY <2>1, <2>2
<1>5. PICK s : s = ops \o t
  OBVIOUS
<1>6. /\ InOrder(s, {}) /\ IdsOf(s) = IdsOf(ops) \cup IdsOf(t)
      /\ \A kinds : AllOf(ops, kinds) /\ AllOf(t, kinds) => AllOf(s, kinds)
      /\ NamesUnique(ops, "InputOp") => NamesUnique(s, "InputOp")
      /\ InputNames(s) = InputNames(ops)
      /\ NamesUnique(ops, "OutputOp") => NamesUnique(s, "OutputOp")
  <2>1. AllOf(t, BodyKinds \cup {"OutputOp"}) /\ InOrder(ops, {})
    BY <1>2, <1>4 DEF AllOf, Emission
  <2> QED BY <1>4, <1>5, <2>1, SaneAppend
<1>7. AllOf(s, BodyKinds \cup {"InputOp"})
  <2>1. AllOf(ops, BodyKinds \cup {"InputOp"}) /\ AllOf(t, BodyKinds \cup {"InputOp"})
    BY <1>2, <1>4 DEF LoopEmitted, AllOf
  <2> QED BY <1>6, <2>1
<1>8. \A v \in Parts \ (pending \ {u}) : v \in DOMAIN known /\ known[v] \in IdsOf(s)
  BY <1>2, <1>4, <1>6 DEF LoopEmitted
<1>9. LoopEmitted'
  <2>1. IsYaml => known = Y!Register(wf)
    BY <1>2, <1>4 DEF LoopEmitted
  <2> QED BY <1>1, <1>2, <1>4, <1>5, <1>7, <1>8, <2>1 DEF LoopEmitted
<1>10. Emission'
  BY <1>1, <1>2, <1>4, <1>5, <1>6, <1>9 DEF Emission
<1>11. Loading'
  BY <1>1, <1>2, <1>4, <1>5, <1>6, NoneLoaded
<1>12. Accepted'
  BY <1>1 DEF Accepted
<1> QED BY <1>10, <1>11, <1>12

-----------------------------------------------------------------------------
(* An OutputOp needs the op it serves.                                     *)
LEMMA OutputNeeds ==
  ASSUME NEW x, NEW id, Shaped(x, id, "OutputOp"), id[1] = "output"
  PROVE  IsOp(x) /\ Needed(x) = x.inputs
BY DEF Shaped, IsOp, Needed, Fields, LookedUp, LLMKinds, OpKinds, BodyKinds, RuntimeKinds

(* A list of OutputOps of ops emitted.                                     *)
LEMMA OutputsListed ==
  ASSUME NEW outs, IsList(outs), NEW t, t = [i \in DOMAIN outs |-> t[i]],
         \A i \in DOMAIN outs : /\ IsOp(t[i]) /\ Needed(t[i]) \subseteq IdsOf(ops)
                                /\ t[i].kind = "OutputOp"
  PROVE  InOrder(t, IdsOf(ops)) /\ AllOf(t, {"OutputOp"})
<1>1. outs \in Seq(ToSet(outs))
  BY DEF IsList
<1>2. PICK k \in Nat : DOMAIN outs = 1..k
  BY <1>1
<1>3. DOMAIN t = 1..k
  BY <1>2
<1>4. \A i \in 1..k : t[i] \in ToSet(t)
  BY <1>3 DEF ToSet
<1>5. t \in Seq(ToSet(t))
  BY <1>2, <1>4
<1> QED BY <1>2, <1>3, <1>5 DEF InOrder, IsList, AllOf

(* The outputs that are appended: in order, with names of their own.       *)
LEMMA OutputsAppended ==
  ASSUME LoopInv, SaneInv, KeepsRules, YamlOutputs \/ N8nOutputs
  PROVE  /\ phase' = "load"
         /\ \E t : /\ ops' = ops \o t /\ InOrder(t, IdsOf(ops)) /\ AllOf(t, {"OutputOp"})
                   /\ NamesUnique(t, "OutputOp")
<1>1. phase = "pass" /\ pending = {}
  BY DEF YamlOutputs, N8nOutputs
<1>2. /\ Document /\ \A v \in Parts : v \in DOMAIN ids /\ ids[v] \in IdsOf(ops)
      /\ WellFormed /\ OutputsFit
  BY <1>1 DEF LoopInv, SaneInv, Emission, LoopEmitted, KeepsRules
<1>3. CASE IsYaml
  <2> DEFINE outs == wf.outputs
             t == [i \in DOMAIN outs |-> Y!OutputOp(outs[i].name, ids[outs[i].ref])]
  <2>1. IsList(outs)
    BY <1>2, <1>3, DocumentAssumption DEF Document, IsYaml
  <2>2. /\ \A i \in DOMAIN outs : outs[i].ref \in Parts
        /\ \A i, j \in DOMAIN outs : outs[i].name = outs[j].name => i = j
    BY <1>2, <1>3 DEF OutputsFit, Parts
  <2>3. Y!EmitOutputs(wf, ids) = Y!Emitted(t)
    <3>1. ~(\E i \in DOMAIN outs : outs[i].ref \notin DOMAIN ids)
      BY <1>2, <2>2
    <3>2. ~(\E i, j \in DOMAIN outs : i # j /\ outs[i].name = outs[j].name)
      BY <2>2
    <3> QED BY <3>1, <3>2 DEF Y!EmitOutputs
  <2>4. Y!Emitted(t).err = "" /\ Y!Emitted(t).ops = t
    <3> HIDE DEF t
    <3> QED BY DEF Y!Emitted
  <2>5. phase' = "load" /\ ops' = ops \o t
    <3>1. PICK e : e = Y!EmitOutputs(wf, ids)
      OBVIOUS
    <3>2. e.err = "" /\ e.ops = t
      BY <2>3, <2>4, <3>1
    <3> HIDE DEF t
    <3> QED BY <1>3, <3>1, <3>2 DEF YamlOutputs, N8nOutputs
  <2>6. ASSUME NEW i \in DOMAIN outs
        PROVE  /\ IsOp(t[i]) /\ Needed(t[i]) \subseteq IdsOf(ops) /\ t[i].kind = "OutputOp"
               /\ t[i].name = outs[i].name
    <3>1. PICK x, name, source, id, op :
            /\ x = t[i] /\ name = outs[i].name /\ source = ids[outs[i].ref]
            /\ id = <<"output", name>> /\ op = Op(id, "OutputOp")
      OBVIOUS
    <3>2. x = [op EXCEPT !.inputs = {source}, !.name = name]
      <4>1. x = Y!OutputOp(name, source)
        BY <3>1
      <4>2. Y!Op(id, "OutputOp") = op
        BY <3>1, OpShaped
      <4> QED BY <3>1, <4>1, <4>2 DEF Y!OutputOp, Y!MakeId
    <3>3. source \in IdsOf(ops)
      BY <1>2, <2>2, <3>1
    <3>4. Shaped(x, id, "OutputOp") /\ x.inputs = {source} /\ x.name = name
      <4>1. Shaped(op, id, "OutputOp") /\ {"id", "kind", "inputs", "name"} \subseteq Fields
        BY <3>1, OpShaped DEF Fields, Op
      <4> QED BY <3>2, <4>1 DEF Shaped
    <3>5. IsOp(x) /\ Needed(x) = x.inputs
      <4>1. id[1] = "output"
        BY <3>1
      <4> QED BY <3>4, <4>1, OutputNeeds
    <3>6. x.kind = "OutputOp" /\ x.id = id
      BY <3>4 DEF Shaped
    <3> HIDE DEF t
    <3> QED BY <3>1, <3>3, <3>4, <3>5, <3>6
  <2>7. t = [i \in DOMAIN outs |-> t[i]] /\ DOMAIN t = DOMAIN outs
    OBVIOUS
  <2> HIDE DEF outs, t
  <2>8. InOrder(t, IdsOf(ops)) /\ AllOf(t, {"OutputOp"})
    BY <2>1, <2>6, <2>7, OutputsListed
  <2>9. NamesUnique(t, "OutputOp")
    BY <2>2, <2>6, <2>7 DEF NamesUnique
  <2> QED BY <2>5, <2>8, <2>9
<1>4. CASE ~IsYaml
  <2>1. IsList(wf.nodes)
    BY <1>2, <1>4, DocumentAssumption DEF Document, IsYaml
  <2>2. \A i, j \in DOMAIN wf.nodes : wf.nodes[i].name = wf.nodes[j].name => i = j
    BY <1>2, <1>4 DEF WellFormed, N!NodesOK
  <2>3. PICK S, outs : /\ S = {n \in N!ToSet(wf.nodes) : n.type = "chain" /\ n.output # ""}
                       /\ outs = Keep(wf.nodes, S)
    OBVIOUS
  <2>4. outs \in Seq(ToSet(wf.nodes)) /\ Range(outs) = Range(wf.nodes) \cap S
    <3>1. wf.nodes \in Seq(ToSet(wf.nodes))
      BY <2>1 DEF IsList
    <3> QED BY <2>3, <3>1, KeepElements
  <2>5. IsList(outs)
    BY <2>4, SeqIsList
  <2>6. ASSUME NEW i \in DOMAIN outs PROVE ids[outs[i].name] \in IdsOf(ops)
    <3>1. outs[i] \in S
      BY <2>4 DEF Range
    <3>2. PICK j \in DOMAIN wf.nodes : outs[i] = wf.nodes[j]
      BY <2>3, <3>1 DEF N!ToSet
    <3>3. (CHOOSE k \in DOMAIN wf.nodes : wf.nodes[k].name = outs[i].name) = j
      BY <2>2, <3>2
    <3>4. N!NodeNamed(wf, outs[i].name) = outs[i] /\ outs[i].name \in N!NodeNames(wf)
      BY <3>2, <3>3 DEF N!NodeNamed, N!NodeNames
    <3>5. outs[i].type = "chain"
      BY <2>3, <3>1
    <3>6. outs[i].name \in Parts
      BY <1>4, <3>4, <3>5 DEF Parts, Built, N!OfTypes, N!BuiltTypes
    <3> QED BY <1>2, <3>6
  <2>7. PICK o : o = N!ChainOutputs(wf, ids)
    OBVIOUS
  <2>8. o = [i \in DOMAIN outs |->
               [N!Op(N!MakeId("output", outs[i].output), "OutputOp") EXCEPT
                  !.inputs = {ids[outs[i].name]}, !.name = outs[i].output]]
    <3>1. N!Keep(wf.nodes, S) = outs
      BY <2>3 DEF N!Keep, Keep
    <3>2. o = [i \in DOMAIN N!Keep(wf.nodes, S) |->
               [N!Op(N!MakeId("output", N!Keep(wf.nodes, S)[i].output), "OutputOp") EXCEPT
                  !.inputs = {ids[N!Keep(wf.nodes, S)[i].name]},
                  !.name = N!Keep(wf.nodes, S)[i].output]]
      BY <2>3, <2>7 DEF N!ChainOutputs
    <3> QED BY <3>1, <3>2
  <2>9. ASSUME NEW i \in DOMAIN outs
        PROVE  /\ IsOp(o[i]) /\ Needed(o[i]) \subseteq IdsOf(ops) /\ o[i].kind = "OutputOp"
               /\ o[i].id = <<"output", o[i].name>>
    <3>1. PICK x, name, source, id, op :
            /\ x = o[i] /\ name = outs[i].output /\ source = ids[outs[i].name]
            /\ id = <<"output", name>> /\ op = Op(id, "OutputOp")
      OBVIOUS
    <3>2. x = [op EXCEPT !.inputs = {source}, !.name = name]
      <4>1. x = [N!Op(N!MakeId("output", name), "OutputOp") EXCEPT
                   !.inputs = {source}, !.name = name]
        BY <2>8, <3>1
      <4>2. N!Op(id, "OutputOp") = op
        BY <3>1, OpShaped
      <4> QED BY <3>1, <4>1, <4>2 DEF N!MakeId
    <3>3. source \in IdsOf(ops)
      BY <2>6, <3>1
    <3>4. Shaped(x, id, "OutputOp") /\ x.inputs = {source} /\ x.name = name
      <4>1. Shaped(op, id, "OutputOp") /\ {"id", "kind", "inputs", "name"} \subseteq Fields
        BY <3>1, OpShaped DEF Fields, Op
      <4> QED BY <3>2, <4>1 DEF Shaped
    <3>5. IsOp(x) /\ Needed(x) = x.inputs
      <4>1. id[1] = "output"
        BY <3>1
      <4> QED BY <3>4, <4>1, OutputNeeds
    <3>6. x.kind = "OutputOp" /\ x.id = id
      BY <3>4 DEF Shaped
    <3> QED BY <3>1, <3>3, <3>4, <3>5, <3>6
  <2>10. o = [i \in DOMAIN outs |-> o[i]] /\ DOMAIN o = DOMAIN outs
    BY <2>8
  <2>11. InOrder(o, IdsOf(ops)) /\ AllOf(o, {"OutputOp"})
    BY <2>5, <2>9, <2>10, OutputsListed
  <2>12. PICK t : /\ N!AddOps(ops, o) = ops \o t /\ InOrder(t, IdsOf(ops))
                  /\ \A i \in DOMAIN t : t[i] \in ToSet(o)
                  /\ \A i, j \in DOMAIN t : t[i].id = t[j].id => i = j
    BY <2>11, AddOpsInOrder
  <2>13. \A i \in DOMAIN t : t[i].kind = "OutputOp" /\ t[i].id = <<"output", t[i].name>>
    BY <2>9, <2>10, <2>12 DEF ToSet
  <2>14. AllOf(t, {"OutputOp"}) /\ NamesUnique(t, "OutputOp")
    BY <2>12, <2>13 DEF AllOf, NamesUnique
  <2>15. phase' = "load" /\ ops' = ops \o t
    BY <1>4, <2>7, <2>12 DEF YamlOutputs, N8nOutputs
  <2> QED BY <2>12, <2>14, <2>15
<1> QED BY <1>3, <1>4

(* The outputs keep the invariant.                                         *)
LEMMA SaneOutputs ==
  ASSUME LoopInv, SaneInv, YamlOutputs \/ N8nOutputs
  PROVE  SaneInv'
<1>1. UNCHANGED <<format, wf, loaded>> /\ phase = "pass"
  BY DEF YamlOutputs, N8nOutputs, UnchangedByParse
<1> SUFFICES ASSUME KeepsRules' PROVE (Emission /\ Loading /\ Accepted)'
  BY DEF SaneInv
<1>2. KeepsRules /\ Emission /\ Loading /\ LoopEmitted /\ InputsGiven' = InputsGiven
  BY <1>1, GivenSame DEF SaneInv, Emission
<1>3. phase' = "load"
  BY <1>2, OutputsAppended
<1>4. PICK t : /\ ops' = ops \o t /\ InOrder(t, IdsOf(ops)) /\ AllOf(t, {"OutputOp"})
               /\ NamesUnique(t, "OutputOp")
  BY <1>2, OutputsAppended
<1>5. PICK s : s = ops \o t
  OBVIOUS
<1>6. /\ InOrder(s, {}) /\ NamesUnique(s, "OutputOp")
      /\ NamesUnique(ops, "InputOp") => NamesUnique(s, "InputOp")
      /\ InputNames(s) = InputNames(ops)
  <2>1. AllOf(t, BodyKinds \cup {"OutputOp"}) /\ InOrder(ops, {})
    BY <1>2, <1>4 DEF AllOf, Emission
  <2>2. AllOf(ops, BodyKinds \cup {"InputOp"})
    BY <1>2 DEF LoopEmitted
  <2> QED BY <1>4, <1>5, <2>1, <2>2, SaneAppend
<1>7. Emission'
  BY <1>1, <1>2, <1>3, <1>4, <1>5, <1>6 DEF Emission
<1>8. Loading'
  BY <1>1, <1>2, <1>4, <1>5, <1>6, NoneLoaded
<1>9. Accepted'
  BY <1>3 DEF Accepted
<1> QED BY <1>7, <1>8, <1>9

-----------------------------------------------------------------------------
(* What is loaded has the ids, the kinds and the names of what was         *)
(* emitted.                                                                *)
LEMMA LoadedMatches ==
  ASSUME Emission, Loading
  PROVE  /\ IdsOf(loaded) = IdsUpTo(ops, Len(loaded))
         /\ \A i \in DOMAIN loaded :
              /\ i \in DOMAIN ops /\ loaded[i].id = ops[i].id
              /\ loaded[i].kind = ops[i].kind /\ loaded[i].name = ops[i].name
              /\ ops[i].kind = "MessageOp" =>
                   loaded[i].inputs = ToSet(ops[i].args) \cap IdsUpTo(ops, i - 1)
<1>1. /\ Len(ops) \in Nat /\ DOMAIN ops = 1..Len(ops)
      /\ \A i \in DOMAIN ops : IsOp(ops[i])
  BY DEF Emission, InOrder, IsList
<1>2. /\ Len(loaded) \in Nat /\ DOMAIN loaded = 1..Len(loaded) /\ Len(loaded) <= Len(ops)
      /\ \A i \in DOMAIN loaded : loaded[i] = FromJson(ops[i], IdsUpTo(ops, i - 1))
  BY DEF Loading, IsList
<1>3. ASSUME NEW i \in DOMAIN loaded
      PROVE  /\ i \in DOMAIN ops /\ loaded[i].id = ops[i].id
             /\ loaded[i].kind = ops[i].kind /\ loaded[i].name = ops[i].name
             /\ ops[i].kind = "MessageOp" =>
                  loaded[i].inputs = ToSet(ops[i].args) \cap IdsUpTo(ops, i - 1)
  <2>1. i \in DOMAIN ops
    BY <1>1, <1>2
  <2>2. PICK op, S, x : op = ops[i] /\ S = IdsUpTo(ops, i - 1) /\ x = loaded[i]
    OBVIOUS
  <2>3. IsOp(op) /\ x = FromJson(op, S)
    BY <1>1, <1>2, <2>1, <2>2
  <2>4. /\ x.id = op.id /\ x.kind = op.kind /\ x.name = op.name
        /\ op.kind = "MessageOp" => x.inputs = ToSet(op.args) \cap S
    BY <2>3, FromJsonKeeps
  <2> QED BY <2>1, <2>2, <2>4
<1>4. IdsOf(loaded) = IdsUpTo(ops, Len(loaded))
  BY <1>2, <1>3 DEF IdsOf, IdsUpTo
<1> QED BY <1>3, <1>4

(* Graph.from_json finds every op it looks up.                             *)
LEMMA SaneLoad ==
  ASSUME SaneInv, LoadOp
  PROVE  SaneInv'
<1>1. /\ UNCHANGED <<format, wf, ops>> /\ phase = "load" /\ Len(loaded) < Len(ops)
  BY DEF LoadOp, UnchangedAfterParse
<1> SUFFICES ASSUME KeepsRules' PROVE (Emission /\ Loading /\ Accepted)'
  BY DEF SaneInv
<1>2. KeepsRules /\ Emission /\ Loading /\ InputsGiven' = InputsGiven
  BY <1>1, GivenSame DEF SaneInv
<1>3. PICK k : k = Len(loaded)
  OBVIOUS
<1>4. /\ Len(ops) \in Nat /\ DOMAIN ops = 1..Len(ops) /\ k \in Nat /\ k < Len(ops)
      /\ loaded \in Seq(ToSet(loaded)) /\ DOMAIN loaded = 1..k
      /\ \A i \in DOMAIN ops : Needed(ops[i]) \subseteq {} \cup IdsUpTo(ops, i - 1)
  BY <1>1, <1>2, <1>3 DEF Emission, Loading, InOrder, IsList
<1>5. IdsOf(loaded) = IdsUpTo(ops, k)
  BY <1>2, <1>3, LoadedMatches
<1>6. LookedUp(ops[k + 1]) \subseteq IdsOf(loaded)
  <2>1. k + 1 \in DOMAIN ops /\ (k + 1) - 1 = k
    BY <1>4
  <2>2. Needed(ops[k + 1]) \subseteq IdsUpTo(ops, k)
    BY <1>4, <2>1
  <2> QED BY <1>5, <2>2 DEF Needed
<1>7. PICK x : x = FromJson(ops[k + 1], IdsUpTo(ops, k))
  OBVIOUS
<1>8. loaded' = Append(loaded, x) /\ phase' = "load"
  BY <1>1, <1>3, <1>5, <1>6, <1>7 DEF LoadOp
<1>9. PICK l : l = Append(loaded, x)
  OBVIOUS
<1>10. /\ IsList(l) /\ Len(l) = k + 1 /\ DOMAIN l = 1..(k + 1)
       /\ l[k + 1] = x /\ \A i \in 1..k : l[i] = loaded[i]
  <2>1. PICK A : A = ToSet(loaded) \cup {x}
    OBVIOUS
  <2>2. loaded \in Seq(A) /\ x \in A
    BY <1>4, <2>1
  <2>3. l \in Seq(A)
    BY <1>9, <2>2
  <2>4. Len(loaded) = k
    BY <1>3
  <2>5. /\ Len(l) = k + 1 /\ DOMAIN l = 1..(k + 1) /\ l[k + 1] = x
        /\ \A i \in 1..k : l[i] = loaded[i]
    BY <1>4, <1>9, <2>2, <2>4
  <2> QED BY <2>3, <2>5, SeqIsList
<1>11. \A i \in DOMAIN l : l[i] = FromJson(ops[i], IdsUpTo(ops, i - 1))
  <2> SUFFICES ASSUME NEW i \in 1..(k + 1)
               PROVE  l[i] = FromJson(ops[i], IdsUpTo(ops, i - 1))
    BY <1>10
  <2>1. CASE i \in 1..k
    BY <1>2, <1>4, <1>10, <2>1 DEF Loading
  <2>2. CASE i = k + 1
    <3>1. i - 1 = k
      BY <1>4, <2>2
    <3> QED BY <1>7, <1>10, <2>2, <3>1
  <2> QED BY <1>4, <2>1, <2>2
<1>12. Loading'
  <2>1. Len(l) <= Len(ops)
    BY <1>4, <1>10
  <2> QED BY <1>1, <1>8, <1>9, <1>10, <1>11, <2>1 DEF Loading
<1>13. Emission'
  BY <1>1, <1>2, <1>8 DEF Emission
<1>14. Accepted'
  BY <1>8 DEF Accepted
<1> QED BY <1>12, <1>13, <1>14

(* Graph.compile finds the inputs that were given, and no name twice.      *)
LEMMA SaneCompile ==
  ASSUME SaneInv, Compile
  PROVE  SaneInv'
<1>1. UNCHANGED <<format, wf, ops, loaded>> /\ phase = "load" /\ Len(loaded) = Len(ops)
  BY DEF Compile, UnchangedAfterParse
<1>2. ASSUME KeepsRules PROVE phase' = "build"
  <2>1. Emission /\ Loading
    BY <1>2 DEF SaneInv
  <2>2. DOMAIN loaded = DOMAIN ops
    BY <1>1, <2>1 DEF Emission, Loading, InOrder, IsList
  <2>3. \A i \in DOMAIN loaded : loaded[i].kind = ops[i].kind /\ loaded[i].name = ops[i].name
    BY <2>1, LoadedMatches
  <2>4. NamesUnique(loaded, "InputOp") /\ NamesUnique(loaded, "OutputOp")
    BY <1>1, <2>1, <2>2, <2>3 DEF Emission, NamesUnique
  <2>5. InputNames(loaded) = InputNames(ops)
    BY <2>2, <2>3 DEF InputNames
  <2>6. InputNames(loaded) = InputsGiven
    BY <1>1, <2>1, <2>5 DEF Emission
  <2> QED BY <2>4, <2>6 DEF Compile
<1>3. CASE KeepsRules
  BY <1>1, <1>2, <1>3, SaneFrame
<1>4. CASE ~KeepsRules
  BY <1>1, <1>4, GivenSame DEF SaneInv
<1> QED BY <1>3, <1>4

(* The builds change neither the ops nor what was loaded.                  *)
LEMMA SaneBuilds ==
  ASSUME SaneInv, BuildRuntime \/ BuildProfile \/ MergeGraphs
  PROVE  SaneInv'
<1>1. /\ UNCHANGED <<format, wf, ops, loaded>> /\ phase \in {"build", "profile", "merge"}
      /\ phase' \in {"profile", "merge", "done", "refused"}
      /\ phase' = "refused" => err' \in {"build", "profile"}
  BY DEF BuildRuntime, BuildProfile, MergeGraphs, UnchangedAfterParse, Refuse
<1> QED BY <1>1, SaneFrame

(* Over every step of the intake.                                          *)
LEMMA SaneInvariance == Spec => []SaneInv
<1>1. Init => SaneInv
  <2> SUFFICES ASSUME Init PROVE Emission /\ Loading /\ Accepted
    BY DEF SaneInv
  <2>1. ops = << >> /\ loaded = << >> /\ phase = "start"
    BY DEF Init
  <2>2. InOrder(<< >>, {}) /\ IsList(<< >>) /\ DOMAIN << >> = {} /\ Len(<< >>) = 0
    BY NoOps DEF InOrder
  <2>3. Emission
    BY <2>1, <2>2 DEF Emission, NamesUnique
  <2>4. Loading
    BY <2>1, <2>2 DEF Loading
  <2> QED BY <2>1, <2>3, <2>4 DEF Accepted
<1>2. LoopInv /\ SaneInv /\ [Next]_vars => SaneInv'
  <2> SUFFICES ASSUME LoopInv, SaneInv, [Next]_vars PROVE SaneInv'
    OBVIOUS
  <2>1. CASE UNCHANGED vars
    <3>1. UNCHANGED <<format, wf, phase, pending, ids, ops, loaded, err>>
      BY <2>1 DEF vars
    <3> QED BY <3>1, SaneFrame
  <2> QED
    BY <2>1, SaneStart, SanePass, SaneNotStuck, SaneEmits, SaneOutputs, SaneLoad, SaneCompile,
       SaneBuilds DEF Next, Parse
<1> QED BY <1>1, <1>2, LoopInvariance, PTL DEF Spec

(* Neither parser, nor Graph.from_json, nor Graph.compile refuses a        *)
(* document that keeps the rules of the parsers, whatever its size, the    *)
(* order of its entries and the order of the visits, and "unresolved" is   *)
(* only said of a cycle or an unknown name: RefusalsJustified, but for     *)
(* what RuntimeGraphBuilder.build refuses.                                 *)
THEOREM ParsersAccept == Spec => [](err # "build" => RefusalsJustified)
<1>1. LoopInv /\ SaneInv => (err # "build" => RefusalsJustified)
  <2> SUFFICES ASSUME LoopInv, SaneInv, err # "build" PROVE RefusalsJustified
    OBVIOUS
  <2>1. ASSUME phase = "refused", err # "profile" PROVE ~KeepsRules
    BY <2>1 DEF SaneInv, Accepted
  <2>2. err = "unresolved" => ~Acyclic \/ \E u \in Built : ~(Declared(u) \subseteq Parts)
    BY DEF LoopInv, UnresolvedMeansCycle, Unresolvable
  <2> QED BY <2>1, <2>2 DEF RefusalsJustified
<1> QED BY <1>1, LoopInvariance, SaneInvariance, PTL

(* Graph.from_json takes no content of a message that names an op of the   *)
(* document for text: that op has always been loaded before the message,   *)
(* the implicit FormatOps included.                                        *)
THEOREM ReferencesStay == Spec => []ReferencesKept
<1>1. SaneInv => ReferencesKept
  <2> SUFFICES ASSUME SaneInv, KeepsRules, NEW i \in DOMAIN loaded, ops[i].kind = "MessageOp",
                      NEW a \in ToSet(ops[i].args), a \in IdsOf(ops)
               PROVE  a \in loaded[i].inputs
    BY DEF ReferencesKept
  <2>1. Emission /\ Loading
    BY DEF SaneInv
  <2>2. i \in DOMAIN ops /\ loaded[i].inputs = ToSet(ops[i].args) \cap IdsUpTo(ops, i - 1)
    BY <2>1, LoadedMatches
  <2>3. a[1] # "text"
    BY <2>1 DEF Emission, InOrder, IdsOf, IsOp
  <2>4. a \in Needed(ops[i])
    BY <2>3 DEF Needed
  <2>5. a \in IdsUpTo(ops, i - 1)
    BY <2>1, <2>2, <2>4 DEF Emission, InOrder
  <2> QED BY <2>2, <2>5
<1> QED BY <1>1, SaneInvariance, PTL
=============================================================================
