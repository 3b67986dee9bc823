----------------------------- MODULE GraphOrder -----------------------------
(***************************************************************************)
(* Orders of a dependency graph, shared by the modules that plan a batch.  *)
(***************************************************************************)
EXTENDS Integers, Sequences, FiniteSets, SequencesExt, FiniteSetsExt

Minimum(a, b) == IF a <= b THEN a ELSE b

(* Kahn's algorithm with a heap: of the nodes whose dependencies are out,  *)
(* the one of least rank comes next; it stops early when there is a cycle. *)
HeapOrder(names, deps, rank) ==
  LET order[k \in 0..Cardinality(names)] ==
        IF k = 0 THEN << >>
        ELSE LET out == ToSet(order[k - 1])
                 ready == {n \in names \ out : deps[n] \cap names \subseteq out}
             IN  IF ready = {} THEN order[k - 1]
                 ELSE Append(order[k - 1],
                             CHOOSE n \in ready : \A m \in ready : rank[n] <= rank[m])
  IN  order[Cardinality(names)]

(* The nodes met when walking the dependencies from the nodes of S.        *)
Closure(S, deps) ==
  LET reach[k \in 0..Cardinality(DOMAIN deps)] ==
        IF k = 0 THEN S
        ELSE reach[k - 1] \cup UNION {deps[m] : m \in reach[k - 1] \cap DOMAIN deps}
  IN  reach[Cardinality(DOMAIN deps)]

Acyclic(deps) == \A n \in DOMAIN deps : n \notin Closure(deps[n], deps)
=============================================================================
