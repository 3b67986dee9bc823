------------------------------ MODULE SumProofs ------------------------------
(***************************************************************************)
(* Lemmas about sums of natural numbers over finite sets: the library's    *)
(* SumFunctionOnSet, which adds up in an unspecified order, does not       *)
(* depend on that order.  Induction over finite sets is done by looking at *)
(* a counterexample of least cardinality.                                  *)
(***************************************************************************)
EXTENDS CollectionProofs, Functions

(* A collection of finite sets has a member that is smallest.              *)
LEMMA SmallestSet ==
  ASSUME NEW C, C # {}, \A S \in C : IsFiniteSet(S)
  PROVE  \E S \in C : \A T \in C : Cardinality(S) <= Cardinality(T)
<1> DEFINE Sizes == {Cardinality(S) : S \in C}
<1>1. Sizes \in SUBSET Nat /\ Sizes # {}
  BY FS_CardinalityType
<1>2. PICK n \in Sizes : \A m \in Sizes : n <= m
  <2> HIDE DEF Sizes
  <2> QED BY <1>1, SmallestNat
<1> QED BY <1>2

(* Taking an element out of a finite set.                                  *)
LEMMA OneLess ==
  ASSUME NEW S, IsFiniteSet(S), NEW x \in S
  PROVE  /\ IsFiniteSet(S \ {x})
         /\ Cardinality(S) \in Nat /\ Cardinality(S \ {x}) \in Nat
         /\ Cardinality(S \ {x}) < Cardinality(S)
<1>1. IsFiniteSet(S \ {x}) /\ Cardinality(S \ {x}) = Cardinality(S) - 1
  BY FS_RemoveElement
<1>2. Cardinality(S) \in Nat /\ Cardinality(S \ {x}) \in Nat
  BY <1>1, FS_CardinalityType
<1> QED BY <1>1, <1>2

-----------------------------------------------------------------------------
(* The recursion that SumFunctionOnSet(f, S) is the value at S of.         *)
Picked(S) == CHOOSE x \in S : TRUE
Rest(S) == S \ {Picked(S)}

Adds(f, S, g) ==
  g = [T \in SUBSET S |-> IF T = {} THEN 0 ELSE f[Picked(T)] + g[Rest(T)]]

(* The sum of the library is such a solution, taken at the whole set.      *)
LEMMA SumUnfold ==
  ASSUME NEW f, NEW S
  PROVE  SumFunctionOnSet(f, S) = (CHOOSE g : Adds(f, S, g))[S]
BY DEF SumFunctionOnSet, FoldFunctionOnSet, MapThenFoldSet, Adds, Picked, Rest

(* The element that is added next belongs to the set.                      *)
LEMMA PickedIn == \A S : S # {} => Picked(S) \in S /\ Rest(S) \subseteq S
BY DEF Picked, Rest

(* Two solutions agree on the finite sets both are defined on.             *)
LEMMA AddsAgree ==
  ASSUME NEW f, NEW S, NEW T, NEW g, NEW h, Adds(f, S, g), Adds(f, T, h),
         NEW U, IsFiniteSet(U), U \subseteq S, U \subseteq T
  PROVE  g[U] = h[U]
<1> DEFINE Bad == {V \in SUBSET U : g[V] # h[V]}
<1>1. ASSUME Bad # {} PROVE FALSE
  <2>1. \A V \in Bad : IsFiniteSet(V)
    BY FS_Subset
  <2>2. PICK V \in Bad : \A W \in Bad : Cardinality(V) <= Cardinality(W)
    <3> HIDE DEF Bad
    <3> QED BY <1>1, <2>1, SmallestSet
  <2>3. V \in SUBSET S /\ V \in SUBSET T
    BY <2>2
  <2>4. V # {}
    BY <2>2, <2>3 DEF Adds
  <2>5. Picked(V) \in V /\ Rest(V) \subseteq V
    BY <2>4, PickedIn
  <2>6. Rest(V) \notin Bad
    <3>1. /\ Cardinality(V) \in Nat /\ Cardinality(Rest(V)) \in Nat
          /\ Cardinality(Rest(V)) < Cardinality(V)
      BY <2>1, <2>2, <2>5, OneLess DEF Rest
    <3> HIDE DEF Bad
    <3> QED BY <2>2, <3>1
  <2>7. g[Rest(V)] = h[Rest(V)]
    BY <2>2, <2>5, <2>6
  <2>8. g[V] = f[Picked(V)] + g[Rest(V)] /\ h[V] = f[Picked(V)] + h[Rest(V)]
    BY <2>3, <2>4 DEF Adds
  <2> QED BY <2>2, <2>7, <2>8
<1> QED BY <1>1

(* The recursion has a solution on every finite set.                       *)
LEMMA AddsExists ==
  ASSUME NEW f, NEW S, IsFiniteSet(S)
  PROVE  \E g : Adds(f, S, g)
<1> DEFINE Bad == {T \in SUBSET S : ~ \E g : Adds(f, T, g)}
<1>1. ASSUME Bad # {} PROVE FALSE
  <2>1. \A T \in Bad : IsFiniteSet(T)
    BY FS_Subset
  <2>2. PICK T \in Bad : \A U \in Bad : Cardinality(T) <= Cardinality(U)
    <3> HIDE DEF Bad
    <3> QED BY <1>1, <2>1, SmallestSet
  <2> DEFINE below(U) == CHOOSE h : Adds(f, Rest(U), h)
             g == [U \in SUBSET T |->
                     IF U = {} THEN 0 ELSE f[Picked(U)] + below(U)[Rest(U)]]
  <2>3. ASSUME NEW U \in SUBSET T, U # {}
        PROVE  Adds(f, Rest(U), below(U)) /\ IsFiniteSet(Rest(U))
    <3>1. Picked(U) \in U /\ Rest(U) \subseteq U
      BY <2>3, PickedIn
    <3>2. IsFiniteSet(U) /\ Cardinality(U) <= Cardinality(T)
      BY <2>1, <2>2, FS_Subset
    <3>3. /\ IsFiniteSet(Rest(U)) /\ Cardinality(U) \in Nat
          /\ Cardinality(Rest(U)) \in Nat /\ Cardinality(Rest(U)) < Cardinality(U)
      BY <3>1, <3>2, OneLess DEF Rest
    <3>4. Rest(U) \notin Bad
      <4>1. Cardinality(T) \in Nat
        BY <2>1, <2>2, FS_CardinalityType
      <4> HIDE DEF Bad
      <4> QED BY <2>2, <3>2, <3>3, <4>1
    <3>5. \E h : Adds(f, Rest(U), h)
      BY <2>2, <3>1, <3>4
    <3> QED BY <3>3, <3>5
  <2>4. ASSUME NEW U \in SUBSET T, U # {}
        PROVE  below(U)[Rest(U)] = g[Rest(U)]
    <3>1. Rest(U) \in SUBSET T
      BY <2>4, PickedIn
    <3>2. Adds(f, Rest(U), below(U)) /\ IsFiniteSet(Rest(U))
      BY <2>3, <2>4
    <3>3. CASE Rest(U) = {}
      <4>1. below(U)[Rest(U)] = 0
        <5> HIDE DEF below
        <5> QED BY <3>2, <3>3 DEF Adds
      <4> QED BY <3>1, <3>3, <4>1
    <3>4. CASE Rest(U) # {}
      <4> DEFINE V == Rest(U)
      <4>1. Adds(f, Rest(V), below(V)) /\ IsFiniteSet(Rest(V)) /\ Rest(V) \subseteq V
        BY <2>3, <3>1, <3>4, PickedIn
      <4>2. g[V] = f[Picked(V)] + below(V)[Rest(V)]
        BY <3>1, <3>4
      <4> HIDE DEF below
      <4>3. below(U)[V] = f[Picked(V)] + below(U)[Rest(V)]
        BY <3>2, <3>4 DEF Adds
      <4>4. below(U)[Rest(V)] = below(V)[Rest(V)]
        BY <3>2, <4>1, AddsAgree
      <4> QED BY <4>2, <4>3, <4>4
    <3> QED BY <3>3, <3>4
  <2>5. g = [U \in SUBSET T |-> IF U = {} THEN 0 ELSE f[Picked(U)] + g[Rest(U)]]
    <3>1. \A U \in SUBSET T : g[U] = IF U = {} THEN 0 ELSE f[Picked(U)] + g[Rest(U)]
      <4> TAKE U \in SUBSET T
      <4>1. CASE U = {}
        BY <4>1
      <4>2. CASE U # {}
        <5>1. g[U] = f[Picked(U)] + below(U)[Rest(U)]
          BY <4>2
        <5>2. below(U)[Rest(U)] = g[Rest(U)]
          BY <4>2, <2>4
        <5> HIDE DEF g, below
        <5> QED BY <4>2, <5>1, <5>2
      <4> QED BY <4>1, <4>2
    <3>2. g = [U \in SUBSET T |-> g[U]]
      OBVIOUS
    <3> HIDE DEF g
    <3> QED BY <3>1, <3>2
  <2>6. Adds(f, T, g)
    BY <2>5 DEF Adds
  <2> QED BY <2>2, <2>6
<1> QED BY <1>1

(* The sum over a finite set is that of one element and the others.        *)
LEMMA SumStep ==
  ASSUME NEW f, NEW S, IsFiniteSet(S)
  PROVE  SumFunctionOnSet(f, S) =
           IF S = {} THEN 0
           ELSE f[Picked(S)] + SumFunctionOnSet(f, Rest(S))
<1> DEFINE g == CHOOSE h : Adds(f, S, h)
<1>1. Adds(f, S, g) /\ SumFunctionOnSet(f, S) = g[S]
  BY AddsExists, SumUnfold
<1> HIDE DEF g
<1>2. CASE S = {}
  BY <1>1, <1>2 DEF Adds
<1>3. CASE S # {}
  <2> DEFINE h == CHOOSE k : Adds(f, Rest(S), k)
  <2>1. IsFiniteSet(Rest(S)) /\ Rest(S) \subseteq S
    BY <1>3, PickedIn, FS_Subset
  <2>2. Adds(f, Rest(S), h) /\ SumFunctionOnSet(f, Rest(S)) = h[Rest(S)]
    BY <2>1, AddsExists, SumUnfold
  <2> HIDE DEF h
  <2>3. g[S] = f[Picked(S)] + g[Rest(S)]
    BY <1>1, <1>3 DEF Adds
  <2>4. g[Rest(S)] = h[Rest(S)]
    BY <1>1, <2>1, <2>2, AddsAgree
  <2> QED BY <1>1, <1>3, <2>2, <2>3, <2>4
<1> QED BY <1>2, <1>3

(* It is a natural number, and zero for no element.                        *)
LEMMA SumNat ==
  ASSUME NEW S, IsFiniteSet(S), NEW f, \A x \in S : f[x] \in Nat
  PROVE  SumFunctionOnSet(f, S) \in Nat /\ SumFunctionOnSet(f, {}) = 0
<1> DEFINE Bad == {T \in SUBSET S : SumFunctionOnSet(f, T) \notin Nat}
<1>1. SumFunctionOnSet(f, {}) = 0
  BY SumStep, FS_EmptySet
<1>2. ASSUME Bad # {} PROVE FALSE
  <2>1. \A T \in Bad : IsFiniteSet(T)
    BY FS_Subset
  <2>2. PICK T \in Bad : \A U \in Bad : Cardinality(T) <= Cardinality(U)
    <3> HIDE DEF Bad
    <3> QED BY <1>2, <2>1, SmallestSet
  <2>3. T # {} /\ T \subseteq S /\ SumFunctionOnSet(f, T) \notin Nat
    BY <1>1, <2>2
  <2>4. Picked(T) \in T /\ Rest(T) \subseteq T
    BY <2>3, PickedIn
  <2>5. Rest(T) \notin Bad
    <3>1. /\ Cardinality(T) \in Nat /\ Cardinality(Rest(T)) \in Nat
          /\ Cardinality(Rest(T)) < Cardinality(T)
      BY <2>1, <2>2, <2>4, OneLess DEF Rest
    <3> HIDE DEF Bad
    <3> QED BY <2>2, <3>1
  <2>6. SumFunctionOnSet(f, Rest(T)) \in Nat /\ f[Picked(T)] \in Nat
    BY <2>3, <2>4, <2>5
  <2>7. SumFunctionOnSet(f, T) = f[Picked(T)] + SumFunctionOnSet(f, Rest(T))
    BY <2>1, <2>2, <2>3, SumStep
  <2> QED BY <2>3, <2>6, <2>7
<1> QED BY <1>1, <1>2

(* Any element may be taken out first.                                     *)
LEMMA SumTakeOut ==
  ASSUME NEW S, IsFiniteSet(S), NEW f, \A x \in S : f[x] \in Nat, NEW y \in S
  PROVE  SumFunctionOnSet(f, S) = f[y] + SumFunctionOnSet(f, S \ {y})
<1> DEFINE Bad == {T \in SUBSET S :
                     \E x \in T : SumFunctionOnSet(f, T)
                                    # f[x] + SumFunctionOnSet(f, T \ {x})}
<1>1. ASSUME Bad # {} PROVE FALSE
  <2>1. \A T \in Bad : IsFiniteSet(T)
    BY FS_Subset
  <2>2. PICK T \in Bad : \A U \in Bad : Cardinality(T) <= Cardinality(U)
    <3> HIDE DEF Bad
    <3> QED BY <1>1, <2>1, SmallestSet
  <2>3. PICK x \in T : SumFunctionOnSet(f, T) # f[x] + SumFunctionOnSet(f, T \ {x})
    BY <2>2
  <2> DEFINE c == Picked(T)
  <2>4. c \in T /\ Rest(T) = T \ {c} /\ T \subseteq S /\ IsFiniteSet(T)
    BY <2>1, <2>2, <2>3, PickedIn DEF Rest
  <2>5. SumFunctionOnSet(f, T) = f[c] + SumFunctionOnSet(f, T \ {c})
    BY <2>3, <2>4, SumStep
  <2> HIDE DEF c
  <2>6. ASSUME NEW z \in T PROVE T \ {z} \notin Bad
    <3>1. /\ Cardinality(T) \in Nat /\ Cardinality(T \ {z}) \in Nat
          /\ Cardinality(T \ {z}) < Cardinality(T)
      BY <2>4, OneLess
    <3> HIDE DEF Bad
    <3> QED BY <2>2, <3>1
  <2>7. x # c
    BY <2>3, <2>5
  <2>8. SumFunctionOnSet(f, T \ {c}) = f[x] + SumFunctionOnSet(f, (T \ {c}) \ {x})
    BY <2>4, <2>6, <2>7
  <2>9. SumFunctionOnSet(f, T \ {x}) = f[c] + SumFunctionOnSet(f, (T \ {x}) \ {c})
    BY <2>4, <2>6, <2>7
  <2>10. (T \ {c}) \ {x} = (T \ {x}) \ {c} /\ IsFiniteSet((T \ {x}) \ {c})
    BY <2>4, FS_Subset
  <2>11. /\ SumFunctionOnSet(f, (T \ {x}) \ {c}) \in Nat
         /\ f[x] \in Nat /\ f[c] \in Nat
    BY <2>4, <2>10, SumNat
  <2> HIDE DEF Bad
  <2>12. SumFunctionOnSet(f, T \ {c}) = f[x] + SumFunctionOnSet(f, (T \ {x}) \ {c})
    BY <2>8, <2>10
  <2> QED BY <2>3, <2>5, <2>9, <2>11, <2>12
<1> QED BY <1>1

(* The sum over two disjoint sets is that of their sums.                   *)
LEMMA SumDisjoint ==
  ASSUME NEW S, IsFiniteSet(S), NEW T, IsFiniteSet(T), S \cap T = {},
         NEW f, \A x \in S \cup T : f[x] \in Nat
  PROVE  SumFunctionOnSet(f, S \cup T) = SumFunctionOnSet(f, S) + SumFunctionOnSet(f, T)
<1> DEFINE Bad == {U \in SUBSET T : SumFunctionOnSet(f, S \cup U)
                                      # SumFunctionOnSet(f, S) + SumFunctionOnSet(f, U)}
<1>1. ASSUME Bad # {} PROVE FALSE
  <2>1. \A U \in Bad : IsFiniteSet(U)
    BY FS_Subset
  <2>2. PICK U \in Bad : \A V \in Bad : Cardinality(U) <= Cardinality(V)
    <3> HIDE DEF Bad
    <3> QED BY <1>1, <2>1, SmallestSet
  <2>3. /\ U \subseteq T /\ IsFiniteSet(U) /\ IsFiniteSet(S \cup U)
        /\ SumFunctionOnSet(f, S) \in Nat /\ SumFunctionOnSet(f, {}) = 0
    BY <2>1, <2>2, SumNat, FS_Union
  <2>4. CASE U = {}
    <3>1. S \cup U = S
      BY <2>4
    <3> QED BY <2>2, <2>3, <2>4, <3>1
  <2>5. CASE U # {}
    <3>1. PICK x : x \in U
      BY <2>5
    <3>2. /\ IsFiniteSet(U \ {x}) /\ Cardinality(U) \in Nat
          /\ Cardinality(U \ {x}) \in Nat /\ Cardinality(U \ {x}) < Cardinality(U)
      BY <2>3, <3>1, OneLess
    <3>3. U \ {x} \notin Bad
      <4> HIDE DEF Bad
      <4> QED BY <2>2, <3>2
    <3>4. SumFunctionOnSet(f, S \cup (U \ {x}))
            = SumFunctionOnSet(f, S) + SumFunctionOnSet(f, U \ {x})
      BY <2>3, <3>3
    <3>5. SumFunctionOnSet(f, U) = f[x] + SumFunctionOnSet(f, U \ {x})
      BY <2>3, <3>1, SumTakeOut
    <3>6. (S \cup U) \ {x} = S \cup (U \ {x})
      BY <2>3, <3>1
    <3>7. SumFunctionOnSet(f, S \cup U) = f[x] + SumFunctionOnSet(f, S \cup (U \ {x}))
      BY <2>3, <3>1, <3>6, SumTakeOut
    <3>8. f[x] \in Nat /\ SumFunctionOnSet(f, U \ {x}) \in Nat
      BY <2>3, <3>1, <3>2, SumNat
    <3> QED BY <2>2, <2>3, <3>4, <3>5, <3>7, <3>8
  <2> QED BY <2>4, <2>5
<1>2. T \notin Bad
  BY <1>1
<1> QED BY <1>2

(* The sum over a part is at most that over the whole.                     *)
LEMMA SumPart ==
  ASSUME NEW S, IsFiniteSet(S), NEW T \in SUBSET S, NEW f, \A x \in S : f[x] \in Nat
  PROVE  /\ SumFunctionOnSet(f, S) = SumFunctionOnSet(f, T) + SumFunctionOnSet(f, S \ T)
         /\ SumFunctionOnSet(f, T) \in Nat /\ SumFunctionOnSet(f, S \ T) \in Nat
         /\ SumFunctionOnSet(f, S) \in Nat
<1>1. IsFiniteSet(T) /\ IsFiniteSet(S \ T) /\ S = T \cup (S \ T) /\ T \cap (S \ T) = {}
  BY FS_Subset
<1>2. /\ SumFunctionOnSet(f, T) \in Nat /\ SumFunctionOnSet(f, S \ T) \in Nat
      /\ SumFunctionOnSet(f, S) \in Nat
  BY <1>1, SumNat
<1>3. SumFunctionOnSet(f, T \cup (S \ T))
        = SumFunctionOnSet(f, T) + SumFunctionOnSet(f, S \ T)
  <2> DEFINE V == S \ T
  <2>1. IsFiniteSet(V) /\ T \cap V = {} /\ \A x \in T \cup V : f[x] \in Nat
    BY <1>1
  <2> HIDE DEF V
  <2>2. SumFunctionOnSet(f, T \cup V) = SumFunctionOnSet(f, T) + SumFunctionOnSet(f, V)
    BY <1>1, <2>1, SumDisjoint
  <2> QED BY <2>2 DEF V
<1> QED BY <1>1, <1>2, <1>3
=============================================================================
