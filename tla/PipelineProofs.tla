--------------------------- MODULE PipelineProofs ---------------------------
(***************************************************************************)
(* Proofs about the way of a workflow's rows through a batch: slicing and  *)
(* dealing out, cutting nodes into shards, and scheduling what was cut.    *)
(***************************************************************************)
EXTENDS BatchPipeline, SumProofs

-----------------------------------------------------------------------------
(* Counting, recursion and finite sets.                                    *)

(* Induction up to N, for a set.                                           *)
LEMMA Counting ==
  ASSUME NEW N \in Nat, NEW S, 0 \in S, \A n \in 0..(N - 1) : n \in S => n + 1 \in S
  PROVE  0..N \subseteq S
<1> DEFINE Bad == {n \in 0..N : n \notin S}
<1>1. ASSUME Bad # {} PROVE FALSE
  <2>1. PICK n \in Bad : \A m \in Bad : n <= m
    <3>1. Bad \in SUBSET Nat
      OBVIOUS
    <3> HIDE DEF Bad
    <3> QED BY <1>1, <3>1, SmallestNat
  <2>2. n - 1 \in 0..(N - 1) /\ n - 1 \notin Bad
    BY <2>1
  <2>3. n - 1 \in S
    BY <2>2
  <2>4. (n - 1) + 1 \in S
    BY <2>2, <2>3
  <2> QED BY <2>1, <2>4
<1> QED BY <1>1

(* A recursion over 0..N in D, and a solution of it.                       *)
Recursion(N, D, base, step) == base \in D /\ step \in [1..N -> [D -> D]]
Solution(N, D, base, step, f) ==
  /\ f \in [0..N -> D]
  /\ f[0] = base
  /\ \A n \in 1..N : f[n] = step[n][f[n - 1]]

(* A recursion whose step stays in D has a solution.                       *)
LEMMA RecursionSolves ==
  ASSUME NEW N \in Nat, NEW D, NEW base, NEW step, Recursion(N, D, base, step)
  PROVE  \E f : Solution(N, D, base, step, f)
<1> USE DEF Recursion
<1> DEFINE Solves(f, m) == /\ f \in [0..m -> D] /\ f[0] = base
                           /\ \A n \in 1..m : f[n] = step[n][f[n - 1]]
           S == {m \in 0..N : \E f : Solves(f, m)}
<1>1. 0 \in S
  <2>1. Solves([n \in 0..0 |-> base], 0)
    OBVIOUS
  <2> HIDE DEF Solves
  <2> QED BY <2>1
<1>2. ASSUME NEW m \in 0..(N - 1), m \in S PROVE m + 1 \in S
  <2>1. PICK f : Solves(f, m)
    BY <1>2
  <2> DEFINE last == step[m + 1][f[m]]
             g == [n \in 0..(m + 1) |-> IF n = m + 1 THEN last ELSE f[n]]
  <2>2. last \in D
    <3>1. f[m] \in D /\ m + 1 \in 1..N
      BY <2>1
    <3> HIDE DEF Solves
    <3> QED BY <3>1
  <2>3. g \in [0..(m + 1) -> D] /\ g[0] = base
    <3> HIDE DEF last
    <3> QED BY <2>1, <2>2
  <2>4. ASSUME NEW n \in 1..(m + 1) PROVE g[n] = step[n][g[n - 1]]
    <3>1. CASE n = m + 1
      <4>1. g[n] = last /\ g[n - 1] = f[m]
        BY <3>1
      <4> QED BY <4>1, <3>1
    <3>2. CASE n # m + 1
      <4>1. n \in 1..m /\ g[n] = f[n] /\ g[n - 1] = f[n - 1]
        BY <3>2
      <4> QED BY <4>1, <2>1
    <3> QED BY <3>1, <3>2
  <2> HIDE DEF g
  <2>5. Solves(g, m + 1)
    BY <2>3, <2>4
  <2> HIDE DEF Solves
  <2> QED BY <2>5
<1>3. N \in S
  <2>1. \A m \in 0..(N - 1) : m \in S => m + 1 \in S
    BY <1>2
  <2> HIDE DEF S
  <2>2. 0..N \subseteq S
    BY <1>1, <2>1, Counting
  <2> QED BY <2>2
<1> QED BY <1>3 DEF Solution

(* The image of a finite set is finite.                                    *)
LEMMA ImageFinite ==
  ASSUME NEW S, IsFiniteSet(S), NEW f
  PROVE  IsFiniteSet({f[x] : x \in S})
<1> DEFINE T == {f[x] : x \in S}
           g == [x \in S |-> f[x]]
<1>1. g \in Surjection(S, T)
  BY DEF Surjection
<1> HIDE DEF T, g
<1>2. IsFiniteSet(T)
  BY <1>1, FS_Surjection
<1> QED BY <1>2 DEF T

(* A finite set of naturals has a greatest and a least element.            *)
LEMMA MaxNat ==
  ASSUME NEW S \in SUBSET Nat, IsFiniteSet(S), S # {}
  PROVE  Max(S) \in S /\ \A x \in S : x <= Max(S)
<1> DEFINE Bad == {T \in SUBSET S : T # {} /\ ~ \E x \in T : \A y \in T : y <= x}
<1>1. ASSUME Bad # {} PROVE FALSE
  <2>1. \A T \in Bad : IsFiniteSet(T)
    BY FS_Subset
  <2>2. PICK T \in Bad : \A U \in Bad : Cardinality(T) <= Cardinality(U)
    <3> HIDE DEF Bad
    <3> QED BY <1>1, <2>1, SmallestSet
  <2>3. PICK t \in T : TRUE
    BY <2>2
  <2>4. T \ {t} \notin Bad
    <3>1. /\ Cardinality(T) \in Nat /\ Cardinality(T \ {t}) \in Nat
          /\ Cardinality(T \ {t}) < Cardinality(T)
      BY <2>1, <2>2, OneLess
    <3> HIDE DEF Bad
    <3> QED BY <2>2, <3>1
  <2>5. CASE T \ {t} = {}
    BY <2>5, <2>2
  <2>6. CASE T \ {t} # {}
    <3>1. PICK x \in T \ {t} : \A y \in T \ {t} : y <= x
      BY <2>6, <2>4, <2>2
    <3>2. x \in Nat /\ t \in Nat /\ \A y \in T : y \in Nat
      BY <2>2, <2>3, <3>1
    <3>3. CASE x <= t
      BY <3>1, <3>2, <3>3, <2>2
    <3>4. CASE t <= x
      BY <3>1, <3>2, <3>4, <2>2
    <3> QED BY <3>2, <3>3, <3>4
  <2> QED BY <2>5, <2>6
<1>2. PICK x \in S : \A y \in S : y <= x
  BY <1>1
<1>3. x \in S /\ \A y \in S : x >= y
  BY <1>2
<1>4. Max(S) \in S /\ \A y \in S : Max(S) >= y
  BY <1>3 DEF Max
<1> QED BY <1>4

(* The maximum with 1, for sizes that may be missing.                      *)
LEMMA MaxWithOne ==
  ASSUME NEW S \in SUBSET Nat, IsFiniteSet(S)
  PROVE  /\ Max(S \cup {1}) \in Nat \ {0} /\ Max(S \cup {1}) \in S \cup {1}
         /\ \A x \in S : x <= Max(S \cup {1})
<1>1. PICK T : T = S \cup {1}
  OBVIOUS
<1>2. IsFiniteSet(T)
  <2>1. IsFiniteSet({1})
    BY FS_Singleton
  <2> QED BY <1>1, <2>1, FS_Union
<1>3. T \in SUBSET Nat /\ 1 \in T
  BY <1>1
<1>4. Max(T) \in T /\ \A x \in T : x <= Max(T)
  BY <1>2, <1>3, MaxNat
<1>5. Max(T) \in Nat /\ 1 <= Max(T)
  BY <1>3, <1>4
<1>6. Max(T) \in Nat \ {0}
  BY <1>5
<1> QED BY <1>1, <1>4, <1>6

(* A set of naturals has a least element.                                  *)
LEMMA MinNat ==
  ASSUME NEW S \in SUBSET Nat, S # {}
  PROVE  Min(S) \in S /\ \A x \in S : Min(S) <= x
<1>1. \E x \in S : \A y \in S : x <= y
  BY SmallestNat
<1> QED BY <1>1 DEF Min

(* A sum over naturals depends on the summands only.                       *)
LEMMA SumSame ==
  ASSUME NEW S, IsFiniteSet(S), NEW f, NEW g, \A x \in S : f[x] = g[x]
  PROVE  SumFunctionOnSet(f, S) = SumFunctionOnSet(g, S)
<1> DEFINE Bad == {T \in SUBSET S : SumFunctionOnSet(f, T) # SumFunctionOnSet(g, T)}
<1>1. ASSUME Bad # {} PROVE FALSE
  <2>1. \A T \in Bad : IsFiniteSet(T)
    BY FS_Subset
  <2>2. PICK T \in Bad : \A U \in Bad : Cardinality(T) <= Cardinality(U)
    <3> HIDE DEF Bad
    <3> QED BY <1>1, <2>1, SmallestSet
  <2>3. /\ SumFunctionOnSet(f, T) =
             IF T = {} THEN 0 ELSE f[Picked(T)] + SumFunctionOnSet(f, Rest(T))
        /\ SumFunctionOnSet(g, T) =
             IF T = {} THEN 0 ELSE g[Picked(T)] + SumFunctionOnSet(g, Rest(T))
    BY <2>1, <2>2, SumStep
  <2>4. T # {}
    BY <2>2, <2>3
  <2>5. Picked(T) \in T /\ Rest(T) \subseteq T
    BY <2>4, PickedIn
  <2>6. Rest(T) \notin Bad
    <3>1. /\ Cardinality(T) \in Nat /\ Cardinality(Rest(T)) \in Nat
          /\ Cardinality(Rest(T)) < Cardinality(T)
      BY <2>1, <2>2, <2>5, OneLess DEF Rest
    <3> HIDE DEF Bad
    <3> QED BY <2>2, <3>1
  <2>7. SumFunctionOnSet(f, Rest(T)) = SumFunctionOnSet(g, Rest(T))
    BY <2>2, <2>5, <2>6
  <2>8. f[Picked(T)] = g[Picked(T)]
    BY <2>2, <2>5
  <2> QED BY <2>2, <2>3, <2>4, <2>7, <2>8
<1> QED BY <1>1

(* Folding a function with + is the sum over its domain.                   *)
LEMMA FoldIsSum ==
  ASSUME NEW f
  PROVE  FoldFunction(+, 0, f) = SumFunctionOnSet(f, DOMAIN f)
BY DEF FoldFunction, SumFunctionOnSet

-----------------------------------------------------------------------------
(* Slicing.                                                                *)

(* The longest of finitely many lists.                                     *)
LEMMA MaxLenIs ==
  ASSUME NEW inputs, IsFiniteSet(DOMAIN inputs),
         \A k \in DOMAIN inputs : Len(inputs[k]) \in Nat
  PROVE  /\ MaxLen(inputs) \in Nat
         /\ \A k \in DOMAIN inputs : Len(inputs[k]) <= MaxLen(inputs)
         /\ MaxLen(inputs) = 0 \/ \E k \in DOMAIN inputs : Len(inputs[k]) = MaxLen(inputs)
<1> DEFINE f == [k \in DOMAIN inputs |-> Len(inputs[k])]
           S == {f[k] : k \in DOMAIN inputs}
           T == {Len(inputs[k]) : k \in DOMAIN inputs} \cup {0}
<1>1. S \cup {0} = T
  OBVIOUS
<1>2. IsFiniteSet(S)
  <2> HIDE DEF f
  <2> QED BY ImageFinite
<1>3. IsFiniteSet(T)
  <2> HIDE DEF S, T
  <2>1. IsFiniteSet({0})
    BY FS_Singleton
  <2> QED BY <1>1, <1>2, <2>1, FS_Union
<1>4. T \in SUBSET Nat /\ T # {}
  OBVIOUS
<1>5. Max(T) \in T /\ \A x \in T : x <= Max(T)
  <2> HIDE DEF T
  <2> QED BY <1>3, <1>4, MaxNat
<1>6. MaxLen(inputs) = Max(T)
  BY DEF MaxLen
<1> QED BY <1>5, <1>6

(* Such a number is the length of the longest list.                        *)
LEMMA MaxLenEquals ==
  ASSUME NEW inputs, IsFiniteSet(DOMAIN inputs),
         \A k \in DOMAIN inputs : Len(inputs[k]) \in Nat,
         NEW L \in Nat, \A k \in DOMAIN inputs : Len(inputs[k]) <= L,
         L = 0 \/ \E k \in DOMAIN inputs : Len(inputs[k]) = L
  PROVE  MaxLen(inputs) = L
<1>1. /\ MaxLen(inputs) \in Nat
      /\ \A k \in DOMAIN inputs : Len(inputs[k]) <= MaxLen(inputs)
      /\ MaxLen(inputs) = 0 \/ \E k \in DOMAIN inputs : Len(inputs[k]) = MaxLen(inputs)
  BY MaxLenIs
<1> QED BY <1>1

(* Multiplication is monotone.                                             *)
LEMMA TimesMonotone ==
  ASSUME NEW a \in Nat, NEW b \in Nat, NEW c \in Nat, a <= b
  PROVE  a * c <= b * c
<1>1. PICK d \in Nat : b = a + d
  <2>1. b - a \in Nat /\ b = a + (b - a)
    OBVIOUS
  <2> QED BY <2>1
<1>2. b * c = a * c + d * c /\ d * c >= 0 /\ a * c \in Nat /\ d * c \in Nat
  BY <1>1
<1> QED BY <1>2

(* The jobs that a request may bring.                                      *)
JobKnown == job \in Jobs

(* The inputs of a job are lists, finitely many, and one is the longest.   *)
LEMMA InputsKnown ==
  ASSUME JobKnown
  PROVE  /\ IsFiniteSet(DOMAIN job.inputs) /\ job.size \in Nat \ {0}
         /\ \A k \in DOMAIN job.inputs : /\ job.inputs[k] \in Seq(ToSet(job.inputs[k]))
                                         /\ Len(job.inputs[k]) \in Nat
                                         /\ Len(job.inputs[k]) <= Total
         /\ Total \in Nat
         /\ Total = 0 \/ \E k \in DOMAIN job.inputs : Len(job.inputs[k]) = Total
<1>1. /\ IsFiniteSet(DOMAIN job.inputs) /\ job.size \in Nat \ {0}
      /\ \A k \in DOMAIN job.inputs : job.inputs[k] \in Seq(ToSet(job.inputs[k]))
  BY JobsAssumption DEF JobKnown
<1>2. \A k \in DOMAIN job.inputs : Len(job.inputs[k]) \in Nat
  BY <1>1
<1>3. PICK inputs : inputs = job.inputs
  OBVIOUS
<1>4. /\ MaxLen(inputs) \in Nat
      /\ \A k \in DOMAIN inputs : Len(inputs[k]) <= MaxLen(inputs)
      /\ MaxLen(inputs) = 0 \/ \E k \in DOMAIN inputs : Len(inputs[k]) = MaxLen(inputs)
  BY <1>1, <1>2, <1>3, MaxLenIs
<1> QED BY <1>1, <1>2, <1>3, <1>4 DEF Total

(* Every slice but the last is full and the last one is not empty: how far *)
(* slice i goes.                                                           *)
LEMMA SliceBounds ==
  ASSUME JobKnown, SliceCount # 1
  PROVE  /\ SliceCount \in Nat \ {0} /\ Total > job.size
         /\ \A i \in 1..SliceCount :
              /\ (i - 1) * job.size \in Nat /\ i * job.size = (i - 1) * job.size + job.size
              /\ (i - 1) * job.size < Total
              /\ i < SliceCount => i * job.size < Total
<1>1. PICK z \in Nat \ {0} : z = job.size
  BY InputsKnown
<1>2. PICK t \in Nat : t = Total
  BY InputsKnown
<1>3. PICK N : N = (t + z - 1) \div z
  OBVIOUS
<1>4. SliceCount = N /\ t > z
  BY <1>1, <1>2, <1>3 DEF SliceCount
<1>5. N \in Nat /\ N * z <= t + z - 1 /\ t + z - 1 < N * z + z
  <2>1. PICK s \in Nat : s = t + z - 1
    BY <1>1, <1>2
  <2>2. s \div z \in Int /\ s = z * (s \div z) + (s % z) /\ (s % z) \in 0..(z - 1)
    BY <1>1, <2>1
  <2>3. s \div z \in Nat
    BY <1>1, <2>1
  <2>4. z * (s \div z) = (s \div z) * z
    BY <1>1, <2>2
  <2>5. PICK p \in Int : p = (s \div z) * z
    BY <2>2, <1>1
  <2>6. p <= s /\ s < p + z
    <3>1. s = p + (s % z) /\ (s % z) \in 0..(z - 1)
      BY <2>2, <2>4, <2>5
    <3> QED BY <3>1, <2>1, <1>1
  <2>7. N = s \div z
    BY <2>1, <1>3
  <2> QED BY <2>1, <2>3, <2>5, <2>6, <2>7
<1>6. N # 0
  BY <1>5, <1>4, <1>1, <1>2
<1>7. ASSUME NEW i \in 1..N
      PROVE  /\ (i - 1) * z \in Nat /\ i * z = (i - 1) * z + z
             /\ (i - 1) * z < t
             /\ i < N => i * z < t
  <2>1. (i - 1) * z \in Nat /\ i * z = (i - 1) * z + z /\ N * z = (N - 1) * z + z
    BY <1>1, <1>5
  <2>2. (i - 1) * z <= (N - 1) * z
    <3>1. i - 1 \in Nat /\ N - 1 \in Nat /\ i - 1 <= N - 1 /\ z \in Nat
      BY <1>1, <1>5
    <3> QED BY <3>1, TimesMonotone
  <2>3. i < N => i * z <= (N - 1) * z
    <3>1. ASSUME i < N PROVE i * z <= (N - 1) * z
      <4>1. i \in Nat /\ N - 1 \in Nat /\ i <= N - 1 /\ z \in Nat
        BY <1>1, <1>5, <3>1
      <4> QED BY <4>1, TimesMonotone
    <3> QED BY <3>1
  <2>4. (N - 1) * z \in Nat /\ i * z \in Nat
    BY <1>1, <1>5
  <2> QED BY <2>1, <2>2, <2>3, <2>4, <1>5, <1>1, <1>2
<1> QED BY <1>1, <1>2, <1>4, <1>5, <1>6, <1>7

(* How many rows a slice has.                                              *)
LEMMA SliceLengthIs ==
  ASSUME JobKnown, ShapeOK(job.inputs), NEW i \in 1..SliceCount
  PROVE  SliceLength(i) = IF SliceCount = 1 THEN Total
                          ELSE Minimum(i * job.size, Total) - (i - 1) * job.size
<1>1. /\ IsFiniteSet(DOMAIN job.inputs)
      /\ \A k \in DOMAIN job.inputs : /\ job.inputs[k] \in Seq(ToSet(job.inputs[k]))
                                      /\ Len(job.inputs[k]) \in Nat
      /\ Total \in Nat /\ job.size \in Nat \ {0}
      /\ Total = 0 \/ \E k \in DOMAIN job.inputs : Len(job.inputs[k]) = Total
  BY InputsKnown
<1>2. \A k \in DOMAIN job.inputs : Len(job.inputs[k]) \in {1, Total}
  BY DEF ShapeOK, Total
<1>3. CASE SliceCount = 1
  <2>1. DOMAIN SliceInputs(i) = DOMAIN job.inputs
    BY DEF SliceInputs
  <2>2. \A k \in DOMAIN job.inputs : SliceInputs(i)[k] = job.inputs[k]
    BY <1>3 DEF SliceInputs
  <2>3. PICK s : s = SliceInputs(i)
    OBVIOUS
  <2>4. Total \in Nat /\ \A k \in DOMAIN job.inputs : Len(job.inputs[k]) <= Total
    BY InputsKnown
  <2>5. MaxLen(s) = Total
    BY <1>1, <2>1, <2>2, <2>3, <2>4, MaxLenEquals
  <2> QED BY <1>3, <2>3, <2>5 DEF SliceLength
<1>4. CASE SliceCount # 1
  <2>1. /\ SliceCount \in Nat \ {0} /\ Total > job.size
        /\ (i - 1) * job.size \in Nat /\ i * job.size = (i - 1) * job.size + job.size
        /\ (i - 1) * job.size < Total
    BY <1>4, SliceBounds
  <2> DEFINE a == (i - 1) * job.size
             b == Minimum(i * job.size, Total)
             L == b - a
  <2>2. a \in Nat /\ b \in Nat /\ L \in Nat \ {0} /\ b <= Total
    <3>1. PICK u, v : u = a /\ v = i * job.size
      OBVIOUS
    <3>2. u \in Nat /\ v = u + job.size /\ u < Total
      BY <2>1, <3>1
    <3> HIDE DEF a
    <3> QED BY <3>1, <3>2, <1>1 DEF Minimum
  <2>3. ASSUME NEW k \in DOMAIN job.inputs
        PROVE  Len(SliceInputs(i)[k]) = IF Len(job.inputs[k]) = 1 THEN 1 ELSE L
    <3>1. CASE Len(job.inputs[k]) = 1
      BY <3>1 DEF SliceInputs
    <3>2. CASE Len(job.inputs[k]) # 1
      <4>1. Len(job.inputs[k]) = Total /\ SliceInputs(i)[k] = SubSeq(job.inputs[k], a + 1, b)
        BY <3>2, <1>2, <1>4 DEF SliceInputs
      <4>2. PICK q \in Seq(ToSet(job.inputs[k])) : q = job.inputs[k]
        BY <1>1
      <4>3. a + 1 \in 1..(Len(q) + 1) /\ b \in 0..Len(q) /\ a + 1 <= b
        <5> HIDE DEF a, b
        <5> QED BY <4>1, <4>2, <2>2, <1>1 DEF L
      <4>4. Len(SubSeq(q, a + 1, b)) = b - (a + 1) + 1
        <5> HIDE DEF a, b
        <5> QED BY <4>3, <2>2
      <4>5. b - (a + 1) + 1 = L
        <5> HIDE DEF a, b
        <5> QED BY <2>2 DEF L
      <4> QED BY <3>2, <4>1, <4>2, <4>4, <4>5
    <3> QED BY <3>1, <3>2
  <2>4. DOMAIN SliceInputs(i) = DOMAIN job.inputs
    BY DEF SliceInputs
  <2>5. PICK k \in DOMAIN job.inputs : Len(job.inputs[k]) = Total
    BY <1>1, <2>1
  <2>6. Len(SliceInputs(i)[k]) = L
    <3> HIDE DEF L
    <3>1. Total # 1
      BY <2>1, <1>1
    <3>2. Len(job.inputs[k]) # 1
      BY <2>5, <3>1
    <3> QED BY <2>3, <3>2
  <2>7. PICK s : s = SliceInputs(i)
    OBVIOUS
  <2> HIDE DEF L
  <2>8. MaxLen(s) = L
    <3>1. /\ IsFiniteSet(DOMAIN s) /\ L \in Nat
          /\ \A m \in DOMAIN s : Len(s[m]) \in Nat /\ Len(s[m]) <= L
          /\ \E m \in DOMAIN s : Len(s[m]) = L
      BY <2>2, <2>3, <2>4, <2>6, <2>7, <1>1
    <3> QED BY <3>1, MaxLenEquals
  <2> QED BY <1>4, <2>7, <2>8 DEF SliceLength, L
<1> QED BY <1>3, <1>4

(* Where a slice starts, as a sum, in this state and in the next.          *)
LEMMA SliceStartSum ==
  \A s : SliceStart(s) = SumFunctionOnSet([j \in 1..(s - 1) |-> SliceLength(j)], 1..(s - 1))
<1> TAKE s
<1> DEFINE F == [j \in 1..(s - 1) |-> SliceLength(j)]
<1>1. DOMAIN F = 1..(s - 1)
  OBVIOUS
<1>2. SliceStart(s) = FoldFunction(+, 0, F)
  BY DEF SliceStart
<1> HIDE DEF F
<1>3. FoldFunction(+, 0, F) = SumFunctionOnSet(F, DOMAIN F)
  BY FoldIsSum, Zenon
<1> QED BY <1>1, <1>2, <1>3, Zenon DEF F

(* The same in the next state.                                             *)
LEMMA SliceStartSumNext ==
  (\A s : SliceStart(s) = SumFunctionOnSet([j \in 1..(s - 1) |-> SliceLength(j)], 1..(s - 1)))'
BY SliceStartSum, PTL

(* Where a slice begins: the slices before it are full.                    *)
LEMMA SliceStartIs ==
  ASSUME JobKnown, ShapeOK(job.inputs), NEW i \in 1..SliceCount
  PROVE  SliceStart(i) = IF SliceCount = 1 THEN 0 ELSE (i - 1) * job.size
<1> DEFINE F(n) == [j \in 1..n |-> SliceLength(j)]
<1>1. SliceStart(i) = SumFunctionOnSet(F(i - 1), 1..(i - 1))
  BY SliceStartSum
<1>2. CASE SliceCount = 1
  <2>1. 1..(i - 1) = {}
    BY <1>2
  <2>2. SumFunctionOnSet(F(i - 1), {}) = 0
    <3> HIDE DEF F
    <3> QED BY SumNat, FS_EmptySet
  <2> QED BY <1>1, <1>2, <2>1, <2>2
<1>3. CASE SliceCount # 1
  <2> DEFINE S == {n \in 0..(SliceCount - 1) : SumFunctionOnSet(F(n), 1..n) = n * job.size}
  <2>1. /\ SliceCount \in Nat \ {0} /\ job.size \in Nat \ {0} /\ Total \in Nat
        /\ \A j \in 1..SliceCount :
             /\ (j - 1) * job.size \in Nat /\ j * job.size = (j - 1) * job.size + job.size
             /\ (j - 1) * job.size < Total
             /\ j < SliceCount => j * job.size < Total
    BY <1>3, SliceBounds, InputsKnown
  <2>2. 0 \in S
    <3>1. 1..0 = {} /\ 0 * job.size = 0 /\ 0 \in 0..(SliceCount - 1)
      BY <2>1
    <3>2. SumFunctionOnSet(F(0), {}) = 0
      <4> HIDE DEF F
      <4> QED BY SumNat, FS_EmptySet
    <3> QED BY <3>1, <3>2
  <2>3. ASSUME NEW n \in 0..(SliceCount - 2), n \in S PROVE n + 1 \in S
    <3>1. n + 1 \in 1..SliceCount /\ n + 1 < SliceCount /\ (n + 1) - 1 = n
      BY <2>1
    <3>2. /\ n * job.size \in Nat /\ (n + 1) * job.size = n * job.size + job.size
          /\ (n + 1) * job.size < Total
      BY <2>1, <3>1
    <3>3. SliceLength(n + 1) = job.size
      <4>1. SliceLength(n + 1) = Minimum((n + 1) * job.size, Total) - n * job.size
        BY <3>1, <1>3, SliceLengthIs
      <4>2. PICK u, v : u = n * job.size /\ v = (n + 1) * job.size
        OBVIOUS
      <4> QED BY <4>1, <4>2, <3>2, <2>1 DEF Minimum
    <3>4. \A j \in 1..(n + 1) : SliceLength(j) \in Nat
      <4> TAKE j \in 1..(n + 1)
      <4>1. j \in 1..SliceCount
        BY <3>1, <2>1
      <4>2. SliceLength(j) = Minimum(j * job.size, Total) - (j - 1) * job.size
        BY <4>1, <1>3, SliceLengthIs
      <4>3. PICK u, v : u = (j - 1) * job.size /\ v = j * job.size
        OBVIOUS
      <4>4. u \in Nat /\ v = u + job.size /\ u < Total
        BY <2>1, <4>1, <4>3
      <4> QED BY <4>2, <4>3, <4>4, <2>1 DEF Minimum
    <3>5. SumFunctionOnSet(F(n + 1), 1..(n + 1))
            = job.size + SumFunctionOnSet(F(n + 1), 1..n)
      <4>1. /\ IsFiniteSet(1..(n + 1)) /\ n + 1 \in 1..(n + 1)
            /\ (1..(n + 1)) \ {n + 1} = 1..n
        <5>1. IsFiniteSet(1..(n + 1))
          BY FS_Interval
        <5>2. \A x : x \in (1..(n + 1)) \ {n + 1} <=> x \in 1..n
          OBVIOUS
        <5> QED BY <5>1, <5>2
      <4>2. F(n + 1)[n + 1] = job.size
        BY <3>3, <4>1
      <4>3. \A j \in 1..(n + 1) : F(n + 1)[j] \in Nat
        BY <3>4
      <4>4. PICK g : g = F(n + 1)
        OBVIOUS
      <4>5. SumFunctionOnSet(g, 1..(n + 1))
              = g[n + 1] + SumFunctionOnSet(g, (1..(n + 1)) \ {n + 1})
        BY <4>1, <4>3, <4>4, SumTakeOut
      <4> QED BY <4>1, <4>2, <4>4, <4>5
    <3>6. SumFunctionOnSet(F(n + 1), 1..n) = SumFunctionOnSet(F(n), 1..n)
      <4>1. \A j \in 1..n : F(n + 1)[j] = F(n)[j]
        OBVIOUS
      <4>2. IsFiniteSet(1..n)
        BY FS_Interval
      <4> HIDE DEF F
      <4> QED BY <4>1, <4>2, SumSame
    <3>7. SumFunctionOnSet(F(n), 1..n) = n * job.size
      BY <2>3
    <3> HIDE DEF F
    <3>8. SumFunctionOnSet(F(n + 1), 1..(n + 1)) = (n + 1) * job.size
      BY <3>2, <3>5, <3>6, <3>7, <2>1
    <3> QED BY <3>1, <3>8, <2>1
  <2>4. 0..(SliceCount - 1) \subseteq S
    <3> HIDE DEF S
    <3>1. SliceCount - 1 \in Nat /\ (SliceCount - 1) - 1 = SliceCount - 2
      BY <2>1
    <3>2. \A n \in 0..((SliceCount - 1) - 1) : n \in S => n + 1 \in S
      BY <2>3, <3>1
    <3> QED BY <2>2, <3>1, <3>2, Counting
  <2>5. i - 1 \in 0..(SliceCount - 1)
    BY <2>1
  <2>6. i - 1 \in S
    BY <2>4, <2>5
  <2> QED BY <1>1, <1>3, <2>6
<1> QED BY <1>2, <1>3

(* The rows of slice s.                                                    *)
RowsOf(s) == (SliceStart(s) + 1)..(SliceStart(s) + SliceLength(s))

(* The slices do not overlap and lie within the rows of the job.           *)
LEMMA SliceRows ==
  ASSUME JobKnown, ShapeOK(job.inputs)
  PROVE  /\ \A s \in 1..SliceCount :
              /\ SliceStart(s) \in Nat /\ SliceLength(s) \in Nat
              /\ RowsOf(s) \subseteq 1..Total
         /\ \A s, t \in 1..SliceCount : s # t => RowsOf(s) \cap RowsOf(t) = {}
<1>1. Total \in Nat /\ job.size \in Nat \ {0}
  BY InputsKnown
<1>2. CASE SliceCount = 1
  <2>1. 1..SliceCount = {1}
    BY <1>2
  <2>2. SliceStart(1) = 0 /\ SliceLength(1) = Total
    BY <1>2, <2>1, SliceStartIs, SliceLengthIs
  <2> QED BY <1>1, <2>1, <2>2 DEF RowsOf
<1>3. CASE SliceCount # 1
  <2>1. /\ SliceCount \in Nat \ {0}
        /\ \A j \in 1..SliceCount :
             /\ (j - 1) * job.size \in Nat /\ j * job.size = (j - 1) * job.size + job.size
             /\ (j - 1) * job.size < Total
    BY <1>3, SliceBounds
  <2>2. ASSUME NEW s \in 1..SliceCount
        PROVE  /\ SliceStart(s) = (s - 1) * job.size
               /\ SliceStart(s) \in Nat /\ SliceLength(s) \in Nat
               /\ SliceStart(s) + SliceLength(s) <= Total
               /\ SliceStart(s) + SliceLength(s) <= s * job.size
    <3>1. SliceStart(s) = (s - 1) * job.size
      BY <1>3, SliceStartIs
    <3>2. SliceLength(s) = Minimum(s * job.size, Total) - (s - 1) * job.size
      BY <1>3, SliceLengthIs
    <3>3. PICK u, v : u = (s - 1) * job.size /\ v = s * job.size
      OBVIOUS
    <3>4. u \in Nat /\ v = u + job.size /\ u < Total
      BY <2>1, <3>3
    <3> QED BY <3>1, <3>2, <3>3, <3>4, <1>1 DEF Minimum
  <2>3. ASSUME NEW s \in 1..SliceCount, NEW t \in 1..SliceCount, s < t
        PROVE  RowsOf(s) \cap RowsOf(t) = {}
    <3>1. s * job.size <= (t - 1) * job.size
      <4>1. s \in Nat /\ t - 1 \in Nat /\ s <= t - 1
        BY <2>3, <2>1
      <4> QED BY <4>1, <1>1, TimesMonotone
    <3>2. PICK u, v : u = s * job.size /\ v = (t - 1) * job.size
      OBVIOUS
    <3>3. u \in Int /\ v \in Nat
      BY <3>2, <2>1, <1>1
    <3>4. SliceStart(s) + SliceLength(s) <= u /\ SliceStart(t) = v /\ u <= v
      BY <3>1, <3>2, <2>2
    <3> QED BY <3>3, <3>4, <2>2 DEF RowsOf
  <2>4. ASSUME NEW s \in 1..SliceCount, NEW t \in 1..SliceCount, s # t
        PROVE  RowsOf(s) \cap RowsOf(t) = {}
    <3>1. s < t \/ t < s
      BY <2>4, <2>1
    <3> QED BY <3>1, <2>3
  <2>5. \A s \in 1..SliceCount : RowsOf(s) \subseteq 1..Total
    BY <2>2, <1>1 DEF RowsOf
  <2> QED BY <2>2, <2>4, <2>5
<1> QED BY <1>2, <1>3

-----------------------------------------------------------------------------
(* Dealing out.                                                            *)

(* Slicing depends on the job only.                                        *)
LEMMA SlicesSame ==
  ASSUME job' = job
  PROVE  /\ Total' = Total /\ SliceCount' = SliceCount /\ JobKnown' = JobKnown
         /\ ShapeOK(job.inputs)' = ShapeOK(job.inputs)
         /\ \A s : RowsOf(s)' = RowsOf(s)
<1>1. Total' = Total /\ JobKnown' = JobKnown
  BY DEF Total, JobKnown
<1>2. SliceCount' = SliceCount
  BY <1>1 DEF SliceCount
<1>3. \A s : SliceInputs(s)' = SliceInputs(s)
  BY <1>1, <1>2 DEF SliceInputs
<1>4. \A s : SliceLength(s)' = SliceLength(s)
  BY <1>3 DEF SliceLength
<1>5. \A s : SliceStart(s)' = SliceStart(s)
  <2> TAKE s
  <2>1. [j \in 1..(s - 1) |-> SliceLength(j)'] = [j \in 1..(s - 1) |-> SliceLength(j)]
    BY <1>4
  <2>2. SliceStart(s)' = SumFunctionOnSet([j \in 1..(s - 1) |-> SliceLength(j)'], 1..(s - 1))
    BY SliceStartSumNext
  <2> QED BY <2>1, <2>2, SliceStartSum, Zenon
<1> QED BY <1>1, <1>2, <1>4, <1>5 DEF RowsOf

(* Before the request is sliced, and when it is refused.                   *)
Unsliced == at \in {"new", "rejected"}

(* A rewriting step is a step of a batch that is under way.                *)
LEMMA RewriteUnderWay ==
  ASSUME RewriteNext
  PROVE  ~Unsliced /\ ~Unsliced' /\ at' # "done"
BY DEF RewriteNext, CollectCandidates, ShardNode, EmitNodes, AssignShards, BuildHint,
       Refuse, Unsliced

(* The places of a slice that is still to run, or runs, are free.          *)
BufferInv ==
  /\ JobKnown
  /\ Unsliced => pending = {} /\ batch = << >>
  /\ ~Unsliced => ShapeOK(job.inputs)
  /\ at = "idle" => batch = << >>
  /\ pending \subseteq 1..SliceCount
  /\ batch \in Seq(1..SliceCount)
  /\ pending \cap ToSet(batch) = {}
  /\ \A s \in pending \cup ToSet(batch) :
       \A o \in job.outputs : \A r \in RowsOf(s) : buffer[o][r] = Missing
  /\ ErrorFreeIsComplete

(* Before anything is submitted, every place is free.                      *)
LEMMA BufferInit == Init => BufferInv
<1> SUFFICES ASSUME Init PROVE BufferInv
  OBVIOUS
<1>1. JobKnown /\ Unsliced /\ at = "new" /\ pending = {} /\ batch = << >> /\ errors = {}
  BY DEF Init, JobKnown, Unsliced
<1>2. batch \in Seq(1..SliceCount) /\ ToSet(batch) = {}
  BY <1>1 DEF ToSet
<1>3. ErrorFreeIsComplete
  BY <1>1 DEF ErrorFreeIsComplete
<1> QED BY <1>1, <1>2, <1>3 DEF BufferInv

(* The request is cut into slices, and all places of its rows are free.    *)
LEMMA SubmitBuffer ==
  ASSUME BufferInv, Submit
  PROVE  BufferInv'
<1>1. /\ job' = job /\ batch' = batch /\ errors' = errors /\ at = "new"
      /\ JobKnown /\ batch = << >> /\ pending = {} /\ ErrorFreeIsComplete
  BY DEF BufferInv, Submit, Unsliced
<1>2. /\ Total' = Total /\ SliceCount' = SliceCount /\ JobKnown' = JobKnown
      /\ ShapeOK(job.inputs)' = ShapeOK(job.inputs)
      /\ \A s : RowsOf(s)' = RowsOf(s)
  BY <1>1, SlicesSame
<1>3. batch' \in Seq(1..SliceCount) /\ ToSet(batch') = {}
  BY <1>1 DEF ToSet
<1>4. at' # "done" /\ "overlap" \notin errors'
  BY <1>1 DEF Submit, ErrorFreeIsComplete
<1>5. ErrorFreeIsComplete'
  BY <1>4 DEF ErrorFreeIsComplete
<1>6. CASE ShapeOK(job.inputs)
  <2>1. /\ at' = "idle" /\ pending' = 1..SliceCount
        /\ buffer' = [o \in job.outputs |-> [r \in 1..Total |-> Missing]]
    BY <1>6 DEF Submit
  <2>2. \A s \in 1..SliceCount : RowsOf(s) \subseteq 1..Total
    BY <1>1, <1>6, SliceRows
  <2>3. \A s \in pending' \cup ToSet(batch') :
          \A o \in job.outputs : \A r \in RowsOf(s) : buffer'[o][r] = Missing
    BY <2>1, <2>2, <1>3
  <2>4. ToSet(batch)' = ToSet(batch')
    BY DEF ToSet
  <2>5. \A s \in pending' \cup ToSet(batch)' :
          \A o \in job'.outputs : \A r \in RowsOf(s)' : buffer'[o][r] = Missing
    BY <2>3, <2>4, <1>1, <1>2
  <2>6. pending' \cap ToSet(batch)' = {}
    BY <2>4, <1>3
  <2> QED BY <1>1, <1>2, <1>3, <1>5, <1>6, <2>1, <2>5, <2>6 DEF BufferInv, Unsliced
<1>7. CASE ~ShapeOK(job.inputs)
  <2>1. at' = "rejected" /\ pending' = pending
    BY <1>7 DEF Submit
  <2> QED BY <1>1, <1>2, <1>3, <1>5, <2>1 DEF BufferInv, Unsliced, ToSet
<1> QED BY <1>6, <1>7

(* The elements of a sequence over S are in S.                             *)
LEMMA ToSetIn ==
  ASSUME NEW S, NEW s \in Seq(S)
  PROVE  /\ ToSet(s) \subseteq S /\ DOMAIN s = 1..Len(s) /\ Len(s) \in Nat
         /\ \A T : ToSet(s) \subseteq T => s \in Seq(T)
<1>1. /\ DOMAIN s = 1..Len(s) /\ Len(s) \in Nat /\ \A i \in DOMAIN s : s[i] \in S
      /\ s = [i \in 1..Len(s) |-> s[i]]
  OBVIOUS
<1>2. ASSUME NEW T, ToSet(s) \subseteq T PROVE s \in Seq(T)
  <2>1. \A i \in 1..Len(s) : s[i] \in T
    BY <1>1, <1>2 DEF ToSet
  <2> QED BY ONLY <2>1, s \in Seq(S)
<1> QED BY <1>1, <1>2 DEF ToSet

(* The elements of an ordering of a set.                                   *)
LEMMA OrderingElements ==
  ASSUME NEW S, IsFiniteSet(S), NEW s \in SetToSeqs(S)
  PROVE  /\ s \in Seq(S) /\ ToSet(s) = S /\ IsInjective(s)
         /\ Len(s) = Cardinality(S)
<1>1. PICK n \in Nat : n = Cardinality(S)
  BY FS_CardinalityType
<1>2. s \in [1..n -> S] /\ \A i, j \in 1..n : i # j => s[i] # s[j]
  BY <1>1 DEF SetToSeqs
<1>3. s \in Seq(S) /\ Len(s) = n /\ DOMAIN s = 1..n
  BY <1>2
<1>4. IsInjective(s)
  BY <1>2 DEF IsInjective
<1>5. ToSet(s) = S
  <2>1. ToSet(s) \subseteq S
    BY <1>2 DEF ToSet
  <2>2. s \in Surjection(1..n, S)
    <3>1. s \in Injection(1..n, S)
      BY <1>2 DEF Injection, IsInjective
    <3>2. IsFiniteSet(1..n) /\ Cardinality(1..n) = n
      BY FS_Interval
    <3> QED BY <3>1, <3>2, <1>1, FS_Injection
  <2> QED BY <2>1, <2>2, <1>3 DEF Surjection, ToSet
<1> QED BY <1>1, <1>3, <1>4, <1>5

(* Reserved slices leave the pending ones.                                 *)
LEMMA ReserveBuffer ==
  ASSUME BufferInv, Reserve
  PROVE  BufferInv'
<1>1. /\ job' = job /\ errors' = errors /\ buffer' = buffer /\ at = "idle" /\ at' = "merge"
      /\ JobKnown /\ ErrorFreeIsComplete /\ pending \subseteq 1..SliceCount
      /\ ShapeOK(job.inputs) /\ batch = << >>
  BY DEF BufferInv, Reserve, Unsliced
<1>2. /\ Total' = Total /\ SliceCount' = SliceCount /\ JobKnown' = JobKnown
      /\ ShapeOK(job.inputs)' = ShapeOK(job.inputs)
      /\ \A s : RowsOf(s)' = RowsOf(s)
  BY <1>1, SlicesSame
<1>3. PICK S \in SUBSET pending : batch' \in SetToSeqs(S) /\ pending' = pending \ S
  BY DEF Reserve
<1>4. IsFiniteSet(S)
  <2>1. IsFiniteSet(1..SliceCount)
    <3>1. SliceCount \in Nat
      BY <1>1, SliceBounds
    <3> QED BY <3>1, FS_Interval
  <2> QED BY <2>1, <1>1, <1>3, FS_Subset
<1>5. batch' \in Seq(S) /\ ToSet(batch') = S
  BY <1>3, <1>4, OrderingElements
<1>6. batch' \in Seq(1..SliceCount)
  <2>1. S \subseteq 1..SliceCount
    BY <1>1, <1>3
  <2>2. PICK b \in Seq(S) : b = batch'
    BY <1>5
  <2>3. b \in Seq(1..SliceCount)
    BY <2>1, ToSetIn
  <2> QED BY <2>2, <2>3
<1>7. ErrorFreeIsComplete'
  BY <1>1 DEF ErrorFreeIsComplete
<1>8. \A s \in pending : \A o \in job.outputs : \A r \in RowsOf(s) : buffer[o][r] = Missing
  BY DEF BufferInv
<1>9. \A s \in pending' \cup ToSet(batch') :
        \A o \in job'.outputs : \A r \in RowsOf(s)' : buffer'[o][r] = Missing
  BY <1>8, <1>1, <1>2, <1>3, <1>5
<1>10. pending' \subseteq 1..SliceCount /\ pending' \cap ToSet(batch') = {}
  BY <1>1, <1>3, <1>5
<1>11. ToSet(batch)' = ToSet(batch')
  BY DEF ToSet
<1> QED BY <1>1, <1>2, <1>6, <1>7, <1>9, <1>10, <1>11 DEF BufferInv, Unsliced

(* A step within a batch leaves the slices and the buffer alone.           *)
LEMMA WithinBatchBuffer ==
  ASSUME BufferInv, UNCHANGED <<job, pending, batch, buffer, errors>>,
         ~Unsliced, ~Unsliced', at' \notin {"idle", "done"}
  PROVE  BufferInv'
<1>1. /\ job' = job /\ pending' = pending /\ batch' = batch /\ buffer' = buffer
      /\ errors' = errors
  OBVIOUS
<1>2. /\ Total' = Total /\ SliceCount' = SliceCount /\ JobKnown' = JobKnown
      /\ ShapeOK(job.inputs)' = ShapeOK(job.inputs)
      /\ \A s : RowsOf(s)' = RowsOf(s)
  BY <1>1, SlicesSame
<1>3. ErrorFreeIsComplete'
  BY <1>1 DEF ErrorFreeIsComplete, BufferInv
<1>4. ToSet(batch)' = ToSet(batch)
  BY <1>1 DEF ToSet
<1> QED BY <1>1, <1>2, <1>3, <1>4 DEF BufferInv

(* The rows of a batch go to places of its slices, which were free; those  *)
(* of the pending slices stay free.                                        *)
LEMMA DealOutBuffer ==
  ASSUME BufferInv, DealOut
  PROVE  BufferInv'
<1>1. /\ job' = job /\ pending' = pending /\ batch' = << >> /\ at = "ran" /\ at' = "idle"
      /\ JobKnown /\ ShapeOK(job.inputs) /\ "overlap" \notin errors
      /\ pending \subseteq 1..SliceCount /\ batch \in Seq(1..SliceCount)
      /\ pending \cap ToSet(batch) = {}
      /\ \A s \in pending \cup ToSet(batch) :
           \A o \in job.outputs : \A r \in RowsOf(s) : buffer[o][r] = Missing
  BY DEF BufferInv, DealOut, Forget, Unsliced, ErrorFreeIsComplete
<1>2. /\ Total' = Total /\ SliceCount' = SliceCount /\ JobKnown' = JobKnown
      /\ ShapeOK(job.inputs)' = ShapeOK(job.inputs)
      /\ \A s : RowsOf(s)' = RowsOf(s)
  BY <1>1, SlicesSame
<1>3. /\ \A s \in 1..SliceCount : RowsOf(s) \subseteq 1..Total
      /\ \A s, t \in 1..SliceCount : s # t => RowsOf(s) \cap RowsOf(t) = {}
  BY <1>1, SliceRows
<1>4. BatchRows = UNION {RowsOf(s) : s \in ToSet(batch)}
  BY DEF BatchRows, RowsOf
<1>5. ToSet(batch) \subseteq 1..SliceCount
  BY <1>1, ToSetIn
<1>6. "overlap" \notin errors'
  <2>1. ASSUME NEW o \in job.outputs, NEW r \in BatchRows PROVE buffer[o][r] = Missing
    <3>1. PICK s \in ToSet(batch) : r \in RowsOf(s)
      BY <1>4
    <3> QED BY <1>1, <3>1
  <2> QED BY <1>1, <2>1 DEF DealOut
<1>7. ErrorFreeIsComplete'
  BY <1>1, <1>6 DEF ErrorFreeIsComplete
<1>8. ASSUME NEW s \in pending, NEW o \in job.outputs, NEW r \in RowsOf(s)
      PROVE  buffer'[o][r] = Missing
  <2>1. r \in 1..Total /\ r \notin BatchRows /\ buffer[o][r] = Missing
    BY <1>1, <1>3, <1>4, <1>5
  <2>2. CASE buffer' = buffer
    BY <2>1, <2>2
  <2>3. CASE buffer' # buffer
    <3>1. buffer'[o][r] = buffer[o][r]
      BY <2>1, <2>3 DEF DealOut
    <3> QED BY <2>1, <3>1
  <2> QED BY <2>2, <2>3
<1>9. batch' \in Seq(1..SliceCount) /\ ToSet(batch)' = {}
  BY <1>1 DEF ToSet
<1> QED BY <1>1, <1>2, <1>7, <1>8, <1>9 DEF BufferInv, Unsliced

(* A batch that fails leaves its places free.                              *)
LEMMA FailBatchBuffer ==
  ASSUME BufferInv, FailBatch
  PROVE  BufferInv'
<1>1. /\ job' = job /\ pending' = pending /\ batch' = << >> /\ at' = "idle"
      /\ buffer' = buffer /\ errors' = errors \cup {"batch"} /\ ~Unsliced
  BY DEF FailBatch, Forget, Unsliced
<1>2. /\ Total' = Total /\ SliceCount' = SliceCount /\ JobKnown' = JobKnown
      /\ ShapeOK(job.inputs)' = ShapeOK(job.inputs)
      /\ \A s : RowsOf(s)' = RowsOf(s)
  BY <1>1, SlicesSame
<1>3. ErrorFreeIsComplete'
  BY <1>1 DEF ErrorFreeIsComplete, BufferInv
<1>4. batch' \in Seq(1..SliceCount) /\ ToSet(batch)' = {}
  BY <1>1 DEF ToSet
<1> QED BY <1>1, <1>2, <1>3, <1>4 DEF BufferInv, Unsliced

(* Finalizing reports a place that is still free.                          *)
LEMMA FinalizeBuffer ==
  ASSUME BufferInv, Finalize
  PROVE  BufferInv'
<1>1. /\ job' = job /\ pending' = pending /\ batch' = batch /\ at' = "done"
      /\ buffer' = buffer /\ ~Unsliced /\ batch = << >> /\ pending = {}
  BY DEF Finalize, Unsliced, BufferInv
<1>2. /\ Total' = Total /\ SliceCount' = SliceCount /\ JobKnown' = JobKnown
      /\ ShapeOK(job.inputs)' = ShapeOK(job.inputs)
      /\ \A s : RowsOf(s)' = RowsOf(s)
  BY <1>1, SlicesSame
<1>3. ErrorFreeIsComplete'
  <2>1. "overlap" \notin errors'
    BY DEF BufferInv, ErrorFreeIsComplete, Finalize
  <2>2. ASSUME errors' = {}, NEW o \in job.outputs, NEW r \in 1..Total
        PROVE  buffer[o][r] # Missing
    BY <2>2 DEF Finalize
  <2> QED BY <1>1, <1>2, <2>1, <2>2 DEF ErrorFreeIsComplete
<1>4. batch' \in Seq(1..SliceCount) /\ ToSet(batch)' = {}
  BY <1>1 DEF ToSet
<1> QED BY <1>1, <1>2, <1>3, <1>4 DEF BufferInv, Unsliced

(* Every step keeps the places of the slices to come free.                 *)
LEMMA BufferStep == BufferInv /\ [Next]_vars => BufferInv'
<1> SUFFICES ASSUME BufferInv, [Next]_vars PROVE BufferInv'
  OBVIOUS
<1>1. CASE Submit
  BY <1>1, SubmitBuffer
<1>2. CASE Reserve
  BY <1>2, ReserveBuffer
<1>3. CASE Merge
  <2>1. /\ UNCHANGED <<job, pending, batch, buffer, errors>> /\ ~Unsliced /\ ~Unsliced'
        /\ at' \notin {"idle", "done"}
    BY <1>3 DEF Merge, Unsliced
  <2> QED BY <2>1, WithinBatchBuffer
<1>4. CASE Plan
  <2>1. /\ UNCHANGED <<job, pending, batch, buffer, errors>> /\ ~Unsliced /\ ~Unsliced'
        /\ at' \notin {"idle", "done"}
    BY <1>4 DEF Plan, Unsliced
  <2> QED BY <2>1, WithinBatchBuffer
<1>5. CASE Rewrite
  <2>1. /\ UNCHANGED <<job, pending, batch, buffer, errors>> /\ ~Unsliced /\ ~Unsliced'
        /\ at' \notin {"idle", "done"}
    BY <1>5, RewriteUnderWay DEF Rewrite, pipelineVars, RewriteNext, CollectCandidates,
       ShardNode, EmitNodes, AssignShards, BuildHint, Refuse
  <2> QED BY <2>1, WithinBatchBuffer
<1>6. CASE Run
  <2>1. /\ UNCHANGED <<job, pending, batch, buffer, errors>> /\ ~Unsliced /\ ~Unsliced'
        /\ at' \notin {"idle", "done"}
    BY <1>6 DEF Run, Unsliced
  <2> QED BY <2>1, WithinBatchBuffer
<1>7. CASE DealOut
  BY <1>7, DealOutBuffer
<1>8. CASE FailBatch
  BY <1>8, FailBatchBuffer
<1>9. CASE Finalize
  BY <1>9, FinalizeBuffer
<1>10. CASE UNCHANGED vars
  <2>1. /\ job' = job /\ pending' = pending /\ batch' = batch /\ buffer' = buffer
        /\ errors' = errors /\ at' = at
    BY <1>10 DEF vars, pipelineVars, rewriteVars
  <2>2. /\ Total' = Total /\ SliceCount' = SliceCount /\ JobKnown' = JobKnown
        /\ ShapeOK(job.inputs)' = ShapeOK(job.inputs)
        /\ \A s : RowsOf(s)' = RowsOf(s)
    BY <2>1, SlicesSame
  <2> QED BY <2>1, <2>2 DEF BufferInv, ErrorFreeIsComplete, Unsliced, ToSet
<1> QED BY <1>1, <1>2, <1>3, <1>4, <1>5, <1>6, <1>7, <1>8, <1>9, <1>10 DEF Next

(* A job that ends without an error has every row of every output, and no  *)
(* row is written twice, whatever slices are reserved together: for every  *)
(* job, of any number of rows and any batch size (merge_slice_payload,     *)
(* finalize_state).                                                        *)
THEOREM JobsEndComplete == Spec => []ErrorFreeIsComplete
<1>1. BufferInv => ErrorFreeIsComplete
  BY DEF BufferInv
<1> QED BY <1>1, BufferInit, BufferStep, PTL DEF Spec

-----------------------------------------------------------------------------
(* Orders of a graph.                                                      *)

(* Every non-empty set of nodes has one that depends on none of the set.   *)
Grounded(names, deps) ==
  \A S \in SUBSET names : S # {} => \E n \in S : deps[n] \cap S = {}

(* The nodes that may come next, the choice among them, and one turn of    *)
(* Kahn's algorithm.                                                       *)
Ready(names, deps, s) == {n \in names \ ToSet(s) : deps[n] \cap names \subseteq ToSet(s)}
NextOut(names, deps, rank, s) ==
  CHOOSE n \in Ready(names, deps, s) :
    \A m \in Ready(names, deps, s) : rank[n] <= rank[m]
HeapTurn(names, deps, rank, s) ==
  IF Ready(names, deps, s) = {} THEN s ELSE Append(s, NextOut(names, deps, rank, s))

(* Among nodes with ranks there is one of least rank.                      *)
LEMMA NextOutReady ==
  ASSUME NEW names, NEW deps, NEW rank, \A n \in names : rank[n] \in Nat,
         NEW s, Ready(names, deps, s) # {}
  PROVE  NextOut(names, deps, rank, s) \in Ready(names, deps, s)
<1> DEFINE R == Ready(names, deps, s)
           K == {rank[n] : n \in R}
<1>1. R \subseteq names
  BY DEF Ready
<1> HIDE DEF R
<1>2. K \in SUBSET Nat /\ K # {}
  BY <1>1 DEF R
<1>3. PICK k \in K : \A j \in K : k <= j
  <2> HIDE DEF K
  <2> QED BY <1>2, SmallestNat
<1>4. \E n \in R : \A m \in R : rank[n] <= rank[m]
  BY <1>3
<1> QED BY <1>4 DEF NextOut, R

(* The order is what the turns make of the empty sequence.                 *)
LEMMA HeapOrderTurns ==
  ASSUME NEW names, IsFiniteSet(names), NEW deps, NEW rank,
         \A n \in names : rank[n] \in Nat
  PROVE  \E f : /\ f[0] = << >>
                /\ \A k \in 1..Cardinality(names) :
                     f[k] = HeapTurn(names, deps, rank, f[k - 1])
                /\ HeapOrder(names, deps, rank) = f[Cardinality(names)]
<1>1. PICK N \in Nat : N = Cardinality(names)
  BY FS_CardinalityType
<1> DEFINE Turn(s) == HeapTurn(names, deps, rank, s)
           D == Seq(names)
           step == [k \in 1..N |-> [s \in D |-> Turn(s)]]
<1>2. \A s \in D : Turn(s) \in D
  <2> TAKE s \in D
  <2>1. CASE Ready(names, deps, s) = {}
    BY <2>1 DEF HeapTurn
  <2>2. CASE Ready(names, deps, s) # {}
    <3>1. NextOut(names, deps, rank, s) \in names
      BY <2>2, NextOutReady DEF Ready
    <3> QED BY <2>2, <3>1 DEF HeapTurn
  <2> QED BY <2>1, <2>2
<1>3. << >> \in D /\ step \in [1..N -> [D -> D]]
  <2>1. << >> \in D
    OBVIOUS
  <2> HIDE DEF Turn, D
  <2> QED BY <1>2, <2>1
<1>4. PICK g \in [0..N -> D] : g[0] = << >> /\ \A n \in 1..N : g[n] = step[n][g[n - 1]]
  <2>1. Recursion(N, D, << >>, step)
    BY <1>3 DEF Recursion
  <2> HIDE DEF step, D
  <2>2. PICK h : Solution(N, D, << >>, step, h)
    BY <2>1, RecursionSolves
  <2> QED BY <2>2 DEF Solution
<1>5. \A n \in 1..N : g[n] = Turn(g[n - 1])
  <2> TAKE n \in 1..N
  <2>1. g[n - 1] \in D
    <3> HIDE DEF D
    <3> QED OBVIOUS
  <2> HIDE DEF Turn, D
  <2> QED BY <1>4, <2>1
<1> DEFINE Body(f) == [k \in 0..N |-> IF k = 0 THEN << >> ELSE Turn(f[k - 1])]
           order == CHOOSE f : f = Body(f)
<1> HIDE DEF Turn
<1>6. g = Body(g)
  <2> HIDE DEF D
  <2> QED BY <1>4, <1>5
<1>7. order = Body(order)
  <2> HIDE DEF Body
  <2> QED BY <1>6
<1>8. HeapOrder(names, deps, rank) = order[N]
  BY <1>1 DEF HeapOrder, Turn, HeapTurn, NextOut, Ready
<1>9. order[0] = << >> /\ \A k \in 1..N : order[k] = Turn(order[k - 1])
  <2> HIDE DEF order
  <2>1. Body(order)[0] = << >> /\ \A k \in 1..N : Body(order)[k] = Turn(order[k - 1])
    OBVIOUS
  <2> HIDE DEF Body
  <2> QED BY <1>7, <2>1, Zenon
<1> HIDE DEF order
<1> QED BY <1>1, <1>8, <1>9 DEF Turn

(* What a sequence put out by the algorithm looks like.                    *)
OutInOrder(names, deps, s) ==
  /\ s \in Seq(names) /\ IsInjective(s)
  /\ \A i \in DOMAIN s : deps[s[i]] \cap names \subseteq {s[j] : j \in 1..(i - 1)}

(* A turn puts out a node after what it depends on.                        *)
LEMMA HeapTurnInOrder ==
  ASSUME NEW names, NEW deps, NEW rank, \A n \in names : rank[n] \in Nat,
         NEW s, OutInOrder(names, deps, s)
  PROVE  OutInOrder(names, deps, HeapTurn(names, deps, rank, s))
<1>1. CASE Ready(names, deps, s) = {}
  BY <1>1 DEF HeapTurn
<1>2. CASE Ready(names, deps, s) # {}
  <2> DEFINE x == NextOut(names, deps, rank, s)
             t == Append(s, x)
  <2>1. x \in names /\ x \notin ToSet(s) /\ deps[x] \cap names \subseteq ToSet(s)
    BY <1>2, NextOutReady DEF Ready
  <2> HIDE DEF x
  <2>2. s \in Seq(names) /\ IsInjective(s) /\ x \notin Range(s)
    BY <2>1 DEF OutInOrder, Range, ToSet
  <2>3. t \in Seq(names) /\ IsInjective(t)
    BY <2>1, <2>2, AppendElements
  <2>4. /\ DOMAIN t = 1..(Len(s) + 1) /\ Len(s) \in Nat /\ DOMAIN s = 1..Len(s)
        /\ t[Len(s) + 1] = x /\ \A i \in 1..Len(s) : t[i] = s[i]
    BY <2>1, <2>2
  <2> HIDE DEF t
  <2>5. ASSUME NEW i \in DOMAIN t
        PROVE  deps[t[i]] \cap names \subseteq {t[j] : j \in 1..(i - 1)}
    <3>1. CASE i = Len(s) + 1
      <4>1. ToSet(s) = {t[j] : j \in 1..(i - 1)}
        BY <3>1, <2>4 DEF ToSet
      <4> QED BY <3>1, <4>1, <2>1, <2>4
    <3>2. CASE i # Len(s) + 1
      <4>1. i \in DOMAIN s /\ t[i] = s[i]
        BY <3>2, <2>4
      <4>2. {t[j] : j \in 1..(i - 1)} = {s[j] : j \in 1..(i - 1)}
        BY <4>1, <2>4
      <4> QED BY <4>1, <4>2 DEF OutInOrder
    <3> QED BY <3>1, <3>2
  <2>6. OutInOrder(names, deps, t)
    BY <2>3, <2>5 DEF OutInOrder
  <2> QED BY <1>2, <2>6 DEF HeapTurn, t, x
<1> QED BY <1>1, <1>2

(* Nodes come out once, and after what they depend on.                     *)
LEMMA HeapOrderInOrder ==
  ASSUME NEW names, IsFiniteSet(names), NEW deps, NEW rank,
         \A n \in names : rank[n] \in Nat
  PROVE  OutInOrder(names, deps, HeapOrder(names, deps, rank))
<1>1. PICK N \in Nat : N = Cardinality(names)
  BY FS_CardinalityType
<1>2. PICK f : /\ f[0] = << >>
               /\ \A k \in 1..N : f[k] = HeapTurn(names, deps, rank, f[k - 1])
               /\ HeapOrder(names, deps, rank) = f[N]
  BY <1>1, HeapOrderTurns
<1> DEFINE S == {k \in 0..N : OutInOrder(names, deps, f[k])}
<1>3. 0 \in S
  <2>1. OutInOrder(names, deps, << >>)
    BY DEF OutInOrder, IsInjective
  <2> QED BY <2>1, <1>2
<1>4. \A k \in 0..(N - 1) : k \in S => k + 1 \in S
  <2> SUFFICES ASSUME NEW k \in 0..(N - 1), k \in S PROVE k + 1 \in S
    OBVIOUS
  <2>1. k + 1 \in 1..N /\ (k + 1) - 1 = k
    OBVIOUS
  <2>2. f[k + 1] = HeapTurn(names, deps, rank, f[k])
    BY <1>2, <2>1
  <2>3. OutInOrder(names, deps, f[k + 1])
    BY <2>2, HeapTurnInOrder
  <2> QED BY <2>1, <2>3
<1>5. 0..N \subseteq S
  <2> HIDE DEF S
  <2> QED BY <1>3, <1>4, Counting
<1> QED BY <1>2, <1>5

(* The elements of a duplicate-free sequence are as many as it is long.    *)
LEMMA InjectiveSize ==
  ASSUME NEW A, NEW s \in Seq(A), IsInjective(s)
  PROVE  IsFiniteSet(ToSet(s)) /\ Cardinality(ToSet(s)) = Len(s)
<1>1. Len(s) \in Nat /\ DOMAIN s = 1..Len(s)
  OBVIOUS
<1>2. s \in Surjection(1..Len(s), ToSet(s)) /\ s \in Injection(1..Len(s), ToSet(s))
  <2>1. s \in [1..Len(s) -> ToSet(s)]
    BY <1>1 DEF ToSet
  <2> QED BY <2>1, <1>1 DEF Surjection, Injection, IsInjective, ToSet
<1>3. IsFiniteSet(1..Len(s)) /\ Cardinality(1..Len(s)) = Len(s)
  BY <1>1, FS_Interval
<1>4. IsFiniteSet(ToSet(s))
  BY <1>2, <1>3, FS_Surjection
<1> QED BY <1>2, <1>3, <1>4, FS_Injection

(* All nodes of a graph without a cycle come out.                          *)
LEMMA HeapOrderComplete ==
  ASSUME NEW names, IsFiniteSet(names), NEW deps, NEW rank,
         \A n \in names : rank[n] \in Nat, Grounded(names, deps)
  PROVE  /\ Len(HeapOrder(names, deps, rank)) = Cardinality(names)
         /\ ToSet(HeapOrder(names, deps, rank)) = names
<1>1. PICK N \in Nat : N = Cardinality(names)
  BY FS_CardinalityType
<1>2. PICK f : /\ f[0] = << >>
               /\ \A k \in 1..N : f[k] = HeapTurn(names, deps, rank, f[k - 1])
               /\ HeapOrder(names, deps, rank) = f[N]
  BY <1>1, HeapOrderTurns
<1> DEFINE S == {k \in 0..N : OutInOrder(names, deps, f[k]) /\ Len(f[k]) = k}
<1>3. 0 \in S
  <2>1. OutInOrder(names, deps, << >>) /\ Len(<< >>) = 0
    BY DEF OutInOrder, IsInjective
  <2> QED BY <2>1, <1>2
<1>4. \A k \in 0..(N - 1) : k \in S => k + 1 \in S
  <2> SUFFICES ASSUME NEW k \in 0..(N - 1), k \in S PROVE k + 1 \in S
    OBVIOUS
  <2>1. k + 1 \in 1..N /\ (k + 1) - 1 = k
    OBVIOUS
  <2>2. f[k + 1] = HeapTurn(names, deps, rank, f[k])
    BY <1>2, <2>1
  <2>3. OutInOrder(names, deps, f[k]) /\ Len(f[k]) = k
    OBVIOUS
  <2>4. OutInOrder(names, deps, f[k + 1])
    BY <2>2, <2>3, HeapTurnInOrder
  <2>5. PICK s \in Seq(names) : s = f[k] /\ IsInjective(s)
    BY <2>3 DEF OutInOrder
  <2>6. names \ ToSet(s) # {}
    <3>1. Cardinality(ToSet(s)) = k
      BY <2>3, <2>5, InjectiveSize
    <3>2. ToSet(s) # names
      BY <3>1, <1>1
    <3> QED BY <3>2, <2>5, ToSetIn
  <2>7. Ready(names, deps, s) # {}
    <3>1. PICK n \in names \ ToSet(s) : deps[n] \cap (names \ ToSet(s)) = {}
      BY <2>6 DEF Grounded
    <3>2. n \in Ready(names, deps, s)
      BY <3>1 DEF Ready
    <3> QED BY <3>2
  <2>8. NextOut(names, deps, rank, s) \in names
    BY <2>7, NextOutReady DEF Ready
  <2>9. f[k + 1] = Append(s, NextOut(names, deps, rank, s))
    BY <2>2, <2>5, <2>7 DEF HeapTurn
  <2>10. Len(f[k + 1]) = k + 1
    BY <2>3, <2>5, <2>8, <2>9
  <2> QED BY <2>1, <2>4, <2>10
<1>5. 0..N \subseteq S
  <2> HIDE DEF S
  <2> QED BY <1>3, <1>4, Counting
<1>6. OutInOrder(names, deps, f[N]) /\ Len(f[N]) = N
  BY <1>5
<1>7. PICK s \in Seq(names) : s = f[N] /\ IsInjective(s)
  BY <1>6 DEF OutInOrder
<1>8. IsFiniteSet(ToSet(s)) /\ Cardinality(ToSet(s)) = N /\ ToSet(s) \subseteq names
  BY <1>6, <1>7, InjectiveSize, ToSetIn
<1>9. ToSet(s) = names
  BY <1>8, <1>1, FS_Subset
<1> QED BY <1>1, <1>2, <1>6, <1>7, <1>9

(* The walk along the dependencies stays within the graph.                 *)
LEMMA ClosureIn ==
  ASSUME NEW deps, IsFiniteSet(DOMAIN deps), deps \in [DOMAIN deps -> SUBSET DOMAIN deps],
         NEW S \in SUBSET DOMAIN deps
  PROVE  Closure(S, deps) \subseteq DOMAIN deps
<1>1. PICK N \in Nat : N = Cardinality(DOMAIN deps)
  BY FS_CardinalityType
<1> DEFINE More(T) == T \cup UNION {deps[m] : m \in T \cap DOMAIN deps}
           D == SUBSET DOMAIN deps
           step == [k \in 1..N |-> [T \in D |-> More(T)]]
<1>2. \A T \in D : More(T) \in D
  OBVIOUS
<1>3. Recursion(N, D, S, step)
  <2>1. S \in D
    OBVIOUS
  <2> HIDE DEF D, More
  <2> QED BY <1>2, <2>1 DEF Recursion
<1>4. PICK g : Solution(N, D, S, step, g)
  <2> HIDE DEF D, step
  <2> QED BY <1>3, RecursionSolves
<1>5. /\ g \in [0..N -> D] /\ g[0] = S /\ \A n \in 1..N : g[n] = More(g[n - 1])
  <2> HIDE DEF D, More
  <2>1. g \in [0..N -> D] /\ g[0] = S /\ \A n \in 1..N : g[n] = step[n][g[n - 1]]
    BY <1>4 DEF Solution
  <2>2. \A n \in 1..N : g[n - 1] \in D
    BY <2>1
  <2> QED BY <2>1, <2>2
<1> DEFINE Body(f) == [k \in 0..N |-> IF k = 0 THEN S ELSE More(f[k - 1])]
           reach == CHOOSE f : f = Body(f)
<1> HIDE DEF More
<1>6. g = Body(g)
  <2> HIDE DEF D
  <2> QED BY <1>5
<1>7. reach = Body(reach)
  <2> HIDE DEF Body
  <2> QED BY <1>6
<1>8. Closure(S, deps) = reach[N]
  BY <1>1 DEF Closure, More
<1>9. reach[0] = S /\ \A k \in 1..N : reach[k] = More(reach[k - 1])
  <2> HIDE DEF reach
  <2>1. Body(reach)[0] = S /\ \A k \in 1..N : Body(reach)[k] = More(reach[k - 1])
    OBVIOUS
  <2> HIDE DEF Body
  <2> QED BY <1>7, <2>1, Zenon
<1> HIDE DEF reach, Body
<1> DEFINE In == {k \in 0..N : reach[k] \in D}
<1>10. 0 \in In /\ \A k \in 0..(N - 1) : k \in In => k + 1 \in In
  <2>1. 0 \in In
    BY <1>9
  <2>2. ASSUME NEW k \in 0..(N - 1), k \in In PROVE k + 1 \in In
    <3>1. k + 1 \in 1..N /\ (k + 1) - 1 = k
      OBVIOUS
    <3>2. reach[k + 1] = More(reach[k])
      BY <1>9, <3>1
    <3> HIDE DEF D
    <3> QED BY <2>2, <3>1, <3>2, <1>2
  <2> QED BY <2>1, <2>2
<1>11. N \in In
  <2> HIDE DEF In
  <2>1. 0..N \subseteq In
    BY <1>10, Counting
  <2> QED BY <2>1
<1> QED BY <1>8, <1>11

-----------------------------------------------------------------------------
(* Putting sequences together.                                             *)

(* Sequences that each have an element once and share none.                *)
Disjoint(seqs) ==
  /\ \A i \in DOMAIN seqs : IsInjective(seqs[i])
  /\ \A i, j \in DOMAIN seqs : i # j => ToSet(seqs[i]) \cap ToSet(seqs[j]) = {}

(* The sequences up to the n-th, put together.                             *)
FlatUpTo(seqs, A, n, t) ==
  /\ t \in Seq(A)
  /\ ToSet(t) = UNION {ToSet(seqs[i]) : i \in 1..n}
  /\ Disjoint(seqs) => IsInjective(t)

(* The elements of two sequences put together.                             *)
LEMMA ConcatToSet ==
  ASSUME NEW A, NEW t \in Seq(A), NEW r \in Seq(A)
  PROVE  /\ t \o r \in Seq(A)
         /\ ToSet(t \o r) = ToSet(t) \cup ToSet(r)
         /\ IsInjective(t) /\ IsInjective(r) /\ ToSet(t) \cap ToSet(r) = {}
              => IsInjective(t \o r)
<1>1. \A s : ToSet(s) = Range(s)
  BY DEF ToSet, Range
<1> QED BY <1>1, ConcatElements

(* FlattenSeq puts all of them together.                                   *)
LEMMA FlattenElements ==
  ASSUME NEW A, NEW seqs \in Seq(Seq(A))
  PROVE  FlatUpTo(seqs, A, Len(seqs), FlattenSeq(seqs))
<1>1. PICK N \in Nat : N = Len(seqs) /\ DOMAIN seqs = 1..N
  OBVIOUS
<1>2. \A i \in 1..N : seqs[i] \in Seq(A)
  BY <1>1
<1>3. CASE N = 0
  <2>1. seqs = << >> /\ 1..N = {}
    BY <1>1, <1>3
  <2>2. FlattenSeq(seqs) = << >>
    BY <1>1, <1>3, <2>1 DEF FlattenSeq
  <2>3. << >> \in Seq(A) /\ ToSet(<< >>) = {} /\ IsInjective(<< >>)
    BY DEF ToSet, IsInjective
  <2> QED BY <1>1, <2>1, <2>2, <2>3 DEF FlatUpTo
<1>4. CASE N # 0
  <2> DEFINE D == Seq(A)
             step == [k \in 1..N |-> [t \in D |-> t \o seqs[k]]]
  <2>1. Recursion(N, D, << >>, step)
    <3>1. << >> \in D /\ \A k \in 1..N : \A t \in D : t \o seqs[k] \in D
      BY <1>2
    <3> HIDE DEF D
    <3> QED BY <3>1 DEF Recursion
  <2>2. PICK g : Solution(N, D, << >>, step, g)
    <3> HIDE DEF D, step
    <3> QED BY <2>1, RecursionSolves
  <2>3. g \in [0..N -> D] /\ g[0] = << >> /\ \A n \in 1..N : g[n] = g[n - 1] \o seqs[n]
    <3> HIDE DEF D
    <3>1. g \in [0..N -> D] /\ g[0] = << >> /\ \A n \in 1..N : g[n] = step[n][g[n - 1]]
      BY <2>2 DEF Solution
    <3>2. \A n \in 1..N : g[n - 1] \in D
      BY <3>1
    <3> QED BY <3>1, <3>2
  <2>4. g[1] = seqs[1]
    <3>1. seqs[1] \in Seq(A) /\ 1 \in 1..N /\ 1 - 1 = 0
      BY <1>2, <1>4
    <3>2. g[1] = << >> \o seqs[1]
      BY <2>3, <3>1
    <3>3. PICK q \in Seq(A) : q = seqs[1]
      BY <3>1
    <3>4. << >> \o q = q
      OBVIOUS
    <3> QED BY <3>2, <3>3, <3>4
  <2> DEFINE h == [n \in 1..N |-> g[n]]
             Body(f) == [i \in 1..N |-> IF i = 1 THEN seqs[i] ELSE f[i - 1] \o seqs[i]]
             flat == CHOOSE f : f = Body(f)
  <2>5. h = Body(h)
    <3>1. \A n \in 1..N : n # 1 => n - 1 \in 1..N
      OBVIOUS
    <3>2. \A n \in 1..N : h[n] = IF n = 1 THEN seqs[n] ELSE h[n - 1] \o seqs[n]
      BY <2>3, <2>4, <3>1
    <3> QED BY <3>2
  <2>6. flat = Body(flat)
    <3> HIDE DEF Body, h
    <3> QED BY <2>5
  <2>7. FlattenSeq(seqs) = flat[N]
    BY <1>1, <1>4 DEF FlattenSeq
  <2>8. /\ flat[1] = seqs[1]
        /\ \A n \in 1..(N - 1) : flat[n + 1] = flat[n] \o seqs[n + 1]
    <3> HIDE DEF flat
    <3>1. /\ Body(flat)[1] = seqs[1]
          /\ \A n \in 1..(N - 1) : Body(flat)[n + 1] = flat[n] \o seqs[n + 1]
      <4>1. 1 \in 1..N
        BY <1>4
      <4>2. \A n \in 1..(N - 1) : n + 1 \in 1..N /\ n + 1 # 1 /\ (n + 1) - 1 = n
        OBVIOUS
      <4> QED BY <4>1, <4>2
    <3> HIDE DEF Body
    <3> QED BY <2>6, <3>1, Zenon
  <2> HIDE DEF flat, Body
  <2> DEFINE S == {n \in 0..(N - 1) : FlatUpTo(seqs, A, n + 1, flat[n + 1])}
  <2>9. 0 \in S
    <3>1. /\ seqs[1] \in Seq(A) /\ 0 + 1 = 1 /\ 1..1 = {1} /\ 1 \in DOMAIN seqs
          /\ 0 \in 0..(N - 1)
      BY <1>1, <1>2, <1>4
    <3>2. ToSet(seqs[1]) = UNION {ToSet(seqs[i]) : i \in 1..1}
      BY <3>1
    <3>3. FlatUpTo(seqs, A, 1, flat[1])
      BY <2>8, <3>1, <3>2 DEF FlatUpTo, Disjoint
    <3> QED BY <3>1, <3>3
  <2>10. ASSUME NEW n \in 0..((N - 1) - 1), n \in S PROVE n + 1 \in S
    <3>1. PICK m \in 1..(N - 1) : m = n + 1
      OBVIOUS
    <3>2. /\ m + 1 \in 1..N /\ m \in 0..(N - 1)
      BY <3>1
    <3>3. FlatUpTo(seqs, A, m, flat[m])
      BY <2>10, <3>1
    <3>4. flat[m + 1] = flat[m] \o seqs[m + 1]
      BY <2>8
    <3>5. PICK t \in Seq(A) : t = flat[m]
      BY <3>3 DEF FlatUpTo
    <3>6. PICK r \in Seq(A) : r = seqs[m + 1]
      BY <1>2, <3>2
    <3>7. /\ t \o r \in Seq(A)
          /\ ToSet(t \o r) = ToSet(t) \cup ToSet(r)
          /\ IsInjective(t) /\ IsInjective(r) /\ ToSet(t) \cap ToSet(r) = {}
               => IsInjective(t \o r)
      BY ConcatToSet
    <3>8. ToSet(t) = UNION {ToSet(seqs[i]) : i \in 1..m}
      BY <3>3, <3>5 DEF FlatUpTo
    <3>9. ToSet(t \o r) = UNION {ToSet(seqs[i]) : i \in 1..(m + 1)}
      <4>1. \A i : i \in 1..(m + 1) <=> i \in 1..m \/ i = m + 1
        OBVIOUS
      <4> QED BY <4>1, <3>6, <3>7, <3>8
    <3>10. ASSUME Disjoint(seqs) PROVE IsInjective(t \o r)
      <4>1. IsInjective(t) /\ IsInjective(r)
        BY <3>10, <3>3, <3>5, <3>6, <3>2, <1>1 DEF FlatUpTo, Disjoint
      <4>2. \A i \in 1..m : ToSet(seqs[i]) \cap ToSet(r) = {}
        <5> TAKE i \in 1..m
        <5>1. i \in 1..N /\ i # m + 1
          BY <3>2
        <5> QED BY <3>10, <5>1, <3>2, <3>6, <1>1 DEF Disjoint
      <4>3. ToSet(t) \cap ToSet(r) = {}
        BY <3>8, <4>2
      <4> QED BY <4>1, <4>3, <3>7
    <3>11. FlatUpTo(seqs, A, m + 1, flat[m + 1])
      BY <3>4, <3>5, <3>6, <3>7, <3>9, <3>10 DEF FlatUpTo
    <3> QED BY <3>1, <3>2, <3>11
  <2>11. 0..(N - 1) \subseteq S
    <3> HIDE DEF S
    <3>1. N - 1 \in Nat
      BY <1>4
    <3> QED BY <2>9, <2>10, <3>1, Counting
  <2>12. N - 1 \in S /\ (N - 1) + 1 = N
    <3>1. N - 1 \in 0..(N - 1) /\ (N - 1) + 1 = N
      BY <1>4
    <3> HIDE DEF S
    <3> QED BY <2>11, <3>1
  <2> QED BY <1>1, <2>7, <2>12
<1> QED BY <1>3, <1>4

-----------------------------------------------------------------------------
(* Coalescing and merging the nodes of a batch.                            *)

(* A slice of a list is a list.                                            *)
LEMMA SliceInputsList ==
  ASSUME JobKnown, ShapeOK(job.inputs), NEW i \in 1..SliceCount,
         NEW k \in DOMAIN job.inputs
  PROVE  SliceInputs(i)[k] \in Seq(ToSet(job.inputs[k]))
<1>1. /\ job.inputs[k] \in Seq(ToSet(job.inputs[k])) /\ Len(job.inputs[k]) \in Nat
      /\ Total \in Nat /\ job.size \in Nat \ {0}
  BY InputsKnown
<1>2. Len(job.inputs[k]) \in {1, Total}
  BY DEF ShapeOK, Total
<1>3. CASE Len(job.inputs[k]) = 1 \/ SliceCount = 1
  BY <1>1, <1>3 DEF SliceInputs
<1>4. CASE Len(job.inputs[k]) # 1 /\ SliceCount # 1
  <2>1. PICK a \in Nat : a = (i - 1) * job.size
    BY <1>4, SliceBounds
  <2>2. PICK b : b = Minimum(i * job.size, Total)
    OBVIOUS
  <2>3. i * job.size = a + job.size
    BY <1>4, <2>1, SliceBounds
  <2>4. b \in Nat /\ b <= Total
    BY <2>2, <2>3, <1>1 DEF Minimum
  <2>A. PICK A : A = ToSet(job.inputs[k])
    OBVIOUS
  <2>5. PICK q \in Seq(A) : q = job.inputs[k]
    BY <1>1, <2>A
  <2>6. SliceInputs(i)[k] = SubSeq(q, a + 1, b)
    BY <1>4, <2>1, <2>2, <2>5 DEF SliceInputs
  <2>7. b <= Len(q)
    BY <1>2, <1>4, <2>4, <2>5
  <2>8. SubSeq(q, a + 1, b) \in Seq(A)
    BY <2>4, <2>7
  <2> QED BY <2>A, <2>5, <2>6, <2>8
<1> QED BY <1>3, <1>4

(* The coalesced items of a column are a list.                             *)
LEMMA ItemsList ==
  ASSUME JobKnown, ShapeOK(job.inputs), batch \in Seq(1..SliceCount), batch # << >>,
         NEW n \in JobNodes, NEW f \in ToSet(job.fields[n])
  PROVE  Len(CoalescedItems(f)) \in Nat
<1>1. batch[1] \in 1..SliceCount /\ \A i \in DOMAIN batch : batch[i] \in 1..SliceCount
  <2>1. PICK A : A = 1..SliceCount
    OBVIOUS
  <2>2. PICK b \in Seq(A) : b = batch
    BY <2>1
  <2>3. b # << >>
    BY <2>2
  <2>4. b[1] \in A /\ \A i \in DOMAIN b : b[i] \in A
    BY ONLY b \in Seq(A), <2>3
  <2> QED BY <2>1, <2>2, <2>4
<1>2. \A k \in DOMAIN job.inputs : FirstInputs[k] \in Seq(ToSet(job.inputs[k]))
  BY <1>1, SliceInputsList DEF FirstInputs
<1>3. CASE Len(batch) = 1 \/ RewriteTarget(f) = {}
  <2>1. CoalescedItems(f) = FieldItems(f, FirstInputs)
    BY <1>3 DEF CoalescedItems
  <2>2. IF f.key = NoKey THEN f.items \in Seq(ToSet(f.items)) ELSE f.key \in DOMAIN job.inputs
    BY JobsAssumption DEF JobKnown, JobNodes
  <2>3. CASE f.key = NoKey
    <3>1. f.items \in Seq(ToSet(f.items)) /\ CoalescedItems(f) = f.items
      BY <2>1, <2>2, <2>3 DEF FieldItems
    <3> QED BY <3>1
  <2>4. CASE f.key # NoKey
    <3>1. f.key \in DOMAIN job.inputs /\ CoalescedItems(f) = FirstInputs[f.key]
      BY <2>1, <2>2, <2>4 DEF FieldItems
    <3>2. FirstInputs[f.key] \in Seq(ToSet(job.inputs[f.key]))
      BY <1>2, <3>1
    <3> QED BY <3>1, <3>2
  <2> QED BY <2>3, <2>4
<1>4. CASE Len(batch) # 1 /\ RewriteTarget(f) # {}
  <2>1. PICK k \in RewriteTarget(f) : CoalescedItems(f) = MergedInputs[k]
    BY <1>4 DEF CoalescedItems
  <2>2. k \in Varying /\ k \in DOMAIN job.inputs
    <3>1. k \in Varying
      BY <2>1 DEF RewriteTarget, AliasOf, Matches
    <3> QED BY <3>1 DEF Varying
  <2>3. MergedInputs[k] = FlattenSeq([i \in DOMAIN batch |-> SliceInputs(batch[i])[k]])
    BY <2>2 DEF MergedInputs
  <2>4. PICK A : A = ToSet(job.inputs[k])
    OBVIOUS
  <2>5. PICK s : s = [i \in DOMAIN batch |-> SliceInputs(batch[i])[k]]
    OBVIOUS
  <2>6. s \in Seq(Seq(A))
    <3>1. \A i \in DOMAIN batch : SliceInputs(batch[i])[k] \in Seq(A)
      BY <1>1, <2>2, <2>4, SliceInputsList
    <3>2. PICK m \in Nat : DOMAIN batch = 1..m
      OBVIOUS
    <3>3. s \in [1..m -> Seq(A)]
      BY <2>5, <3>1, <3>2
    <3> QED BY <3>3
  <2>7. FlattenSeq(s) \in Seq(A)
    BY <2>6, FlattenElements DEF FlatUpTo
  <2> QED BY <2>1, <2>3, <2>5, <2>7
<1> QED BY <1>3, <1>4

(* What Deduplicate visits, and one turn of it.                            *)
TopoOrder == HeapOrder(JobNodes, job.deps, [n \in JobNodes |-> n])
TwinsOf(cols, same, k) ==
  {TopoOrder[i] : i \in {j \in 1..(k - 1) :
     /\ {TopoOrder[j], TopoOrder[k]} \cap job.outputs = {}
     /\ RuntimeSignature(TopoOrder[j], cols, same) = RuntimeSignature(TopoOrder[k], cols, same)}}
DedupTurn(cols, same, k) ==
  IF TwinsOf(cols, same, k) = {} THEN same
  ELSE [same EXCEPT ![TopoOrder[k]] = same[CHOOSE m \in TwinsOf(cols, same, k) : TRUE]]

(* The nodes of a job, in a topological order.                             *)
LEMMA JobTopology ==
  ASSUME JobKnown
  PROVE  /\ IsFiniteSet(JobNodes) /\ JobNodes \subseteq Nat
         /\ job.deps \in [JobNodes -> SUBSET JobNodes]
         /\ TopoOrder \in Seq(JobNodes) /\ ToSet(TopoOrder) = JobNodes
         /\ OutInOrder(JobNodes, job.deps, TopoOrder)
<1>1. /\ IsFiniteSet(JobNodes) /\ JobNodes \subseteq Nat
      /\ job.deps \in [JobNodes -> SUBSET JobNodes] /\ Grounded(JobNodes, job.deps)
  BY JobsAssumption DEF JobKnown, JobNodes, Grounded
<1>2. \A n \in JobNodes : [m \in JobNodes |-> m][n] \in Nat
  BY <1>1
<1>3. PICK rank : rank = [m \in JobNodes |-> m]
  OBVIOUS
<1>4. PICK names : names = JobNodes
  OBVIOUS
<1>5. PICK deps : deps = job.deps
  OBVIOUS
<1>6. /\ OutInOrder(names, deps, HeapOrder(names, deps, rank))
      /\ ToSet(HeapOrder(names, deps, rank)) = names
  <2>1. IsFiniteSet(names) /\ Grounded(names, deps) /\ \A n \in names : rank[n] \in Nat
    BY <1>1, <1>2, <1>3, <1>4, <1>5
  <2> QED BY <2>1, HeapOrderInOrder, HeapOrderComplete
<1> QED BY <1>1, <1>3, <1>4, <1>5, <1>6 DEF TopoOrder, OutInOrder

(* A node is only merged into one that does not come later.                *)
MergedBack(same) ==
  /\ same \in [JobNodes -> JobNodes]
  /\ \A i \in DOMAIN TopoOrder : \E j \in 1..i : same[TopoOrder[i]] = TopoOrder[j]

(* A turn of the deduplication points a node to one at or before it.       *)
LEMMA DedupTurnBack ==
  ASSUME JobKnown, NEW cols, NEW same, MergedBack(same), NEW k \in DOMAIN TopoOrder
  PROVE  MergedBack(DedupTurn(cols, same, k))
<1>1. PICK topo \in Seq(JobNodes) : topo = TopoOrder /\ IsInjective(topo)
  BY JobTopology DEF OutInOrder
<1>2. DOMAIN topo = 1..Len(topo) /\ Len(topo) \in Nat /\ k \in 1..Len(topo)
  BY <1>1
<1>3. CASE TwinsOf(cols, same, k) = {}
  BY <1>3 DEF DedupTurn
<1>4. CASE TwinsOf(cols, same, k) # {}
  <2>1. PICK m \in TwinsOf(cols, same, k) :
               DedupTurn(cols, same, k) = [same EXCEPT ![topo[k]] = same[m]]
    BY <1>1, <1>4 DEF DedupTurn
  <2>2. PICK i \in 1..(k - 1) : m = topo[i]
    BY <2>1, <1>1 DEF TwinsOf
  <2>3. i \in DOMAIN topo /\ i < k
    BY <1>2
  <2>4. PICK j \in 1..i : same[m] = topo[j]
    BY <2>2, <2>3, <1>1 DEF MergedBack
  <2>5. j \in 1..k /\ topo[j] \in JobNodes /\ topo[k] \in JobNodes
    BY <2>3, <1>2
  <2>6. PICK new : new = [same EXCEPT ![topo[k]] = topo[j]]
    OBVIOUS
  <2>7. same \in [JobNodes -> JobNodes]
    BY DEF MergedBack
  <2>8. new \in [JobNodes -> JobNodes] /\ new[topo[k]] = topo[j]
    BY <2>5, <2>6, <2>7
  <2>9. ASSUME NEW p \in DOMAIN topo PROVE \E q \in 1..p : new[topo[p]] = topo[q]
    <3>1. CASE p = k
      BY <3>1, <2>5, <2>8
    <3>2. CASE p # k
      <4>1. topo[p] # topo[k] /\ topo[p] \in JobNodes
        BY <3>2, <1>1, <1>2 DEF IsInjective
      <4>2. new[topo[p]] = same[topo[p]]
        BY <4>1, <2>6, <2>7
      <4> QED BY <4>2, <1>1 DEF MergedBack
    <3> QED BY <3>1, <3>2
  <2> QED BY <2>1, <2>4, <2>6, <2>8, <2>9, <1>1 DEF MergedBack
<1> QED BY <1>3, <1>4

(* Deduplicate merges nodes back only.                                     *)
LEMMA DeduplicateBack ==
  ASSUME JobKnown, NEW cols
  PROVE  MergedBack(Deduplicate(cols))
<1>1. PICK N \in Nat : N = Len(TopoOrder) /\ DOMAIN TopoOrder = 1..N
  BY JobTopology
<1> DEFINE Turn(s, k) == DedupTurn(cols, s, k)
           base == [n \in JobNodes |-> n]
           D == {s \in [JobNodes -> JobNodes] : MergedBack(s)}
           step == [k \in 1..N |-> [s \in D |-> Turn(s, k)]]
<1>2. MergedBack(base)
  <2>1. \A i \in DOMAIN TopoOrder : i \in 1..i /\ TopoOrder[i] \in JobNodes
    BY <1>1, JobTopology
  <2> QED BY <2>1 DEF MergedBack
<1>3. \A k \in 1..N : \A s \in D : Turn(s, k) \in D
  <2> TAKE k \in 1..N
  <2> TAKE s \in D
  <2>1. MergedBack(Turn(s, k))
    BY <1>1, DedupTurnBack
  <2> QED BY <2>1 DEF MergedBack
<1>4. Recursion(N, D, base, step)
  <2>1. base \in D
    BY <1>2 DEF MergedBack
  <2> HIDE DEF D, Turn, base
  <2> QED BY <1>3, <2>1 DEF Recursion
<1>5. PICK g : Solution(N, D, base, step, g)
  <2> HIDE DEF D, step, base
  <2> QED BY <1>4, RecursionSolves
<1>6. g \in [0..N -> D] /\ g[0] = base /\ \A k \in 1..N : g[k] = Turn(g[k - 1], k)
  <2> HIDE DEF D, Turn, base
  <2>1. g \in [0..N -> D] /\ g[0] = base /\ \A k \in 1..N : g[k] = step[k][g[k - 1]]
    BY <1>5 DEF Solution
  <2>2. \A k \in 1..N : g[k - 1] \in D
    BY <2>1
  <2> QED BY <2>1, <2>2
<1> DEFINE Body(f) == [k \in 0..N |-> IF k = 0 THEN base ELSE Turn(f[k - 1], k)]
           fold == CHOOSE f : f = Body(f)
<1>7. g = Body(g)
  <2> HIDE DEF D, Turn, base
  <2> QED BY <1>6
<1>8. fold = Body(fold)
  <2> HIDE DEF Body
  <2> QED BY <1>7
<1>9. Deduplicate(cols) = fold[N]
  BY <1>1 DEF Deduplicate, DedupTurn, TwinsOf, TopoOrder
<1>10. fold[0] = base /\ \A k \in 1..N : fold[k] = Turn(fold[k - 1], k)
  <2> HIDE DEF fold, Turn, base
  <2>1. Body(fold)[0] = base /\ \A k \in 1..N : Body(fold)[k] = Turn(fold[k - 1], k)
    OBVIOUS
  <2> HIDE DEF Body
  <2> QED BY <1>8, <2>1, Zenon
<1> HIDE DEF fold, Body
<1> DEFINE S == {k \in 0..N : fold[k] \in D}
<1>11. 0 \in S /\ \A k \in 0..(N - 1) : k \in S => k + 1 \in S
  <2> HIDE DEF D, base
  <2>1. 0 \in S
    BY <1>10, <1>4 DEF Recursion
  <2>2. ASSUME NEW k \in 0..(N - 1), k \in S PROVE k + 1 \in S
    <3>1. k + 1 \in 1..N /\ (k + 1) - 1 = k
      OBVIOUS
    <3>2. fold[k + 1] = Turn(fold[k], k + 1)
      BY <1>10, <3>1
    <3> HIDE DEF Turn
    <3> QED BY <2>2, <3>1, <3>2, <1>3
  <2> QED BY <2>1, <2>2
<1>12. N \in S
  <2> HIDE DEF S
  <2>1. 0..N \subseteq S
    BY <1>11, Counting
  <2> QED BY <2>1
<1> QED BY <1>9, <1>12

-----------------------------------------------------------------------------
(* The inductive invariant of planning and rewriting.                      *)

(* A graph without a cycle over nodes of the job; list lengths are         *)
(* naturals, finitely many.                                                *)
GraphOK(g) ==
  /\ DOMAIN g.deps \subseteq JobNodes
  /\ g.deps \in [DOMAIN g.deps -> SUBSET DOMAIN g.deps]
  /\ Grounded(DOMAIN g.deps, g.deps)
  /\ \A n \in DOMAIN g.deps : g.lists[n] \in SUBSET Nat /\ IsFiniteSet(g.lists[n])

(* Every node has candidates, and they are workers it was assigned to.     *)
CandidatesOK ==
  /\ candidates \in [Nodes -> Seq(WorkerIds)]
  /\ \A n \in Nodes :
       /\ candidates[n] # << >> /\ IsInjective(candidates[n])
       /\ \A w \in ToSet(candidates[n]) : n \in ToSet(assignment[w])

(* What is left of the rewrite order is in order; a node that was visited  *)
(* depends on nothing in it, and was cut or has one candidate.             *)
OrderOK ==
  /\ ToSet(todo) \subseteq Nodes /\ OutInOrder(ToSet(todo), graph.deps, todo)
  /\ Sharded \cap ToSet(todo) = {}
  /\ \A n \in Nodes \ ToSet(todo) :
       /\ graph.deps[n] \cap ToSet(todo) = {}
       /\ n \notin Sharded => Len(candidates[n]) = 1

(* A sharded node is cut into an index partition of its rows, with a part  *)
(* per candidate and no more parts than rows; a node without a list is cut *)
(* as the sharded nodes it depends on.                                     *)
CutOK(n) ==
  /\ n \in Nodes
  /\ \E rows \in Nat : \E count \in 1..rows :
       parts[n] = IndexPartitions(rows, count) /\ Len(candidates[n]) = count
  /\ graph.lists[n] = {} => \A d \in ShardedDeps(n) : parts[d] = parts[n]

(* The rewritten nodes form a graph without a cycle.                       *)
FmGraphOK(fm) ==
  /\ IsFiniteSet(DOMAIN fm)
  /\ \A x \in DOMAIN fm : fm[x].deps \subseteq DOMAIN fm
  /\ Grounded(DOMAIN fm, [x \in DOMAIN fm |-> fm[x].deps])

(* Every one of the names is placed, on one worker and once.               *)
PlacedOK(place, names) ==
  /\ place \in [DOMAIN place -> Seq(names)]
  /\ \A w \in DOMAIN place : IsInjective(place[w])
  /\ \A v, w \in DOMAIN place : v # w => ToSet(place[v]) \cap ToSet(place[w]) = {}
  /\ UNION {ToSet(place[w]) : w \in DOMAIN place} = names

(* What holds at each stage: the graph has no cycle, the assignment covers *)
(* it, the candidates and the rest of the rewrite order agree with the     *)
(* cuts made so far, the rewritten graph has no cycle, and it is placed.   *)
RewriteInv ==
  /\ at \in {"plan", "submit", "shard", "assign", "hint"} => GraphOK(graph)
  /\ at \in {"submit", "shard", "assign", "hint"} => FitsGraph(assignment)
  /\ at \in {"shard", "assign"} => CandidatesOK
  /\ at = "shard" => OrderOK
  /\ at = "assign" => /\ DOMAIN fmNodes = RewrittenNames
                      /\ \A n \in Nodes \ Sharded : Len(candidates[n]) = 1
  /\ at \in {"assign", "hint"} => FmGraphOK(fmNodes)
  /\ at = "hint" => DOMAIN placed = WorkerIds /\ PlacedOK(placed, DOMAIN fmNodes)
  /\ at \in {"new", "rejected", "idle", "merge", "plan", "submit", "done"} => parts = << >>
  /\ at = "merge" => batch # << >>
  /\ \A n \in Sharded : CutOK(n)
  /\ RewriteIsSchedulable

(* Between batches nothing is planned or cut.                              *)
LEMMA BetweenBatches ==
  ASSUME at' \in {"new", "rejected", "idle", "merge", "done"}, parts' = << >>,
         at' = "merge" => batch' # << >>
  PROVE  RewriteInv'
<1>1. Sharded' = {}
  BY DEF Sharded
<1>2. RewriteIsSchedulable'
  BY DEF RewriteIsSchedulable
<1> QED BY <1>1, <1>2 DEF RewriteInv

(* The steps that start and end a batch.                                   *)
LEMMA BatchBordersRewrite ==
  ASSUME RewriteInv, BufferInv, Submit \/ Reserve \/ DealOut \/ FailBatch \/ Finalize
  PROVE  RewriteInv'
<1>1. CASE Submit
  <2>1. at' \in {"rejected", "idle"} /\ parts' = << >>
    BY <1>1 DEF Submit, RewriteInv
  <2> QED BY <2>1, BetweenBatches
<1>2. CASE Reserve
  <2>1. at' = "merge" /\ parts' = << >>
    BY <1>2 DEF Reserve, RewriteInv
  <2>2. PICK S \in SUBSET pending : S # {} /\ batch' \in SetToSeqs(S)
    BY <1>2 DEF Reserve
  <2>3. IsFiniteSet(S)
    <3>1. IsFiniteSet(1..SliceCount) /\ pending \subseteq 1..SliceCount
      <4>1. SliceCount \in Nat /\ pending \subseteq 1..SliceCount
        BY SliceBounds DEF BufferInv
      <4> QED BY <4>1, FS_Interval
    <3> QED BY <3>1, FS_Subset
  <2>4. ToSet(batch') = S
    BY <2>2, <2>3, OrderingElements
  <2>5. batch' # << >>
    BY <2>2, <2>4 DEF ToSet
  <2> QED BY <2>1, <2>5, BetweenBatches
<1>3. CASE DealOut \/ FailBatch
  <2>1. at' = "idle" /\ parts' = << >>
    BY <1>3 DEF DealOut, FailBatch, Forget
  <2> QED BY <2>1, BetweenBatches
<1>4. CASE Finalize
  <2>1. at' = "done" /\ parts' = << >>
    BY <1>4 DEF Finalize, RewriteInv
  <2> QED BY <2>1, BetweenBatches
<1> QED BY <1>1, <1>2, <1>3, <1>4

(* The nodes that are kept, and what they depend on.                       *)
KeptBy(same) == {same[n] : n \in JobNodes}
DepsBy(same) == [n \in KeptBy(same) |-> {same[d] : d \in job.deps[n]}]

(* The merged graph has no cycle: it inherits the order of the job.        *)
LEMMA MergedGraph ==
  ASSUME JobKnown, NEW same, MergedBack(same)
  PROVE  /\ KeptBy(same) \subseteq JobNodes
         /\ DepsBy(same) \in [KeptBy(same) -> SUBSET KeptBy(same)]
         /\ Grounded(KeptBy(same), DepsBy(same))
<1>kept. PICK kept : kept = KeptBy(same) /\ kept = {same[n] : n \in JobNodes}
  BY DEF KeptBy
<1>deps. PICK deps : /\ deps = DepsBy(same)
                     /\ deps = [n \in kept |-> {same[d] : d \in job.deps[n]}]
  BY <1>kept DEF DepsBy
<1>1. /\ same \in [JobNodes -> JobNodes]
      /\ \A i \in DOMAIN TopoOrder : \E j \in 1..i : same[TopoOrder[i]] = TopoOrder[j]
  BY DEF MergedBack
<1>2. /\ job.deps \in [JobNodes -> SUBSET JobNodes]
      /\ TopoOrder \in Seq(JobNodes) /\ ToSet(TopoOrder) = JobNodes
      /\ IsInjective(TopoOrder)
      /\ \A i \in DOMAIN TopoOrder :
           job.deps[TopoOrder[i]] \cap JobNodes \subseteq {TopoOrder[j] : j \in 1..(i - 1)}
  BY JobTopology DEF OutInOrder
<1>3. kept \subseteq JobNodes
  BY <1>1, <1>kept
<1>4. deps \in [kept -> SUBSET kept]
  <2>1. \A n \in kept : \A d \in job.deps[n] : same[d] \in kept
    BY <1>1, <1>2, <1>3, <1>kept
  <2> QED BY <2>1, <1>deps
<1>5. ASSUME NEW S \in SUBSET kept, S # {} PROVE \E n \in S : deps[n] \cap S = {}
  <2> DEFINE I == {i \in DOMAIN TopoOrder : TopoOrder[i] \in S}
  <2>1. I \in SUBSET Nat /\ I # {}
    <3>1. DOMAIN TopoOrder \subseteq Nat
      BY <1>2
    <3>2. PICK n \in S : n \in JobNodes
      BY <1>3, <1>5
    <3>3. \E i \in DOMAIN TopoOrder : TopoOrder[i] = n
      BY <3>2, <1>2 DEF ToSet
    <3> QED BY <3>1, <3>2, <3>3
  <2>2. PICK i \in I : \A j \in I : i <= j
    <3> HIDE DEF I
    <3> QED BY <2>1, SmallestNat
  <2>3. ASSUME NEW d \in job.deps[TopoOrder[i]] PROVE same[d] \notin S
    <3>1. PICK j \in 1..(i - 1) : d = TopoOrder[j]
      BY <1>2, <2>2
    <3>2. j \in DOMAIN TopoOrder /\ j < i /\ i \in Nat
      BY <1>2, <2>2
    <3>3. PICK k \in 1..j : same[d] = TopoOrder[k]
      BY <1>1, <3>1, <3>2
    <3>4. k \in DOMAIN TopoOrder /\ k < i
      BY <1>2, <3>2
    <3>5. k \notin I
      <4> HIDE DEF I
      <4>1. k \in Nat /\ ~(i <= k)
        BY <3>2, <3>4
      <4> QED BY <2>2, <4>1
    <3> QED BY <3>3, <3>4, <3>5
  <2>4. TopoOrder[i] \in S
    BY <2>2
  <2>5. deps[TopoOrder[i]] = {same[d] : d \in job.deps[TopoOrder[i]]}
    BY <2>4, <1>deps
  <2> QED BY <2>3, <2>4, <2>5
<1> QED BY <1>3, <1>4, <1>5, <1>kept, <1>deps DEF Grounded

(* Merging yields a graph without a cycle, for finitely many rows.         *)
LEMMA MergeRewrite ==
  ASSUME RewriteInv, BufferInv, Merge
  PROVE  RewriteInv'
<1>1. /\ at = "merge" /\ batch # << >> /\ parts' = << >> /\ job' = job
      /\ JobKnown /\ ShapeOK(job.inputs) /\ batch \in Seq(1..SliceCount)
  BY DEF Merge, RewriteInv, BufferInv, Unsliced
<1>2. Sharded' = {}
  BY <1>1 DEF Sharded
<1>3. CASE ~Coalescible
  <2>1. at' = "broken"
    BY <1>3 DEF Merge
  <2> QED BY <1>2, <2>1 DEF RewriteInv, RewriteIsSchedulable
<1>4. CASE Coalescible
  <2> DEFINE cols == [n \in JobNodes |->
                        [i \in DOMAIN job.fields[n] |-> CoalescedItems(job.fields[n][i])]]
             same == Deduplicate(cols)
             kept == {same[n] : n \in JobNodes}
             deps == [n \in kept |-> {same[d] : d \in job.deps[n]}]
             lists == [n \in kept |-> {Len(cols[n][i]) : i \in DOMAIN cols[n]}]
  <2>1. at' = "plan" /\ graph'.deps = deps /\ graph'.lists = lists
    <3> DEFINE outs == {same[o] : o \in job.outputs}
               gpus == {n \in kept : job.kind[n] = "gpu"}
    <3>1. at' = "plan" /\ graph' = [deps |-> deps, lists |-> lists, ref |-> job.ref,
                                   outputs |-> outs, gpus |-> gpus]
      BY <1>4, Zenon DEF Merge
    <3> HIDE DEF deps, lists, outs, gpus
    <3> QED BY <3>1
  <2>2. MergedBack(same)
    <3> HIDE DEF cols
    <3> QED BY <1>1, DeduplicateBack
  <2>3. kept \subseteq JobNodes /\ deps \in [kept -> SUBSET kept] /\ Grounded(kept, deps)
    <3> HIDE DEF same
    <3>1. kept = KeptBy(same) /\ deps = DepsBy(same)
      BY DEF KeptBy, DepsBy
    <3> HIDE DEF kept, deps
    <3> QED BY <1>1, <2>2, <3>1, MergedGraph
  <2>4. ASSUME NEW n \in kept PROVE lists[n] \in SUBSET Nat /\ IsFiniteSet(lists[n])
    <3>1. n \in JobNodes
      BY <2>3
    <3>2. cols[n] = [i \in DOMAIN job.fields[n] |-> CoalescedItems(job.fields[n][i])]
      BY <3>1
    <3>3. \A i \in DOMAIN job.fields[n] : Len(CoalescedItems(job.fields[n][i])) \in Nat
      BY <1>1, <3>1, ItemsList DEF ToSet
    <3>4. PICK f : f = [i \in DOMAIN job.fields[n] |-> Len(CoalescedItems(job.fields[n][i]))]
      OBVIOUS
    <3>5. lists[n] = {f[i] : i \in DOMAIN job.fields[n]}
      <4>1. lists[n] = {Len(cols[n][i]) : i \in DOMAIN cols[n]}
        <5> HIDE DEF cols, kept
        <5> QED OBVIOUS
      <4>2. PICK c : c = cols[n]
        OBVIOUS
      <4> HIDE DEF cols, lists
      <4>3. DOMAIN c = DOMAIN job.fields[n] /\ \A i \in DOMAIN c : Len(c[i]) = f[i]
        BY <3>2, <3>4, <4>2
      <4>4. lists[n] = {Len(c[i]) : i \in DOMAIN c}
        BY <4>1, <4>2
      <4> QED BY <4>3, <4>4
    <3>6. IsFiniteSet(DOMAIN job.fields[n])
      <4>1. job.fields[n] \in Seq(ToSet(job.fields[n]))
        BY <1>1, <3>1, JobsAssumption DEF JobKnown, JobNodes
      <4>2. PICK m \in Nat : DOMAIN job.fields[n] = 1..m
        BY <4>1
      <4> QED BY <4>2, FS_Interval
    <3>7. IsFiniteSet({f[i] : i \in DOMAIN job.fields[n]})
      BY <3>6, ImageFinite
    <3> HIDE DEF lists
    <3> QED BY <3>3, <3>4, <3>5, <3>7
  <2>5. GraphOK(graph')
    <3> HIDE DEF kept, lists
    <3>1. DOMAIN deps = kept
      OBVIOUS
    <3> HIDE DEF deps
    <3> QED BY <2>1, <2>3, <2>4, <3>1 DEF GraphOK
  <2>6. GraphOK(graph)'
    <3>1. JobNodes' = JobNodes
      BY <1>1 DEF JobNodes
    <3> HIDE DEF deps, lists
    <3> QED BY <2>5, <3>1 DEF GraphOK
  <2>7. RewriteIsSchedulable'
    BY <2>1 DEF RewriteIsSchedulable
  <2> QED BY <1>1, <1>2, <2>1, <2>6, <2>7 DEF RewriteInv
<1> QED BY <1>3, <1>4

(* Planning yields an assignment that covers the graph.                    *)
LEMMA PlanRewrite ==
  ASSUME RewriteInv, Plan
  PROVE  RewriteInv'
<1>1. /\ at = "plan" /\ graph' = graph /\ job' = job /\ parts' = << >> /\ GraphOK(graph)
  BY DEF Plan, RewriteInv
<1>2. Sharded' = {}
  BY <1>1 DEF Sharded
<1>3. JobNodes' = JobNodes /\ Nodes' = Nodes /\ AllWorkers' = AllWorkers
  BY <1>1 DEF JobNodes, Nodes, AllWorkers
<1>4. GraphOK(graph)'
  BY <1>1, <1>3 DEF GraphOK
<1>5. \/ at' = "submit" /\ FitsGraph(assignment')
      \/ at' = "broken"
  BY DEF Plan, CacheHit
<1>6. CASE at' = "broken"
  BY <1>2, <1>6 DEF RewriteInv, RewriteIsSchedulable
<1>7. CASE at' = "submit" /\ FitsGraph(assignment')
  <2>1. FitsGraph(assignment)'
    BY <1>3, <1>7 DEF FitsGraph
  <2>2. RewriteIsSchedulable'
    BY <1>7 DEF RewriteIsSchedulable
  <2> QED BY <1>1, <1>2, <1>4, <1>7, <2>1, <2>2 DEF RewriteInv
<1> QED BY <1>5, <1>6, <1>7

(* The workers are numbered.                                               *)
LEMMA WorkersNumbered ==
  ASSUME JobKnown
  PROVE  \E W \in Nat : AllWorkers = 1..W
<1>1. PICK s : s = job.gpuWorkers \o job.cpuWorkers
  OBVIOUS
<1>2. /\ job.gpuWorkers \in Seq(Nat \ {0}) /\ job.cpuWorkers \in Seq(Nat \ {0})
      /\ s # << >>
  BY <1>1, JobsAssumption DEF JobKnown
<1>3. s \in Seq(Nat \ {0})
  BY <1>1, <1>2
<1>4. PICK m \in Nat : DOMAIN s = 1..m /\ m # 0
  BY <1>2, <1>3
<1>5. ToSet(s) \in SUBSET Nat /\ ToSet(s) # {}
  BY <1>3, <1>4 DEF ToSet
<1>6. IsFiniteSet(ToSet(s))
  <2>1. IsFiniteSet(DOMAIN s)
    BY <1>4, FS_Interval
  <2>2. ToSet(s) = {s[i] : i \in DOMAIN s}
    BY DEF ToSet
  <2> QED BY <2>1, <2>2, ImageFinite
<1>7. Max(ToSet(s)) \in Nat
  BY <1>5, <1>6, MaxNat
<1> QED BY <1>1, <1>7 DEF AllWorkers

(* What a fitting assignment is.                                           *)
LEMMA FitsMeans ==
  ASSUME JobKnown, FitsGraph(assignment)
  PROVE  /\ \E W \in Nat : WorkerIds = 1..W
         /\ WorkerIds = AllWorkers
         /\ assignment \in [WorkerIds -> Seq(Nodes)]
         /\ \A w \in WorkerIds : IsInjective(assignment[w])
         /\ \A n \in Nodes : \E w \in WorkerIds : n \in ToSet(assignment[w])
         /\ \A w \in WorkerIds : ToSet(assignment[w]) \subseteq Nodes
<1>1. /\ assignment \in [AllWorkers -> Seq(Nodes)]
      /\ UNION {ToSet(assignment[w]) : w \in AllWorkers} = Nodes
      /\ \A w \in AllWorkers : IsInjective(assignment[w])
  BY DEF FitsGraph
<1>2. WorkerIds = AllWorkers
  BY <1>1 DEF WorkerIds
<1> QED BY <1>1, <1>2, WorkersNumbered

(* The nodes of the merged graph are finitely many numbers.                *)
LEMMA GraphMeans ==
  ASSUME JobKnown, GraphOK(graph)
  PROVE  /\ Nodes \subseteq Nat /\ IsFiniteSet(Nodes)
         /\ graph.deps \in [Nodes -> SUBSET Nodes] /\ Grounded(Nodes, graph.deps)
         /\ \A n \in Nodes : graph.lists[n] \in SUBSET Nat /\ IsFiniteSet(graph.lists[n])
<1>1. IsFiniteSet(JobNodes) /\ JobNodes \subseteq Nat
  BY JobTopology
<1> QED BY <1>1, FS_Subset DEF GraphOK, Nodes

(* The candidates of a node are the workers it is assigned to.             *)
LEMMA CandidatesOfIs ==
  ASSUME JobKnown, FitsGraph(assignment), NEW n \in Nodes
  PROVE  /\ CandidatesOf(n) \in Seq(WorkerIds) /\ IsInjective(CandidatesOf(n))
         /\ ToSet(CandidatesOf(n)) = {w \in WorkerIds : n \in ToSet(assignment[w])}
         /\ CandidatesOf(n) # << >>
<1>1. PICK W \in Nat : WorkerIds = 1..W
  BY FitsMeans
<1>2. PICK s : s = [w \in WorkerIds |-> w]
  OBVIOUS
<1>3. s \in Seq(WorkerIds) /\ IsInjective(s) /\ Range(s) = WorkerIds
  BY <1>1, <1>2 DEF IsInjective, Range
<1>4. PICK S : S = {w \in WorkerIds : n \in ToSet(assignment[w])}
  OBVIOUS
<1>5. PICK A : A = WorkerIds
  OBVIOUS
<1>6. /\ Keep(s, S) \in Seq(A) /\ IsInjective(Keep(s, S))
      /\ Range(Keep(s, S)) = Range(s) \cap S
  BY <1>3, <1>5, KeepElements
<1>7. CandidatesOf(n) = Keep(s, S)
  BY <1>2, <1>4 DEF CandidatesOf
<1>8. Range(Keep(s, S)) = ToSet(Keep(s, S))
  BY DEF Range, ToSet
<1>9. ToSet(CandidatesOf(n)) = S
  BY <1>3, <1>4, <1>6, <1>7, <1>8
<1>10. S # {}
  BY <1>4, FitsMeans
<1>11. CandidatesOf(n) # << >>
  BY <1>9, <1>10 DEF ToSet
<1> QED BY <1>4, <1>5, <1>6, <1>7, <1>9, <1>11

(* A sequence of one element has no other.                                 *)
LEMMA OneElement ==
  ASSUME NEW A, NEW s \in Seq(A), Len(s) = 1
  PROVE  ToSet(s) = {s[1]} /\ s[1] \in A
<1>1. DOMAIN s = {1}
  OBVIOUS
<1> QED BY <1>1 DEF ToSet

(* Nothing is rewritten: each node is one rewritten node.                  *)
LEMMA PlainGraph ==
  ASSUME JobKnown, GraphOK(graph), NEW fm,
         fm = [x \in Nodes \X {0} |-> [deps |-> graph.deps[x[1]] \X {0}, reads |-> << >>]]
  PROVE  FmGraphOK(fm) /\ DOMAIN fm = Nodes \X {0}
<1>1. /\ IsFiniteSet(Nodes) /\ graph.deps \in [Nodes -> SUBSET Nodes]
      /\ Grounded(Nodes, graph.deps)
  BY GraphMeans
<1>2. /\ DOMAIN fm = Nodes \X {0}
      /\ \A x \in Nodes \X {0} : fm[x].deps = graph.deps[x[1]] \X {0}
  OBVIOUS
<1>3. IsFiniteSet(DOMAIN fm)
  BY <1>1, <1>2, FS_Product, FS_Singleton
<1>4. \A x \in DOMAIN fm : fm[x].deps \subseteq DOMAIN fm
  BY <1>1, <1>2
<1>5. ASSUME NEW S \in SUBSET DOMAIN fm, S # {}
      PROVE  \E x \in S : fm[x].deps \cap S = {}
  <2> DEFINE T == {n \in Nodes : <<n, 0>> \in S}
  <2>1. T \in SUBSET Nodes /\ T # {}
    BY <1>2, <1>5
  <2>2. PICK n \in T : graph.deps[n] \cap T = {}
    <3> HIDE DEF T
    <3> QED BY <1>1, <2>1 DEF Grounded
  <2>3. <<n, 0>> \in S /\ fm[<<n, 0>>].deps = graph.deps[n] \X {0}
    BY <1>2, <2>2
  <2>4. ASSUME NEW y \in graph.deps[n] \X {0}, y \in S PROVE FALSE
    <3>1. y[1] \in graph.deps[n] /\ y = <<y[1], 0>>
      OBVIOUS
    <3>2. y[1] \in Nodes
      BY <3>1, <1>1, <2>2
    <3> QED BY <3>1, <3>2, <2>2, <2>4
  <2> QED BY <2>3, <2>4
<1>6. Grounded(DOMAIN fm, [x \in DOMAIN fm |-> fm[x].deps])
  <2>1. PICK D, deps : D = DOMAIN fm /\ deps = [x \in DOMAIN fm |-> fm[x].deps]
    OBVIOUS
  <2>2. \A x \in D : deps[x] = fm[x].deps
    BY <2>1
  <2>3. ASSUME NEW S \in SUBSET D, S # {} PROVE \E x \in S : deps[x] \cap S = {}
    <3>1. PICK x \in S : fm[x].deps \cap S = {}
      BY <1>5, <2>1, <2>3
    <3> QED BY <2>2, <3>1
  <2>4. Grounded(D, deps)
    BY <2>3 DEF Grounded
  <2> QED BY <2>1, <2>4
<1> QED BY <1>2, <1>3, <1>4, <1>6 DEF FmGraphOK

(* Nothing is rewritten: each node is placed where it was assigned.        *)
LEMMA PlainPlaced ==
  ASSUME JobKnown, FitsGraph(assignment),
         \A n \in Nodes : Len(CandidatesOf(n)) = 1, NEW place,
         place = [w \in WorkerIds |-> [i \in DOMAIN assignment[w] |-> <<assignment[w][i], 0>>]]
  PROVE  PlacedOK(place, Nodes \X {0}) /\ DOMAIN place = WorkerIds
<1>1. /\ assignment \in [WorkerIds -> Seq(Nodes)]
      /\ \A w \in WorkerIds : IsInjective(assignment[w])
      /\ \A n \in Nodes : \E w \in WorkerIds : n \in ToSet(assignment[w])
  BY FitsMeans
<1>2. DOMAIN place = WorkerIds
  OBVIOUS
<1>3. ASSUME NEW w \in WorkerIds
      PROVE  /\ place[w] \in Seq(Nodes \X {0}) /\ IsInjective(place[w])
             /\ ToSet(place[w]) = ToSet(assignment[w]) \X {0}
  <2>1. PICK s \in Seq(Nodes) : s = assignment[w] /\ IsInjective(s)
    BY <1>1
  <2>2. PICK m \in Nat : DOMAIN s = 1..m
    OBVIOUS
  <2>3. PICK t : t = [i \in 1..m |-> <<s[i], 0>>]
    OBVIOUS
  <2>4. place[w] = t
    BY <2>1, <2>2, <2>3
  <2>5. \A i \in 1..m : s[i] \in Nodes
    BY <2>2
  <2>6. t \in [1..m -> Nodes \X {0}]
    BY <2>3, <2>5
  <2>7. t \in Seq(Nodes \X {0})
    BY <2>6
  <2>8. IsInjective(t)
    BY <2>1, <2>2, <2>3 DEF IsInjective
  <2>9. ToSet(t) = ToSet(s) \X {0}
    BY <2>2, <2>3 DEF ToSet
  <2> QED BY <2>1, <2>4, <2>7, <2>8, <2>9
<1>4. ASSUME NEW v \in WorkerIds, NEW w \in WorkerIds, v # w
      PROVE  ToSet(place[v]) \cap ToSet(place[w]) = {}
  <2> SUFFICES ASSUME NEW x, x \in ToSet(place[v]), x \in ToSet(place[w]) PROVE FALSE
    OBVIOUS
  <2>1. PICK n : n \in ToSet(assignment[v]) /\ n \in ToSet(assignment[w])
    <3>1. x \in ToSet(assignment[v]) \X {0} /\ x \in ToSet(assignment[w]) \X {0}
      BY <1>3
    <3>2. x[1] \in ToSet(assignment[v]) /\ x[1] \in ToSet(assignment[w])
      BY <3>1
    <3> QED BY <3>2
  <2>2. n \in Nodes
    BY <2>1, FitsMeans
  <2>3. /\ CandidatesOf(n) \in Seq(WorkerIds)
        /\ ToSet(CandidatesOf(n)) = {u \in WorkerIds : n \in ToSet(assignment[u])}
    BY <2>2, CandidatesOfIs
  <2>4. v \in ToSet(CandidatesOf(n)) /\ w \in ToSet(CandidatesOf(n))
    BY <2>1, <2>3
  <2>5. ToSet(CandidatesOf(n)) = {CandidatesOf(n)[1]}
    BY <2>2, <2>3, OneElement
  <2> QED BY <1>4, <2>4, <2>5
<1>5. UNION {ToSet(place[w]) : w \in WorkerIds} = Nodes \X {0}
  <2>1. ASSUME NEW x \in Nodes \X {0} PROVE \E w \in WorkerIds : x \in ToSet(place[w])
    <3>1. PICK w \in WorkerIds : x[1] \in ToSet(assignment[w])
      BY <1>1
    <3>2. x \in ToSet(assignment[w]) \X {0}
      BY <3>1
    <3> QED BY <3>2, <1>3
  <2>2. \A w \in WorkerIds : ToSet(place[w]) \subseteq Nodes \X {0}
    BY <1>3, FitsMeans
  <2> QED BY <2>1, <2>2
<1> QED BY <1>2, <1>3, <1>4, <1>5 DEF PlacedOK

(* What stays as it is when the graph, the job and the workers do.         *)
LEMMA GraphStays ==
  ASSUME graph' = graph, job' = job, assignment' = assignment
  PROVE  /\ Nodes' = Nodes /\ WorkerIds' = WorkerIds /\ GraphOK(graph)' = GraphOK(graph)
         /\ FitsGraph(assignment)' = FitsGraph(assignment) /\ JobKnown' = JobKnown
<1>1. /\ Nodes' = Nodes /\ WorkerIds' = WorkerIds /\ JobNodes' = JobNodes
      /\ AllWorkers' = AllWorkers /\ JobKnown' = JobKnown
  BY DEF Nodes, WorkerIds, JobNodes, AllWorkers, JobKnown
<1> QED BY <1>1 DEF GraphOK, FitsGraph

(* Whether nothing or everything is to be rewritten, the candidates and    *)
(* the order fit the graph.                                                *)
LEMMA CollectRewrite ==
  ASSUME RewriteInv, JobKnown, CollectCandidates, job' = job
  PROVE  RewriteInv'
<1>1. /\ at = "submit" /\ GraphOK(graph) /\ FitsGraph(assignment) /\ parts = << >>
  BY DEF CollectCandidates, RewriteInv
<1>2. /\ graph' = graph /\ assignment' = assignment /\ parts' = << >>
  BY <1>1 DEF CollectCandidates, Refuse
<1>3. /\ Nodes' = Nodes /\ WorkerIds' = WorkerIds /\ GraphOK(graph)'
      /\ FitsGraph(assignment)' /\ Sharded' = {}
  BY <1>1, <1>2, GraphStays DEF Sharded
<1>4. CASE GpuRefused \/ ~ValidAssignment
  <2>1. at' = "refused"
    BY <1>4 DEF CollectCandidates, Refuse
  <2> QED BY <2>1, <1>3 DEF RewriteInv, RewriteIsSchedulable
<1>5. CASE ~(GpuRefused \/ ~ValidAssignment)
  <2>1. candidates' = [n \in Nodes |-> CandidatesOf(n)]
    BY <1>5 DEF CollectCandidates
  <2>2. CASE \A n \in Nodes : Len(candidates'[n]) = 1
    <3>1. /\ at' = "hint"
          /\ fmNodes' = [x \in Nodes \X {0} |->
                           [deps |-> graph.deps[x[1]] \X {0}, reads |-> << >>]]
          /\ placed' = [w \in WorkerIds |->
                          [i \in DOMAIN assignment[w] |-> <<assignment[w][i], 0>>]]
      BY <1>5, <2>2 DEF CollectCandidates
    <3>2. \A n \in Nodes : Len(CandidatesOf(n)) = 1
      BY <2>1, <2>2
    <3>3. FmGraphOK(fmNodes') /\ DOMAIN fmNodes' = Nodes \X {0}
      BY <1>1, <3>1, PlainGraph
    <3>4. PlacedOK(placed', Nodes \X {0}) /\ DOMAIN placed' = WorkerIds
      BY <1>1, <3>1, <3>2, PlainPlaced
    <3>5. FmGraphOK(fmNodes)' /\ PlacedOK(placed, DOMAIN fmNodes)'
      BY <3>3, <3>4 DEF FmGraphOK, PlacedOK
    <3> QED BY <1>3, <3>1, <3>4, <3>5 DEF RewriteInv, RewriteIsSchedulable
  <2>3. CASE ~ \A n \in Nodes : Len(candidates'[n]) = 1
    <3>1. /\ todo' = HeapOrder(Nodes, graph.deps, [n \in Nodes |-> n])
          /\ at' = IF Len(todo') = Cardinality(Nodes) THEN "shard" ELSE "cycle"
      BY <1>5, <2>3 DEF CollectCandidates
    <3>2. PICK rank : rank = [n \in Nodes |-> n]
      OBVIOUS
    <3>3. /\ IsFiniteSet(Nodes) /\ \A n \in Nodes : rank[n] \in Nat
          /\ Grounded(Nodes, graph.deps)
      BY <1>1, <3>2, GraphMeans
    <3>4. /\ Len(HeapOrder(Nodes, graph.deps, rank)) = Cardinality(Nodes)
          /\ ToSet(HeapOrder(Nodes, graph.deps, rank)) = Nodes
          /\ OutInOrder(Nodes, graph.deps, HeapOrder(Nodes, graph.deps, rank))
      BY <3>3, HeapOrderInOrder, HeapOrderComplete
    <3>5. at' = "shard" /\ ToSet(todo') = Nodes /\ OutInOrder(Nodes, graph.deps, todo')
      BY <3>1, <3>2, <3>4
    <3>6. CandidatesOK'
      <4>1. \A n \in Nodes :
              /\ CandidatesOf(n) \in Seq(WorkerIds) /\ IsInjective(CandidatesOf(n))
              /\ ToSet(CandidatesOf(n)) = {w \in WorkerIds : n \in ToSet(assignment[w])}
              /\ CandidatesOf(n) # << >>
        BY <1>1, CandidatesOfIs
      <4>2. candidates' \in [Nodes -> Seq(WorkerIds)]
        BY <2>1, <4>1
      <4>3. \A n \in Nodes :
              /\ candidates'[n] # << >> /\ IsInjective(candidates'[n])
              /\ \A w \in ToSet(candidates'[n]) : n \in ToSet(assignment[w])
        BY <2>1, <4>1
      <4> QED BY <1>2, <1>3, <4>2, <4>3 DEF CandidatesOK
    <3>7. OrderOK'
      <4>1. ToSet(todo)' = Nodes /\ OutInOrder(ToSet(todo), graph.deps, todo)'
        BY <1>2, <3>5 DEF ToSet, OutInOrder
      <4> QED BY <1>3, <4>1 DEF OrderOK
    <3> QED BY <1>3, <3>5, <3>6, <3>7 DEF RewriteInv, RewriteIsSchedulable
  <2> QED BY <2>2, <2>3
<1> QED BY <1>4, <1>5

(* What is left when the first of an order is taken out.                   *)
LEMMA InOrderTail ==
  ASSUME NEW deps, NEW s, OutInOrder(ToSet(s), deps, s), s # << >>
  PROVE  /\ OutInOrder(ToSet(Tail(s)), deps, Tail(s))
         /\ Head(s) \notin ToSet(Tail(s)) /\ ToSet(s) = {Head(s)} \cup ToSet(Tail(s))
         /\ deps[Head(s)] \cap ToSet(s) = {}
<1>1. PICK A : A = ToSet(s)
  OBVIOUS
<1>2. /\ s \in Seq(A) /\ IsInjective(s)
      /\ \A i \in DOMAIN s : deps[s[i]] \cap A \subseteq {s[j] : j \in 1..(i - 1)}
  BY <1>1 DEF OutInOrder
<1>3. PICK m \in Nat : Len(s) = m + 1 /\ DOMAIN s = 1..(m + 1)
  <2>1. Len(s) \in Nat /\ Len(s) # 0 /\ DOMAIN s = 1..Len(s)
    BY <1>2
  <2>2. Len(s) - 1 \in Nat /\ Len(s) = (Len(s) - 1) + 1
    BY <2>1
  <2> QED BY <2>1, <2>2
<1>4. PICK t : t = Tail(s)
  OBVIOUS
<1>5. t \in Seq(A) /\ DOMAIN t = 1..m /\ \A i \in 1..m : t[i] = s[i + 1]
  BY <1>2, <1>3, <1>4
<1>6. Head(s) = s[1]
  OBVIOUS
<1>7. ToSet(s) = {s[1]} \cup ToSet(t)
  <2>1. ASSUME NEW i \in 1..(m + 1) PROVE s[i] \in {s[1]} \cup ToSet(t)
    <3>1. CASE i = 1
      BY <3>1
    <3>2. CASE i # 1
      <4>1. i - 1 \in 1..m /\ (i - 1) + 1 = i
        BY <3>2
      <4>2. t[i - 1] = s[i]
        BY <1>5, <4>1
      <4> QED BY <4>1, <4>2, <1>5 DEF ToSet
    <3> QED BY <3>1, <3>2
  <2>2. \A i \in 1..m : i + 1 \in DOMAIN s /\ 1 \in DOMAIN s
    BY <1>3
  <2>3. \A i \in DOMAIN t : t[i] \in ToSet(s)
    BY <1>5, <2>2 DEF ToSet
  <2>4. s[1] \in ToSet(s)
    BY <1>3 DEF ToSet
  <2> QED BY <2>1, <2>3, <2>4, <1>3 DEF ToSet
<1>8. s[1] \notin ToSet(t) /\ IsInjective(t)
  <2>1. \A i \in 1..m : i + 1 \in DOMAIN s /\ 1 \in DOMAIN s /\ i + 1 # 1
    BY <1>3
  <2>2. \A i \in 1..m : s[i + 1] # s[1]
    BY <2>1, <1>2 DEF IsInjective
  <2>3. \A i, j \in 1..m : s[i + 1] = s[j + 1] => i = j
    BY <2>1, <1>2 DEF IsInjective
  <2>4. s[1] \notin ToSet(t)
    BY <2>2, <1>5 DEF ToSet
  <2> QED BY <2>3, <2>4, <1>5 DEF IsInjective
<1>9. ASSUME NEW i \in DOMAIN t
      PROVE  deps[t[i]] \cap ToSet(t) \subseteq {t[j] : j \in 1..(i - 1)}
  <2> SUFFICES ASSUME NEW d \in deps[t[i]], d \in ToSet(t)
               PROVE  \E j \in 1..(i - 1) : t[j] = d
    OBVIOUS
  <2>1. i + 1 \in DOMAIN s /\ t[i] = s[i + 1] /\ i \in 1..m
    BY <1>3, <1>5
  <2>2. d \in A /\ d # s[1]
    BY <1>1, <1>7, <1>8
  <2>3. PICK k \in 1..i : d = s[k]
    <3>1. d \in deps[s[i + 1]] \cap A
      BY <2>1, <2>2
    <3>2. d \in {s[j] : j \in 1..((i + 1) - 1)}
      BY <1>2, <2>1, <3>1
    <3> QED BY <3>2, <2>1
  <2>4. k # 1
    BY <2>2, <2>3
  <2>5. k - 1 \in 1..(i - 1) /\ k - 1 \in 1..m /\ (k - 1) + 1 = k
    BY <2>1, <2>4
  <2>6. t[k - 1] = d
    BY <1>5, <2>3, <2>5
  <2> QED BY <2>5, <2>6
<1>10. t \in Seq(ToSet(t))
  BY <1>5, ToSetIn
<1>11. OutInOrder(ToSet(t), deps, t)
  BY <1>8, <1>9, <1>10 DEF OutInOrder
<1>12. deps[s[1]] \cap ToSet(s) = {}
  <2>1. 1 \in DOMAIN s /\ 1..(1 - 1) = {}
    BY <1>3
  <2> QED BY <1>1, <1>2, <2>1
<1> QED BY <1>4, <1>6, <1>7, <1>8, <1>11, <1>12

-----------------------------------------------------------------------------
(* Cutting the rows of a node.                                             *)

(* Where the parts of an index partition begin and end.                    *)
LEMMA PartStarts ==
  ASSUME NEW rows \in Nat, NEW count \in 1..rows
  PROVE  /\ PartStart(rows, count, 0) = 0 /\ PartStart(rows, count, count) = rows
         /\ \A k \in 1..count : /\ PartStart(rows, count, k - 1) \in Nat
                                /\ PartStart(rows, count, k) \in Nat
                                /\ PartStart(rows, count, k - 1) < PartStart(rows, count, k)
<1>1. PICK q : q = rows \div count
  OBVIOUS
<1>2. PICK r : r = rows % count
  OBVIOUS
<1>3. rows = count * q + r /\ q \in Nat /\ r \in 0..(count - 1)
  BY <1>1, <1>2
<1>4. q >= 1
  <2>1. CASE q = 0
    <3>1. count * q = 0
      BY <2>1
    <3> QED BY <3>1, <1>3
  <2> QED BY <2>1, <1>3
<1>5. \A k : PartStart(rows, count, k) = k * q + Minimum(k, r)
  BY <1>1, <1>2 DEF PartStart
<1>6. PartStart(rows, count, 0) = 0
  BY <1>3, <1>5 DEF Minimum
<1>7. PartStart(rows, count, count) = rows
  BY <1>3, <1>5 DEF Minimum
<1>8. ASSUME NEW k \in 1..count
      PROVE  /\ PartStart(rows, count, k - 1) \in Nat
             /\ PartStart(rows, count, k) \in Nat
             /\ PartStart(rows, count, k - 1) < PartStart(rows, count, k)
  <2>1. PICK u \in Nat : u = (k - 1) * q
    BY <1>3
  <2>2. k * q = u + q
    BY <1>3, <2>1
  <2>3. PICK v \in Nat : v = k * q
    BY <1>3
  <2>4. /\ PartStart(rows, count, k - 1) = u + Minimum(k - 1, r)
        /\ PartStart(rows, count, k) = v + Minimum(k, r)
    BY <1>5, <2>1, <2>3
  <2>5. v = u + q
    BY <2>2, <2>3
  <2> QED BY <2>4, <2>5, <1>3, <1>4 DEF Minimum
<1> QED BY <1>6, <1>7, <1>8

(* An index partition: parts that follow one another and none of them      *)
(* empty.                                                                  *)
LEMMA PartitionExact ==
  ASSUME NEW rows \in Nat, NEW count \in 1..rows, NEW p, p = IndexPartitions(rows, count)
  PROVE  /\ Len(p) = count /\ DOMAIN p = 1..count /\ p[1][1] = 0
         /\ \A k \in 1..count : Size(p[k]) > 0
         /\ \A k \in 2..count : p[k][1] = p[k - 1][2]
         /\ RowTotal(p) = rows /\ p # << >>
<1>1. p = [k \in 1..count |-> <<PartStart(rows, count, k - 1), PartStart(rows, count, k)>>]
  BY DEF IndexPartitions
<1>2. DOMAIN p = 1..count /\ Len(p) = count /\ p # << >>
  <2>1. DOMAIN p = 1..count /\ count \in Nat
    BY <1>1
  <2>2. p \in [1..count -> ToSet(p)]
    BY <1>1 DEF ToSet
  <2>3. Len(p) = count
    BY <2>1, <2>2
  <2> QED BY <2>1, <2>3
<1>3. \A k \in 1..count : /\ p[k][1] = PartStart(rows, count, k - 1)
                          /\ p[k][2] = PartStart(rows, count, k)
  BY <1>1
<1>4. /\ PartStart(rows, count, 0) = 0 /\ PartStart(rows, count, count) = rows
      /\ \A k \in 1..count : /\ PartStart(rows, count, k - 1) \in Nat
                             /\ PartStart(rows, count, k) \in Nat
                             /\ PartStart(rows, count, k - 1) < PartStart(rows, count, k)
  BY PartStarts
<1>5. p[1][1] = 0
  <2>1. 1 \in 1..count /\ 1 - 1 = 0
    OBVIOUS
  <2> QED BY <2>1, <1>3, <1>4
<1>6. ASSUME NEW k \in 1..count PROVE Size(p[k]) > 0
  <2>1. PICK a \in Nat, b \in Nat : p[k][1] = a /\ p[k][2] = b /\ a < b
    BY <1>3, <1>4
  <2> QED BY <2>1 DEF Size
<1>7. \A k \in 2..count : p[k][1] = p[k - 1][2]
  <2> TAKE k \in 2..count
  <2>1. k \in 1..count /\ k - 1 \in 1..count
    OBVIOUS
  <2> QED BY <2>1, <1>3
<1>8. RowTotal(p) = rows
  BY <1>2, <1>3, <1>4 DEF RowTotal
<1> QED BY <1>2, <1>5, <1>6, <1>7, <1>8

(* A sharded node has as many parts as candidates, and some.               *)
LEMMA CutMeans ==
  ASSUME NEW n, CutOK(n)
  PROVE  /\ Len(parts[n]) \in Nat \ {0} /\ RowTotal(parts[n]) \in Nat \ {0}
         /\ DOMAIN parts[n] = 1..Len(parts[n])
         /\ Len(candidates[n]) = Len(parts[n]) /\ Len(parts[n]) <= RowTotal(parts[n])
         /\ parts[n] = IndexPartitions(RowTotal(parts[n]), Len(parts[n]))
         /\ parts[n][1][1] = 0
         /\ \A k \in DOMAIN parts[n] : Size(parts[n][k]) > 0
         /\ \A k \in 2..Len(parts[n]) : parts[n][k][1] = parts[n][k - 1][2]
<1>0. PICK rows \in Nat :
             \E count \in 1..rows :
               parts[n] = IndexPartitions(rows, count) /\ Len(candidates[n]) = count
  BY DEF CutOK
<1>1. PICK count \in 1..rows :
             parts[n] = IndexPartitions(rows, count) /\ Len(candidates[n]) = count
  BY <1>0
<1>2. PICK p : p = parts[n]
  OBVIOUS
<1>3. /\ Len(p) = count /\ DOMAIN p = 1..count /\ p[1][1] = 0
      /\ \A k \in 1..count : Size(p[k]) > 0
      /\ \A k \in 2..count : p[k][1] = p[k - 1][2]
      /\ RowTotal(p) = rows
  <2>1. p = IndexPartitions(rows, count)
    BY <1>1, <1>2
  <2> QED BY <2>1, PartitionExact
<1> QED BY <1>1, <1>2, <1>3

(* The totals of a set of nodes.                                           *)
LEMMA TotalsNat ==
  ASSUME JobKnown, GraphOK(graph), NEW S \in SUBSET Nodes
  PROVE  /\ TotalsOf(S) \in SUBSET Nat /\ IsFiniteSet(TotalsOf(S))
         /\ \A n \in S : /\ StaticTotal(n) \in Nat
                         /\ StaticTotal(n) = NoTotal <=> graph.lists[n] = {}
<1>1. /\ IsFiniteSet(Nodes)
      /\ \A n \in Nodes : graph.lists[n] \in SUBSET Nat /\ IsFiniteSet(graph.lists[n])
  BY GraphMeans
<1>2. ASSUME NEW n \in S
      PROVE  StaticTotal(n) \in Nat /\ (StaticTotal(n) = NoTotal <=> graph.lists[n] = {})
  <2>1. CASE graph.lists[n] = {}
    BY <2>1 DEF StaticTotal, NoTotal
  <2>2. CASE graph.lists[n] # {}
    <3>1. Max(graph.lists[n] \cup {1}) \in Nat \ {0}
      BY <1>1, MaxWithOne
    <3> QED BY <2>2, <3>1 DEF StaticTotal, NoTotal
  <2> QED BY <2>1, <2>2
<1>3. PICK f : f = [n \in S |-> StaticTotal(n)]
  OBVIOUS
<1>4. IsFiniteSet({f[n] : n \in S})
  <2>1. IsFiniteSet(S)
    BY <1>1, FS_Subset
  <2> QED BY <2>1, ImageFinite
<1>5. TotalsOf(S) \subseteq {f[n] : n \in S} /\ {f[n] : n \in S} \subseteq Nat
  BY <1>2, <1>3 DEF TotalsOf
<1>6. IsFiniteSet(TotalsOf(S))
  BY <1>4, <1>5, FS_Subset
<1> QED BY <1>2, <1>5, <1>6

(* The number of rows of a node that is cut is positive.                   *)
LEMMA ShardRowsPositive ==
  ASSUME JobKnown, GraphOK(graph), \A m \in Sharded : CutOK(m), NEW n \in Nodes
  PROVE  ShardRows(n) \in Nat \ {0}
<1>1. /\ IsFiniteSet(Nodes) /\ graph.deps \in [Nodes -> SUBSET Nodes]
  BY GraphMeans
<1>2. CASE StaticTotal(n) # NoTotal
  <2>1. StaticTotal(n) \in Nat
    BY TotalsNat
  <2> QED BY <1>2, <2>1 DEF ShardRows, NoTotal
<1>3. CASE StaticTotal(n) = NoTotal /\ ShardedDeps(n) # {}
  <2>1. PICK f : f = [d \in ShardedDeps(n) |-> RowTotal(parts[d])]
    OBVIOUS
  <2>2. \A d \in ShardedDeps(n) : RowTotal(parts[d]) \in Nat
    BY CutMeans DEF ShardedDeps
  <2>3. DepRows(n) = {f[d] : d \in ShardedDeps(n)}
    BY <2>1 DEF DepRows
  <2>4. IsFiniteSet(ShardedDeps(n))
    <3>1. ShardedDeps(n) \subseteq Nodes
      BY <1>1 DEF ShardedDeps
    <3> QED BY <3>1, <1>1, FS_Subset
  <2>5. IsFiniteSet(DepRows(n)) /\ DepRows(n) \in SUBSET Nat
    BY <2>1, <2>2, <2>3, <2>4, ImageFinite
  <2>6. Max(DepRows(n) \cup {1}) \in Nat \ {0}
    BY <2>5, MaxWithOne
  <2> QED BY <1>3, <2>6 DEF ShardRows
<1>4. CASE StaticTotal(n) = NoTotal /\ ShardedDeps(n) = {}
  <2>1. Ancestors(n) \in SUBSET Nodes
    <3>1. graph.deps[n] \in SUBSET Nodes
      BY <1>1
    <3>2. DOMAIN graph.deps = Nodes
      BY DEF Nodes
    <3> QED BY <1>1, <3>1, <3>2, ClosureIn DEF Ancestors
  <2>2. TotalsOf(Ancestors(n)) \in SUBSET Nat /\ IsFiniteSet(TotalsOf(Ancestors(n)))
    BY <2>1, TotalsNat
  <2>3. Max(TotalsOf(Ancestors(n)) \cup {1}) \in Nat \ {0}
    BY <2>2, MaxWithOne
  <2> QED BY <1>4, <2>3 DEF ShardRows
<1> QED BY <1>2, <1>3, <1>4

(* How many shards a node may get.                                         *)
LEMMA ShardCountBounds ==
  ASSUME \A m \in Sharded : CutOK(m), NEW n, Len(candidates[n]) \in Nat \ {0}
  PROVE  ShardCount(n) \in 1..Len(candidates[n])
<1>1. PICK T : T = {Len(candidates[n])} \cup DepCounts(n)
  OBVIOUS
<1>2. \A d \in ShardedDeps(n) : Len(parts[d]) \in Nat \ {0}
  BY CutMeans DEF ShardedDeps
<1>3. T \in SUBSET (Nat \ {0}) /\ Len(candidates[n]) \in T
  BY <1>1, <1>2 DEF DepCounts
<1>4. Min(T) \in T /\ Min(T) <= Len(candidates[n])
  BY <1>3, MinNat
<1>6. Min(T) \in Nat \ {0}
  BY <1>3, <1>4
<1>5. ShardCount(n) = Min(T)
  BY <1>1 DEF ShardCount
<1> QED BY <1>4, <1>5, <1>6

(* A node without a list of its own that follows sharded nodes: they are   *)
(* all cut the same way, and so is it.                                     *)
LEMMA CutAsDependencies ==
  ASSUME JobKnown, GraphOK(graph), \A m \in Sharded : CutOK(m), NEW n \in Nodes,
         Len(candidates[n]) \in Nat \ {0}, Shardable(n), graph.lists[n] = {},
         NEW d \in ShardedDeps(n)
  PROVE  /\ Minimum(ShardCount(n), Max({1, ShardRows(n)})) = Len(parts[d])
         /\ ShardRows(n) = RowTotal(parts[d])
<1>1. StaticTotal(n) = NoTotal
  BY TotalsNat
<1>2. ShardedDeps(n) # {}
  OBVIOUS
<1>3. DepCounts(n) = {ShardCount(n)} /\ Cardinality(DepRows(n)) = 1
  BY <1>1, <1>2 DEF Shardable
<1>4. Len(parts[d]) = ShardCount(n)
  BY <1>3 DEF DepCounts
<1>5. /\ RowTotal(parts[d]) \in Nat \ {0} /\ Len(parts[d]) \in Nat \ {0}
      /\ Len(parts[d]) <= RowTotal(parts[d])
  BY CutMeans DEF ShardedDeps
<1>6. DepRows(n) = {RowTotal(parts[d])}
  <2>1. RowTotal(parts[d]) \in DepRows(n)
    BY DEF DepRows
  <2>2. IsFiniteSet(DepRows(n))
    <3>1. PICK f : f = [m \in ShardedDeps(n) |-> RowTotal(parts[m])]
      OBVIOUS
    <3>2. DepRows(n) = {f[m] : m \in ShardedDeps(n)}
      BY <3>1 DEF DepRows
    <3>3. ShardedDeps(n) \subseteq Nodes /\ IsFiniteSet(Nodes)
      BY GraphMeans DEF ShardedDeps
    <3>4. IsFiniteSet(ShardedDeps(n))
      BY <3>3, FS_Subset
    <3> QED BY <3>2, <3>4, ImageFinite
  <2>3. PICK x : DepRows(n) = {x}
    BY <1>3, <2>2, FS_Singleton
  <2> QED BY <2>1, <2>3
<1>7. ShardRows(n) = Max({RowTotal(parts[d])} \cup {1})
  BY <1>1, <1>2, <1>6 DEF ShardRows
<1>8. \A r \in Nat \ {0} : Max({r} \cup {1}) = r /\ Max({1, r}) = r
  <2> TAKE r \in Nat \ {0}
  <2>1. {r} \cup {1} = {1, r}
    OBVIOUS
  <2>2. {r} \in SUBSET Nat /\ IsFiniteSet({r})
    BY FS_Singleton
  <2>3. PICK x : x = Max({r} \cup {1})
    OBVIOUS
  <2>4. x \in Nat \ {0} /\ x \in {r} \cup {1} /\ \A y \in {r} : y <= x
    BY <2>2, <2>3, MaxWithOne
  <2>5. x = r
    BY <2>4
  <2> QED BY <2>1, <2>3, <2>5
<1>9. ShardRows(n) = RowTotal(parts[d]) /\ Max({1, ShardRows(n)}) = RowTotal(parts[d])
  BY <1>5, <1>7, <1>8
<1> QED BY <1>4, <1>5, <1>9 DEF Minimum

(* The visit of a node of the rewrite order: it is left to its only        *)
(* candidate, refused, or cut.                                             *)
LEMMA ShardNodeRewrite ==
  ASSUME RewriteInv, JobKnown, ShardNode, job' = job
  PROVE  RewriteInv'
<1>1. /\ at = "shard" /\ todo # << >> /\ GraphOK(graph) /\ FitsGraph(assignment)
      /\ CandidatesOK /\ OrderOK /\ \A m \in Sharded : CutOK(m)
  BY DEF ShardNode, RewriteInv
<1>2. graph' = graph /\ assignment' = assignment
  BY DEF ShardNode, Refuse
<1>3. /\ Nodes' = Nodes /\ WorkerIds' = WorkerIds /\ GraphOK(graph)'
      /\ FitsGraph(assignment)'
  BY <1>1, <1>2, GraphStays
<1>4. PICK n : n = Head(todo)
  OBVIOUS
<1>5. PICK rest : rest = Tail(todo)
  OBVIOUS
<1>6. /\ ToSet(todo) \subseteq Nodes /\ OutInOrder(ToSet(todo), graph.deps, todo)
      /\ Sharded \cap ToSet(todo) = {}
      /\ \A m \in Nodes \ ToSet(todo) :
           /\ graph.deps[m] \cap ToSet(todo) = {}
           /\ m \notin Sharded => Len(candidates[m]) = 1
  BY <1>1 DEF OrderOK
<1>7. /\ OutInOrder(ToSet(rest), graph.deps, rest)
      /\ n \notin ToSet(rest) /\ ToSet(todo) = {n} \cup ToSet(rest)
      /\ graph.deps[n] \cap ToSet(todo) = {}
  BY <1>1, <1>4, <1>5, <1>6, InOrderTail
<1>8. /\ n \in Nodes /\ n \notin Sharded
      /\ candidates \in [Nodes -> Seq(WorkerIds)]
      /\ candidates[n] \in Seq(WorkerIds) /\ candidates[n] # << >>
      /\ IsInjective(candidates[n])
      /\ \A w \in ToSet(candidates[n]) : n \in ToSet(assignment[w])
  BY <1>1, <1>6, <1>7 DEF CandidatesOK
<1>9. Len(candidates[n]) \in Nat \ {0}
  <2>1. PICK s \in Seq(WorkerIds) : s = candidates[n] /\ s # << >>
    BY <1>8
  <2> QED BY <2>1
<1>10. CASE Len(candidates[n]) = 1
  <2>1. /\ todo' = rest /\ at' = at /\ candidates' = candidates /\ parts' = parts
    BY <1>4, <1>5, <1>10 DEF ShardNode
  <2>2. Sharded' = Sharded /\ ToSet(todo)' = ToSet(rest)
    BY <2>1 DEF Sharded, ToSet
  <2>3. CandidatesOK'
    BY <1>1, <1>2, <1>3, <2>1 DEF CandidatesOK
  <2>4. OrderOK'
    <3>1. OutInOrder(ToSet(todo), graph.deps, todo)'
      BY <1>2, <1>7, <2>1, <2>2
    <3>2. \A m \in Nodes \ ToSet(rest) :
            /\ graph.deps[m] \cap ToSet(rest) = {}
            /\ m \notin Sharded => Len(candidates[m]) = 1
      BY <1>6, <1>7, <1>10
    <3> QED BY <1>2, <1>3, <1>6, <1>7, <2>1, <2>2, <3>1, <3>2 DEF OrderOK
  <2>5. \A m \in Sharded' : CutOK(m)'
    BY <1>1, <1>2, <1>3, <2>1, <2>2 DEF CutOK, ShardedDeps
  <2>6. RewriteIsSchedulable'
    BY <1>1, <2>1 DEF RewriteIsSchedulable
  <2> QED BY <1>1, <1>3, <2>1, <2>3, <2>4, <2>5, <2>6 DEF RewriteInv
<1>11. CASE Len(candidates[n]) # 1 /\ ~Shardable(n)
  <2>1. at' = "refused" /\ candidates' = candidates /\ parts' = parts
    BY <1>4, <1>11 DEF ShardNode, Refuse
  <2>2. \A m \in Sharded' : CutOK(m)'
    BY <1>1, <1>2, <1>3, <2>1 DEF CutOK, ShardedDeps, Sharded
  <2>3. RewriteIsSchedulable'
    BY <2>1 DEF RewriteIsSchedulable
  <2> QED BY <2>1, <2>2, <2>3 DEF RewriteInv
<1>12. CASE Len(candidates[n]) # 1 /\ Shardable(n)
  <2>1. PICK count : count = Minimum(ShardCount(n), Max({1, ShardRows(n)}))
    OBVIOUS
  <2>2. PICK rows \in Nat \ {0} : rows = ShardRows(n)
    BY <1>1, <1>8, ShardRowsPositive
  <2>3. count \in 1..rows /\ count <= Len(candidates[n])
    <3>1. ShardCount(n) \in 1..Len(candidates[n])
      BY <1>1, <1>9, ShardCountBounds
    <3>2. Max({1, rows}) = rows
      <4>1. {rows} \cup {1} = {1, rows} /\ {rows} \in SUBSET Nat /\ IsFiniteSet({rows})
        BY FS_Singleton
      <4>2. PICK x : x = Max({rows} \cup {1})
        OBVIOUS
      <4>3. x \in Nat \ {0} /\ x \in {rows} \cup {1} /\ \A y \in {rows} : y <= x
        BY <4>1, <4>2, MaxWithOne
      <4>4. x = rows
        BY <4>3
      <4> QED BY <4>1, <4>2, <4>4
    <3>3. count = Minimum(ShardCount(n), rows)
      BY <2>1, <2>2, <3>2
    <3> QED BY <3>1, <3>3, <1>9 DEF Minimum
  <2>4. /\ todo' = rest /\ at' = at
        /\ parts' = [m \in Sharded \cup {n} |->
                       IF m = n THEN IndexPartitions(rows, count) ELSE parts[m]]
        /\ candidates' = [candidates EXCEPT ![n] = SubSeq(candidates[n], 1, count)]
    BY <1>4, <1>5, <1>12, <2>1, <2>2 DEF ShardNode, EffectiveCandidates
  <2>5. /\ Sharded' = Sharded \cup {n} /\ ToSet(todo)' = ToSet(rest)
        /\ parts'[n] = IndexPartitions(rows, count)
        /\ \A m \in Sharded : parts'[m] = parts[m]
    BY <2>4, <1>8 DEF Sharded, ToSet
  <2>6. PICK c \in Seq(WorkerIds) : c = SubSeq(candidates[n], 1, count) /\ Len(c) = count
             /\ IsInjective(c) /\ ToSet(c) \subseteq ToSet(candidates[n])
    <3>1. PICK s \in Seq(WorkerIds) : s = candidates[n] /\ IsInjective(s)
      BY <1>8
    <3>2. count \in 1..Len(s) /\ count \in Nat
      BY <2>3, <3>1, <1>9
    <3>3. PICK u : u = SubSeq(s, 1, count)
      OBVIOUS
    <3>4. /\ u \in Seq(WorkerIds) /\ Len(u) = count /\ DOMAIN u = 1..count
          /\ \A i \in 1..count : u[i] = s[i] /\ i \in DOMAIN s
      BY <3>2, <3>3
    <3>5. IsInjective(u)
      BY <3>1, <3>4 DEF IsInjective
    <3>6. ToSet(u) \subseteq ToSet(s)
      BY <3>4 DEF ToSet
    <3> QED BY <3>1, <3>3, <3>4, <3>5, <3>6
  <2>7. /\ candidates' \in [Nodes -> Seq(WorkerIds)] /\ candidates'[n] = c
        /\ \A m \in Nodes : m # n => candidates'[m] = candidates[m]
    BY <2>4, <2>6, <1>8
  <2>8. CandidatesOK'
    <3>1. c # << >>
      BY <2>3, <2>6
    <3>2. ASSUME NEW m \in Nodes
          PROVE  /\ candidates'[m] # << >> /\ IsInjective(candidates'[m])
                 /\ \A w \in ToSet(candidates'[m]) : m \in ToSet(assignment[w])
      <4>1. CASE m = n
        BY <4>1, <3>1, <2>6, <2>7, <1>8
      <4>2. CASE m # n
        BY <4>2, <2>7, <1>1 DEF CandidatesOK
      <4> QED BY <4>1, <4>2
    <3> QED BY <1>2, <1>3, <2>7, <3>2 DEF CandidatesOK
  <2>9. OrderOK'
    <3>1. OutInOrder(ToSet(todo), graph.deps, todo)'
      BY <1>2, <1>7, <2>4, <2>5
    <3>2. ASSUME NEW m \in Nodes \ ToSet(rest)
          PROVE  /\ graph.deps[m] \cap ToSet(rest) = {}
                 /\ m \notin Sharded' => Len(candidates'[m]) = 1
      <4>1. CASE m = n
        BY <4>1, <1>7, <2>5
      <4>2. CASE m # n
        BY <4>2, <1>6, <1>7, <2>5, <2>7
      <4> QED BY <4>1, <4>2
    <3> QED BY <1>2, <1>3, <1>6, <1>7, <2>5, <3>1, <3>2 DEF OrderOK
  <2>10. ASSUME NEW m \in Sharded' PROVE CutOK(m)'
    <3>1. CASE m = n
      <4>1. n \notin graph.deps[n]
        BY <1>7
      <4>2. ShardedDeps(n)' = ShardedDeps(n)
        BY <1>2, <2>5, <4>1 DEF ShardedDeps
      <4>3. ASSUME graph.lists[n] = {}, NEW d \in ShardedDeps(n)
            PROVE  parts'[d] = parts'[n]
        <5>1. count = Len(parts[d]) /\ rows = RowTotal(parts[d])
          BY <1>1, <1>8, <1>9, <1>12, <2>1, <2>2, <4>3, CutAsDependencies
        <5>2. d \in Sharded
          BY DEF ShardedDeps
        <5>3. parts[d] = IndexPartitions(RowTotal(parts[d]), Len(parts[d]))
          BY <5>2, <1>1, CutMeans
        <5> QED BY <5>1, <5>2, <5>3, <2>5
      <4>4. Len(candidates'[n]) = count
        BY <2>6, <2>7
      <4>5. \E r \in Nat : \E k \in 1..r :
              parts'[n] = IndexPartitions(r, k) /\ Len(candidates'[n]) = k
        BY <2>2, <2>3, <2>5, <4>4
      <4> QED BY <3>1, <1>2, <1>3, <1>8, <4>2, <4>3, <4>5 DEF CutOK
    <3>2. CASE m # n
      <4>1. m \in Sharded /\ CutOK(m) /\ m \in Nodes
        BY <3>2, <2>5, <1>1 DEF CutOK
      <4>2. n \notin graph.deps[m]
        BY <4>1, <1>6, <1>7
      <4>3. ShardedDeps(m)' = ShardedDeps(m) /\ ShardedDeps(m) \subseteq Sharded
        BY <1>2, <2>5, <4>2 DEF ShardedDeps
      <4>4. parts'[m] = parts[m] /\ candidates'[m] = candidates[m]
        BY <3>2, <4>1, <2>5, <2>7
      <4>5. \A d \in ShardedDeps(m) : parts'[d] = parts[d]
        BY <4>3, <2>5
      <4> QED BY <1>2, <1>3, <4>1, <4>3, <4>4, <4>5 DEF CutOK
    <3> QED BY <3>1, <3>2
  <2>11. RewriteIsSchedulable'
    BY <1>1, <2>4 DEF RewriteIsSchedulable
  <2> QED BY <1>1, <1>3, <2>4, <2>8, <2>9, <2>10, <2>11 DEF RewriteInv
<1> QED BY <1>10, <1>11, <1>12

-----------------------------------------------------------------------------
(* Emitting the rewritten nodes.                                           *)

(* The names of the rewritten nodes: the nodes that were not cut, the      *)
(* merge nodes, and the shards.                                            *)
Whole(n) == n \in Nodes /\ (n \notin Sharded \/ n \in MergeRequired)
IsShard(n, k) == n \in Sharded /\ k \in 1..Len(parts[n])

(* What RewrittenNames contains.                                           *)
LEMMA NamesMean ==
  ASSUME \A m \in Sharded : CutOK(m)
  PROVE  /\ Sharded \subseteq Nodes /\ MergeRequired \subseteq Sharded
         /\ \A n : Whole(n) => <<n, 0>> \in RewrittenNames
         /\ \A n, k : IsShard(n, k) => <<n, k>> \in RewrittenNames /\ k # 0
         /\ \A x \in RewrittenNames :
              \E n \in Nodes, k \in Nat :
                x = <<n, k>> /\ (IsShard(n, k) \/ (Whole(n) /\ k = 0))
<1>1. Sharded \subseteq Nodes /\ MergeRequired \subseteq Sharded
  BY DEF CutOK, MergeRequired
<1>2. \A n \in Sharded : DOMAIN parts[n] = 1..Len(parts[n]) /\ Len(parts[n]) \in Nat
  BY CutMeans
<1>3. \A n \in Sharded : ShardNames(n) = {n} \X (1..Len(parts[n]))
  BY <1>2 DEF ShardNames
<1>4. ASSUME NEW n, Whole(n) PROVE <<n, 0>> \in RewrittenNames
  BY <1>4 DEF RewrittenNames, Whole
<1>5. ASSUME NEW n, NEW k, IsShard(n, k) PROVE <<n, k>> \in RewrittenNames /\ k # 0
  <2>1. n \in Sharded /\ k \in 1..Len(parts[n])
    BY <1>5 DEF IsShard
  <2>2. <<n, k>> \in ShardNames(n)
    BY <2>1, <1>3
  <2>3. k # 0
    BY <2>1, <1>2
  <2> QED BY <2>1, <2>2, <2>3 DEF RewrittenNames
<1>6. ASSUME NEW x \in RewrittenNames
      PROVE  \E n \in Nodes, k \in Nat :
                x = <<n, k>> /\ (IsShard(n, k) \/ (Whole(n) /\ k = 0))
  <2>1. CASE x \in (Nodes \ Sharded) \X {0}
    <3>1. PICK n \in Nodes \ Sharded : x = <<n, 0>>
      BY <2>1
    <3> QED BY <3>1 DEF Whole
  <2>2. CASE x \in MergeRequired \X {0}
    <3>1. PICK n \in MergeRequired : x = <<n, 0>>
      BY <2>2
    <3>2. n \in Nodes
      BY <1>1
    <3> QED BY <3>1, <3>2 DEF Whole
  <2>3. CASE x \in UNION {ShardNames(n) : n \in Sharded}
    <3>1. PICK n \in Sharded : x \in ShardNames(n)
      BY <2>3
    <3>2. PICK k \in 1..Len(parts[n]) : x = <<n, k>>
      BY <3>1, <1>3
    <3>3. n \in Nodes /\ k \in Nat /\ IsShard(n, k)
      BY <3>2, <1>1, <1>2 DEF IsShard
    <3> QED BY <3>2, <3>3
  <2> QED BY <2>1, <2>2, <2>3 DEF RewrittenNames
<1> QED BY <1>1, <1>4, <1>5, <1>6

(* They are finitely many.                                                 *)
LEMMA NamesFinite ==
  ASSUME JobKnown, GraphOK(graph), \A m \in Sharded : CutOK(m)
  PROVE  IsFiniteSet(RewrittenNames)
<1>1. IsFiniteSet(Nodes) /\ Sharded \subseteq Nodes
  BY GraphMeans, NamesMean
<1>2. IsFiniteSet(Sharded)
  BY <1>1, FS_Subset
<1>3. PICK f : f = [n \in Sharded |-> ShardNames(n)]
  OBVIOUS
<1>4. \A n \in Sharded : IsFiniteSet(ShardNames(n))
  <2> TAKE n \in Sharded
  <2>1. DOMAIN parts[n] = 1..Len(parts[n]) /\ Len(parts[n]) \in Nat
    BY CutMeans
  <2>2. IsFiniteSet(1..Len(parts[n]))
    BY <2>1, FS_Interval
  <2>3. IsFiniteSet({n})
    BY FS_Singleton
  <2> QED BY <2>1, <2>2, <2>3, FS_Product DEF ShardNames
<1>5. PICK U : U = {f[n] : n \in Sharded}
  OBVIOUS
<1>6. IsFiniteSet(U) /\ \A T \in U : IsFiniteSet(T)
  BY <1>2, <1>3, <1>4, <1>5, ImageFinite
<1>7. IsFiniteSet(UNION U)
  BY <1>6, FS_UNION
<1>8. IsFiniteSet(Nodes \X {0})
  BY <1>1, FS_Product, FS_Singleton
<1>9. PICK V : V = (Nodes \X {0}) \cup (UNION U)
  OBVIOUS
<1>10. IsFiniteSet(V)
  BY <1>7, <1>8, <1>9, FS_Union
<1>11. RewrittenNames \subseteq V
  <2>1. U = {ShardNames(n) : n \in Sharded}
    BY <1>3, <1>5
  <2> QED BY <2>1, <1>1, <1>9 DEF RewrittenNames, MergeRequired
<1> QED BY <1>10, <1>11, FS_Subset

(* What the rewritten nodes depend on.                                     *)
LEMMA RewrittenDeps ==
  ASSUME NEW n, NEW k
  PROVE  /\ n \notin Sharded => RewrittenNode(<<n, k>>).deps = graph.deps[n] \X {0}
         /\ n \in Sharded /\ k = 0 => RewrittenNode(<<n, k>>).deps = ShardNames(n)
         /\ n \in Sharded /\ k # 0 => RewrittenNode(<<n, k>>).deps = ShardDeps(n, k)
BY DEF RewrittenNode, MergeNode

(* Redirecting the references to the shards keeps the graph closed and     *)
(* without a cycle: a merge node depends on shards of its own node, and    *)
(* every other rewritten node on rewritten nodes of what its node depends  *)
(* on.                                                                     *)
LEMMA RewrittenGraph ==
  ASSUME JobKnown, GraphOK(graph), \A m \in Sharded : CutOK(m) /\ Emittable(m),
         NEW fm, fm = [x \in RewrittenNames |-> RewrittenNode(x)]
  PROVE  FmGraphOK(fm) /\ DOMAIN fm = RewrittenNames
<1>1. /\ DOMAIN fm = RewrittenNames
      /\ \A x \in RewrittenNames : fm[x] = RewrittenNode(x)
  OBVIOUS
<1>2. /\ graph.deps \in [Nodes -> SUBSET Nodes] /\ Grounded(Nodes, graph.deps)
  BY GraphMeans
<1>3. /\ Sharded \subseteq Nodes /\ MergeRequired \subseteq Sharded
      /\ \A n : Whole(n) => <<n, 0>> \in RewrittenNames
      /\ \A n, k : IsShard(n, k) => <<n, k>> \in RewrittenNames /\ k # 0
      /\ \A x \in RewrittenNames :
           \E n \in Nodes, k \in Nat :
             x = <<n, k>> /\ (IsShard(n, k) \/ (Whole(n) /\ k = 0))
  BY NamesMean
<1>4. \A n \in Sharded : DOMAIN parts[n] = 1..Len(parts[n]) /\ Len(parts[n]) \in Nat
  BY CutMeans
<1>5. IsFiniteSet(RewrittenNames)
  BY NamesFinite
<1>6. ASSUME NEW n \in Nodes, n \notin Sharded, NEW k, <<n, k>> \in RewrittenNames
      PROVE  /\ fm[<<n, k>>].deps \subseteq RewrittenNames
             /\ \A y \in fm[<<n, k>>].deps : y[1] \in graph.deps[n]
  <2>1. fm[<<n, k>>].deps = graph.deps[n] \X {0}
    BY <1>1, <1>6, RewrittenDeps
  <2>2. ASSUME NEW y \in graph.deps[n] \X {0}
        PROVE  y \in RewrittenNames /\ y[1] \in graph.deps[n]
    <3>1. PICK d \in graph.deps[n] : y = <<d, 0>>
      OBVIOUS
    <3>2. d \in Nodes
      BY <1>2
    <3>3. d \in Sharded => d \in MergeRequired
      BY <1>6 DEF MergeRequired
    <3>4. Whole(d)
      BY <3>2, <3>3 DEF Whole
    <3> QED BY <3>1, <3>4, <1>3
  <2> QED BY <2>1, <2>2
<1>7. ASSUME NEW n \in Sharded
      PROVE  /\ RewrittenNode(<<n, 0>>).deps \subseteq RewrittenNames
             /\ \A y \in RewrittenNode(<<n, 0>>).deps : y[1] = n /\ y[2] # 0
  <2>1. RewrittenNode(<<n, 0>>).deps = {n} \X (1..Len(parts[n]))
    BY <1>4, RewrittenDeps DEF ShardNames
  <2>2. ASSUME NEW y \in {n} \X (1..Len(parts[n]))
        PROVE  y \in RewrittenNames /\ y[1] = n /\ y[2] # 0
    <3>1. PICK k \in 1..Len(parts[n]) : y = <<n, k>>
      OBVIOUS
    <3>2. IsShard(n, k)
      BY DEF IsShard
    <3> QED BY <3>1, <3>2, <1>3
  <2> QED BY <2>1, <2>2
<1>8. ASSUME NEW n, NEW k, IsShard(n, k)
      PROVE  /\ fm[<<n, k>>].deps \subseteq RewrittenNames
             /\ \A y \in fm[<<n, k>>].deps : y[1] \in graph.deps[n]
  <2>1. /\ <<n, k>> \in RewrittenNames /\ k # 0 /\ n \in Sharded /\ k \in 1..Len(parts[n])
        /\ n \in Nodes
    BY <1>3, <1>8 DEF IsShard
  <2>2. fm[<<n, k>>].deps = {<<d, IF d \in Sharded THEN k ELSE 0>> : d \in graph.deps[n]}
    BY <1>1, <2>1, RewrittenDeps DEF ShardDeps
  <2>3. ASSUME NEW d \in graph.deps[n]
        PROVE  <<d, IF d \in Sharded THEN k ELSE 0>> \in RewrittenNames
    <3>1. d \in Nodes
      BY <1>2, <2>1
    <3>2. CASE d \in Sharded
      <4>1. Len(parts[d]) >= Len(parts[n])
        BY <2>1, <3>2 DEF Emittable, ShardsMatch, ShardedDeps
      <4>2. k \in 1..Len(parts[d])
        BY <4>1, <2>1, <3>2, <1>4
      <4>3. IsShard(d, k)
        BY <3>2, <4>2 DEF IsShard
      <4> QED BY <3>2, <4>3, <1>3
    <3>3. CASE d \notin Sharded
      BY <3>1, <3>3, <1>3 DEF Whole
    <3> QED BY <3>2, <3>3
  <2> QED BY <2>2, <2>3
<1>9. \A x \in DOMAIN fm : fm[x].deps \subseteq DOMAIN fm
  <2> TAKE x \in DOMAIN fm
  <2>1. PICK n \in Nodes, k \in Nat :
          x = <<n, k>> /\ (IsShard(n, k) \/ (Whole(n) /\ k = 0))
    BY <1>1, <1>3
  <2>2. CASE IsShard(n, k)
    BY <2>1, <2>2, <1>1, <1>8
  <2>3. CASE n \in Sharded /\ k = 0
    BY <2>1, <2>3, <1>1, <1>7
  <2>4. CASE n \notin Sharded
    BY <2>1, <2>4, <1>1, <1>6
  <2> QED BY <2>1, <2>2, <2>3, <2>4
<1>10. ASSUME NEW S \in SUBSET DOMAIN fm, S # {}
       PROVE  \E x \in S : fm[x].deps \cap S = {}
  <2> DEFINE T == {n \in Nodes : \E k \in Nat : <<n, k>> \in S}
  <2>1. T \in SUBSET Nodes /\ T # {}
    <3>1. PICK x \in S : TRUE
      BY <1>10
    <3>2. PICK n \in Nodes, k \in Nat : x = <<n, k>>
      BY <1>1, <1>3
    <3> QED BY <3>2
  <2>2. PICK n \in T : graph.deps[n] \cap T = {}
    <3> HIDE DEF T
    <3> QED BY <1>2, <2>1 DEF Grounded
  <2>3. \A y \in S : y[1] \in T
    <3> TAKE y \in S
    <3>2. PICK m \in Nodes, k \in Nat : y = <<m, k>>
      BY <1>1, <1>3
    <3> QED BY <3>2
  <2>4. n \in Nodes
    BY <2>2
  <2> HIDE DEF T
  <2>5. CASE \E k \in Nat : <<n, k>> \in S /\ (n \in Sharded => k # 0)
    <3>1. PICK k \in Nat : <<n, k>> \in S /\ (n \in Sharded => k # 0)
      BY <2>5
    <3>2. \A y \in fm[<<n, k>>].deps : y[1] \in graph.deps[n]
      <4>1. <<n, k>> \in RewrittenNames
        BY <3>1, <1>1
      <4>2. n \in Sharded => IsShard(n, k)
        BY <4>1, <3>1, <1>3
      <4> QED BY <4>1, <4>2, <2>4, <1>6, <1>8
    <3>3. fm[<<n, k>>].deps \cap S = {}
      BY <3>2, <2>2, <2>3
    <3> QED BY <3>1, <3>3
  <2>6. CASE ~ \E k \in Nat : <<n, k>> \in S /\ (n \in Sharded => k # 0)
    <3>1. PICK k \in Nat : <<n, k>> \in S
      BY <2>2 DEF T
    <3>2. n \in Sharded /\ k = 0
      BY <2>6, <3>1
    <3>3. fm[<<n, 0>>] = RewrittenNode(<<n, 0>>)
      BY <3>1, <3>2, <1>1
    <3>4. ASSUME NEW y \in fm[<<n, 0>>].deps, y \in S PROVE FALSE
      <4>1. y[1] = n /\ y[2] # 0
        BY <3>2, <3>3, <3>4, <1>7
      <4>2. PICK m \in Nodes, j \in Nat : y = <<m, j>>
        BY <3>4, <1>1, <1>3
      <4>3. <<n, j>> \in S /\ j # 0
        BY <4>1, <4>2, <3>4
      <4> QED BY <4>3, <2>6
    <3> QED BY <3>1, <3>2, <3>4
  <2> QED BY <2>5, <2>6
<1>11. Grounded(DOMAIN fm, [x \in DOMAIN fm |-> fm[x].deps])
  <2>1. \A S \in SUBSET DOMAIN fm : \A x \in S :
          [y \in DOMAIN fm |-> fm[y].deps][x] = fm[x].deps
    OBVIOUS
  <2> QED BY <1>10, <2>1 DEF Grounded
<1> QED BY <1>1, <1>5, <1>9, <1>11 DEF FmGraphOK

(* The visit is over: the rewritten nodes are emitted, or the batch is     *)
(* refused.                                                                *)
LEMMA EmitNodesRewrite ==
  ASSUME RewriteInv, JobKnown, EmitNodes, job' = job
  PROVE  RewriteInv'
<1>1. /\ at = "shard" /\ todo = << >> /\ GraphOK(graph) /\ FitsGraph(assignment)
      /\ CandidatesOK /\ OrderOK /\ \A m \in Sharded : CutOK(m)
  BY DEF EmitNodes, RewriteInv
<1>2. graph' = graph /\ assignment' = assignment /\ parts' = parts
  BY DEF EmitNodes, Refuse
<1>3. /\ Nodes' = Nodes /\ WorkerIds' = WorkerIds /\ GraphOK(graph)'
      /\ FitsGraph(assignment)' /\ Sharded' = Sharded
  BY <1>1, <1>2, GraphStays DEF Sharded
<1>4. CASE ~ \A n \in Sharded : Emittable(n)
  <2>1. at' = "refused" /\ candidates' = candidates
    BY <1>4 DEF EmitNodes, Refuse
  <2>2. \A m \in Sharded' : CutOK(m)'
    BY <1>1, <1>2, <1>3, <2>1 DEF CutOK, ShardedDeps
  <2>3. RewriteIsSchedulable'
    BY <2>1 DEF RewriteIsSchedulable
  <2> QED BY <2>1, <2>2, <2>3 DEF RewriteInv
<1>5. CASE \A n \in Sharded : Emittable(n)
  <2>1. /\ at' = "assign" /\ candidates' = PinnedCandidates
        /\ fmNodes' = [x \in RewrittenNames |-> RewrittenNode(x)]
    BY <1>5 DEF EmitNodes
  <2>2. candidates \in [Nodes -> Seq(WorkerIds)]
    BY <1>1 DEF CandidatesOK
  <2>3. \A n \in Nodes \ Sharded : Len(candidates[n]) = 1
    <3>1. ToSet(todo) = {}
      BY <1>1 DEF ToSet
    <3> QED BY <1>1, <3>1 DEF OrderOK
  <2>4. candidates' = candidates
    <3>1. ASSUME NEW n \in Nodes PROVE PinnedCandidates[n] = candidates[n]
      <4>1. CASE n \in Sharded
        BY <4>1 DEF PinnedCandidates
      <4>2. CASE n \notin Sharded
        <5>1. PICK s \in Seq(WorkerIds) : s = candidates[n] /\ Len(s) = 1
          BY <2>2, <2>3, <4>2
        <5>2. SubSeq(s, 1, 1) = s
          BY <5>1
        <5> QED BY <4>2, <5>1, <5>2 DEF PinnedCandidates
      <4> QED BY <4>1, <4>2
    <3>2. PinnedCandidates = [n \in Nodes |-> PinnedCandidates[n]]
      BY DEF PinnedCandidates
    <3>3. candidates = [n \in Nodes |-> candidates[n]]
      BY <2>2
    <3> QED BY <2>1, <3>1, <3>2, <3>3
  <2>5. FmGraphOK(fmNodes') /\ DOMAIN fmNodes' = RewrittenNames
    BY <1>1, <1>5, <2>1, RewrittenGraph
  <2>6. FmGraphOK(fmNodes)'
    BY <2>5 DEF FmGraphOK
  <2>7. RewrittenNames' = RewrittenNames
    BY <1>2, <1>3 DEF RewrittenNames, ShardNames, MergeRequired
  <2>8. CandidatesOK'
    BY <1>1, <1>2, <1>3, <2>4 DEF CandidatesOK
  <2>9. \A m \in Sharded' : CutOK(m)'
    BY <1>1, <1>2, <1>3, <2>4 DEF CutOK, ShardedDeps
  <2>10. RewriteIsSchedulable'
    BY <2>1 DEF RewriteIsSchedulable
  <2> QED BY <1>3, <2>1, <2>3, <2>4, <2>5, <2>6, <2>7, <2>8, <2>9, <2>10 DEF RewriteInv
<1> QED BY <1>4, <1>5

-----------------------------------------------------------------------------
(* Placing the rewritten nodes.                                            *)

(* The worker a rewritten node runs on.                                    *)
Home(n, k) ==
  IF n \in Sharded /\ k = 0 THEN MergeHost(n)
  ELSE candidates[n][IF n \in Sharded THEN k ELSE 1]

(* What _rewrite_worker_assignment_for_shards starts from.                 *)
ToPlace ==
  /\ JobKnown /\ GraphOK(graph) /\ FitsGraph(assignment) /\ CandidatesOK
  /\ \A n \in Sharded : CutOK(n)
  /\ \A n \in Nodes \ Sharded : Len(candidates[n]) = 1

(* A merge node has a host.                                                *)
LEMMA MergeHosted ==
  ASSUME ToPlace, NEW n \in Sharded
  PROVE  MergeHost(n) \in WorkerIds
<1>1. PICK W \in Nat : WorkerIds = 1..W
  BY FitsMeans DEF ToPlace
<1>2. n \in Nodes /\ candidates[n] \in Seq(WorkerIds) /\ candidates[n] # << >>
  BY DEF ToPlace, CutOK, CandidatesOK
<1>3. candidates[n][1] \in WorkerIds
  BY <1>2
<1>4. PICK S : S = WorkerIds \ ToSet(candidates[n])
  OBVIOUS
<1>5. S # {} => Min(S) \in S
  BY <1>1, <1>4, MinNat
<1> QED BY <1>3, <1>4, <1>5 DEF MergeHost

(* The index of a worker's shard.                                          *)
LEMMA ShardIndexIs ==
  ASSUME ToPlace, NEW n \in Sharded, NEW k \in 1..Len(parts[n])
  PROVE  /\ candidates[n][k] \in WorkerIds /\ candidates[n][k] \in ToSet(candidates[n])
         /\ ShardIndex(n, candidates[n][k]) = k
<1>1. PICK s \in Seq(WorkerIds) : s = candidates[n] /\ IsInjective(s) /\ Len(s) = Len(parts[n])
  BY CutMeans DEF ToPlace, CutOK, CandidatesOK
<1>2. k \in DOMAIN s /\ s[k] \in WorkerIds
  BY <1>1
<1>3. s[k] \in ToSet(s)
  BY <1>2 DEF ToSet
<1>4. PICK j : j = CHOOSE i \in DOMAIN s : s[i] = s[k]
  OBVIOUS
<1>5. j \in DOMAIN s /\ s[j] = s[k]
  BY <1>2, <1>4
<1>6. j = k
  BY <1>1, <1>2, <1>5 DEF IsInjective
<1> QED BY <1>1, <1>2, <1>3, <1>4, <1>6 DEF ShardIndex

(* What is left of a worker's list: the nodes it is a candidate of.        *)
LEMMA PrunedIs ==
  ASSUME ToPlace, NEW w \in WorkerIds
  PROVE  /\ PrunedAssignment[w] \in Seq(Nodes) /\ IsInjective(PrunedAssignment[w])
         /\ ToSet(PrunedAssignment[w]) = {n \in Nodes : w \in ToSet(candidates[n])}
<1>1. PICK s \in Seq(Nodes) : s = assignment[w] /\ IsInjective(s)
  BY FitsMeans DEF ToPlace
<1>2. PICK S : S = {n \in Nodes : w \in ToSet(candidates[n])}
  OBVIOUS
<1>3. PICK A : A = Nodes
  OBVIOUS
<1>4. /\ Keep(s, S) \in Seq(A) /\ IsInjective(Keep(s, S))
      /\ Range(Keep(s, S)) = Range(s) \cap S
  BY <1>1, <1>3, KeepElements
<1>5. PrunedAssignment[w] = Keep(s, S)
  BY <1>1, <1>2 DEF PrunedAssignment
<1>6. Range(s) = ToSet(s) /\ Range(Keep(s, S)) = ToSet(Keep(s, S))
  BY DEF Range, ToSet
<1>7. S \subseteq ToSet(s)
  BY <1>1, <1>2 DEF ToPlace, CandidatesOK
<1> QED BY <1>2, <1>3, <1>4, <1>5, <1>6, <1>7

(* What a worker runs in place of one of its nodes: rewritten nodes of     *)
(* that node, each once, and those of which it is the home, except for a   *)
(* merge node whose host has no shard.                                     *)
LEMMA PlacementIs ==
  ASSUME ToPlace, NEW w \in WorkerIds, NEW n \in Nodes, w \in ToSet(candidates[n])
  PROVE  /\ Placement(n, w) \in Seq(RewrittenNames) /\ IsInjective(Placement(n, w))
         /\ ToSet(Placement(n, w)) =
              {x \in RewrittenNames : x[1] = n /\ Home(n, x[2]) = w}
<1>1. /\ Sharded \subseteq Nodes /\ MergeRequired \subseteq Sharded
      /\ \A m : Whole(m) => <<m, 0>> \in RewrittenNames
      /\ \A m, k : IsShard(m, k) => <<m, k>> \in RewrittenNames /\ k # 0
      /\ \A x \in RewrittenNames :
           \E m \in Nodes, k \in Nat :
             x = <<m, k>> /\ (IsShard(m, k) \/ (Whole(m) /\ k = 0))
  BY NamesMean DEF ToPlace
<1>2. PICK s \in Seq(WorkerIds) : s = candidates[n] /\ IsInjective(s) /\ w \in ToSet(s)
  BY DEF ToPlace, CandidatesOK
<1>3. PICK N : N = RewrittenNames
  OBVIOUS
<1>4. CASE n \notin Sharded
  <2>1. PICK p : p = <<<<n, 0>>>>
    OBVIOUS
  <2>2. Placement(n, w) = p
    BY <2>1, <1>4 DEF Placement
  <2>3. <<n, 0>> \in N
    BY <1>1, <1>3, <1>4 DEF Whole
  <2>4. p \in Seq(N) /\ IsInjective(p) /\ ToSet(p) = {<<n, 0>>}
    BY <2>1, <2>3 DEF IsInjective, ToSet
  <2>5. Len(s) = 1
    BY <1>2, <1>4 DEF ToPlace
  <2>6. Home(n, 0) = w
    BY <1>2, <1>4, <2>5, OneElement DEF Home
  <2>7. \A x \in RewrittenNames : x[1] = n => x = <<n, 0>>
    BY <1>1, <1>4 DEF IsShard
  <2>8. {x \in RewrittenNames : x[1] = n /\ Home(n, x[2]) = w} = {<<n, 0>>}
    BY <2>3, <2>6, <2>7, <1>3
  <2> QED BY <2>2, <2>4, <2>8, <1>3
<1>5. CASE n \in Sharded
  <2>1. PICK k \in DOMAIN s : s[k] = w
    BY <1>2 DEF ToSet
  <2>2. DOMAIN s = 1..Len(parts[n]) /\ Len(parts[n]) \in Nat
    BY <1>2, <1>5, CutMeans DEF ToPlace
  <2>3. ShardIndex(n, w) = k
    BY <1>2, <1>5, <2>1, <2>2, ShardIndexIs
  <2>4. IsShard(n, k) /\ k # 0
    BY <1>1, <1>5, <2>1, <2>2 DEF IsShard
  <2>5. PICK p : p = <<<<n, k>>>>
    OBVIOUS
  <2>6. <<n, k>> \in N
    BY <1>1, <1>3, <2>4
  <2>7. p \in Seq(N) /\ IsInjective(p) /\ ToSet(p) = {<<n, k>>}
    BY <2>5, <2>6 DEF IsInjective, ToSet
  <2>8. \A j \in 1..Len(parts[n]) : Home(n, j) = w <=> j = k
    <3> TAKE j \in 1..Len(parts[n])
    <3>1. j # 0 /\ Home(n, j) = s[j] /\ j \in DOMAIN s
      BY <1>2, <1>5, <2>2 DEF Home
    <3> QED BY <3>1, <2>1, <1>2 DEF IsInjective
  <2>9. Home(n, 0) = MergeHost(n)
    BY <1>5 DEF Home
  <2>10. \A x \in RewrittenNames : x[1] = n =>
           \/ x[2] \in 1..Len(parts[n]) /\ x = <<n, x[2]>>
           \/ x = <<n, 0>> /\ n \in MergeRequired
    BY <1>1, <1>5 DEF IsShard, Whole
  <2>11. CASE n \in MergeRequired /\ MergeHost(n) = w
    <3>1. PICK q : q = <<<<n, 0>>>>
      OBVIOUS
    <3>2. <<n, 0>> \in N
      BY <2>11, <1>1, <1>3 DEF Whole
    <3>3. q \in Seq(N) /\ IsInjective(q) /\ ToSet(q) = {<<n, 0>>}
      BY <3>1, <3>2 DEF IsInjective, ToSet
    <3>4. {<<n, k>>} \cap {<<n, 0>>} = {}
      BY <2>4
    <3>5. /\ p \o q \in Seq(N) /\ ToSet(p \o q) = {<<n, k>>} \cup {<<n, 0>>}
          /\ IsInjective(p \o q)
      BY <2>7, <3>3, <3>4, ConcatToSet
    <3>6. Placement(n, w) = p \o q
      BY <1>5, <2>3, <2>5, <2>11, <3>1 DEF Placement
    <3>7. {x \in RewrittenNames : x[1] = n /\ Home(n, x[2]) = w} = {<<n, k>>} \cup {<<n, 0>>}
      <4>1. \A x \in RewrittenNames :
              x[1] = n /\ Home(n, x[2]) = w => x = <<n, k>> \/ x = <<n, 0>>
        BY <2>8, <2>10
      <4>2. Home(n, k) = w /\ Home(n, 0) = w
        BY <2>1, <2>2, <2>8, <2>9, <2>11
      <4> QED BY <2>6, <3>2, <1>3, <4>1, <4>2
    <3> QED BY <3>5, <3>6, <3>7, <1>3
  <2>12. CASE ~(n \in MergeRequired /\ MergeHost(n) = w)
    <3>1. Placement(n, w) = p \o << >>
      BY <1>5, <2>3, <2>5, <2>12 DEF Placement
    <3>2. Placement(n, w) = p
      BY <3>1, <2>7
    <3>3. {x \in RewrittenNames : x[1] = n /\ Home(n, x[2]) = w} = {<<n, k>>}
      BY <2>6, <2>8, <2>9, <2>10, <2>12, <1>3, <2>1, <2>2
    <3> QED BY <2>7, <3>2, <3>3, <1>3
  <2> QED BY <2>11, <2>12
<1> QED BY <1>4, <1>5

(* What a worker runs in place of all of its nodes.                        *)
LEMMA PlacedShardsIs ==
  ASSUME ToPlace, NEW w \in WorkerIds
  PROVE  /\ PlacedShards[w] \in Seq(RewrittenNames) /\ IsInjective(PlacedShards[w])
         /\ ToSet(PlacedShards[w]) =
              {x \in RewrittenNames : /\ w \in ToSet(candidates[x[1]])
                                      /\ Home(x[1], x[2]) = w}
<1>1. PICK p \in Seq(Nodes) : p = PrunedAssignment[w] /\ IsInjective(p)
             /\ ToSet(p) = {n \in Nodes : w \in ToSet(candidates[n])}
  BY PrunedIs
<1>2. PICK N : N = RewrittenNames
  OBVIOUS
<1>3. PICK m \in Nat : DOMAIN p = 1..m
  OBVIOUS
<1>4. PICK seqs : seqs = [i \in 1..m |-> Placement(p[i], w)]
  OBVIOUS
<1>5. \A i \in 1..m : p[i] \in Nodes /\ w \in ToSet(candidates[p[i]])
  BY <1>1, <1>3 DEF ToSet
<1>6. \A i \in 1..m :
        /\ seqs[i] \in Seq(N) /\ IsInjective(seqs[i])
        /\ ToSet(seqs[i]) = {x \in N : x[1] = p[i] /\ Home(p[i], x[2]) = w}
  BY <1>2, <1>4, <1>5, PlacementIs
<1>7. seqs \in Seq(Seq(N)) /\ Len(seqs) = m /\ DOMAIN seqs = 1..m
  <2>1. DOMAIN seqs = 1..m
    BY <1>4
  <2>2. seqs \in [1..m -> Seq(N)]
    BY <1>4, <1>6
  <2> QED BY <2>1, <2>2
<1>8. Disjoint(seqs)
  <2>1. ASSUME NEW i \in 1..m, NEW j \in 1..m, i # j
        PROVE  ToSet(seqs[i]) \cap ToSet(seqs[j]) = {}
    <3>1. p[i] # p[j]
      BY <2>1, <1>1, <1>3 DEF IsInjective
    <3> QED BY <3>1, <1>6
  <2> QED BY <1>6, <1>7, <2>1 DEF Disjoint
<1>9. FlatUpTo(seqs, N, Len(seqs), FlattenSeq(seqs))
  BY <1>7, FlattenElements
<1>10. /\ FlattenSeq(seqs) \in Seq(N) /\ IsInjective(FlattenSeq(seqs))
       /\ ToSet(FlattenSeq(seqs)) = UNION {ToSet(seqs[i]) : i \in 1..m}
  BY <1>7, <1>8, <1>9 DEF FlatUpTo
<1>11. PlacedShards[w] = FlattenSeq(seqs)
  BY <1>1, <1>3, <1>4 DEF PlacedShards
<1>12. UNION {ToSet(seqs[i]) : i \in 1..m} =
         {x \in N : w \in ToSet(candidates[x[1]]) /\ Home(x[1], x[2]) = w}
  <2>1. ASSUME NEW i \in 1..m, NEW x \in ToSet(seqs[i])
        PROVE  x \in N /\ w \in ToSet(candidates[x[1]]) /\ Home(x[1], x[2]) = w
    <3>1. x \in N /\ x[1] = p[i] /\ Home(p[i], x[2]) = w
      BY <1>6
    <3> QED BY <3>1, <1>5
  <2>2. ASSUME NEW x \in N, w \in ToSet(candidates[x[1]]), Home(x[1], x[2]) = w
        PROVE  \E i \in 1..m : x \in ToSet(seqs[i])
    <3>1. x[1] \in Nodes
      <4>1. PICK n \in Nodes, k \in Nat : x = <<n, k>>
        BY <1>2, NamesMean DEF ToPlace
      <4> QED BY <4>1
    <3>2. x[1] \in ToSet(p)
      BY <1>1, <2>2, <3>1
    <3>3. PICK i \in 1..m : p[i] = x[1]
      BY <3>2, <1>3 DEF ToSet
    <3>4. x \in ToSet(seqs[i])
      BY <1>6, <2>2, <3>3
    <3> QED BY <3>4
  <2> QED BY <2>1, <2>2
<1> QED BY <1>2, <1>10, <1>11, <1>12

(* The merge nodes that come last are those whose host has no shard.       *)
LEMMA UnplacedIs ==
  ASSUME ToPlace
  PROVE  /\ UnplacedMerges = {n \in MergeRequired : MergeHost(n) \notin ToSet(candidates[n])}
         /\ IsFiniteSet(UnplacedMerges) /\ UnplacedMerges \subseteq MergeRequired
<1>1. /\ Sharded \subseteq Nodes /\ MergeRequired \subseteq Sharded
      /\ \A m : Whole(m) => <<m, 0>> \in RewrittenNames
  BY NamesMean DEF ToPlace
<1>2. ASSUME NEW n \in MergeRequired
      PROVE  <<n, 0>> \in ToSet(PlacedShards[MergeHost(n)])
               <=> MergeHost(n) \in ToSet(candidates[n])
  <2>1. PICK w \in WorkerIds : w = MergeHost(n)
    BY <1>1, MergeHosted
  <2>2. <<n, 0>> \in RewrittenNames
    BY <1>1 DEF Whole
  <2>3. Home(n, 0) = w
    BY <1>1, <2>1 DEF Home
  <2>4. PICK x : x = <<n, 0>>
    OBVIOUS
  <2>5. x \in RewrittenNames /\ x[1] = n /\ x[2] = 0
    BY <2>2, <2>4
  <2>6. ToSet(PlacedShards[w]) =
          {y \in RewrittenNames : w \in ToSet(candidates[y[1]]) /\ Home(y[1], y[2]) = w}
    BY PlacedShardsIs
  <2>7. x \in ToSet(PlacedShards[w]) <=> w \in ToSet(candidates[n])
    BY <2>3, <2>5, <2>6
  <2> QED BY <2>1, <2>4, <2>7
<1>3. UnplacedMerges \subseteq Nodes /\ UnplacedMerges \subseteq MergeRequired
  BY <1>1 DEF UnplacedMerges
<1>4. IsFiniteSet(UnplacedMerges)
  BY <1>3, GraphMeans, FS_Subset DEF ToPlace
<1> QED BY <1>2, <1>3, <1>4 DEF UnplacedMerges

(* The names of the merge nodes a worker runs last.                        *)
LEMMA LateNames ==
  ASSUME NEW A, NEW t \in Seq(A), IsInjective(t), NEW late,
         late = [i \in DOMAIN t |-> <<t[i], 0>>]
  PROVE  late \in Seq(A \X {0}) /\ IsInjective(late) /\ ToSet(late) = ToSet(t) \X {0}
<1>1. PICK m \in Nat : DOMAIN t = 1..m
  OBVIOUS
<1>2. late = [i \in 1..m |-> <<t[i], 0>>] /\ \A i \in 1..m : t[i] \in A
  BY <1>1
<1>3. late \in [1..m -> A \X {0}]
  BY <1>2
<1>4. late \in Seq(A \X {0})
  BY <1>3
<1>5. IsInjective(late)
  BY <1>1, <1>2 DEF IsInjective
<1>6. ToSet(late) = ToSet(t) \X {0}
  BY <1>1, <1>2 DEF ToSet
<1> QED BY <1>4, <1>5, <1>6

(* A worker ends up with the rewritten nodes of which it is the home.      *)
LEMMA WorkerPlaced ==
  ASSUME ToPlace, NEW order \in SetToSeqs(UnplacedMerges), NEW w \in WorkerIds, NEW t,
         t = Keep(order, {n \in UnplacedMerges : MergeHost(n) = w}), NEW late,
         late = [i \in DOMAIN t |-> <<t[i], 0>>]
  PROVE  /\ PlacedShards[w] \o late \in Seq(RewrittenNames)
         /\ IsInjective(PlacedShards[w] \o late)
         /\ ToSet(PlacedShards[w] \o late) = {x \in RewrittenNames : Home(x[1], x[2]) = w}
<1>1. /\ Sharded \subseteq Nodes /\ MergeRequired \subseteq Sharded
      /\ \A m : Whole(m) => <<m, 0>> \in RewrittenNames
      /\ \A x \in RewrittenNames :
           \E m \in Nodes, k \in Nat :
             x = <<m, k>> /\ (IsShard(m, k) \/ (Whole(m) /\ k = 0))
  BY NamesMean DEF ToPlace
<1>2. PICK U : U = UnplacedMerges
  OBVIOUS
<1>3. /\ U = {n \in MergeRequired : MergeHost(n) \notin ToSet(candidates[n])}
      /\ IsFiniteSet(U) /\ U \subseteq MergeRequired
  BY <1>2, UnplacedIs
<1>4. order \in Seq(U) /\ ToSet(order) = U /\ IsInjective(order)
  BY <1>2, <1>3, OrderingElements
<1>5. PICK S : S = {n \in U : MergeHost(n) = w}
  OBVIOUS
<1>6. t \in Seq(U) /\ IsInjective(t) /\ ToSet(t) = S
  <2>1. /\ Keep(order, S) \in Seq(U) /\ IsInjective(Keep(order, S))
        /\ Range(Keep(order, S)) = Range(order) \cap S
    BY <1>4, KeepElements
  <2>2. t = Keep(order, S)
    BY <1>2, <1>5
  <2>3. Range(order) = ToSet(order) /\ Range(t) = ToSet(t)
    BY DEF Range, ToSet
  <2> QED BY <2>1, <2>2, <2>3, <1>4, <1>5
<1>7. late \in Seq(U \X {0}) /\ IsInjective(late) /\ ToSet(late) = S \X {0}
  BY <1>6, LateNames
<1>8. PICK N : N = RewrittenNames
  OBVIOUS
<1>9. U \X {0} \subseteq N
  <2>1. \A n \in U : <<n, 0>> \in N
    BY <1>1, <1>3, <1>8 DEF Whole
  <2> QED BY <2>1
<1>10. late \in Seq(N)
  <2>1. ToSet(late) \subseteq N
    BY <1>7, <1>9, <1>5
  <2> QED BY <2>1, <1>7, ToSetIn
<1>11. PICK s \in Seq(N) :
         /\ s = PlacedShards[w] /\ IsInjective(s)
         /\ ToSet(s) = {x \in N : w \in ToSet(candidates[x[1]]) /\ Home(x[1], x[2]) = w}
  BY <1>8, PlacedShardsIs
<1>12. ToSet(s) \cap ToSet(late) = {}
  <2> SUFFICES ASSUME NEW x \in ToSet(late), x \in ToSet(s) PROVE FALSE
    OBVIOUS
  <2>1. x[1] \in S /\ w \in ToSet(candidates[x[1]])
    BY <1>7, <1>11
  <2> QED BY <2>1, <1>3, <1>5
<1>13. /\ s \o late \in Seq(N) /\ ToSet(s \o late) = ToSet(s) \cup ToSet(late)
       /\ IsInjective(s \o late)
  <2>1. PICK r \in Seq(N) : r = late
    BY <1>10
  <2>2. IsInjective(s) /\ IsInjective(r) /\ ToSet(s) \cap ToSet(r) = {}
    BY <1>7, <1>11, <1>12, <2>1
  <2>3. /\ s \o r \in Seq(N) /\ ToSet(s \o r) = ToSet(s) \cup ToSet(r)
        /\ IsInjective(s \o r)
    BY ONLY <2>2, s \in Seq(N), r \in Seq(N), ConcatToSet
  <2> QED BY <2>1, <2>3
<1>14. ToSet(s) \cup ToSet(late) = {x \in N : Home(x[1], x[2]) = w}
  <2>1. ASSUME NEW x \in ToSet(late) PROVE x \in N /\ Home(x[1], x[2]) = w
    <3>0. x \in S \X {0}
      BY <1>7
    <3>1. PICK n \in S : x = <<n, 0>>
      BY ONLY <3>0
    <3>2. x \in N /\ n \in Sharded /\ MergeHost(n) = w
      BY <3>1, <1>1, <1>3, <1>5, <1>9
    <3>3. Home(n, 0) = w
      BY <3>2 DEF Home
    <3> QED BY <3>1, <3>2, <3>3
  <2>2. ASSUME NEW x \in N, Home(x[1], x[2]) = w PROVE x \in ToSet(s) \cup ToSet(late)
    <3>1. PICK n \in Nodes, k \in Nat :
            x = <<n, k>> /\ (IsShard(n, k) \/ (Whole(n) /\ k = 0))
      BY <1>1, <1>8
    <3>2. x[1] = n /\ x[2] = k /\ Home(n, k) = w
      BY <2>2, <3>1
    <3>3. CASE w \in ToSet(candidates[n])
      BY <3>2, <3>3, <1>11, <2>2
    <3>4. CASE IsShard(n, k)
      <4>1. n \in Sharded /\ k \in 1..Len(parts[n]) /\ k # 0
        BY <3>4, CutMeans DEF IsShard, ToPlace
      <4>2. Home(n, k) = candidates[n][k] /\ candidates[n][k] \in ToSet(candidates[n])
        BY <4>1, ShardIndexIs DEF Home
      <4> QED BY <3>2, <3>3, <4>2
    <3>5. CASE n \notin Sharded
      <4>1. candidates[n] \in Seq(WorkerIds) /\ Len(candidates[n]) = 1
        BY <3>5 DEF ToPlace, CandidatesOK
      <4>2. Home(n, k) \in ToSet(candidates[n])
        BY <3>5, <4>1, OneElement DEF Home
      <4> QED BY <3>2, <3>3, <4>2
    <3>6. CASE n \in MergeRequired /\ k = 0 /\ w \notin ToSet(candidates[n])
      <4>1. MergeHost(n) = w
        BY <3>2, <3>6, <1>1 DEF Home
      <4>2. n \in S
        BY <4>1, <3>6, <1>3, <1>5
      <4>3. x \in S \X {0}
        BY <4>2, <3>1, <3>6
      <4> QED BY <4>3, <1>7
    <3> QED BY <3>1, <3>3, <3>4, <3>5, <3>6 DEF Whole
  <2> QED BY <2>1, <2>2, <1>11
<1> QED BY <1>8, <1>11, <1>13, <1>14

(* Every rewritten node has a home.                                        *)
LEMMA HomeIsWorker ==
  ASSUME ToPlace, NEW x \in RewrittenNames
  PROVE  Home(x[1], x[2]) \in WorkerIds
<1>1. PICK n \in Nodes, k \in Nat :
        x = <<n, k>> /\ (IsShard(n, k) \/ (Whole(n) /\ k = 0))
  BY NamesMean DEF ToPlace
<1>2. CASE IsShard(n, k)
  <2>1. n \in Sharded /\ k \in 1..Len(parts[n]) /\ k # 0
    BY <1>2, CutMeans DEF IsShard, ToPlace
  <2>2. Home(n, k) = candidates[n][k] /\ candidates[n][k] \in WorkerIds
    BY <2>1, ShardIndexIs DEF Home
  <2> QED BY <1>1, <2>2
<1>3. CASE n \notin Sharded
  <2>1. candidates[n] \in Seq(WorkerIds) /\ Len(candidates[n]) = 1
    BY <1>3 DEF ToPlace, CandidatesOK
  <2>2. Home(n, k) \in WorkerIds
    BY <1>3, <2>1 DEF Home
  <2> QED BY <1>1, <2>2
<1>4. CASE n \in Sharded /\ k = 0
  BY <1>1, <1>4, MergeHosted DEF Home
<1> QED BY <1>1, <1>2, <1>3, <1>4

(* Lists that hold, worker by worker, the rewritten nodes at home there are
   an assignment of the rewritten graph.                                   *)
LEMMA HomesAssign ==
  ASSUME ToPlace, NEW place, DOMAIN place = WorkerIds,
         place = [w \in WorkerIds |-> place[w]],
         \A w \in WorkerIds :
           /\ place[w] \in Seq(RewrittenNames) /\ IsInjective(place[w])
           /\ ToSet(place[w]) = {x \in RewrittenNames : Home(x[1], x[2]) = w}
  PROVE  PlacedOK(place, RewrittenNames)
<1>1. place \in [WorkerIds -> Seq(RewrittenNames)]
  OBVIOUS
<1>2. \A v, w \in WorkerIds : v # w => ToSet(place[v]) \cap ToSet(place[w]) = {}
  OBVIOUS
<1>3. UNION {ToSet(place[w]) : w \in WorkerIds} = RewrittenNames
  BY HomeIsWorker
<1> QED BY <1>1, <1>2, <1>3 DEF PlacedOK

(* The rewritten assignment covers the rewritten nodes, each once.         *)
LEMMA AllShardsPlaced ==
  ASSUME ToPlace, NEW order \in SetToSeqs(UnplacedMerges), NEW place,
         place = [w \in WorkerIds |->
                    LET late == Keep(order, {n \in UnplacedMerges : MergeHost(n) = w})
                    IN  PlacedShards[w] \o [i \in DOMAIN late |-> <<late[i], 0>>]]
  PROVE  PlacedOK(place, RewrittenNames) /\ DOMAIN place = WorkerIds
<1>1. ASSUME NEW w \in WorkerIds
      PROVE  /\ place[w] \in Seq(RewrittenNames) /\ IsInjective(place[w])
             /\ ToSet(place[w]) = {x \in RewrittenNames : Home(x[1], x[2]) = w}
  <2>1. PICK t : t = Keep(order, {n \in UnplacedMerges : MergeHost(n) = w})
    OBVIOUS
  <2>2. PICK late : late = [i \in DOMAIN t |-> <<t[i], 0>>]
    OBVIOUS
  <2>3. place[w] = PlacedShards[w] \o late
    BY <2>1, <2>2
  <2> QED BY <2>1, <2>2, <2>3, WorkerPlaced
<1>2. DOMAIN place = WorkerIds
  OBVIOUS
<1>3. place = [w \in WorkerIds |-> place[w]]
  OBVIOUS
<1> QED BY <1>1, <1>2, <1>3, HomesAssign

(* Placing the rewritten nodes leaves none uncovered.                      *)
LEMMA AssignRewrite ==
  ASSUME RewriteInv, JobKnown, AssignShards, job' = job
  PROVE  RewriteInv'
<1>1. /\ at = "assign" /\ GraphOK(graph) /\ FitsGraph(assignment) /\ CandidatesOK
      /\ DOMAIN fmNodes = RewrittenNames /\ FmGraphOK(fmNodes)
      /\ \A n \in Nodes \ Sharded : Len(candidates[n]) = 1
      /\ \A n \in Sharded : CutOK(n)
  BY DEF AssignShards, RewriteInv
<1>2. /\ graph' = graph /\ assignment' = assignment /\ parts' = parts
      /\ candidates' = candidates /\ fmNodes' = fmNodes
      /\ at' = IF UNION {ToSet(placed'[w]) : w \in WorkerIds} = DOMAIN fmNodes
               THEN "hint" ELSE "uncovered"
  BY DEF AssignShards
<1>3. /\ Nodes' = Nodes /\ WorkerIds' = WorkerIds /\ GraphOK(graph)'
      /\ FitsGraph(assignment)' /\ Sharded' = Sharded
  BY <1>1, <1>2, GraphStays DEF Sharded
<1>4. ToPlace
  BY <1>1 DEF ToPlace
<1>5. PICK order \in SetToSeqs(UnplacedMerges) :
        placed' = [w \in WorkerIds |->
                    LET late == Keep(order, {n \in UnplacedMerges : MergeHost(n) = w})
                    IN  PlacedShards[w] \o [i \in DOMAIN late |-> <<late[i], 0>>]]
  BY DEF AssignShards
<1>6. PlacedOK(placed', RewrittenNames) /\ DOMAIN placed' = WorkerIds
  BY <1>4, <1>5, AllShardsPlaced
<1>7. at' = "hint"
  BY <1>1, <1>2, <1>6 DEF PlacedOK
<1>8. FmGraphOK(fmNodes)' /\ PlacedOK(placed, DOMAIN fmNodes)'
  BY <1>1, <1>2, <1>6 DEF FmGraphOK, PlacedOK
<1>9. \A m \in Sharded' : CutOK(m)'
  BY <1>1, <1>2, <1>3 DEF CutOK, ShardedDeps
<1>10. RewriteIsSchedulable'
  BY <1>7 DEF RewriteIsSchedulable
<1> QED BY <1>3, <1>6, <1>7, <1>8, <1>9, <1>10 DEF RewriteInv

-----------------------------------------------------------------------------
(* The schedule hint.                                                      *)

(* The workers' lists put together.                                        *)
LEMMA AllPlacedIs ==
  ASSUME JobKnown, FitsGraph(assignment), DOMAIN placed = WorkerIds,
         NEW names, PlacedOK(placed, names)
  PROVE  /\ AllPlaced \in Seq(names) /\ IsInjective(AllPlaced)
         /\ ToSet(AllPlaced) = names
<1>1. PICK W \in Nat : WorkerIds = 1..W
  BY FitsMeans
<1>2. PICK p : p = placed
  OBVIOUS
<1>3. /\ p \in [1..W -> Seq(names)] /\ \A w \in 1..W : IsInjective(p[w])
      /\ \A v, w \in 1..W : v # w => ToSet(p[v]) \cap ToSet(p[w]) = {}
      /\ UNION {ToSet(p[w]) : w \in 1..W} = names
  BY <1>1, <1>2 DEF PlacedOK
<1>4. p \in Seq(Seq(names)) /\ Len(p) = W /\ DOMAIN p = 1..W
  BY <1>3
<1>5. Disjoint(p)
  BY <1>3, <1>4 DEF Disjoint
<1>6. FlatUpTo(p, names, Len(p), FlattenSeq(p))
  BY <1>4, FlattenElements
<1> QED BY <1>2, <1>3, <1>4, <1>5, <1>6 DEF FlatUpTo, AllPlaced

(* The place of a node in a list that has each node once.                  *)
LEMMA FirstPlace ==
  ASSUME NEW names, NEW all \in Seq(names), IsInjective(all), NEW x \in ToSet(all)
  PROVE  (CHOOSE i \in DOMAIN all :
            all[i] = x /\ \A j \in 1..(i - 1) : all[j] # x) \in Nat
<1>1. PICK m \in Nat : DOMAIN all = 1..m
  OBVIOUS
<1>2. PICK i \in 1..m : all[i] = x
  BY <1>1 DEF ToSet
<1>3. \A j \in 1..(i - 1) : j \in 1..m /\ j # i
  BY <1>2
<1>4. \A j \in 1..(i - 1) : all[j] # x
  BY <1>1, <1>2, <1>3 DEF IsInjective
<1>5. \E k \in 1..m : all[k] = x /\ \A j \in 1..(k - 1) : all[j] # x
  BY <1>2, <1>4
<1>6. (CHOOSE k \in 1..m : all[k] = x /\ \A j \in 1..(k - 1) : all[j] # x) \in 1..m
  BY <1>5
<1> QED BY <1>1, <1>6

(* The hint builder orders every placed graph.                             *)
LEMMA HintRewrite ==
  ASSUME RewriteInv, JobKnown, BuildHint, job' = job
  PROVE  RewriteInv'
<1>1. /\ at = "hint" /\ GraphOK(graph) /\ FitsGraph(assignment) /\ FmGraphOK(fmNodes)
      /\ DOMAIN placed = WorkerIds /\ PlacedOK(placed, DOMAIN fmNodes)
      /\ \A n \in Sharded : CutOK(n)
  BY DEF BuildHint, RewriteInv
<1>2. /\ graph' = graph /\ assignment' = assignment /\ parts' = parts
      /\ candidates' = candidates /\ fmNodes' = fmNodes /\ placed' = placed
  BY DEF BuildHint, Refuse
<1>3. PICK names : names = DOMAIN fmNodes
  OBVIOUS
<1>4. PICK deps : deps = [x \in names |-> fmNodes[x].deps]
  OBVIOUS
<1>5. PICK rank : rank = [x \in names |-> CHOOSE i \in DOMAIN AllPlaced :
                            /\ AllPlaced[i] = x
                            /\ \A j \in 1..(i - 1) : AllPlaced[j] # x]
  OBVIOUS
<1>6. PICK order : order = HeapOrder(names, deps, rank)
  OBVIOUS
<1>7. /\ AllPlaced \in Seq(names) /\ IsInjective(AllPlaced) /\ ToSet(AllPlaced) = names
  BY <1>1, <1>3, AllPlacedIs
<1>8. \A x \in names : rank[x] \in Nat
  BY <1>5, <1>7, FirstPlace
<1>9. /\ IsFiniteSet(names) /\ Grounded(names, deps)
      /\ \A x \in names : deps[x] = fmNodes[x].deps /\ fmNodes[x].deps \subseteq names
  BY <1>1, <1>3, <1>4 DEF FmGraphOK
<1>10. /\ Len(order) = Cardinality(names) /\ ToSet(order) = names
       /\ OutInOrder(names, deps, order)
  BY <1>6, <1>8, <1>9, HeapOrderInOrder, HeapOrderComplete
<1>11. \A w \in WorkerIds : IsInjective(placed[w])
  BY <1>1 DEF PlacedOK
<1>12. at' = "hinted" /\ hint' = order
  BY <1>3, <1>4, <1>5, <1>6, <1>7, <1>10, <1>11 DEF BuildHint
<1>13. \A m \in Sharded' : CutOK(m)'
  BY <1>1, <1>2 DEF CutOK, ShardedDeps, Sharded, Nodes
<1>14. RewriteIsSchedulable'
  <2>1. AllPlaced' = AllPlaced /\ DOMAIN fmNodes' = names
    BY <1>2, <1>3 DEF AllPlaced
  <2>2. IsInjective(AllPlaced') /\ ToSet(AllPlaced') = DOMAIN fmNodes'
    BY <1>7, <2>1
  <2>3. \A x \in DOMAIN fmNodes' : fmNodes'[x].deps \subseteq DOMAIN fmNodes'
    BY <1>2, <1>9, <2>1
  <2>4. IsInjective(hint') /\ ToSet(hint') = DOMAIN fmNodes'
    BY <1>10, <1>12, <2>1 DEF OutInOrder
  <2>5. ASSUME NEW i \in DOMAIN hint'
        PROVE  fmNodes'[hint'[i]].deps \subseteq {hint'[j] : j \in 1..(i - 1)}
    <3>1. /\ order[i] \in names
          /\ deps[order[i]] \cap names \subseteq {order[j] : j \in 1..(i - 1)}
      BY <1>10, <1>12 DEF OutInOrder
    <3>2. deps[order[i]] = fmNodes[order[i]].deps /\ deps[order[i]] \subseteq names
      BY <1>9, <3>1
    <3> QED BY <3>1, <3>2, <1>2, <1>12
  <2>6. IsInjective(AllPlaced)' /\ (ToSet(AllPlaced) = DOMAIN fmNodes)'
    BY <2>2 DEF IsInjective, ToSet
  <2>7. IsInjective(hint)' /\ (ToSet(hint) = DOMAIN fmNodes)'
    BY <2>4 DEF IsInjective, ToSet
  <2> QED BY <1>12, <2>3, <2>5, <2>6, <2>7 DEF RewriteIsSchedulable
<1> QED BY <1>12, <1>13, <1>14 DEF RewriteInv

(* Running the hint changes nothing of the rewrite.                        *)
LEMMA RunRewrite ==
  ASSUME RewriteInv, Run
  PROVE  RewriteInv'
<1>1. /\ graph' = graph /\ parts' = parts /\ candidates' = candidates
      /\ at' \in {"ran", "broken"} /\ \A n \in Sharded : CutOK(n)
  BY DEF Run, RewriteInv
<1>2. \A m \in Sharded' : CutOK(m)'
  BY <1>1 DEF CutOK, ShardedDeps, Sharded, Nodes
<1>3. RewriteIsSchedulable'
  BY <1>1 DEF RewriteIsSchedulable
<1> QED BY <1>1, <1>2, <1>3 DEF RewriteInv

(* The invariant holds initially.                                          *)
LEMMA RewriteInit == Init => RewriteInv
<1> SUFFICES ASSUME Init PROVE RewriteInv
  OBVIOUS
<1>1. at = "new" /\ parts = << >>
  BY DEF Init
<1>2. Sharded = {}
  BY <1>1 DEF Sharded
<1> QED BY <1>1, <1>2 DEF RewriteInv, RewriteIsSchedulable

(* The invariant does not depend on anything but the variables.            *)
LEMMA RewriteStutters ==
  ASSUME RewriteInv, UNCHANGED vars
  PROVE  RewriteInv'
<1>1. /\ at' = at /\ graph' = graph /\ assignment' = assignment /\ todo' = todo
      /\ candidates' = candidates /\ parts' = parts /\ fmNodes' = fmNodes
      /\ placed' = placed /\ hint' = hint /\ job' = job /\ batch' = batch
  BY DEF vars, rewriteVars, pipelineVars
<1>2. /\ Nodes' = Nodes /\ WorkerIds' = WorkerIds /\ GraphOK(graph)' = GraphOK(graph)
      /\ FitsGraph(assignment)' = FitsGraph(assignment) /\ Sharded' = Sharded
  BY <1>1, GraphStays DEF Sharded
<1>3. CandidatesOK' = CandidatesOK /\ OrderOK' = OrderOK
  BY <1>1, <1>2 DEF CandidatesOK, OrderOK
<1>4. RewrittenNames' = RewrittenNames
  BY <1>1, <1>2 DEF RewrittenNames, ShardNames, MergeRequired
<1>5. FmGraphOK(fmNodes)' = FmGraphOK(fmNodes)
  BY <1>1 DEF FmGraphOK
<1>6. PlacedOK(placed, DOMAIN fmNodes)' = PlacedOK(placed, DOMAIN fmNodes)
  BY <1>1 DEF PlacedOK
<1>7. \A n : CutOK(n)' = CutOK(n)
  BY <1>1, <1>2 DEF CutOK, ShardedDeps
<1>8. RewriteIsSchedulable' = RewriteIsSchedulable
  BY <1>1 DEF RewriteIsSchedulable, AllPlaced
<1> QED BY <1>1, <1>2, <1>3, <1>4, <1>5, <1>6, <1>7, <1>8 DEF RewriteInv

(* Every step keeps the invariant.                                         *)
LEMMA RewriteStep == RewriteInv /\ BufferInv /\ [Next]_vars => RewriteInv'
<1> SUFFICES ASSUME RewriteInv, BufferInv, [Next]_vars PROVE RewriteInv'
  OBVIOUS
<1>1. JobKnown
  BY DEF BufferInv
<1>2. CASE Submit \/ Reserve \/ DealOut \/ FailBatch \/ Finalize
  BY <1>2, BatchBordersRewrite
<1>3. CASE Merge
  BY <1>3, MergeRewrite
<1>4. CASE Plan
  BY <1>4, PlanRewrite
<1>5. CASE Rewrite
  <2>1. job' = job /\ RewriteNext
    BY <1>5 DEF Rewrite, pipelineVars
  <2>2. CASE CollectCandidates
    BY <1>1, <2>1, <2>2, CollectRewrite
  <2>3. CASE ShardNode
    BY <1>1, <2>1, <2>3, ShardNodeRewrite
  <2>4. CASE EmitNodes
    BY <1>1, <2>1, <2>4, EmitNodesRewrite
  <2>5. CASE AssignShards
    BY <1>1, <2>1, <2>5, AssignRewrite
  <2>6. CASE BuildHint
    BY <1>1, <2>1, <2>6, HintRewrite
  <2> QED BY <2>1, <2>2, <2>3, <2>4, <2>5, <2>6 DEF RewriteNext
<1>6. CASE Run
  BY <1>6, RunRewrite
<1>7. CASE UNCHANGED vars
  BY <1>7, RewriteStutters
<1> QED BY <1>2, <1>3, <1>4, <1>5, <1>6, <1>7 DEF Next

(* Both invariants hold throughout.                                        *)
LEMMA Invariants == Spec => [](BufferInv /\ RewriteInv)
<1>1. Init => BufferInv /\ RewriteInv
  BY BufferInit, RewriteInit
<1>2. BufferInv /\ RewriteInv /\ [Next]_vars => (BufferInv /\ RewriteInv)'
  BY BufferStep, RewriteStep
<1> QED BY <1>1, <1>2, PTL DEF Spec

(* For every job, whatever plan cuts its nodes: the shards of a node cover *)
(* its rows once, each of them some, one per candidate worker, and a node  *)
(* without a list of its own is cut as the nodes it reads                  *)
(* (_build_index_partitions, _infer_shard_input_size).                     *)
THEOREM ShardsCoverRows == Spec => []ShardRowsExact
<1>1. RewriteInv => ShardRowsExact
  <2> SUFFICES ASSUME RewriteInv, NEW n \in Sharded
               PROVE  /\ parts[n][1][1] = 0
                      /\ \A k \in DOMAIN parts[n] : Size(parts[n][k]) > 0
                      /\ \A k \in 2..Len(parts[n]) : parts[n][k][1] = parts[n][k - 1][2]
                      /\ Len(candidates[n]) = Len(parts[n])
                      /\ graph.lists[n] = {} =>
                           \A d \in ShardedDeps(n) : parts[d] = parts[n]
    BY DEF ShardRowsExact
  <2>1. CutOK(n)
    BY DEF RewriteInv
  <2>2. graph.lists[n] = {} => \A d \in ShardedDeps(n) : parts[d] = parts[n]
    BY <2>1 DEF CutOK
  <2> QED BY <2>1, <2>2, CutMeans
<1> QED BY <1>1, Invariants, PTL

(* For every job, plan and schedule: a rewrite that was accepted node by   *)
(* node is never refused by the checks on its own result, every rewritten  *)
(* node is placed once and listed once in the hint, after what it depends  *)
(* on (_rewrite_worker_assignment_for_shards, _build_flat_schedule_hint).  *)
THEOREM RewriteSchedules == Spec => []RewriteIsSchedulable
<1>1. RewriteInv => RewriteIsSchedulable
  BY DEF RewriteInv
<1> QED BY <1>1, Invariants, PTL

-----------------------------------------------------------------------------
(* The plans of TopologicalSortOptimizer.                                  *)

TopoGpu == (job.gpuWorkers \o job.cpuWorkers)[1]
TopoCpu == IF job.cpuWorkers # << >> THEN job.cpuWorkers[1] ELSE 1
TopoWorker(n) == IF n \in graph.gpus THEN TopoGpu ELSE TopoCpu
RewriteOrder == HeapOrder(Nodes, graph.deps, [n \in Nodes |-> n])

(* No node is on two workers.                                              *)
Sole(plan) ==
  \A v, w \in DOMAIN plan : v # w => ToSet(plan[v]) \cap ToSet(plan[w]) = {}

(* A sequence has finitely many elements, the first of them one.           *)
LEMMA FirstElement ==
  ASSUME NEW A, NEW s \in Seq(A)
  PROVE  IsFiniteSet(ToSet(s)) /\ (s # << >> => s[1] \in ToSet(s))
<1>1. PICK m \in Nat : DOMAIN s = 1..m /\ (s # << >> => m # 0)
  OBVIOUS
<1>2. s # << >> => s[1] \in ToSet(s)
  BY <1>1 DEF ToSet
<1>3. IsFiniteSet(DOMAIN s)
  BY <1>1, FS_Interval
<1>4. ToSet(s) = {s[i] : i \in DOMAIN s}
  BY DEF ToSet
<1> QED BY <1>2, <1>3, <1>4, ImageFinite

(* The workers it plans for are among the workers.                         *)
LEMMA TopoWorkersKnown ==
  ASSUME JobKnown
  PROVE  TopoGpu \in AllWorkers /\ TopoCpu \in AllWorkers
<1>1. PICK g \in Seq(Nat \ {0}) : g = job.gpuWorkers
  BY JobsAssumption DEF JobKnown
<1>2. PICK c \in Seq(Nat \ {0}) : c = job.cpuWorkers
  BY JobsAssumption DEF JobKnown
<1>3. g \o c # << >>
  BY <1>1, <1>2, JobsAssumption DEF JobKnown
<1>4. PICK s \in Seq(Nat \ {0}) : s = g \o c
  BY <1>1, <1>2, ConcatToSet
<1>5. ToSet(s) = ToSet(g) \cup ToSet(c)
  BY <1>4, ConcatToSet
<1>6. ToSet(s) \in SUBSET (Nat \ {0}) /\ s[1] \in ToSet(s)
  <2>1. ToSet(s) \subseteq Nat \ {0}
    BY ToSetIn
  <2>2. s[1] \in ToSet(s)
    BY <1>3, <1>4, FirstElement
  <2> QED BY <2>1, <2>2
<1>7. IsFiniteSet(ToSet(s))
  BY FirstElement
<1>8. PICK M : M = Max(ToSet(s))
  OBVIOUS
<1>9. M \in Nat \ {0} /\ \A x \in ToSet(s) : x <= M
  BY <1>6, <1>7, <1>8, MaxNat
<1>10. AllWorkers = 1..M
  BY <1>1, <1>2, <1>4, <1>8 DEF AllWorkers
<1>11. \A x \in ToSet(s) : x \in 1..M
  BY <1>6, <1>9
<1>12. TopoGpu = s[1]
  BY <1>1, <1>2, <1>4 DEF TopoGpu
<1>13. CASE c = << >>
  <2>1. TopoCpu = 1 /\ 1 \in 1..M
    BY <1>2, <1>9, <1>13 DEF TopoCpu
  <2> QED BY <2>1, <1>6, <1>10, <1>11, <1>12
<1>14. CASE c # << >>
  <2>1. TopoCpu = c[1]
    BY <1>2, <1>14 DEF TopoCpu
  <2>2. c[1] \in ToSet(c)
    BY <1>14, FirstElement
  <2> QED BY <2>1, <2>2, <1>5, <1>6, <1>10, <1>11, <1>12
<1> QED BY <1>13, <1>14

(* The optimizer's plan passes _validate_schedule, and puts each node on   *)
(* one worker.                                                             *)
LEMMA TopologicalPlanIs ==
  ASSUME JobKnown, GraphOK(graph)
  PROVE  FitsGraph(TopologicalPlan) /\ Sole(TopologicalPlan)
<1>1. /\ IsFiniteSet(Nodes) /\ Grounded(Nodes, graph.deps) /\ Nodes \subseteq Nat
  BY GraphMeans
<1>2. PICK order \in Seq(Nodes) : /\ order = RewriteOrder /\ IsInjective(order)
                                  /\ ToSet(order) = Nodes
  <2>1. PICK rank : rank = [n \in Nodes |-> n]
    OBVIOUS
  <2>2. \A n \in Nodes : rank[n] \in Nat
    BY <1>1, <2>1
  <2>3. /\ ToSet(HeapOrder(Nodes, graph.deps, rank)) = Nodes
        /\ OutInOrder(Nodes, graph.deps, HeapOrder(Nodes, graph.deps, rank))
    BY <1>1, <2>2, HeapOrderInOrder, HeapOrderComplete
  <2> QED BY <2>1, <2>3 DEF OutInOrder, RewriteOrder
<1>3. TopologicalPlan = [w \in AllWorkers |-> Keep(order, {n \in Nodes : w = TopoWorker(n)})]
  BY <1>2 DEF TopologicalPlan, RewriteOrder, TopoWorker, TopoGpu, TopoCpu
<1>4. PICK plan : plan = TopologicalPlan
  OBVIOUS
<1>5. PICK A : A = Nodes
  OBVIOUS
<1>6. ASSUME NEW w \in AllWorkers
      PROVE  /\ plan[w] \in Seq(A) /\ IsInjective(plan[w])
             /\ ToSet(plan[w]) = {n \in Nodes : w = TopoWorker(n)}
  <2>1. PICK S : S = {n \in Nodes : w = TopoWorker(n)}
    OBVIOUS
  <2>2. /\ Keep(order, S) \in Seq(A) /\ IsInjective(Keep(order, S))
        /\ Range(Keep(order, S)) = Range(order) \cap S
    BY <1>2, <1>5, KeepElements
  <2>3. plan[w] = Keep(order, S)
    BY <1>3, <1>4, <2>1
  <2>4. Range(order) = ToSet(order) /\ Range(Keep(order, S)) = ToSet(Keep(order, S))
    BY DEF Range, ToSet
  <2> QED BY <2>1, <2>2, <2>3, <2>4, <1>2
<1>7. DOMAIN plan = AllWorkers /\ plan = [w \in AllWorkers |-> plan[w]]
  BY <1>3, <1>4
<1>8. plan \in [AllWorkers -> Seq(Nodes)]
  BY <1>5, <1>6, <1>7
<1>9. Sole(plan)
  BY <1>6, <1>7 DEF Sole
<1>10. \A n \in Nodes : TopoWorker(n) \in AllWorkers
  BY TopoWorkersKnown DEF TopoWorker
<1>11. UNION {ToSet(plan[w]) : w \in AllWorkers} = Nodes
  BY <1>6, <1>10
<1>12. FitsGraph(plan)
  BY <1>6, <1>8, <1>11 DEF FitsGraph
<1> QED BY <1>4, <1>9, <1>12

(* A node that is on one worker has one candidate.                         *)
LEMMA SoleCandidate ==
  ASSUME JobKnown, FitsGraph(assignment), Sole(assignment), NEW n \in Nodes
  PROVE  Len(CandidatesOf(n)) = 1
<1>1. PICK c \in Seq(WorkerIds) :
        /\ c = CandidatesOf(n) /\ IsInjective(c) /\ c # << >>
        /\ ToSet(c) = {w \in WorkerIds : n \in ToSet(assignment[w])}
  BY CandidatesOfIs
<1>2. \A v, w \in ToSet(c) : v = w
  BY <1>1 DEF Sole, WorkerIds
<1>3. PICK m \in Nat : Len(c) = m /\ DOMAIN c = 1..m /\ m # 0
  BY <1>1
<1>4. \A i, j \in 1..m : c[i] = c[j]
  BY <1>2, <1>3 DEF ToSet
<1>5. \A i, j \in 1..m : i = j
  BY <1>1, <1>3, <1>4 DEF IsInjective
<1>6. m = 1
  BY <1>3, <1>5
<1> QED BY <1>1, <1>3, <1>6

(* A fitting assignment passes the checks of                               *)
(* _collect_node_worker_candidates.                                        *)
LEMMA FittingIsValid ==
  ASSUME JobKnown, FitsGraph(assignment)
  PROVE  ValidAssignment
BY FitsMeans DEF ValidAssignment, FitsGraph

(* A job that is planned by topological sort has no node on two workers,   *)
(* in no plan that is used or cached; so nothing is cut, and only a        *)
(* missing GPU is a reason to refuse.                                      *)
ByTopology == job.optimizer = "topological_sort"
SoleInv ==
  ByTopology =>
    /\ \A k \in DOMAIN cache : Sole(cache[k])
    /\ at = "submit" => Sole(assignment)
    /\ at \notin {"shard", "assign"}
    /\ at = "refused" => GpuRefused

(* Every step keeps it.                                                    *)
LEMMA SoleStep == SoleInv /\ BufferInv /\ RewriteInv /\ [Next]_vars => SoleInv'
<1> SUFFICES ASSUME SoleInv, BufferInv, RewriteInv, [Next]_vars, ByTopology' PROVE SoleInv'
  BY DEF SoleInv
<1>1. JobKnown
  BY DEF BufferInv
<1>2. job' = job
  BY DEF Next, Submit, Reserve, Merge, Plan, Rewrite, Run, DealOut, FailBatch, Finalize,
         Forget, vars, pipelineVars
<1>3. /\ \A k \in DOMAIN cache : Sole(cache[k])
      /\ at = "submit" => Sole(assignment)
      /\ at \notin {"shard", "assign"}
      /\ at = "refused" => GpuRefused
  BY <1>2 DEF SoleInv, ByTopology
<1>4. CASE Submit \/ Reserve \/ Merge \/ Run \/ DealOut \/ FailBatch \/ Finalize
  <2>1. cache' = cache
    BY <1>4 DEF Submit, Reserve, Merge, Run, DealOut, FailBatch, Finalize, Forget
  <2>2. at' \in {"idle", "rejected", "merge", "plan", "broken", "ran", "done"}
    BY <1>4 DEF Submit, Reserve, Merge, Run, DealOut, FailBatch, Finalize
  <2> QED BY <1>3, <2>1, <2>2 DEF SoleInv
<1>5. CASE Plan
  <2>1. GraphOK(graph)
    BY <1>5 DEF Plan, RewriteInv
  <2>2. Plans = {TopologicalPlan}
    BY <1>2 DEF Plans, ByTopology
  <2>3. \A plan \in Plans : Sole(plan)
    BY <1>1, <2>1, <2>2, TopologicalPlanIs
  <2>4. CASE CacheHit /\ assignment' = cache[CacheKey] /\ at' = "submit" /\ cache' = cache
    BY <1>3, <2>4 DEF SoleInv, CacheHit
  <2>5. CASE /\ at' = "submit"
             /\ \E plan \in Plans :
                  /\ assignment' = plan
                  /\ cache' = [k \in DOMAIN cache \cup {CacheKey} |->
                                 IF k = CacheKey THEN plan ELSE cache[k]]
    <3>1. PICK plan \in Plans :
            /\ assignment' = plan
            /\ cache' = [k \in DOMAIN cache \cup {CacheKey} |->
                           IF k = CacheKey THEN plan ELSE cache[k]]
      BY <2>5
    <3>2. \A k \in DOMAIN cache' :
            cache'[k] = plan \/ (k \in DOMAIN cache /\ cache'[k] = cache[k])
      BY <3>1
    <3>3. \A k \in DOMAIN cache' : Sole(cache'[k])
      BY <3>2, <1>3, <2>3
    <3> QED BY <2>5, <3>1, <3>3, <2>3 DEF SoleInv
  <2>6. CASE at' = "broken" /\ cache' = cache
    BY <1>3, <2>6 DEF SoleInv
  <2> QED BY <1>5, <2>4, <2>5, <2>6 DEF Plan
<1>6. CASE Rewrite
  <2>1. cache' = cache /\ RewriteNext
    BY <1>6 DEF Rewrite, pipelineVars
  <2>2. CASE CollectCandidates
    <3>1. FitsGraph(assignment) /\ Sole(assignment)
      BY <2>2, <1>3 DEF CollectCandidates, RewriteInv
    <3>2. ValidAssignment
      BY <1>1, <3>1, FittingIsValid
    <3>3. CASE GpuRefused
      <4>1. at' = "refused" /\ gpuCount' = gpuCount /\ graph' = graph
        BY <2>2, <3>3 DEF CollectCandidates, Refuse
      <4>2. GpuRefused'
        BY <4>1, <3>3 DEF GpuRefused
      <4> QED BY <4>1, <4>2, <2>1, <1>3 DEF SoleInv
    <3>4. CASE ~GpuRefused
      <4>1. candidates' = [n \in Nodes |-> CandidatesOf(n)]
        BY <2>2, <3>2, <3>4 DEF CollectCandidates
      <4>2. \A n \in Nodes : Len(candidates'[n]) = 1
        BY <4>1, <1>1, <3>1, SoleCandidate
      <4>3. at' = "hint"
        BY <2>2, <3>2, <3>4, <4>2 DEF CollectCandidates
      <4> QED BY <4>3, <2>1, <1>3 DEF SoleInv
    <3> QED BY <3>3, <3>4
  <2>3. CASE BuildHint
    <3>1. at' \in {"hinted", "unhinted"}
      BY <2>3 DEF BuildHint, Refuse
    <3> QED BY <3>1, <2>1, <1>3 DEF SoleInv
  <2>4. ~(ShardNode \/ EmitNodes \/ AssignShards)
    BY <1>3 DEF ShardNode, EmitNodes, AssignShards
  <2> QED BY <2>1, <2>2, <2>3, <2>4 DEF RewriteNext
<1>7. CASE UNCHANGED vars
  <2>1. cache' = cache /\ at' = at /\ assignment' = assignment /\ graph' = graph
        /\ gpuCount' = gpuCount
    BY <1>7 DEF vars, pipelineVars, rewriteVars
  <2> QED BY <1>3, <2>1 DEF SoleInv, GpuRefused
<1> QED BY <1>4, <1>5, <1>6, <1>7 DEF Next

(* It holds throughout.                                                    *)
LEMMA SoleInvariant == Spec => []SoleInv
<1>1. Init => SoleInv
  BY DEF Init, SoleInv
<1> QED BY <1>1, SoleStep, Invariants, PTL DEF Spec

(* For every job planned by topological sort, cached plans included: the   *)
(* checks between planning and submission (_collect_node_worker_candidates *)
(* and those of the shard rewrite) refuse no plan, except where a node     *)
(* needs a GPU and none was asked for.                                     *)
THEOREM TopologicalPlansAccepted ==
  Spec => [](job.optimizer = "topological_sort" => PlansAccepted)
<1>1. SoleInv => (job.optimizer = "topological_sort" => PlansAccepted)
  BY DEF SoleInv, ByTopology, PlansAccepted
<1> QED BY <1>1, SoleInvariant, PTL

(* The plan of TopologicalSortOptimizer for any batch of any job passes    *)
(* _validate_schedule, so that planning never ends such a batch.           *)
THEOREM TopologicalPlansFit == Spec => [](at = "plan" => FitsGraph(TopologicalPlan))
<1>1. BufferInv /\ RewriteInv => (at = "plan" => FitsGraph(TopologicalPlan))
  <2> SUFFICES ASSUME BufferInv, RewriteInv, at = "plan" PROVE FitsGraph(TopologicalPlan)
    OBVIOUS
  <2>1. JobKnown /\ GraphOK(graph)
    BY DEF BufferInv, RewriteInv
  <2> QED BY <2>1, TopologicalPlanIs
<1> QED BY <1>1, Invariants, PTL

=============================================================================
