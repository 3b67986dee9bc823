---------------------------- MODULE CollectionProofs -------------------------
(***************************************************************************)
(* Lemmas about the sequences and finite orders that the queue modules are *)
(* built from.  Induction is done by looking at a smallest counterexample. *)
(***************************************************************************)
EXTENDS Deques, FiniteSets, SequenceTheorems, FiniteSetTheorems,
        WellFoundedInduction, TLAPS

(* Every non-empty set of naturals has a least element.                    *)
LEMMA SmallestNat ==
  ASSUME NEW T \in SUBSET Nat, T # {}
  PROVE  \E x \in T : \A y \in T : x <= y
<1>1. \E x \in T : \A y \in T : ~ (<<y, x>> \in OpToRel(<, Nat))
  BY NatLessThanWellFounded, WFMin
<1>2. PICK x \in T : \A y \in T : ~ (<<y, x>> \in OpToRel(<, Nat))
  BY <1>1
<1>3. \A y \in T : x <= y
  <2> TAKE y \in T
  <2>1. ~ (y < x)
    BY <1>2 DEF OpToRel
  <2> QED BY <2>1
<1> QED BY <1>3

(***************************************************************************)
(* What Keep computes.  Its defining recursion has a solution, and every   *)
(* solution lists exactly the kept elements, each as often as s does.      *)
(***************************************************************************)
KeepStep(f, s, S, n) ==
  IF n = 0 THEN << >>
  ELSE IF s[n] \in S THEN Append(f[n - 1], s[n]) ELSE f[n - 1]

(* Keep(s, S) is the value at Len(s) of a solution of its recursion.  The  *)
(* solution is built up over the prefixes of s.                            *)
LEMMA KeepUnfold ==
  ASSUME NEW A, NEW s \in Seq(A), NEW S
  PROVE  \E f : /\ \A n \in 0..Len(s) : f[n] = KeepStep(f, s, S, n)
                /\ Keep(s, S) = f[Len(s)]
<1> DEFINE Ok(m) == \E f \in [0..m -> Seq(A)] :
                      \A n \in 0..m : f[n] = KeepStep(f, s, S, n)
           Bad == {m \in 0..Len(s) : ~ Ok(m)}
<1>1. Len(s) \in Nat
  OBVIOUS
<1>2. Ok(0)
  <2>1. [n \in 0..0 |-> << >>] \in [0..0 -> Seq(A)]
    OBVIOUS
  <2>2. \A n \in 0..0 : [k \in 0..0 |-> << >>][n] = KeepStep([k \in 0..0 |-> << >>], s, S, n)
    BY DEF KeepStep
  <2> QED BY <2>1, <2>2, Zenon
<1>3. ASSUME NEW m \in 1..Len(s), Ok(m - 1)
      PROVE  Ok(m)
  <2>1. PICK f \in [0..(m - 1) -> Seq(A)] :
               \A n \in 0..(m - 1) : f[n] = KeepStep(f, s, S, n)
    BY <1>3
  <2> DEFINE last == IF s[m] \in S THEN Append(f[m - 1], s[m]) ELSE f[m - 1]
             g == [n \in 0..m |-> IF n = m THEN last ELSE f[n]]
  <2>2. last \in Seq(A)
    <3>1. s[m] \in A /\ f[m - 1] \in Seq(A)
      BY <1>1
    <3> QED BY <3>1
  <2>3. g \in [0..m -> Seq(A)]
    BY <2>2, <1>1
  <2>4. \A n \in 0..m : g[n] = KeepStep(g, s, S, n)
    <3> TAKE n \in 0..m
    <3>1. CASE n = m
      <4>1. g[n] = last /\ g[n - 1] = f[m - 1] /\ n # 0
        BY <3>1, <1>1
      <4> QED BY <4>1, <3>1 DEF KeepStep
    <3>2. CASE n # m
      <4>1. n \in 0..(m - 1) /\ g[n] = f[n]
        BY <3>2, <1>1
      <4>2. n # 0 => g[n - 1] = f[n - 1]
        BY <4>1, <1>1
      <4>3. f[n] = KeepStep(f, s, S, n)
        BY <2>1, <4>1
      <4> QED BY <4>1, <4>2, <4>3 DEF KeepStep
    <3> QED BY <3>1, <3>2
  <2> HIDE DEF g
  <2> QED BY <2>3, <2>4
<1>4. ASSUME Bad # {} PROVE FALSE
  <2> HIDE DEF Ok
  <2>1. Bad \in SUBSET Nat
    BY <1>1
  <2>2. PICK m \in Bad : \A k \in Bad : m <= k
    BY <2>1, <1>4, SmallestNat
  <2>3. m # 0
    BY <1>2
  <2>4. m \in 1..Len(s) /\ m - 1 \in 0..Len(s)
    BY <2>1, <2>3, <1>1
  <2>5. Ok(m - 1)
    BY <2>1, <2>2, <2>4
  <2>6. Ok(m)
    BY <1>3, <2>4, <2>5
  <2> QED BY <2>6
<1>5. Ok(Len(s))
  <2> HIDE DEF Ok
  <2> QED BY <1>1, <1>4
<1>6. PICK g \in [0..Len(s) -> Seq(A)] :
             \A n \in 0..Len(s) : g[n] = KeepStep(g, s, S, n)
  BY <1>5
<1>7. g = [n \in 0..Len(s) |-> KeepStep(g, s, S, n)]
  BY <1>6
<1> DEFINE kept == CHOOSE f : f = [n \in 0..Len(s) |-> KeepStep(f, s, S, n)]
<1>8. kept = [n \in 0..Len(s) |-> KeepStep(kept, s, S, n)]
  BY <1>7
<1>9. Keep(s, S) = kept[Len(s)]
  BY DEF Keep, KeepStep
<1>10. \A n \in 0..Len(s) : kept[n] = KeepStep(kept, s, S, n)
  <2> HIDE DEF kept
  <2> TAKE n \in 0..Len(s)
  <2>1. [k \in 0..Len(s) |-> KeepStep(kept, s, S, k)][n] = KeepStep(kept, s, S, n)
    OBVIOUS
  <2> QED BY <1>8, <2>1, Zenon
<1> HIDE DEF kept
<1> QED BY <1>9, <1>10, Zenon

(* Appending adds one element, and keeps a duplicate-free sequence         *)
(* duplicate-free when the element is new.                                 *)
LEMMA AppendElements ==
  ASSUME NEW A, NEW t \in Seq(A), NEW x \in A
  PROVE  /\ Append(t, x) \in Seq(A)
         /\ Range(Append(t, x)) = Range(t) \cup {x}
         /\ IsInjective(t) /\ x \notin Range(t) => IsInjective(Append(t, x))
<1>1. /\ Append(t, x) \in Seq(A)
      /\ DOMAIN Append(t, x) = 1..(Len(t) + 1)
      /\ DOMAIN t = 1..Len(t)
      /\ Len(t) \in Nat
      /\ \A i \in 1..Len(t) : Append(t, x)[i] = t[i]
      /\ Append(t, x)[Len(t) + 1] = x
  OBVIOUS
<1>2. Range(Append(t, x)) = Range(t) \cup {x}
  <2>1. ASSUME NEW y \in Range(Append(t, x)) PROVE y \in Range(t) \cup {x}
    BY <1>1 DEF Range
  <2>2. ASSUME NEW y \in Range(t) \cup {x} PROVE y \in Range(Append(t, x))
    <3>1. CASE y = x
      <4>1. Len(t) + 1 \in DOMAIN Append(t, x)
        BY <1>1
      <4> QED BY <3>1, <4>1, <1>1 DEF Range
    <3>2. CASE y \in Range(t)
      <4>1. PICK i \in 1..Len(t) : y = t[i]
        BY <3>2, <1>1 DEF Range
      <4>2. i \in DOMAIN Append(t, x) /\ Append(t, x)[i] = y
        BY <1>1, <4>1
      <4> QED BY <4>2 DEF Range
    <3> QED BY <3>1, <3>2, <2>2
  <2> QED BY <2>1, <2>2
<1>3. ASSUME IsInjective(t), x \notin Range(t),
             NEW a \in DOMAIN Append(t, x), NEW b \in DOMAIN Append(t, x),
             Append(t, x)[a] = Append(t, x)[b]
      PROVE  a = b
  <2>1. \A i \in 1..Len(t) : t[i] # x
    BY <1>1, <1>3 DEF Range
  <2>2. \A i, j \in 1..Len(t) : t[i] = t[j] => i = j
    BY <1>1, <1>3 DEF IsInjective
  <2>3. a \in 1..(Len(t) + 1) /\ b \in 1..(Len(t) + 1)
    BY <1>1, <1>3
  <2> QED BY <1>1, <1>3, <2>1, <2>2, <2>3
<1> QED BY <1>1, <1>2, <1>3 DEF IsInjective

(* Concatenation adds the elements of the second sequence.                 *)
LEMMA ConcatElements ==
  ASSUME NEW A, NEW t \in Seq(A), NEW r \in Seq(A)
  PROVE  /\ t \o r \in Seq(A)
         /\ Range(t \o r) = Range(t) \cup Range(r)
         /\ IsInjective(t) /\ IsInjective(r) /\ Range(t) \cap Range(r) = {}
              => IsInjective(t \o r)
         /\ r # << >> => t \o r # << >>
<1>1. /\ t \o r \in Seq(A)
      /\ DOMAIN (t \o r) = 1..(Len(t) + Len(r))
      /\ DOMAIN t = 1..Len(t) /\ DOMAIN r = 1..Len(r)
      /\ Len(t) \in Nat /\ Len(r) \in Nat
      /\ \A i \in 1..Len(t) : (t \o r)[i] = t[i]
      /\ \A i \in 1..(Len(t) + Len(r)) : i > Len(t) => (t \o r)[i] = r[i - Len(t)]
  OBVIOUS
<1>2. ASSUME NEW y \in Range(t \o r) PROVE y \in Range(t) \cup Range(r)
  <2>1. PICK i \in 1..(Len(t) + Len(r)) : y = (t \o r)[i]
    BY <1>1, <1>2 DEF Range
  <2>2. CASE i \in 1..Len(t)
    BY <1>1, <2>1, <2>2 DEF Range
  <2>3. CASE i > Len(t)
    <3>1. i - Len(t) \in DOMAIN r /\ y = r[i - Len(t)]
      BY <1>1, <2>1, <2>3
    <3> QED BY <3>1 DEF Range
  <2> QED BY <1>1, <2>1, <2>2, <2>3
<1>3. ASSUME NEW y \in Range(t) \cup Range(r) PROVE y \in Range(t \o r)
  <2>1. CASE y \in Range(t)
    <3>1. PICK i \in 1..Len(t) : y = t[i]
      BY <1>1, <2>1 DEF Range
    <3>2. i \in DOMAIN (t \o r) /\ (t \o r)[i] = y
      BY <1>1, <3>1
    <3> QED BY <3>2 DEF Range
  <2>2. CASE y \in Range(r)
    <3>1. PICK i \in 1..Len(r) : y = r[i]
      BY <1>1, <2>2 DEF Range
    <3>2. i + Len(t) \in DOMAIN (t \o r) /\ (t \o r)[i + Len(t)] = y
      BY <1>1, <3>1
    <3> QED BY <3>2 DEF Range
  <2> QED BY <1>3, <2>1, <2>2
<1>4. ASSUME IsInjective(t), IsInjective(r), Range(t) \cap Range(r) = {},
             NEW a \in DOMAIN (t \o r), NEW b \in DOMAIN (t \o r),
             (t \o r)[a] = (t \o r)[b]
      PROVE  a = b
  <2>1. \A i \in 1..Len(t), j \in 1..Len(r) : t[i] # r[j]
    BY <1>1, <1>4 DEF Range
  <2>2. \A i, j \in 1..Len(t) : t[i] = t[j] => i = j
    BY <1>1, <1>4 DEF IsInjective
  <2>3. \A i, j \in 1..Len(r) : r[i] = r[j] => i = j
    BY <1>1, <1>4 DEF IsInjective
  <2>4. a \in 1..(Len(t) + Len(r)) /\ b \in 1..(Len(t) + Len(r))
    BY <1>1, <1>4
  <2>5. CASE a <= Len(t) /\ b <= Len(t)
    BY <1>1, <1>4, <2>2, <2>4, <2>5
  <2>6. CASE a > Len(t) /\ b > Len(t)
    <3>1. a - Len(t) \in 1..Len(r) /\ b - Len(t) \in 1..Len(r)
      BY <1>1, <2>4, <2>6
    <3>2. r[a - Len(t)] = r[b - Len(t)]
      BY <1>1, <1>4, <2>4, <2>6
    <3>3. a - Len(t) = b - Len(t)
      BY <2>3, <3>1, <3>2
    <3> QED BY <3>3, <2>4, <1>1
  <2>7. CASE a <= Len(t) /\ b > Len(t)
    BY <1>1, <1>4, <2>1, <2>4, <2>7
  <2>8. CASE a > Len(t) /\ b <= Len(t)
    BY <1>1, <1>4, <2>1, <2>4, <2>8
  <2> QED BY <1>1, <2>4, <2>5, <2>6, <2>7, <2>8
<1>5. r # << >> => t \o r # << >>
  OBVIOUS
<1> QED BY <1>1, <1>2, <1>3, <1>4, <1>5 DEF IsInjective

(* Rotating a non-empty deque keeps its elements and its being             *)
(* duplicate-free.                                                         *)
LEMMA RotateElements ==
  ASSUME NEW A, NEW t \in Seq(A), t # << >>
  PROVE  /\ Rotate(t) \in Seq(A)
         /\ Range(Rotate(t)) = Range(t)
         /\ IsInjective(t) => IsInjective(Rotate(t))
<1>1. /\ Tail(t) \in Seq(A) /\ Head(t) \in A /\ Head(t) = t[1]
      /\ Len(t) \in Nat /\ Len(t) >= 1 /\ Len(Tail(t)) = Len(t) - 1
      /\ DOMAIN t = 1..Len(t) /\ DOMAIN Tail(t) = 1..(Len(t) - 1)
      /\ \A i \in 1..(Len(t) - 1) : Tail(t)[i] = t[i + 1]
  OBVIOUS
<1>2. Range(t) = Range(Tail(t)) \cup {Head(t)}
  <2>1. ASSUME NEW y \in Range(t) PROVE y \in Range(Tail(t)) \cup {Head(t)}
    <3>1. PICK i \in 1..Len(t) : y = t[i]
      BY <1>1, <2>1 DEF Range
    <3>2. CASE i = 1
      BY <1>1, <3>1, <3>2
    <3>3. CASE i # 1
      <4>1. i - 1 \in DOMAIN Tail(t) /\ Tail(t)[i - 1] = y
        BY <1>1, <3>1, <3>3
      <4> QED BY <4>1 DEF Range
    <3> QED BY <3>2, <3>3
  <2>2. ASSUME NEW y \in Range(Tail(t)) \cup {Head(t)} PROVE y \in Range(t)
    <3>1. CASE y = Head(t)
      BY <1>1, <3>1 DEF Range
    <3>2. CASE y \in Range(Tail(t))
      <4>1. PICK i \in 1..(Len(t) - 1) : y = Tail(t)[i]
        BY <1>1, <3>2 DEF Range
      <4>2. i + 1 \in DOMAIN t /\ t[i + 1] = y
        BY <1>1, <4>1
      <4> QED BY <4>2 DEF Range
    <3> QED BY <2>2, <3>1, <3>2
  <2> QED BY <2>1, <2>2
<1>3. ASSUME IsInjective(t)
      PROVE  IsInjective(Tail(t)) /\ Head(t) \notin Range(Tail(t))
  <2>1. \A i, j \in 1..Len(t) : t[i] = t[j] => i = j
    BY <1>1, <1>3 DEF IsInjective
  <2>2. ASSUME NEW a \in DOMAIN Tail(t), NEW b \in DOMAIN Tail(t),
               Tail(t)[a] = Tail(t)[b]
        PROVE  a = b
    <3>1. a + 1 \in 1..Len(t) /\ b + 1 \in 1..Len(t) /\ t[a + 1] = t[b + 1]
      BY <1>1, <2>2
    <3>2. a + 1 = b + 1
      BY <2>1, <3>1
    <3> QED BY <3>2, <1>1
  <2>3. ASSUME NEW a \in DOMAIN Tail(t), Tail(t)[a] = Head(t) PROVE FALSE
    <3>1. a + 1 \in 1..Len(t) /\ t[a + 1] = t[1] /\ 1 \in 1..Len(t)
      BY <1>1, <2>3
    <3>2. a + 1 = 1
      BY <2>1, <3>1
    <3> QED BY <3>2, <1>1
  <2> QED BY <2>2, <2>3 DEF IsInjective, Range
<1>4. /\ Append(Tail(t), Head(t)) \in Seq(A)
      /\ Range(Append(Tail(t), Head(t))) = Range(Tail(t)) \cup {Head(t)}
      /\ IsInjective(Tail(t)) /\ Head(t) \notin Range(Tail(t))
           => IsInjective(Append(Tail(t), Head(t)))
  BY <1>1, AppendElements
<1> QED BY <1>2, <1>3, <1>4 DEF Rotate

(* Keep(s, S) lists exactly the elements of s that are in S, and no        *)
(* element twice when s has none twice.                                    *)
LEMMA KeepElements ==
  ASSUME NEW A, NEW s \in Seq(A), NEW S
  PROVE  /\ Keep(s, S) \in Seq(A)
         /\ Range(Keep(s, S)) = Range(s) \cap S
         /\ IsInjective(s) => IsInjective(Keep(s, S))
<1>1. PICK f : /\ \A n \in 0..Len(s) : f[n] = KeepStep(f, s, S, n)
               /\ Keep(s, S) = f[Len(s)]
  BY KeepUnfold
<1>2. /\ Len(s) \in Nat /\ DOMAIN s = 1..Len(s)
      /\ \A i \in 1..Len(s) : s[i] \in A
  OBVIOUS
<1> DEFINE Upto(n) == {s[i] : i \in 1..n} \cap S
           Ok(n) == /\ f[n] \in Seq(A)
                    /\ Range(f[n]) = Upto(n)
                    /\ IsInjective(s) => IsInjective(f[n])
           Bad == {n \in 0..Len(s) : ~ Ok(n)}
<1>3. Ok(0)
  <2>1. f[0] = << >>
    BY <1>1, <1>2 DEF KeepStep
  <2>2. Range(<< >>) = {} /\ IsInjective(<< >>) /\ Upto(0) = {}
    BY DEF Range, IsInjective
  <2> QED BY <2>1, <2>2
<1>4. ASSUME NEW n \in 1..Len(s), Ok(n - 1)
      PROVE  Ok(n)
  <2>1. f[n] = IF s[n] \in S THEN Append(f[n - 1], s[n]) ELSE f[n - 1]
    <3>1. n \in 0..Len(s) /\ n # 0
      BY <1>2
    <3>2. f[n] = KeepStep(f, s, S, n)
      BY <1>1, <3>1, Zenon
    <3> QED BY <3>1, <3>2 DEF KeepStep
  <2>2. 1..n = (1..(n - 1)) \cup {n}
    BY <1>2
  <2>3. Upto(n) = Upto(n - 1) \cup ({s[n]} \cap S)
    BY <2>2
  <2>4. s[n] \in A
    BY <1>2
  <2>5. CASE s[n] \in S
    <3>1. /\ Append(f[n - 1], s[n]) \in Seq(A)
          /\ Range(Append(f[n - 1], s[n])) = Range(f[n - 1]) \cup {s[n]}
          /\ IsInjective(f[n - 1]) /\ s[n] \notin Range(f[n - 1])
               => IsInjective(Append(f[n - 1], s[n]))
      BY <1>4, <2>4, AppendElements
    <3>2. ASSUME IsInjective(s) PROVE s[n] \notin Upto(n - 1)
      <4>1. \A i \in 1..(n - 1) : s[i] # s[n]
        BY <1>2, <3>2 DEF IsInjective
      <4> QED BY <4>1
    <3> HIDE DEF Upto
    <3> QED BY <1>4, <2>1, <2>3, <2>5, <3>1, <3>2
  <2>6. CASE s[n] \notin S
    <3>1. Upto(n) = Upto(n - 1)
      BY <2>3, <2>6
    <3> HIDE DEF Upto
    <3> QED BY <1>4, <2>1, <2>6, <3>1
  <2> QED BY <2>5, <2>6
<1>5. ASSUME Bad # {} PROVE FALSE
  <2> HIDE DEF Ok
  <2>1. Bad \in SUBSET Nat
    BY <1>2
  <2>2. PICK m \in Bad : \A k \in Bad : m <= k
    BY <2>1, <1>5, SmallestNat
  <2>3. m # 0
    BY <1>3
  <2>4. m \in 1..Len(s) /\ m - 1 \in 0..Len(s)
    BY <2>1, <2>3, <1>2
  <2>5. Ok(m - 1)
    BY <2>1, <2>2, <2>4
  <2>6. Ok(m)
    BY <1>4, <2>4, <2>5
  <2> QED BY <2>6
<1>6. Ok(Len(s))
  <2> HIDE DEF Ok
  <2> QED BY <1>2, <1>5
<1>7. Upto(Len(s)) = Range(s) \cap S
  BY <1>2 DEF Range
<1> QED BY <1>1, <1>6, <1>7

(* Keeping everything changes nothing.                                     *)
LEMMA KeepAll ==
  ASSUME NEW A, NEW s \in Seq(A), NEW S, Range(s) \subseteq S
  PROVE  Keep(s, S) = s
<1>1. PICK f : /\ \A n \in 0..Len(s) : f[n] = KeepStep(f, s, S, n)
               /\ Keep(s, S) = f[Len(s)]
  BY KeepUnfold
<1>2. /\ Len(s) \in Nat /\ DOMAIN s = 1..Len(s)
      /\ \A i \in 1..Len(s) : s[i] \in A /\ s[i] \in S
  BY DEF Range
<1> DEFINE Ok(n) == f[n] = SubSeq(s, 1, n)
           Bad == {n \in 0..Len(s) : ~ Ok(n)}
<1>3. Ok(0)
  <2>1. f[0] = << >>
    BY <1>1, <1>2 DEF KeepStep
  <2> QED BY <2>1, <1>2
<1>4. ASSUME NEW n \in 1..Len(s), Ok(n - 1)
      PROVE  Ok(n)
  <2>1. f[n] = Append(f[n - 1], s[n])
    <3>1. n \in 0..Len(s) /\ n # 0 /\ s[n] \in S
      BY <1>2
    <3>2. f[n] = KeepStep(f, s, S, n)
      BY <1>1, <3>1, Zenon
    <3> QED BY <3>1, <3>2 DEF KeepStep
  <2>2. SubSeq(s, 1, n) = Append(SubSeq(s, 1, n - 1), s[n])
    <3>1. /\ SubSeq(s, 1, n) \in Seq(A) /\ SubSeq(s, 1, n - 1) \in Seq(A)
          /\ Len(SubSeq(s, 1, n)) = n /\ Len(SubSeq(s, 1, n - 1)) = n - 1
          /\ \A i \in 1..n : SubSeq(s, 1, n)[i] = s[i]
          /\ \A i \in 1..(n - 1) : SubSeq(s, 1, n - 1)[i] = s[i]
      BY <1>2
    <3>2. /\ Append(SubSeq(s, 1, n - 1), s[n]) \in Seq(A)
          /\ Len(Append(SubSeq(s, 1, n - 1), s[n])) = n
          /\ \A i \in 1..n : Append(SubSeq(s, 1, n - 1), s[n])[i] = s[i]
      BY <1>2, <3>1
    <3> QED BY <3>1, <3>2, SeqEqual
  <2> QED BY <1>4, <2>1, <2>2
<1>5. ASSUME Bad # {} PROVE FALSE
  <2> HIDE DEF Ok
  <2>1. Bad \in SUBSET Nat
    BY <1>2
  <2>2. PICK m \in Bad : \A k \in Bad : m <= k
    BY <2>1, <1>5, SmallestNat
  <2>3. m # 0
    BY <1>3
  <2>4. m \in 1..Len(s) /\ m - 1 \in 0..Len(s)
    BY <2>1, <2>3, <1>2
  <2>5. Ok(m - 1)
    BY <2>1, <2>2, <2>4
  <2>6. Ok(m)
    BY <1>4, <2>4, <2>5
  <2> QED BY <2>6
<1>6. Ok(Len(s))
  <2> HIDE DEF Ok
  <2> QED BY <1>2, <1>5
<1>7. SubSeq(s, 1, Len(s)) = s
  OBVIOUS
<1> QED BY <1>1, <1>6, <1>7

-----------------------------------------------------------------------------
(***************************************************************************)
(* Strict total orders on a finite set, given as sets of pairs.            *)
(***************************************************************************)
IsStrictOrder(R, S) ==
  /\ \A x \in S : <<x, x>> \notin R
  /\ \A x, y, z \in S : <<x, y>> \in R /\ <<y, z>> \in R => <<x, z>> \in R
  /\ \A x, y \in S : x = y \/ <<x, y>> \in R \/ <<y, x>> \in R

Below(R, S, x) == {y \in S : <<y, x>> \in R}

(* A smaller element has fewer elements below it.                          *)
LEMMA RankMonotone ==
  ASSUME NEW S, NEW R, IsFiniteSet(S), IsStrictOrder(R, S),
         NEW x \in S, NEW y \in S, <<x, y>> \in R
  PROVE  /\ Cardinality(Below(R, S, x)) \in Nat
         /\ Cardinality(Below(R, S, y)) \in Nat
         /\ Cardinality(Below(R, S, x)) < Cardinality(Below(R, S, y))
<1>1. Below(R, S, x) \subseteq Below(R, S, y)
  BY DEF Below, IsStrictOrder
<1>2. x \in Below(R, S, y) /\ x \notin Below(R, S, x)
  BY DEF Below, IsStrictOrder
<1>3. Below(R, S, y) \in SUBSET S /\ Below(R, S, x) \in SUBSET S
  BY DEF Below
<1>4. IsFiniteSet(Below(R, S, y)) /\ IsFiniteSet(Below(R, S, x))
  BY <1>3, FS_Subset
<1>5. /\ Cardinality(Below(R, S, x)) \in Nat
      /\ Cardinality(Below(R, S, y)) \in Nat
  BY <1>4, FS_CardinalityType
<1>6. /\ Cardinality(Below(R, S, x)) <= Cardinality(Below(R, S, y))
      /\ Cardinality(Below(R, S, y)) = Cardinality(Below(R, S, x))
           => Below(R, S, y) = Below(R, S, x)
  BY <1>1, <1>4, FS_Subset
<1> QED BY <1>2, <1>5, <1>6

(* A non-empty finite set has a least element.                             *)
LEMMA LeastElement ==
  ASSUME NEW S, NEW R, IsFiniteSet(S), IsStrictOrder(R, S), S # {}
  PROVE  \E x \in S : /\ Below(R, S, x) = {}
                      /\ \A y \in S \ {x} : <<x, y>> \in R
<1> DEFINE Ranks == {Cardinality(Below(R, S, x)) : x \in S}
<1>1. \A x \in S : Cardinality(Below(R, S, x)) \in Nat
  <2> TAKE x \in S
  <2>1. Below(R, S, x) \in SUBSET S
    BY DEF Below
  <2>2. IsFiniteSet(Below(R, S, x))
    BY <2>1, FS_Subset
  <2> QED BY <2>2, FS_CardinalityType
<1>2. Ranks \in SUBSET Nat /\ Ranks # {}
  BY <1>1
<1>3. PICK r \in Ranks : \A q \in Ranks : r <= q
  BY <1>2, SmallestNat
<1>4. PICK x \in S : r = Cardinality(Below(R, S, x))
  BY <1>3
<1>5. ASSUME NEW y \in Below(R, S, x) PROVE FALSE
  <2>1. y \in S /\ <<y, x>> \in R
    BY <1>5 DEF Below
  <2>2. /\ Cardinality(Below(R, S, y)) \in Nat
        /\ Cardinality(Below(R, S, x)) \in Nat
        /\ Cardinality(Below(R, S, y)) < Cardinality(Below(R, S, x))
    BY <2>1, RankMonotone
  <2>3. r <= Cardinality(Below(R, S, y))
    BY <1>3, <2>1
  <2> QED BY <1>4, <2>2, <2>3
<1>6. Below(R, S, x) = {}
  BY <1>5
<1>7. \A y \in S \ {x} : <<x, y>> \in R
  BY <1>6 DEF Below, IsStrictOrder
<1> QED BY <1>6, <1>7

(* At most n elements have fewer than n elements below them.               *)
LEMMA RankBound ==
  ASSUME NEW S, NEW R, IsFiniteSet(S), IsStrictOrder(R, S), NEW n \in Nat,
         NEW T, T = {x \in S : Cardinality(Below(R, S, x)) < n}
  PROVE  Cardinality(T) <= n
<1>1. T \in SUBSET S
  OBVIOUS
<1>2. IsFiniteSet(T) /\ Cardinality(T) \in Nat
  <2>1. IsFiniteSet(T)
    BY <1>1, FS_Subset
  <2> QED BY <2>1, FS_CardinalityType
<1>3. IsFiniteSet(0..(n - 1)) /\ Cardinality(0..(n - 1)) = n
  <2>1. 0 \in Int /\ n - 1 \in Int
    OBVIOUS
  <2>2. /\ IsFiniteSet(0..(n - 1))
        /\ Cardinality(0..(n - 1)) = IF 0 > n - 1 THEN 0 ELSE (n - 1) - 0 + 1
    BY <2>1, FS_Interval
  <2> QED BY <2>2
<1> DEFINE rank == [x \in T |-> Cardinality(Below(R, S, x))]
<1>4. rank \in [T -> 0..(n - 1)]
  <2>1. ASSUME NEW x \in T PROVE Cardinality(Below(R, S, x)) \in 0..(n - 1)
    <3>1. Below(R, S, x) \in SUBSET S
      BY DEF Below
    <3>2. IsFiniteSet(Below(R, S, x))
      BY <3>1, FS_Subset
    <3>3. Cardinality(Below(R, S, x)) \in Nat
      BY <3>2, FS_CardinalityType
    <3>4. Cardinality(Below(R, S, x)) < n
      OBVIOUS
    <3> QED BY <3>3, <3>4
  <2> QED BY <2>1
<1>5. ASSUME Cardinality(T) > n PROVE FALSE
  <2>1. Cardinality(0..(n - 1)) < Cardinality(T)
    BY <1>2, <1>3, <1>5
  <2> HIDE DEF rank
  <2>2. PICK x, y \in T : x # y /\ rank[x] = rank[y]
    BY <1>2, <1>3, <1>4, <2>1, FS_PigeonHole
  <2> USE DEF rank
  <2>3. Cardinality(Below(R, S, x)) = Cardinality(Below(R, S, y))
    BY <2>2
  <2>4. <<x, y>> \in R \/ <<y, x>> \in R
    BY <2>2, <1>1 DEF IsStrictOrder
  <2>5. CASE <<x, y>> \in R
    <3>1. /\ Cardinality(Below(R, S, x)) \in Nat
          /\ Cardinality(Below(R, S, y)) \in Nat
          /\ Cardinality(Below(R, S, x)) < Cardinality(Below(R, S, y))
      BY <1>1, <2>5, RankMonotone
    <3> QED BY <2>3, <3>1
  <2>6. CASE <<y, x>> \in R
    <3>1. /\ Cardinality(Below(R, S, y)) \in Nat
          /\ Cardinality(Below(R, S, x)) \in Nat
          /\ Cardinality(Below(R, S, y)) < Cardinality(Below(R, S, x))
      BY <1>1, <2>6, RankMonotone
    <3> QED BY <2>3, <3>1
  <2> QED BY <2>4, <2>5, <2>6
<1> QED BY <1>2, <1>5

=============================================================================
