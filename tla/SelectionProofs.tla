-------------------------- MODULE SelectionProofs --------------------------
(***************************************************************************)
(* What PriorityJobManager's selection promises to the workflows and users *)
(* of the pool, for any pool and any batch size.                           *)
(***************************************************************************)
EXTENDS JobQueueProofs

(* Of a finite, strictly ordered set there are n elements with fewer than  *)
(* n below them, and they come before all others.                          *)
LEMMA RankFull ==
  ASSUME NEW S, NEW R, IsFiniteSet(S), IsStrictOrder(R, S), NEW n \in Nat,
         n <= Cardinality(S),
         NEW T, T = {x \in S : Cardinality(Below(R, S, x)) < n}
  PROVE  /\ Cardinality(T) = n
         /\ \A x \in T, y \in S \ T : <<x, y>> \in R
<1>1. T \in SUBSET S /\ Cardinality(T) <= n
  BY RankBound
<1>2. IsFiniteSet(T) /\ Cardinality(T) \in Nat /\ Cardinality(S) \in Nat
  BY <1>1, FS_Subset, FS_CardinalityType
<1>3. ASSUME Cardinality(T) < n PROVE FALSE
  <2>1. S \ T # {}
    <3>1. S # T
      BY <1>2, <1>3
    <3> QED BY <1>1, <3>1
  <2>2. IsFiniteSet(S \ T) /\ IsStrictOrder(R, S \ T)
    <3>1. IsFiniteSet(S \ T)
      BY FS_Subset, S \ T \in SUBSET S
    <3> QED BY <3>1 DEF IsStrictOrder
  <2>3. PICK x \in S \ T : \A y \in (S \ T) \ {x} : <<x, y>> \in R
    BY <2>1, <2>2, LeastElement
  <2>4. Below(R, S, x) \in SUBSET T
    BY <2>3 DEF Below, IsStrictOrder
  <2>5. Cardinality(Below(R, S, x)) \in Nat /\ Cardinality(Below(R, S, x)) <= Cardinality(T)
    BY <1>2, <2>4, FS_Subset, FS_CardinalityType
  <2>6. Cardinality(Below(R, S, x)) < n
    BY <1>2, <1>3, <2>5
  <2> QED BY <2>3, <2>6
<1>4. ASSUME NEW x \in T, NEW y \in S \ T PROVE <<x, y>> \in R
  <2>1. x \in S /\ x # y
    BY <1>1
  <2>2. ASSUME <<y, x>> \in R PROVE FALSE
    <3>1. /\ Cardinality(Below(R, S, y)) < Cardinality(Below(R, S, x))
          /\ Cardinality(Below(R, S, x)) \in Nat /\ Cardinality(Below(R, S, y)) \in Nat
      BY <2>1, <2>2, RankMonotone
    <3>2. Cardinality(Below(R, S, x)) < n
      BY <1>4
    <3>3. y \in T
      BY <3>1, <3>2
    <3> QED BY <3>3
  <2> QED BY <2>1, <2>2 DEF IsStrictOrder
<1> QED BY <1>1, <1>2, <1>3, <1>4

(* The n oldest are n, if there are so many, and no other is older.        *)
LEMMA OldestFull ==
  ASSUME TypeOK, QueuedOnce, UserRotationComplete, ArrivalsListQueued,
         NEW S \in SUBSET Queued, \A v, w \in S : Part(v) = Part(w),
         NEW n \in Nat, n <= Cardinality(S)
  PROVE  /\ Oldest(S, n) \subseteq S /\ Cardinality(Oldest(S, n)) = n
         /\ \A w \in Oldest(S, n), v \in S \ Oldest(S, n) :
              IndexIn(arrivals, JobOf(w)) <= IndexIn(arrivals, JobOf(v))
<1>1. /\ IsStrictOrder(AgeOrder(S), S)
      /\ \A v, w \in S : <<v, w>> \in AgeOrder(S) <=> Older(v, w)
  BY AgeOrderStrict
<1>2. IsFiniteSet(S)
  BY QueuedFinite, FS_Subset
<1>3. \A w \in S : {v \in S : Older(v, w)} = Below(AgeOrder(S), S, w)
  BY <1>1 DEF Below
<1>4. Oldest(S, n) = {w \in S : Cardinality(Below(AgeOrder(S), S, w)) < n}
  BY <1>3 DEF Oldest
<1>5. /\ Cardinality(Oldest(S, n)) = n
      /\ \A w \in Oldest(S, n), v \in S \ Oldest(S, n) : <<w, v>> \in AgeOrder(S)
  BY <1>1, <1>2, <1>4, RankFull
<1>6. \A w \in S : IndexIn(arrivals, JobOf(w)) \in Nat
  <2> TAKE w \in S
  <2>1. arrivals \in Seq(Jobs) /\ JobOf(w) \in Range(arrivals)
    BY DEF TypeOK, ArrivalsListQueued
  <2> QED BY <2>1, IndexOfElement
<1>7. ASSUME NEW w \in Oldest(S, n), NEW v \in S \ Oldest(S, n)
      PROVE  IndexIn(arrivals, JobOf(w)) <= IndexIn(arrivals, JobOf(v))
  <2>1. w \in S /\ Older(w, v)
    BY <1>1, <1>4, <1>5
  <2> QED BY <1>6, <2>1 DEF Older
<1> QED BY <1>4, <1>5, <1>7

-----------------------------------------------------------------------------
(* A batch S of the pool passes no starved workflow over but for starved   *)
(* ones that are as old, and serves every user if it can.                  *)
StarvedFirst(pool, S) ==
  \A v \in pool \ S : Starved(v) =>
    /\ Cardinality(S) = Batch
    /\ \A w \in S :
         Starved(w) /\ IndexIn(arrivals, JobOf(w)) <= IndexIn(arrivals, JobOf(v))

UsersServed(pool, S) ==
  (/\ \A w \in pool : ~ Starved(w)
   /\ Cardinality({Owner(w) : w \in pool}) <= Batch) =>
  \A w \in pool : \E x \in S : Owner(x) = Owner(w)

(* The selection of reserve_batch does both.                               *)
LEMMA StarvedSelected ==
  ASSUME TypeOK, QueuedOnce, UserRotationComplete, ArrivalsListQueued,
         NEW pool \in SUBSET Queued, \A v, w \in pool : Part(v) = Part(w),
         NEW S \in Selections(pool)
  PROVE  StarvedFirst(pool, S)
<1> DEFINE starved == {w \in pool : Starved(w)}
<1>1. PICK picks \in AffinityPicks(pool, starved) :
             \E R \in StarvationPolicy(starved, picks) :
               S \in (IF starved = {} THEN UserFairness(pool, R) ELSE {R})
  BY DEF Selections
<1>2. starved \in SUBSET pool /\ \A w \in pool : w \in starved <=> Starved(w)
  OBVIOUS
<1> HIDE DEF starved
<1>3. PICK R \in StarvationPolicy(starved, picks) :
             S \in (IF starved = {} THEN UserFairness(pool, R) ELSE {R})
  BY <1>1
<1>4. CASE starved = {}
  BY <1>2, <1>4 DEF StarvedFirst
<1>5. CASE starved # {} /\ Cardinality(starved) >= Batch
  <2>1. S = Oldest(starved, Batch)
    BY <1>3, <1>5 DEF StarvationPolicy
  <2>2. Batch \in Nat /\ Batch <= Cardinality(starved)
    <3>1. IsFiniteSet(starved)
      <4>1. starved \in SUBSET Queued
        BY <1>2
      <4> QED BY <4>1, QueuedFinite, FS_Subset
    <3> QED BY <1>5, <3>1, BatchPositive, FS_CardinalityType
  <2>3. /\ S \subseteq starved /\ Cardinality(S) = Batch
        /\ \A w \in S, v \in starved \ S :
             IndexIn(arrivals, JobOf(w)) <= IndexIn(arrivals, JobOf(v))
    BY <1>2, <2>1, <2>2, OldestFull
  <2> QED BY <1>2, <2>3 DEF StarvedFirst
<1>6. CASE starved # {} /\ ~ (Cardinality(starved) >= Batch)
  <2>1. starved \subseteq S
    BY <1>3, <1>6 DEF StarvationPolicy
  <2> QED BY <1>2, <2>1 DEF StarvedFirst
<1> QED BY <1>4, <1>5, <1>6

(* Every user of the pool is seeded when there is room for all of them.    *)
LEMMA UsersSeeded ==
  ASSUME TypeOK, QueuedOnce, UserRotationComplete,
         NEW pool \in SUBSET Queued, \A v, w \in pool : Part(v) = Part(w),
         NEW picks, Fits(picks, pool), NEW S \in UserFairness(pool, picks),
         Cardinality({Owner(w) : w \in pool}) <= Batch, NEW w \in pool
  PROVE  \E x \in S : Owner(x) = Owner(w)
<1> DEFINE users   == {Owner(v) : v \in pool}
           of(u)   == {v \in pool : Owner(v) = u}
           first(u) == First(of(u))
           ahead(u) == {v \in users \ {u} : Before(first(v), first(u))}
           seeded  == {u \in users : Cardinality(ahead(u)) < Batch}
           pick(u) == LET mine == of(u) \cap picks
                      IN  IF mine = {} THEN first(u) ELSE First(mine)
           seed    == {pick(u) : u \in seeded}
<1>1. Batch \in Nat /\ IsFiniteSet(pool) /\ IsFiniteSet(users)
  <2>1. IsFiniteSet(pool)
    BY QueuedFinite, FS_Subset
  <2>2. [v \in pool |-> Owner(v)] \in Surjection(pool, users)
    BY DEF Surjection
  <2>3. IsFiniteSet(users)
    <3> HIDE DEF users
    <3> QED BY <2>1, <2>2, FS_Surjection
  <2> QED BY <2>1, <2>3, BatchPositive
<1>2. Cardinality(users) \in Nat /\ Cardinality(users) <= Batch
  BY <1>1, FS_CardinalityType
<1>3. ASSUME NEW u \in users PROVE pick(u) \in of(u)
  <2>1. of(u) \in SUBSET Queued /\ of(u) # {} /\ of(u) \subseteq pool
    OBVIOUS
  <2>2. first(u) \in of(u)
    BY <2>1, FirstInPool
  <2>3. of(u) \cap picks # {} => First(of(u) \cap picks) \in of(u) \cap picks
    BY <2>1, FirstInPool
  <2> HIDE DEF of, first
  <2> QED BY <2>1, <2>2, <2>3
<1>4. CASE Cardinality(users) <= 1
  <2>1. S = picks
    BY <1>4 DEF UserFairness
  <2>2. PICK x \in picks : x \in pool
    BY DEF Fits
  <2>3. Owner(x) \in users /\ Owner(w) \in users
    BY <2>2
  <2>4. Owner(x) = Owner(w)
    <3>1. {Owner(x), Owner(w)} \in SUBSET users
      BY <2>3
    <3> HIDE DEF users
    <3>2. Cardinality({Owner(x), Owner(w)}) <= 1
      BY <1>1, <1>2, <1>4, <3>1, FS_Subset, FS_CardinalityType
    <3>3. ASSUME Owner(x) # Owner(w) PROVE FALSE
      <4>1. PICK a : a = Owner(x)
        OBVIOUS
      <4>2. PICK b : b = Owner(w)
        OBVIOUS
      <4>3. IsFiniteSet({a}) /\ Cardinality({a}) = 1
        BY FS_Singleton
      <4>4. Cardinality({a} \cup {b}) = 2
        <5>1. b \notin {a}
          BY <3>3, <4>1, <4>2
        <5>2. Cardinality({a} \cup {b}) =
                IF b \in {a} THEN Cardinality({a}) ELSE Cardinality({a}) + 1
          BY ONLY <4>3, FS_AddElement
        <5> QED BY ONLY <4>3, <5>1, <5>2
      <4>5. {a} \cup {b} = {Owner(x), Owner(w)}
        BY <4>1, <4>2
      <4> QED BY <3>2, <4>4, <4>5
    <3> QED BY <3>3
  <2> QED BY <2>1, <2>2, <2>4
<1>5. CASE ~ (Cardinality(users) <= 1)
  <2>1. ~ (Batch <= 1 \/ Cardinality(users) <= 1)
    BY <1>1, <1>2, <1>5
  <2>2. S \in {seed \cup X : X \in {T \in SUBSET (picks \ seed) :
                 Cardinality(T) = Cardinality(picks) - Cardinality(seed)}}
    BY <2>1 DEF UserFairness
  <2>3. Owner(w) \in seeded
    <3>1. Owner(w) \in users
      OBVIOUS
    <3>2. ahead(Owner(w)) \in SUBSET (users \ {Owner(w)})
      OBVIOUS
    <3> HIDE DEF users, ahead
    <3>3. /\ IsFiniteSet(users \ {Owner(w)})
          /\ Cardinality(users \ {Owner(w)}) = Cardinality(users) - 1
      BY <1>1, <3>1, FS_RemoveElement
    <3>4. /\ Cardinality(ahead(Owner(w))) \in Nat
          /\ Cardinality(ahead(Owner(w))) <= Cardinality(users \ {Owner(w)})
      BY <3>2, <3>3, FS_Subset, FS_CardinalityType
    <3>5. Cardinality(ahead(Owner(w))) < Batch
      BY <1>1, <1>2, <3>3, <3>4
    <3> QED BY <3>1, <3>5
  <2>4. pick(Owner(w)) \in seed /\ pick(Owner(w)) \in of(Owner(w))
    <3>1. pick(Owner(w)) \in of(Owner(w))
      BY <1>3
    <3> HIDE DEF pick, seeded
    <3> QED BY <2>3, <3>1
  <2>5. Owner(pick(Owner(w))) = Owner(w)
    <3> HIDE DEF pick
    <3> QED BY <2>4
  <2> HIDE DEF seed, pick
  <2> QED BY <2>2, <2>4, <2>5
<1> QED BY <1>4, <1>5

(* Without starved workflows the picks go through _apply_user_fairness,    *)
(* which seeds every user.                                                 *)
LEMMA UsersSelected ==
  ASSUME TypeOK, QueuedOnce, UserRotationComplete, ArrivalsListQueued,
         NEW pool \in SUBSET Queued, \A v, w \in pool : Part(v) = Part(w),
         pool # {}, NEW S \in Selections(pool)
  PROVE  UsersServed(pool, S)
<1> SUFFICES ASSUME \A w \in pool : ~ Starved(w),
                    Cardinality({Owner(w) : w \in pool}) <= Batch,
                    NEW w \in pool
             PROVE  \E x \in S : Owner(x) = Owner(w)
  BY DEF UsersServed
<1>1. {v \in pool : Starved(v)} = {}
  OBVIOUS
<1>2. PICK picks \in AffinityPicks(pool, {}) : S \in UserFairness(pool, picks)
  BY <1>1 DEF Selections, StarvationPolicy
<1>3. Fits(picks, pool)
  BY <1>2, AffinityFits
<1> QED BY <1>2, <1>3, UsersSeeded

-----------------------------------------------------------------------------
(* What a reservation promises holds when it is made, and no arrival or    *)
(* removal takes it back before the reservation ends.                      *)
SelectionInv == StarvedGoFirst /\ EveryUserServed

(* reserve_batch makes no reservation, or one that takes a selection from  *)
(* the candidates of one partition.                                        *)
LEMMA ReservePicks ==
  ASSUME ReserveBatch
  PROVE  /\ UNCHANGED <<queues, items, miss, arrivals>>
         /\ \/ resv' = resv
            \/ \E part : \E S \in Selections(Candidates(part)) :
                 /\ Candidates(part) # {}
                 /\ resv'.selected = S /\ resv'.missed = Candidates(part) \ S
<1>1. ASSUME NEW part, NEW rrPart, SelectFrom(part, rrPart)
      PROVE  /\ UNCHANGED <<queues, items, miss, arrivals>>
             /\ \/ resv' = resv
                \/ \E S \in Selections(Candidates(part)) :
                     /\ Candidates(part) # {}
                     /\ resv'.selected = S /\ resv'.missed = Candidates(part) \ S
  <2>1. UNCHANGED <<queues, items, miss, arrivals>>
    BY <1>1 DEF SelectFrom
  <2>2. \/ resv' = resv
        \/ /\ Candidates(part) # {}
           /\ \E S \in Selections(Candidates(part)) :
                resv' = [selected |-> S, missed |-> Candidates(part) \ S,
                         rrPart |-> rrPart, prios |-> ConsultedPriorities(part)]
    BY <1>1 DEF SelectFrom
  <2> QED BY <2>1, <2>2
<1>2. CASE ReserveNothing
  BY <1>2 DEF ReserveNothing
<1>3. CASE ReserveStarved
  <2>1. PICK w \in Queued : SelectFrom(Part(w), None)
    BY <1>3 DEF ReserveStarved
  <2> QED BY <1>1, <2>1
<1>4. CASE ReserveRoundRobin
  <2>1. \E part : SelectFrom(part, part)
    BY <1>4 DEF ReserveRoundRobin
  <2> QED BY <1>1, <2>1
<1> QED BY <1>2, <1>3, <1>4 DEF ReserveBatch

(* A sequence that grows keeps the places of what it lists.                *)
LEMMA IndexAfterAppend ==
  ASSUME NEW A, NEW s \in Seq(A), IsInjective(s), NEW x \in Range(s),
         NEW y \in A, y # x
  PROVE  IndexIn(Append(s, y), x) = IndexIn(s, x)
<1> DEFINE k == IndexIn(s, x)
           t == Append(s, y)
           m == IndexIn(t, x)
<1>1. k \in 1..Len(s) /\ s[k] = x
  BY IndexOfElement
<1>2. /\ t \in Seq(A) /\ Len(t) = Len(s) + 1 /\ t[Len(s) + 1] = y
      /\ \A i \in 1..Len(s) : t[i] = s[i]
  OBVIOUS
<1> HIDE DEF k, t
<1>3. k \in DOMAIN t /\ t[k] = x
  BY <1>1, <1>2
<1>4. m \in DOMAIN t /\ t[m] = x
  BY <1>3 DEF IndexIn
<1> HIDE DEF m
<1>5. m \in 1..Len(s) /\ s[m] = x
  BY <1>2, <1>4
<1>6. m = k
  BY <1>1, <1>5 DEF IsInjective
<1> QED BY <1>6 DEF m, k, t

(* An arrival finds every workflow of a reservation queued: it resets none *)
(* of their miss counters and takes its place behind their jobs.           *)
LEMMA EnqueueKeepsSelection ==
  ASSUME IInv, SelectionInv, NEW j \in Jobs, Enqueue(j)
  PROVE  SelectionInv'
<1> SUFFICES ASSUME resv # None PROVE SelectionInv'
  <2>1. resv' = resv
    BY DEF Enqueue
  <2> QED BY <2>1 DEF SelectionInv, StarvedGoFirst, EveryUserServed
<1> DEFINE pool == resv.selected \cup resv.missed
<1>1. /\ resv' = resv /\ arrivals' = Append(arrivals, j)
      /\ Range(ItemsOf[j]) \cap items = {}
      /\ miss' = [w \in Workflows |-> IF w \in Range(ItemsOf[j]) THEN 0 ELSE miss[w]]
  BY DEF Enqueue
<1>2. pool \subseteq Queued /\ Queued \subseteq items /\ items \subseteq Workflows
  BY DEF IInv, TypeOK, QueuedOnce, ReservationValid
<1>3. \A w \in pool : Starved(w)' <=> Starved(w)
  BY <1>1, <1>2 DEF Starved
<1>4. \A w \in pool : IndexIn(arrivals, JobOf(w))' = IndexIn(arrivals, JobOf(w))
  <2> TAKE w \in pool
  <2>1. /\ arrivals \in Seq(Jobs) /\ JobOf(w) \in Range(arrivals)
        /\ IsInjective(arrivals)
    BY <1>2 DEF IInv, TypeOK, ArrivalsListQueued
  <2>2. j \notin Range(arrivals)
    <3>1. ASSUME NEW v \in Queued PROVE JobOf(v) # j
      BY <1>1, <1>2, <3>1, Attributes
    <3> QED BY <3>1 DEF IInv, ArrivalsListQueued
  <2>3. IndexIn(Append(arrivals, j), JobOf(w)) = IndexIn(arrivals, JobOf(w))
    BY <2>1, <2>2, IndexAfterAppend
  <2> QED BY <1>1, <2>3
<1>5. StarvedGoFirst'
  BY <1>1, <1>3, <1>4 DEF SelectionInv, StarvedGoFirst, Batch
<1>6. EveryUserServed'
  BY <1>1, <1>3 DEF SelectionInv, EveryUserServed, Batch
<1> QED BY <1>5, <1>6 DEF SelectionInv

(* A reservation of reserve_batch keeps both promises.                     *)
LEMMA ReserveKeepsSelection ==
  ASSUME IInv, SelectionInv, ReserveBatch
  PROVE  SelectionInv'
<1>1. UNCHANGED <<queues, items, miss, arrivals>>
  BY ReservePicks
<1>2. CASE resv' = resv
  BY <1>1, <1>2 DEF SelectionInv, StarvedGoFirst, EveryUserServed, Starved
<1>3. CASE \E part : \E S \in Selections(Candidates(part)) :
             /\ Candidates(part) # {}
             /\ resv'.selected = S /\ resv'.missed = Candidates(part) \ S
  <2>1. PICK part : \E S \in Selections(Candidates(part)) :
             /\ Candidates(part) # {}
             /\ resv'.selected = S /\ resv'.missed = Candidates(part) \ S
    BY <1>3
  <2>2. PICK pool : pool = Candidates(part)
    OBVIOUS
  <2>3. PICK S \in Selections(pool) :
             pool # {} /\ resv'.selected = S /\ resv'.missed = pool \ S
    BY <2>1, <2>2
  <2>4. pool \in SUBSET Queued /\ \A v, w \in pool : Part(v) = Part(w)
    BY <2>2 DEF Candidates
  <2>5. StarvedFirst(pool, S) /\ UsersServed(pool, S) /\ Fits(S, pool)
    BY <2>3, <2>4, StarvedSelected, UsersSelected, SelectionFits DEF IInv
  <2>6. pool = S \cup (pool \ S)
    BY <2>5 DEF Fits
  <2>7. StarvedGoFirst'
    BY <1>1, <2>3, <2>5 DEF StarvedGoFirst, StarvedFirst, Starved, Batch
  <2>8. EveryUserServed'
    BY <1>1, <2>3, <2>5, <2>6 DEF EveryUserServed, UsersServed, Starved, Batch
  <2> QED BY <2>7, <2>8 DEF SelectionInv
<1> QED BY <1>2, <1>3, ReservePicks

(* The promises hold of every reservation the manager ever has.            *)
LEMMA SelectionStep ==
  ASSUME IInv, SelectionInv, [Next]_vars
  PROVE  SelectionInv'
<1>1. ASSUME NEW j \in Jobs, Enqueue(j) PROVE SelectionInv'
  BY <1>1, EnqueueKeepsSelection
<1>2. CASE ReserveBatch
  BY <1>2, ReserveKeepsSelection
<1>3. CASE CommitReservation \/ AbortReservation
  <2>1. resv' = None
    BY <1>3 DEF CommitReservation, AbortReservation
  <2> QED BY <2>1 DEF SelectionInv, StarvedGoFirst, EveryUserServed
<1>4. ASSUME \/ \E S \in SUBSET (items \ Queued) : FinalizeWorkflows(S)
             \/ UNCHANGED vars
      PROVE  SelectionInv'
  <2>1. UNCHANGED <<resv, miss, arrivals>>
    BY <1>4 DEF FinalizeWorkflows, vars
  <2> QED BY <2>1 DEF SelectionInv, StarvedGoFirst, EveryUserServed, Starved
<1> QED BY <1>1, <1>2, <1>3, <1>4 DEF Next

(* Both promises, in every reachable state.                                *)
LEMMA SelectionAlways == Spec => []SelectionInv
<1>1. Init => SelectionInv
  BY DEF Init, SelectionInv, StarvedGoFirst, EveryUserServed
<1>2. IInv /\ SelectionInv /\ [Next]_vars => SelectionInv'
  BY SelectionStep
<1> QED BY <1>1, <1>2, Invariance, PTL DEF Spec

(* _apply_starvation_policy: a starved workflow of the pool is passed over *)
(* only for a full batch of starved workflows that arrived no later.       *)
THEOREM StarvedAlwaysFirst == Spec => []StarvedGoFirst
<1>1. SelectionInv => StarvedGoFirst
  BY DEF SelectionInv
<1> QED BY <1>1, SelectionAlways, PTL

(* _apply_user_fairness: while nobody is starved, a batch with room for    *)
(* every user of the pool serves every one of them.                        *)
THEOREM UsersAlwaysServed == Spec => []EveryUserServed
<1>1. SelectionInv => EveryUserServed
  BY DEF SelectionInv
<1> QED BY <1>1, SelectionAlways, PTL
=============================================================================
