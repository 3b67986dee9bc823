--------------------------- MODULE JobQueueProofs ---------------------------
(***************************************************************************)
(* PriorityJobManager keeps its invariants for any number of jobs, users,  *)
(* partitions and any quantums, batch size and starvation limit.           *)
(***************************************************************************)
EXTENDS JobQueue, CollectionProofs

(* A workflow belongs to one job and takes its attributes from it.         *)
LEMMA Attributes ==
  ASSUME NEW w \in Workflows
  PROVE  /\ JobOf(w) \in Jobs
         /\ w \in Range(ItemsOf[JobOf(w)])
         /\ \A j \in Jobs : w \in Range(ItemsOf[j]) => j = JobOf(w)
         /\ Owner(w) \in Users /\ Prio(w) \in Priorities /\ Part(w) \in Partitions
<1>1. \E j \in Jobs : w \in Range(ItemsOf[j])
  BY JobAssumption
<1>2. JobOf(w) \in Jobs /\ w \in Range(ItemsOf[JobOf(w)])
  BY <1>1 DEF JobOf
<1>3. \A j \in Jobs : w \in Range(ItemsOf[j]) => j = JobOf(w)
  BY <1>2, JobAssumption
<1> QED BY <1>2, <1>3, JobAssumption DEF Owner, Prio, Part

(* reserve_batch works with a batch size of at least one.                  *)
LEMMA BatchPositive == Batch \in Nat /\ Batch >= 1
BY LimitAssumption DEF Batch

(* The index of an element that a sequence contains.                       *)
LEMMA IndexOfElement ==
  ASSUME NEW A, NEW s \in Seq(A), NEW x \in Range(s)
  PROVE  /\ IndexIn(s, x) \in 1..Len(s)
         /\ s[IndexIn(s, x)] = x
<1>1. \E i \in DOMAIN s : s[i] = x
  BY DEF Range
<1>2. IndexIn(s, x) \in DOMAIN s /\ s[IndexIn(s, x)] = x
  BY <1>1 DEF IndexIn
<1> QED BY <1>2

(* Where a queued workflow is found.                                       *)
LEMMA QueuePlace ==
  ASSUME TypeOK, QueuedOnce, UserRotationComplete, NEW w \in Queued
  PROVE  /\ w \in Workflows
         /\ Prio(w) \in Priorities /\ Owner(w) \in Users
         /\ queues[Prio(w)][Owner(w)] \in Seq(Workflows)
         /\ w \in Range(queues[Prio(w)][Owner(w)])
         /\ Owner(w) \in Range(rrUser[Prio(w)])
         /\ rrUser[Prio(w)] \in Seq(Users)
<1>1. PICK p \in Priorities, u \in Users : w \in Range(queues[p][u])
  BY DEF Queued, QueuedIn
<1>2. queues[p][u] \in Seq(Workflows)
  BY DEF TypeOK
<1>3. w \in Workflows
  BY <1>1, <1>2 DEF Range
<1>4. Prio(w) = p /\ Owner(w) = u
  BY <1>1 DEF QueuedOnce
<1>5. queues[p][u] # << >>
  BY <1>1 DEF Range
<1>6. u \in UsersIn(queues, p)
  BY <1>5 DEF UsersIn
<1>7. rrUser[p] \in Seq(Users)
  BY DEF TypeOK
<1> QED BY <1>1, <1>2, <1>3, <1>4, <1>6, <1>7 DEF UserRotationComplete

(* What is queued is a finite set of workflows.                            *)
LEMMA QueuedFinite ==
  ASSUME TypeOK
  PROVE  Queued \subseteq Workflows /\ IsFiniteSet(Queued)
<1>1. ASSUME NEW w \in Queued PROVE w \in Workflows
  <2>1. PICK p \in Priorities, u \in Users : w \in Range(queues[p][u])
    BY <1>1 DEF Queued, QueuedIn
  <2>2. queues[p][u] \in Seq(Workflows)
    BY DEF TypeOK
  <2> QED BY <2>1, <2>2 DEF Range
<1>2. Queued \in SUBSET Workflows
  BY <1>1
<1> QED BY <1>2, FiniteAssumption, FS_Subset

-----------------------------------------------------------------------------
(***************************************************************************)
(* The deal is a strict total order on the workflows of one partition.     *)
(***************************************************************************)
UserIndex(w) == IndexIn(rrUser[Prio(w)], Owner(w))

(* The round in which a queued workflow is dealt is a natural number, and  *)
(* its user has a place in the rotation.                                   *)
LEMMA RoundType ==
  ASSUME TypeOK, QueuedOnce, UserRotationComplete, NEW w \in Queued
  PROVE  Round(w) \in Nat /\ UserIndex(w) \in Nat /\ Prio(w) \in Nat
<1> DEFINE q == queues[Prio(w)][Owner(w)]
<1>1. q \in Seq(Workflows) /\ w \in Range(q)
  BY QueuePlace
<1>2. IndexIn(q, w) \in 1..Len(q)
  BY <1>1, IndexOfElement
<1> DEFINE hits == {i \in 1..(IndexIn(q, w) - 1) : Part(q[i]) = Part(w)}
<1>3. IsFiniteSet(1..(IndexIn(q, w) - 1))
  BY <1>1, <1>2, FS_Interval
<1>4. IsFiniteSet(hits)
  <2>1. hits \in SUBSET (1..(IndexIn(q, w) - 1))
    OBVIOUS
  <2> HIDE DEF hits
  <2> QED BY <1>3, <2>1, FS_Subset
<1>5. Cardinality(hits) \in Nat
  <2> HIDE DEF hits
  <2> QED BY <1>4, FS_CardinalityType
<1>6. Round(w) \in Nat
  BY <1>5 DEF Round
<1>7. UserIndex(w) \in Nat
  <2>1. Owner(w) \in Range(rrUser[Prio(w)]) /\ rrUser[Prio(w)] \in Seq(Users)
    BY QueuePlace
  <2>2. UserIndex(w) \in 1..Len(rrUser[Prio(w)])
    BY <2>1, IndexOfElement DEF UserIndex
  <2> QED BY <2>1, <2>2
<1>8. Prio(w) \in Nat
  BY QueuePlace DEF Priorities
<1> QED BY <1>6, <1>7, <1>8

(* Within one deque, an earlier workflow of the partition is in an earlier *)
(* round.                                                                  *)
LEMMA EarlierRound ==
  ASSUME TypeOK, QueuedOnce, UserRotationComplete,
         NEW v \in Queued, NEW w \in Queued,
         Part(v) = Part(w), Prio(v) = Prio(w), Owner(v) = Owner(w),
         IndexIn(queues[Prio(w)][Owner(w)], v) < IndexIn(queues[Prio(w)][Owner(w)], w)
  PROVE  Round(v) < Round(w)
<1> DEFINE q == queues[Prio(w)][Owner(w)]
           a == IndexIn(q, v)
           b == IndexIn(q, w)
           H(n) == {i \in 1..(n - 1) : Part(q[i]) = Part(w)}
<1>1. q \in Seq(Workflows) /\ v \in Range(q) /\ w \in Range(q)
  BY QueuePlace
<1>2. /\ a \in 1..Len(q) /\ q[a] = v
      /\ b \in 1..Len(q) /\ q[b] = w
      /\ Len(q) \in Nat
  BY <1>1, IndexOfElement
<1>3. a < b
  OBVIOUS
<1>4. Round(v) = Cardinality(H(a)) /\ Round(w) = Cardinality(H(b))
  BY DEF Round
<1>5. IsFiniteSet(H(b))
  <2>1. IsFiniteSet(1..(b - 1))
    BY <1>2, FS_Interval
  <2>2. H(b) \in SUBSET (1..(b - 1))
    OBVIOUS
  <2> HIDE DEF H
  <2> QED BY <2>1, <2>2, FS_Subset
<1>6. H(a) \in SUBSET H(b) /\ a \in H(b) /\ a \notin H(a)
  <2> HIDE DEF a, b, q
  <2> QED BY <1>2, <1>3
<1> HIDE DEF H
<1>7. /\ Cardinality(H(a)) <= Cardinality(H(b))
      /\ Cardinality(H(b)) = Cardinality(H(a)) => H(b) = H(a)
      /\ IsFiniteSet(H(a))
  BY <1>5, <1>6, FS_Subset
<1>8. Cardinality(H(a)) \in Nat /\ Cardinality(H(b)) \in Nat
  BY <1>5, <1>7, FS_CardinalityType
<1> QED BY <1>4, <1>6, <1>7, <1>8

(* Two workflows of one partition and priority are dealt in some order.    *)
LEMMA DealtTotal ==
  ASSUME TypeOK, QueuedOnce, UserRotationComplete,
         NEW v \in Queued, NEW w \in Queued, v # w,
         Part(v) = Part(w), Prio(v) = Prio(w)
  PROVE  DealtBefore(v, w) \/ DealtBefore(w, v)
<1>1. /\ Round(v) \in Nat /\ UserIndex(v) \in Nat
      /\ Round(w) \in Nat /\ UserIndex(w) \in Nat
  BY RoundType
<1>2. ASSUME Round(v) = Round(w), UserIndex(v) = UserIndex(w) PROVE FALSE
  <2>1. /\ Owner(v) \in Range(rrUser[Prio(w)]) /\ Owner(w) \in Range(rrUser[Prio(w)])
        /\ rrUser[Prio(w)] \in Seq(Users)
    BY QueuePlace
  <2>2. /\ rrUser[Prio(w)][UserIndex(v)] = Owner(v)
        /\ rrUser[Prio(w)][UserIndex(w)] = Owner(w)
    BY <2>1, IndexOfElement DEF UserIndex
  <2>3. Owner(v) = Owner(w)
    BY <1>2, <2>2
  <2> DEFINE q == queues[Prio(w)][Owner(w)]
  <2>4. q \in Seq(Workflows) /\ v \in Range(q) /\ w \in Range(q)
    BY <2>3, QueuePlace
  <2>5. /\ IndexIn(q, v) \in 1..Len(q) /\ q[IndexIn(q, v)] = v
        /\ IndexIn(q, w) \in 1..Len(q) /\ q[IndexIn(q, w)] = w
        /\ Len(q) \in Nat
    BY <2>4, IndexOfElement
  <2>6. IndexIn(q, v) # IndexIn(q, w)
    BY <2>5
  <2>7. CASE IndexIn(q, v) < IndexIn(q, w)
    <3>1. Round(v) < Round(w)
      BY <2>3, <2>7, EarlierRound
    <3> QED BY <3>1, <1>1, <1>2
  <2>8. CASE IndexIn(q, w) < IndexIn(q, v)
    <3>1. Round(w) < Round(v)
      BY <2>3, <2>8, EarlierRound
    <3> QED BY <3>1, <1>1, <1>2
  <2> QED BY <2>5, <2>6, <2>7, <2>8
<1> QED BY <1>1, <1>2 DEF DealtBefore, UserIndex

(* Position in the candidate pool is a strict total order.                 *)
PoolOrder(S) == {pair \in S \X S : Before(pair[1], pair[2])}

LEMMA PoolOrderStrict ==
  ASSUME TypeOK, QueuedOnce, UserRotationComplete,
         NEW S \in SUBSET Queued, \A v, w \in S : Part(v) = Part(w)
  PROVE  /\ IsStrictOrder(PoolOrder(S), S)
         /\ \A v, w \in S : <<v, w>> \in PoolOrder(S) <=> Before(v, w)
<1>1. \A v, w \in S : <<v, w>> \in PoolOrder(S) <=> Before(v, w)
  BY DEF PoolOrder
<1>2. \A w \in S : Round(w) \in Nat /\ UserIndex(w) \in Nat /\ Prio(w) \in Nat
  BY RoundType
<1>3. \A v, w \in S :
        Before(v, w) <=>
          \/ Prio(v) < Prio(w)
          \/ Prio(v) = Prio(w) /\ Round(v) < Round(w)
          \/ Prio(v) = Prio(w) /\ Round(v) = Round(w) /\ UserIndex(v) < UserIndex(w)
  BY DEF Before, DealtBefore, UserIndex
<1>4. \A w \in S : ~ Before(w, w)
  BY <1>2, <1>3
<1>5. \A u, v, w \in S : Before(u, v) /\ Before(v, w) => Before(u, w)
  <2> TAKE u, v, w \in S
  <2>1. /\ Round(u) \in Nat /\ UserIndex(u) \in Nat /\ Prio(u) \in Nat
        /\ Round(v) \in Nat /\ UserIndex(v) \in Nat /\ Prio(v) \in Nat
        /\ Round(w) \in Nat /\ UserIndex(w) \in Nat /\ Prio(w) \in Nat
    BY <1>2
  <2> QED BY <1>3, <2>1
<1>6. \A v, w \in S : v = w \/ Before(v, w) \/ Before(w, v)
  <2> TAKE v, w \in S
  <2>1. CASE Prio(v) # Prio(w)
    BY <1>2, <2>1 DEF Before
  <2>2. CASE Prio(v) = Prio(w) /\ v # w
    <3>1. DealtBefore(v, w) \/ DealtBefore(w, v)
      BY <2>2, DealtTotal
    <3> QED BY <2>2, <3>1 DEF Before
  <2> QED BY <2>1, <2>2
<1> QED BY <1>1, <1>4, <1>5, <1>6 DEF IsStrictOrder

(* So the first of a non-empty part of the pool is in it.                  *)
LEMMA FirstInPool ==
  ASSUME TypeOK, QueuedOnce, UserRotationComplete,
         NEW S \in SUBSET Queued, \A v, w \in S : Part(v) = Part(w), S # {}
  PROVE  First(S) \in S
<1>1. /\ IsStrictOrder(PoolOrder(S), S)
      /\ \A v, w \in S : <<v, w>> \in PoolOrder(S) <=> Before(v, w)
  BY PoolOrderStrict
<1>2. IsFiniteSet(S)
  BY QueuedFinite, FS_Subset
<1>3. PICK x \in S : \A y \in S \ {x} : <<x, y>> \in PoolOrder(S)
  BY <1>1, <1>2, LeastElement
<1>4. \A y \in S \ {x} : Before(x, y)
  BY <1>1, <1>3
<1> QED BY <1>4 DEF First

(* Age, ties broken by the position in the pool, is a strict total order.  *)
AgeOrder(S) == {pair \in S \X S : Older(pair[1], pair[2])}

LEMMA AgeOrderStrict ==
  ASSUME TypeOK, QueuedOnce, UserRotationComplete, ArrivalsListQueued,
         NEW S \in SUBSET Queued, \A v, w \in S : Part(v) = Part(w)
  PROVE  /\ IsStrictOrder(AgeOrder(S), S)
         /\ \A v, w \in S : <<v, w>> \in AgeOrder(S) <=> Older(v, w)
<1>1. \A v, w \in S : <<v, w>> \in AgeOrder(S) <=> Older(v, w)
  BY DEF AgeOrder
<1> DEFINE age(w) == IndexIn(arrivals, JobOf(w))
<1>2. \A w \in S : age(w) \in Nat /\ arrivals[age(w)] = JobOf(w)
  <2> TAKE w \in S
  <2>1. arrivals \in Seq(Jobs) /\ JobOf(w) \in Range(arrivals)
    BY DEF TypeOK, ArrivalsListQueued
  <2>2. age(w) \in 1..Len(arrivals) /\ arrivals[age(w)] = JobOf(w)
    BY <2>1, IndexOfElement
  <2> QED BY <2>1, <2>2
<1>3. \A v, w \in S : age(v) = age(w) <=> JobOf(v) = JobOf(w)
  BY <1>2
<1>4. /\ IsStrictOrder(PoolOrder(S), S)
      /\ \A v, w \in S : <<v, w>> \in PoolOrder(S) <=> Before(v, w)
  BY PoolOrderStrict
<1>5. /\ \A w \in S : ~ Before(w, w)
      /\ \A u, v, w \in S : Before(u, v) /\ Before(v, w) => Before(u, w)
      /\ \A v, w \in S : v = w \/ Before(v, w) \/ Before(w, v)
  BY <1>4 DEF IsStrictOrder
<1>6. \A v, w \in S : Older(v, w) <=>
                        age(v) < age(w) \/ (age(v) = age(w) /\ Before(v, w))
  BY <1>3 DEF Older
<1> HIDE DEF age
<1>7. \A w \in S : ~ Older(w, w)
  BY <1>2, <1>5, <1>6
<1>8. \A u, v, w \in S : Older(u, v) /\ Older(v, w) => Older(u, w)
  <2> TAKE u, v, w \in S
  <2>1. age(u) \in Nat /\ age(v) \in Nat /\ age(w) \in Nat
    BY <1>2
  <2> QED BY <1>5, <1>6, <2>1
<1>9. \A v, w \in S : v = w \/ Older(v, w) \/ Older(w, v)
  <2> TAKE v, w \in S
  <2>1. age(v) \in Nat /\ age(w) \in Nat
    BY <1>2
  <2> QED BY <1>5, <1>6, <2>1
<1> QED BY <1>1, <1>7, <1>8, <1>9 DEF IsStrictOrder

(* The n oldest of a non-empty part of the pool.                           *)
LEMMA OldestBounds ==
  ASSUME TypeOK, QueuedOnce, UserRotationComplete, ArrivalsListQueued,
         NEW S \in SUBSET Queued, \A v, w \in S : Part(v) = Part(w), S # {},
         NEW n \in Nat, n >= 1
  PROVE  /\ Oldest(S, n) \subseteq S
         /\ Oldest(S, n) # {}
         /\ Cardinality(Oldest(S, n)) <= n
<1>1. /\ IsStrictOrder(AgeOrder(S), S)
      /\ \A v, w \in S : <<v, w>> \in AgeOrder(S) <=> Older(v, w)
  BY AgeOrderStrict
<1>2. IsFiniteSet(S)
  BY QueuedFinite, FS_Subset
<1>3. \A w \in S : {v \in S : Older(v, w)} = Below(AgeOrder(S), S, w)
  BY <1>1 DEF Below
<1>4. Oldest(S, n) = {w \in S : Cardinality(Below(AgeOrder(S), S, w)) < n}
  BY <1>3 DEF Oldest
<1>5. Cardinality(Oldest(S, n)) <= n
  BY <1>1, <1>2, <1>4, RankBound
<1>6. PICK x \in S : Below(AgeOrder(S), S, x) = {}
  BY <1>1, <1>2, LeastElement
<1>7. x \in Oldest(S, n)
  BY <1>4, <1>6, FS_EmptySet
<1> QED BY <1>4, <1>5, <1>7

-----------------------------------------------------------------------------
(***************************************************************************)
(* Whatever reserve_batch selects is a non-empty part of the pool that     *)
(* fits in a batch.                                                        *)
(***************************************************************************)
Fits(S, pool) == S \subseteq pool /\ S # {} /\ Cardinality(S) <= Batch

(* select_affinity_batch_ids returns a batch that fits.                    *)
LEMMA AffinityFits ==
  ASSUME TypeOK, QueuedOnce, UserRotationComplete, ArrivalsListQueued,
         NEW pool \in SUBSET Queued, \A v, w \in pool : Part(v) = Part(w),
         pool # {}, NEW pinned \in SUBSET pool,
         NEW S \in AffinityPicks(pool, pinned)
  PROVE  Fits(S, pool)
<1>1. Batch \in Nat /\ Batch >= 1
  BY BatchPositive
<1>2. IsFiniteSet(pool) /\ IsFiniteSet(pinned) /\ Cardinality(pinned) \in Nat
  <2>1. IsFiniteSet(pool)
    BY QueuedFinite, FS_Subset
  <2>2. IsFiniteSet(pinned)
    BY <2>1, FS_Subset
  <2> QED BY <2>1, <2>2, FS_CardinalityType
<1>3. CASE Cardinality(pool) <= Batch
  BY <1>3 DEF AffinityPicks, Fits
<1>4. CASE ~ (Cardinality(pool) <= Batch) /\ Cardinality(pinned) >= Batch
  <2>1. S = Oldest(pinned, Batch)
    BY <1>4 DEF AffinityPicks
  <2>2. pinned # {}
    BY <1>1, <1>4, FS_EmptySet
  <2>3. /\ Oldest(pinned, Batch) \subseteq pinned
        /\ Oldest(pinned, Batch) # {}
        /\ Cardinality(Oldest(pinned, Batch)) <= Batch
    BY <1>1, <2>2, OldestBounds
  <2> QED BY <2>1, <2>3 DEF Fits
<1>5. CASE ~ (Cardinality(pool) <= Batch) /\ ~ (Cardinality(pinned) >= Batch)
  <2>1. S \subseteq pool /\ Cardinality(S) = Batch
    BY <1>5 DEF AffinityPicks
  <2>2. S # {}
    BY <1>1, <2>1, FS_EmptySet
  <2> QED BY <1>1, <2>1, <2>2 DEF Fits
<1> QED BY <1>3, <1>4, <1>5

(* Completing a seed from the picks to the size of the picks.              *)
LEMMA CompletionFits ==
  ASSUME NEW pool, IsFiniteSet(pool), NEW picks, Fits(picks, pool),
         NEW seed \in SUBSET pool, NEW T \in SUBSET (picks \ seed),
         Cardinality(T) = Cardinality(picks) - Cardinality(seed)
  PROVE  Fits(seed \cup T, pool)
<1>1. IsFiniteSet(picks) /\ IsFiniteSet(seed) /\ IsFiniteSet(T)
  <2>1. picks \in SUBSET pool /\ T \in SUBSET pool
    BY DEF Fits
  <2> QED BY <2>1, FS_Subset
<1>2. /\ Cardinality(picks) \in Nat /\ Cardinality(seed) \in Nat
      /\ Cardinality(T) \in Nat
  BY <1>1, FS_CardinalityType
<1>3. Cardinality(seed \cup T) =
        Cardinality(seed) + Cardinality(T) - Cardinality(seed \cap T)
  BY <1>1, FS_Union
<1>4. Cardinality(seed \cap T) = 0
  <2>1. seed \cap T = {}
    OBVIOUS
  <2> QED BY <2>1, FS_EmptySet
<1>5. Cardinality(seed \cup T) = Cardinality(picks)
  BY <1>2, <1>3, <1>4
<1>6. Cardinality(picks) # 0
  BY <1>1, FS_EmptySet DEF Fits
<1>7. seed \cup T # {}
  BY <1>5, <1>6, FS_EmptySet
<1> QED BY <1>5, <1>7 DEF Fits

(* _apply_starvation_policy turns a batch that fits into one that fits.    *)
LEMMA StarvationFits ==
  ASSUME TypeOK, QueuedOnce, UserRotationComplete, ArrivalsListQueued,
         NEW pool \in SUBSET Queued, \A v, w \in pool : Part(v) = Part(w),
         NEW starved \in SUBSET pool, NEW picks, Fits(picks, pool),
         NEW S \in StarvationPolicy(starved, picks)
  PROVE  Fits(S, pool)
<1>1. Batch \in Nat /\ Batch >= 1
  BY BatchPositive
<1>2. IsFiniteSet(pool)
  BY QueuedFinite, FS_Subset
<1>3. CASE starved = {}
  BY <1>3 DEF StarvationPolicy
<1>4. CASE starved # {} /\ Cardinality(starved) >= Batch
  <2>1. S = Oldest(starved, Batch)
    BY <1>4 DEF StarvationPolicy
  <2>2. /\ Oldest(starved, Batch) \subseteq starved
        /\ Oldest(starved, Batch) # {}
        /\ Cardinality(Oldest(starved, Batch)) <= Batch
    BY <1>1, <1>4, OldestBounds
  <2> QED BY <2>1, <2>2 DEF Fits
<1>5. CASE starved # {} /\ ~ (Cardinality(starved) >= Batch)
  <2>1. PICK T \in SUBSET (picks \ starved) :
               /\ S = starved \cup T
               /\ Cardinality(T) = Cardinality(picks) - Cardinality(starved)
    BY <1>5 DEF StarvationPolicy
  <2> QED BY <1>2, <2>1, CompletionFits
<1> QED BY <1>3, <1>4, <1>5

(* So does _apply_user_fairness.                                           *)
LEMMA FairnessFits ==
  ASSUME TypeOK, QueuedOnce, UserRotationComplete,
         NEW pool \in SUBSET Queued, \A v, w \in pool : Part(v) = Part(w),
         NEW picks, Fits(picks, pool), NEW S \in UserFairness(pool, picks)
  PROVE  Fits(S, pool)
<1> DEFINE users   == {Owner(w) : w \in pool}
           of(u)   == {w \in pool : Owner(w) = u}
           first(u) == First(of(u))
           seeded  == {u \in users : Cardinality({v \in users \ {u} :
                                        Before(first(v), first(u))}) < Batch}
           pick(u) == LET mine == of(u) \cap picks
                      IN  IF mine = {} THEN first(u) ELSE First(mine)
           seed    == {pick(u) : u \in seeded}
<1>1. ASSUME NEW u \in users PROVE pick(u) \in pool
  <2>1. of(u) \in SUBSET Queued /\ of(u) # {} /\ of(u) \subseteq pool
    OBVIOUS
  <2>2. first(u) \in of(u)
    BY <2>1, FirstInPool
  <2>3. of(u) \cap picks # {} => First(of(u) \cap picks) \in of(u) \cap picks
    BY <2>1, FirstInPool
  <2> HIDE DEF of, first
  <2> QED BY <2>1, <2>2, <2>3
<1>2. seed \in SUBSET pool
  <2> HIDE DEF pick
  <2> QED BY <1>1
<1>3. CASE Batch <= 1 \/ Cardinality(users) <= 1
  BY <1>3 DEF UserFairness
<1>4. CASE ~ (Batch <= 1 \/ Cardinality(users) <= 1)
  <2>1. S \in {seed \cup X : X \in {T \in SUBSET (picks \ seed) :
                 Cardinality(T) = Cardinality(picks) - Cardinality(seed)}}
    BY <1>4 DEF UserFairness
  <2> HIDE DEF seed
  <2>2. PICK T \in SUBSET (picks \ seed) :
               /\ S = seed \cup T
               /\ Cardinality(T) = Cardinality(picks) - Cardinality(seed)
    BY <2>1
  <2>3. IsFiniteSet(pool)
    BY QueuedFinite, FS_Subset
  <2> QED BY <1>2, <2>2, <2>3, CompletionFits
<1> QED BY <1>3, <1>4

(* Hence so does the whole selection of reserve_batch.                     *)
LEMMA SelectionFits ==
  ASSUME TypeOK, QueuedOnce, UserRotationComplete, ArrivalsListQueued,
         NEW pool \in SUBSET Queued, \A v, w \in pool : Part(v) = Part(w),
         pool # {}, NEW S \in Selections(pool)
  PROVE  Fits(S, pool)
<1> DEFINE starved == {w \in pool : Starved(w)}
<1>1. starved \in SUBSET pool
  OBVIOUS
<1>2. PICK picks \in AffinityPicks(pool, starved) :
             \E R \in StarvationPolicy(starved, picks) :
               S \in (IF starved = {} THEN UserFairness(pool, R) ELSE {R})
  BY DEF Selections
<1> HIDE DEF starved
<1>3. Fits(picks, pool)
  BY <1>1, <1>2, AffinityFits
<1>4. PICK R \in StarvationPolicy(starved, picks) :
             S \in (IF starved = {} THEN UserFairness(pool, R) ELSE {R})
  BY <1>2
<1>5. Fits(R, pool)
  BY <1>1, <1>3, <1>4, StarvationFits
<1>6. CASE starved = {}
  BY <1>4, <1>5, <1>6, FairnessFits
<1>7. CASE starved # {}
  BY <1>4, <1>5, <1>7
<1> QED BY <1>6, <1>7

(* With positive quantums, a partition that has work has candidates.       *)
LEMMA PoolNotEmpty ==
  ASSUME TypeOK, QueuedOnce, UserRotationComplete,
         \A p \in Priorities : Quantum[p] > 0,
         NEW part \in PresentIn(queues)
  PROVE  Candidates(part) # {}
<1>1. PICK w \in Queued : Part(w) = part
  BY DEF PresentIn, Queued
<1> DEFINE T == {v \in Queued : Part(v) = part /\ Prio(v) = Prio(w)}
<1>2. T \in SUBSET Queued /\ T # {} /\ \A u, v \in T : Part(u) = Part(v)
  BY <1>1
<1>3. /\ IsStrictOrder(PoolOrder(T), T)
      /\ \A u, v \in T : <<u, v>> \in PoolOrder(T) <=> Before(u, v)
  BY <1>2, PoolOrderStrict
<1>4. IsFiniteSet(T)
  BY <1>2, QueuedFinite, FS_Subset
<1>5. PICK x \in T : Below(PoolOrder(T), T, x) = {}
  BY <1>2, <1>3, <1>4, LeastElement, ZenonT(30)
<1>6. ASSUME NEW v \in Queued, Part(v) = part, Prio(v) = Prio(x), DealtBefore(v, x)
      PROVE  FALSE
  <2>1. v \in T /\ Before(v, x)
    BY <1>5, <1>6 DEF Before
  <2>2. v \in Below(PoolOrder(T), T, x)
    BY <1>3, <1>5, <2>1 DEF Below
  <2> QED BY <1>5, <2>2
<1>7. {v \in Queued : Part(v) = part /\ Prio(v) = Prio(x) /\ DealtBefore(v, x)} = {}
  BY <1>6
<1>8. Prio(x) \in Priorities
  BY <1>2, QueuePlace
<1>9. x \in Candidates(part)
  BY <1>2, <1>5, <1>7, <1>8, FS_EmptySet, LimitAssumption DEF Candidates
<1> QED BY <1>9

-----------------------------------------------------------------------------
(***************************************************************************)
(* Every operation preserves the invariant.                                *)
(***************************************************************************)
(* The invariant holds for a new manager.                                  *)
THEOREM InitIInv == Init => IInv
<1> SUFFICES ASSUME Init PROVE IInv
  OBVIOUS
<1>1. Range(<< >>) = {} /\ IsInjective(<< >>)
  BY DEF Range, IsInjective
<1>2. TypeOK
  <2>1. /\ queues \in [Priorities -> [Users -> Seq(Workflows)]]
        /\ rrUser \in [Priorities -> Seq(Users)]
    BY DEF Init
  <2>2. rrOrder \in Seq(Partitions) /\ arrivals \in Seq(Jobs)
    BY DEF Init
  <2>3. miss \in [Workflows -> 0..MissCap]
    BY LimitAssumption DEF Init
  <2>4. rrMembers \subseteq Partitions /\ items \subseteq Workflows /\ submitted \subseteq Jobs
    BY DEF Init
  <2>5. notEmpty \in BOOLEAN /\ resv = None
    BY DEF Init
  <2> QED BY <2>1, <2>2, <2>3, <2>4, <2>5 DEF TypeOK
<1>3. Queued = {} /\ PresentIn(queues) = {}
  BY <1>1 DEF Init, Queued, QueuedIn, PresentIn
<1>4. \A p \in Priorities : UsersIn(queues, p) = {}
  BY DEF Init, UsersIn
<1>5. QueuedOnce
  BY <1>1, <1>3 DEF Init, QueuedOnce
<1>6. UserRotationComplete
  BY <1>1, <1>4 DEF Init, UserRotationComplete
<1>7. PartitionRotationComplete /\ ArrivalsListQueued
  BY <1>1, <1>3 DEF Init, PartitionRotationComplete, ArrivalsListQueued
<1>8. ReservationValid /\ OnePartitionPerBatch /\ NoLostWakeup
  BY <1>3 DEF Init, ReservationValid, OnePartitionPerBatch, NoLostWakeup
<1> QED BY <1>2, <1>5, <1>6, <1>7, <1>8 DEF IInv

(* Enqueue: the job's workflows are new to every structure.                *)
LEMMA EnqueueStep ==
  ASSUME IInv, NEW j \in Jobs, Enqueue(j)
  PROVE  IInv' /\ Queued' = Queued \cup Range(ItemsOf[j])
<1> DEFINE p == PriorityOf[j]
           u == UserOf[j]
           I == Range(ItemsOf[j])
<1>1. /\ p \in Priorities /\ u \in Users /\ PartOf[j] \in Partitions
      /\ ItemsOf[j] \in Seq(Workflows) /\ IsInjective(ItemsOf[j])
      /\ ItemsOf[j] # << >>
  BY JobAssumption
<1>2. I \subseteq Workflows /\ I # {}
  <2>1. I \subseteq Workflows
    BY <1>1 DEF Range
  <2>2. 1 \in DOMAIN ItemsOf[j]
    BY <1>1
  <2> QED BY <2>1, <2>2 DEF Range
<1>3. \A w \in I : JobOf(w) = j /\ Prio(w) = p /\ Owner(w) = u /\ Part(w) = PartOf[j]
  BY <1>2, Attributes DEF Prio, Owner, Part
<1>4. I \cap Queued = {}
  BY DEF IInv, QueuedOnce, Enqueue
<1>5. \A q \in Priorities, v \in Users :
        /\ queues[q][v] \in Seq(Workflows)
        /\ queues'[q][v] = IF q = p /\ v = u THEN queues[p][u] \o ItemsOf[j]
                           ELSE queues[q][v]
  BY <1>1 DEF IInv, TypeOK, Enqueue
<1>6. /\ queues[p][u] \o ItemsOf[j] \in Seq(Workflows)
      /\ Range(queues[p][u] \o ItemsOf[j]) = Range(queues[p][u]) \cup I
      /\ IsInjective(queues[p][u]) /\ Range(queues[p][u]) \cap I = {}
           => IsInjective(queues[p][u] \o ItemsOf[j])
      /\ queues[p][u] \o ItemsOf[j] # << >>
  BY <1>1, <1>5, ConcatElements
<1>7. Range(queues[p][u]) \subseteq Queued
  BY <1>1 DEF Queued, QueuedIn
<1>8. QueuedIn(queues') = Queued \cup I
  <2>1. \A q \in Priorities, v \in Users :
          Range(queues'[q][v]) = IF q = p /\ v = u THEN Range(queues[p][u]) \cup I
                                 ELSE Range(queues[q][v])
    BY <1>5, <1>6
  <2> HIDE DEF I, p, u
  <2>2. ASSUME NEW w \in QueuedIn(queues') PROVE w \in Queued \cup I
    <3>1. PICK q \in Priorities, v \in Users : w \in Range(queues'[q][v])
      BY <2>2 DEF QueuedIn
    <3> QED BY <1>1, <2>1, <3>1 DEF Queued, QueuedIn
  <2>3. ASSUME NEW w \in Queued PROVE w \in QueuedIn(queues')
    <3>1. PICK q \in Priorities, v \in Users : w \in Range(queues[q][v])
      BY <2>3 DEF Queued, QueuedIn
    <3>2. w \in Range(queues'[q][v])
      BY <2>1, <3>1
    <3> QED BY <3>2 DEF QueuedIn
  <2>4. ASSUME NEW w \in I PROVE w \in QueuedIn(queues')
    <3>1. w \in Range(queues'[p][u])
      BY <1>1, <2>1, <2>4
    <3> QED BY <1>1, <3>1 DEF QueuedIn
  <2> QED BY <2>2, <2>3, <2>4
<1>9. Queued' = Queued \cup I
  BY <1>8 DEF Queued
<1>10. PresentIn(queues)' = PresentIn(queues) \cup {PartOf[j]}
  <2>1. PresentIn(queues') = {Part(w) : w \in Queued \cup I}
    BY <1>8 DEF PresentIn
  <2>2. PresentIn(queues) = {Part(w) : w \in Queued}
    BY DEF PresentIn, Queued
  <2>3. {Part(w) : w \in I} = {PartOf[j]}
    BY <1>2, <1>3
  <2> HIDE DEF I
  <2>4. PresentIn(queues') = PresentIn(queues) \cup {PartOf[j]}
    BY <2>1, <2>2, <2>3
  <2> QED BY <2>4
<1>11. TypeOK'
  <2>1. queues' \in [Priorities -> [Users -> Seq(Workflows)]]
    BY <1>1, <1>5, <1>6 DEF IInv, TypeOK, Enqueue
  <2>2. rrUser' \in [Priorities -> Seq(Users)]
    BY <1>1 DEF IInv, TypeOK, Enqueue
  <2>3. rrOrder' \in Seq(Partitions) /\ rrMembers' \subseteq Partitions
    BY <1>1 DEF IInv, TypeOK, Enqueue
  <2>4. items' \subseteq Workflows /\ submitted' \subseteq Jobs /\ notEmpty' \in BOOLEAN
    BY <1>2 DEF IInv, TypeOK, Enqueue
  <2>5. miss' \in [Workflows -> 0..MissCap]
    BY LimitAssumption DEF IInv, TypeOK, Enqueue
  <2>6. arrivals' \in Seq(Jobs)
    BY DEF IInv, TypeOK, Enqueue
  <2>7. resv' = None \/ resv' \in Reservations
    BY DEF IInv, TypeOK, Enqueue
  <2> QED BY <2>1, <2>2, <2>3, <2>4, <2>5, <2>6, <2>7 DEF TypeOK
<1>12. QueuedOnce'
  <2>1. ASSUME NEW q \in Priorities, NEW v \in Users
        PROVE  /\ IsInjective(queues'[q][v])
               /\ \A w \in Range(queues'[q][v]) : Prio(w) = q /\ Owner(w) = v
    <3>1. CASE q = p /\ v = u
      <4>1. IsInjective(queues[p][u])
        BY <1>1 DEF IInv, QueuedOnce
      <4>2. Range(queues[p][u]) \cap I = {}
        BY <1>4, <1>7
      <4>3. \A w \in Range(queues[p][u]) : Prio(w) = p /\ Owner(w) = u
        BY <1>1 DEF IInv, QueuedOnce
      <4> HIDE DEF I, p, u
      <4> QED BY <1>3, <1>5, <1>6, <3>1, <4>1, <4>2, <4>3
    <3>2. CASE ~ (q = p /\ v = u)
      <4>1. queues'[q][v] = queues[q][v]
        BY <1>5, <3>2
      <4> QED BY <4>1 DEF IInv, QueuedOnce
    <3> QED BY <3>1, <3>2
  <2>2. Queued' \subseteq items'
    BY <1>9 DEF IInv, QueuedOnce, Enqueue
  <2> QED BY <2>1, <2>2 DEF QueuedOnce
<1>13. UserRotationComplete'
  <2>1. ASSUME NEW q \in Priorities
        PROVE  IsInjective(rrUser'[q]) /\ Range(rrUser'[q]) = UsersIn(queues', q)
    <3>1. /\ rrUser[q] \in Seq(Users) /\ IsInjective(rrUser[q])
          /\ Range(rrUser[q]) = UsersIn(queues, q)
      BY DEF IInv, TypeOK, UserRotationComplete
    <3>2. UsersIn(queues', q) = IF q = p THEN UsersIn(queues, q) \cup {u}
                                ELSE UsersIn(queues, q)
      BY <1>1, <1>5, <1>6, ZenonT(30) DEF UsersIn
    <3>3. CASE q = p /\ queues[p][u] = << >>
      <4>1. rrUser'[q] = Append(rrUser[q], u)
        BY <1>1, <3>3 DEF IInv, TypeOK, Enqueue
      <4>2. u \notin Range(rrUser[q])
        BY <3>1, <3>3 DEF UsersIn
      <4>3. /\ Range(Append(rrUser[q], u)) = Range(rrUser[q]) \cup {u}
            /\ IsInjective(Append(rrUser[q], u))
        BY <1>1, <3>1, <4>2, AppendElements
      <4> QED BY <3>1, <3>2, <3>3, <4>1, <4>3
    <3>4. CASE ~ (q = p /\ queues[p][u] = << >>)
      <4>1. rrUser'[q] = rrUser[q]
        BY <1>1, <3>4 DEF IInv, TypeOK, Enqueue
      <4>2. UsersIn(queues', q) = UsersIn(queues, q)
        BY <1>1, <3>2, <3>4 DEF UsersIn
      <4> QED BY <3>1, <4>1, <4>2
    <3> QED BY <3>3, <3>4
  <2> QED BY <2>1 DEF UserRotationComplete
<1>14. PartitionRotationComplete'
  <2>1. /\ rrOrder \in Seq(Partitions) /\ IsInjective(rrOrder)
        /\ Range(rrOrder) = rrMembers /\ rrMembers = PresentIn(queues)
    BY DEF IInv, TypeOK, PartitionRotationComplete
  <2>2. rrMembers' = rrMembers \cup {PartOf[j]}
    BY DEF Enqueue
  <2>3. CASE PartOf[j] \in rrMembers
    <3>1. rrOrder' = rrOrder
      BY <2>3 DEF Enqueue
    <3> QED BY <1>10, <2>1, <2>2, <2>3, <3>1 DEF PartitionRotationComplete
  <2>4. CASE PartOf[j] \notin rrMembers
    <3>1. rrOrder' = Append(rrOrder, PartOf[j])
      BY <2>4 DEF Enqueue
    <3>2. /\ Range(Append(rrOrder, PartOf[j])) = Range(rrOrder) \cup {PartOf[j]}
          /\ IsInjective(Append(rrOrder, PartOf[j]))
      BY <1>1, <2>1, <2>4, AppendElements
    <3> QED BY <1>10, <2>1, <2>2, <3>1, <3>2 DEF PartitionRotationComplete
  <2> QED BY <2>3, <2>4
<1>15. ArrivalsListQueued'
  <2>1. /\ arrivals \in Seq(Jobs) /\ IsInjective(arrivals)
        /\ Range(arrivals) = {JobOf(w) : w \in Queued}
    BY DEF IInv, TypeOK, ArrivalsListQueued
  <2>2. j \notin Range(arrivals)
    <3>1. ASSUME NEW w \in Queued, JobOf(w) = j PROVE FALSE
      <4>1. w \in Workflows
        BY QueuedFinite DEF IInv
      <4>2. w \in I
        BY <3>1, <4>1, Attributes
      <4> QED BY <1>4, <4>2
    <3> QED BY <2>1, <3>1
  <2>3. /\ Range(Append(arrivals, j)) = Range(arrivals) \cup {j}
        /\ IsInjective(Append(arrivals, j))
    BY <2>1, <2>2, AppendElements
  <2>4. {JobOf(w) : w \in Queued \cup I} = {JobOf(w) : w \in Queued} \cup {j}
    <3>1. {JobOf(w) : w \in I} = {j}
      BY <1>2, <1>3
    <3> HIDE DEF I
    <3> QED BY <3>1
  <2>5. arrivals' = Append(arrivals, j)
    BY DEF Enqueue
  <2> QED BY <1>9, <2>1, <2>3, <2>4, <2>5 DEF ArrivalsListQueued
<1>16. ReservationValid' /\ OnePartitionPerBatch' /\ NoLostWakeup'
  BY <1>9 DEF IInv, ReservationValid, OnePartitionPerBatch, NoLostWakeup, Enqueue
<1> QED BY <1>9, <1>11, <1>12, <1>13, <1>14, <1>15, <1>16 DEF IInv

(* Nothing but the reservation and the event may change while a batch is   *)
(* selected: the user rotations have nothing to prune.                     *)
LEMMA SelectStep ==
  ASSUME IInv, resv = None, NEW part \in PresentIn(queues),
         NEW rrPart \in Partitions \cup {None}, SelectFrom(part, rrPart),
         rrOrder' = rrOrder, rrMembers' = rrMembers
  PROVE  /\ IInv'
         /\ UNCHANGED <<queues, rrUser, rrOrder, rrMembers, items, miss>>
<1>1. /\ UNCHANGED <<queues, items, miss, arrivals, submitted>>
      /\ rrUser' = [p \in Priorities |->
                      IF Quantum[p] > 0 THEN Keep(rrUser[p], UsersIn(queues, p))
                      ELSE rrUser[p]]
  BY DEF SelectFrom
<1>2. rrUser' = rrUser
  <2>1. \A p \in Priorities : Keep(rrUser[p], UsersIn(queues, p)) = rrUser[p]
    <3> TAKE p \in Priorities
    <3>1. rrUser[p] \in Seq(Users) /\ Range(rrUser[p]) \subseteq UsersIn(queues, p)
      BY DEF IInv, TypeOK, UserRotationComplete
    <3> QED BY <3>1, KeepAll
  <2> QED BY <1>1, <2>1 DEF IInv, TypeOK
<1> DEFINE pool == Candidates(part)
<1>3. /\ pool \in SUBSET Queued
      /\ \A w \in pool : Part(w) = part
  BY DEF Candidates
<1>4. /\ Queued' = Queued /\ PresentIn(queues)' = PresentIn(queues)
      /\ \A p \in Priorities : UsersIn(queues, p)' = UsersIn(queues, p)
  BY <1>1 DEF Queued, QueuedIn, PresentIn, UsersIn
<1>5. \/ pool = {} /\ notEmpty' = FALSE /\ resv' = resv
      \/ /\ pool # {} /\ notEmpty' = notEmpty
         /\ \E S \in Selections(pool) :
              resv' = [selected |-> S, missed |-> pool \ S, rrPart |-> rrPart,
                       prios |-> ConsultedPriorities(part)]
  BY DEF SelectFrom
<1> HIDE DEF pool
<1>6. QueuedOnce' /\ UserRotationComplete'
  BY <1>1, <1>2, <1>4 DEF IInv, QueuedOnce, UserRotationComplete
<1>7. PartitionRotationComplete' /\ ArrivalsListQueued'
  BY <1>1, <1>4 DEF IInv, PartitionRotationComplete, ArrivalsListQueued
<1>8. CASE pool = {} /\ notEmpty' = FALSE /\ resv' = resv
  <2>1. TypeOK'
    <3>1. notEmpty' \in BOOLEAN
      BY <1>8
    <3> QED BY <1>1, <1>2, <1>8, <3>1 DEF IInv, TypeOK
  <2>2. ReservationValid' /\ OnePartitionPerBatch'
    BY <1>8 DEF ReservationValid, OnePartitionPerBatch
  <2>3. ~ \A p \in Priorities : Quantum[p] > 0
    BY <1>8, PoolNotEmpty DEF IInv, pool
  <2>4. NoLostWakeup'
    BY <2>3 DEF NoLostWakeup
  <2> QED BY <1>1, <1>2, <1>6, <1>7, <2>1, <2>2, <2>4 DEF IInv
<1>9. CASE /\ pool # {} /\ notEmpty' = notEmpty
           /\ \E S \in Selections(pool) :
                resv' = [selected |-> S, missed |-> pool \ S, rrPart |-> rrPart,
                         prios |-> ConsultedPriorities(part)]
  <2>1. PICK S \in Selections(pool) :
               resv' = [selected |-> S, missed |-> pool \ S, rrPart |-> rrPart,
                        prios |-> ConsultedPriorities(part)]
    BY <1>9
  <2>2. S \subseteq pool /\ S # {} /\ Cardinality(S) <= Batch
    BY <1>3, <1>9, SelectionFits DEF IInv, Fits
  <2>3. pool \subseteq Workflows
    BY <1>3, QueuedFinite DEF IInv
  <2>4. ConsultedPriorities(part) \subseteq Priorities
    BY DEF ConsultedPriorities
  <2>5. resv' \in Reservations
    BY <2>1, <2>2, <2>3, <2>4 DEF Reservations
  <2>6. TypeOK'
    BY <1>1, <1>2, <1>9, <2>5 DEF IInv, TypeOK
  <2>7. resv'.selected = S /\ resv'.missed = pool \ S
    BY <2>1
  <2>8. ReservationValid' /\ OnePartitionPerBatch'
    BY <1>3, <1>4, <2>2, <2>7 DEF ReservationValid, OnePartitionPerBatch, Batch
  <2>9. NoLostWakeup'
    BY <1>4, <1>9 DEF IInv, NoLostWakeup
  <2> QED BY <1>1, <1>2, <1>6, <1>7, <2>6, <2>8, <2>9 DEF IInv
<1> QED BY <1>5, <1>8, <1>9

(* reserve_batch, on each of its three paths, keeps the invariant and      *)
(* leaves queues, rotations and miss counters as they were.                *)
LEMMA ReserveStep ==
  ASSUME IInv, ReserveBatch
  PROVE  /\ IInv'
         /\ UNCHANGED <<queues, rrUser, rrOrder, rrMembers, items, miss>>
<1>1. CASE ReserveNothing
  <2>1. UNCHANGED <<queues, rrUser, rrOrder, rrMembers, items, miss, arrivals,
                    resv, submitted>> /\ notEmpty' = FALSE /\ Queued = {}
    BY <1>1 DEF ReserveNothing
  <2>2. /\ Queued' = Queued /\ PresentIn(queues)' = PresentIn(queues)
        /\ \A p \in Priorities : UsersIn(queues, p)' = UsersIn(queues, p)
    BY <2>1 DEF Queued, QueuedIn, PresentIn, UsersIn
  <2>3. notEmpty' \in BOOLEAN
    BY <2>1
  <2>4. TypeOK'
    BY <2>1, <2>3 DEF IInv, TypeOK
  <2>5. QueuedOnce' /\ UserRotationComplete' /\ PartitionRotationComplete'
    BY <2>1, <2>2 DEF IInv, QueuedOnce, UserRotationComplete, PartitionRotationComplete
  <2>6. ArrivalsListQueued' /\ ReservationValid' /\ OnePartitionPerBatch' /\ NoLostWakeup'
    BY <2>1, <2>2 DEF IInv, ArrivalsListQueued, ReservationValid, OnePartitionPerBatch,
                      NoLostWakeup
  <2> QED BY <2>1, <2>4, <2>5, <2>6 DEF IInv
<1>2. CASE ReserveStarved
  <2>1. PICK w \in Queued : SelectFrom(Part(w), None)
    BY <1>2 DEF ReserveStarved
  <2>2. resv = None /\ rrOrder' = rrOrder /\ rrMembers' = rrMembers
    BY <1>2 DEF ReserveStarved
  <2>3. Part(w) \in PresentIn(queues)
    BY DEF PresentIn, Queued
  <2> QED BY <2>1, <2>2, <2>3, SelectStep
<1>3. CASE ReserveRoundRobin
  <2>1. /\ rrOrder \in Seq(Partitions)
        /\ Range(rrOrder) = rrMembers /\ rrMembers = PresentIn(queues)
    BY DEF IInv, TypeOK, PartitionRotationComplete
  <2>2. StaleHeads = {}
    <3>1. ASSUME NEW i \in DOMAIN rrOrder,
                 \A k \in 1..i : rrOrder[k] \notin PresentIn(queues)
          PROVE  FALSE
      <4>1. i \in 1..i /\ rrOrder[i] \in Range(rrOrder)
        BY <2>1 DEF Range
      <4> QED BY <2>1, <3>1, <4>1
    <3> QED BY <3>1 DEF StaleHeads
  <2>3. Cardinality(StaleHeads) = 0
    BY <2>2, FS_EmptySet
  <2>4. SubSeq(rrOrder, Cardinality(StaleHeads) + 1, Len(rrOrder)) = rrOrder
    BY <2>1, <2>3
  <2>5. rrMembers \ {rrOrder[i] : i \in StaleHeads} = rrMembers
    BY <2>2
  <2>6. rrOrder # << >>
    <3>1. PresentIn(queues) # {}
      BY <1>3 DEF ReserveRoundRobin, PresentIn, Queued
    <3> QED BY <2>1, <3>1 DEF Range
  <2>7. Head(rrOrder) \in PresentIn(queues) /\ Head(rrOrder) \in Partitions
    <3>1. Head(rrOrder) = rrOrder[1] /\ 1 \in DOMAIN rrOrder /\ rrOrder[1] \in Partitions
      BY <2>1, <2>6
    <3> QED BY <2>1, <3>1 DEF Range
  <2>8. /\ rrOrder' = rrOrder /\ rrMembers' = rrMembers /\ resv = None
        /\ SelectFrom(Head(rrOrder), Head(rrOrder))
    BY <1>3, <2>4, <2>5, <2>6 DEF ReserveRoundRobin
  <2> QED BY <2>7, <2>8, SelectStep
<1> QED BY <1>1, <1>2, <1>3 DEF ReserveBatch

(* Commit: exactly the reserved batch leaves, and both rotations drop the  *)
(* users and partitions that it drained.                                   *)
LEMMA CommitStep ==
  ASSUME IInv, CommitReservation
  PROVE  IInv' /\ Queued' = Queued \ resv.selected
<1> DEFINE sel  == resv.selected
           left == [p \in Priorities |-> [u \in Users |->
                      Keep(queues[p][u], Workflows \ sel)]]
           pruned == [p \in Priorities |->
                        IF UsersIn(queues, p) = {} THEN rrUser[p]
                        ELSE Keep(rrUser[p], UsersIn(left, p))]
           stale == rrMembers \ PresentIn(left)
           live == Keep(rrOrder, Partitions \ stale)
<1>1. /\ resv # None /\ resv' = None /\ queues' = left
      /\ rrMembers' = rrMembers \ stale
      /\ UNCHANGED <<items, submitted>>
  BY DEF CommitReservation
<1>2. \A p \in Priorities, u \in Users :
        /\ left[p][u] \in Seq(Workflows)
        /\ Range(left[p][u]) = Range(queues[p][u]) \ sel
        /\ IsInjective(left[p][u])
  <2> TAKE p \in Priorities, u \in Users
  <2>1. queues[p][u] \in Seq(Workflows) /\ IsInjective(queues[p][u])
    BY DEF IInv, TypeOK, QueuedOnce
  <2>2. Range(queues[p][u]) \subseteq Workflows
    BY <2>1 DEF Range
  <2>3. /\ Keep(queues[p][u], Workflows \ sel) \in Seq(Workflows)
        /\ Range(Keep(queues[p][u], Workflows \ sel))
             = Range(queues[p][u]) \cap (Workflows \ sel)
        /\ IsInjective(Keep(queues[p][u], Workflows \ sel))
    BY <2>1, KeepElements
  <2> QED BY <2>2, <2>3
<1>3. left \in [Priorities -> [Users -> Seq(Workflows)]]
  BY <1>2
<1> HIDE DEF left
<1>4. QueuedIn(left) = Queued \ sel
  BY <1>2 DEF Queued, QueuedIn
<1>5. Queued' = Queued \ sel
  BY <1>1, <1>4 DEF Queued
<1>6. PresentIn(queues') = PresentIn(left) /\ PresentIn(left) \subseteq PresentIn(queues)
  BY <1>1, <1>4 DEF PresentIn, Queued
<1>7. \A p \in Priorities : UsersIn(left, p) \subseteq UsersIn(queues, p)
  <2> TAKE p \in Priorities
  <2>1. ASSUME NEW u \in UsersIn(left, p) PROVE u \in UsersIn(queues, p)
    <3>1. u \in Users /\ left[p][u] # << >> /\ left[p][u] \in Seq(Workflows)
      BY <1>2, <2>1 DEF UsersIn
    <3>2. left[p][u][1] \in Range(left[p][u])
      BY <3>1 DEF Range
    <3>3. Range(queues[p][u]) # {}
      BY <1>2, <3>1, <3>2
    <3>4. queues[p][u] # << >>
      BY <3>3 DEF Range
    <3> QED BY <3>1, <3>4 DEF UsersIn
  <2> QED BY <2>1
<1>8. \A p \in Priorities :
        /\ pruned[p] \in Seq(Users) /\ IsInjective(pruned[p])
        /\ Range(pruned[p]) = UsersIn(left, p)
  <2> TAKE p \in Priorities
  <2>1. /\ rrUser[p] \in Seq(Users) /\ IsInjective(rrUser[p])
        /\ Range(rrUser[p]) = UsersIn(queues, p)
    BY DEF IInv, TypeOK, UserRotationComplete
  <2>2. /\ Keep(rrUser[p], UsersIn(left, p)) \in Seq(Users)
        /\ Range(Keep(rrUser[p], UsersIn(left, p))) = Range(rrUser[p]) \cap UsersIn(left, p)
        /\ IsInjective(Keep(rrUser[p], UsersIn(left, p)))
    BY <2>1, KeepElements
  <2> QED BY <1>7, <2>1, <2>2
<1>9. \A p \in Priorities :
        /\ rrUser'[p] \in Seq(Users) /\ IsInjective(rrUser'[p])
        /\ Range(rrUser'[p]) = UsersIn(left, p)
  <2> TAKE p \in Priorities
  <2>1. rrUser'[p] = IF p \in resv.prios /\ Len(pruned[p]) > 1
                     THEN Rotate(pruned[p]) ELSE pruned[p]
    BY DEF CommitReservation, left
  <2>2. CASE p \in resv.prios /\ Len(pruned[p]) > 1
    <3> HIDE DEF pruned
    <3>1. pruned[p] # << >> /\ pruned[p] \in Seq(Users)
      BY <1>8, <2>2
    <3>2. /\ Rotate(pruned[p]) \in Seq(Users)
          /\ Range(Rotate(pruned[p])) = Range(pruned[p])
          /\ IsInjective(pruned[p]) => IsInjective(Rotate(pruned[p]))
      BY <3>1, RotateElements
    <3> QED BY <1>8, <2>1, <2>2, <3>2
  <2>3. CASE ~ (p \in resv.prios /\ Len(pruned[p]) > 1)
    <3> HIDE DEF pruned
    <3> QED BY <1>8, <2>1, <2>3
  <2> QED BY <2>2, <2>3
<1>10. /\ live \in Seq(Partitions) /\ IsInjective(live)
       /\ Range(live) = rrMembers \ stale
  <2>1. /\ rrOrder \in Seq(Partitions) /\ IsInjective(rrOrder)
        /\ Range(rrOrder) = rrMembers /\ rrMembers \subseteq Partitions
    BY DEF IInv, TypeOK, PartitionRotationComplete
  <2>2. /\ live \in Seq(Partitions)
        /\ Range(live) = Range(rrOrder) \cap (Partitions \ stale)
        /\ IsInjective(live)
    BY <2>1, KeepElements
  <2> QED BY <2>1, <2>2
<1>11. /\ rrOrder' \in Seq(Partitions) /\ IsInjective(rrOrder')
       /\ Range(rrOrder') = rrMembers'
  <2>1. rrOrder' = IF live # << >> /\ resv.rrPart # None /\ Head(live) = resv.rrPart
                   THEN Rotate(live) ELSE live
    BY DEF CommitReservation, left
  <2> HIDE DEF live, stale
  <2>2. CASE live # << >>
    <3>1. /\ Rotate(live) \in Seq(Partitions)
          /\ Range(Rotate(live)) = Range(live)
          /\ IsInjective(live) => IsInjective(Rotate(live))
      BY <1>10, <2>2, RotateElements
    <3> QED BY <1>1, <1>10, <2>1, <3>1
  <2>3. CASE live = << >>
    BY <1>1, <1>10, <2>1, <2>3
  <2> QED BY <2>2, <2>3
<1>12. rrMembers' = PresentIn(queues')
  BY <1>1, <1>6 DEF IInv, PartitionRotationComplete
<1>13. arrivals' = Keep(arrivals, {JobOf(w) : w \in QueuedIn(left)})
  BY DEF CommitReservation, left
<1>14. /\ arrivals' \in Seq(Jobs) /\ IsInjective(arrivals')
       /\ Range(arrivals') = {JobOf(w) : w \in Queued'}
  <2>1. /\ arrivals \in Seq(Jobs) /\ IsInjective(arrivals)
        /\ Range(arrivals) = {JobOf(w) : w \in Queued}
    BY DEF IInv, TypeOK, ArrivalsListQueued
  <2> DEFINE J == {JobOf(w) : w \in QueuedIn(left)}
  <2>2. J \subseteq {JobOf(w) : w \in Queued}
    BY <1>4
  <2>3. J = {JobOf(w) : w \in Queued'}
    BY <1>4, <1>5
  <2> HIDE DEF J
  <2>4. /\ Keep(arrivals, J) \in Seq(Jobs)
        /\ Range(Keep(arrivals, J)) = Range(arrivals) \cap J
        /\ IsInjective(Keep(arrivals, J))
    BY <2>1, KeepElements
  <2>5. arrivals' = Keep(arrivals, J)
    BY <1>13 DEF J
  <2> QED BY <2>1, <2>2, <2>3, <2>4, <2>5
<1>15. TypeOK'
  <2>1. rrUser' \in [Priorities -> Seq(Users)]
    <3>1. rrUser' = [p \in Priorities |->
                       IF p \in resv.prios /\ Len(pruned[p]) > 1
                       THEN Rotate(pruned[p]) ELSE pruned[p]]
      BY DEF CommitReservation, left
    <3> HIDE DEF pruned
    <3> QED BY <1>9, <3>1
  <2>2. miss' \in [Workflows -> 0..MissCap]
    <3>1. miss' = [w \in Workflows |->
                     IF w \in resv.missed \cap items /\ miss[w] < MissCap
                     THEN miss[w] + 1 ELSE miss[w]]
      BY DEF CommitReservation
    <3>2. \A w \in Workflows : miss[w] \in 0..MissCap
      BY DEF IInv, TypeOK
    <3> QED BY <3>1, <3>2, LimitAssumption
  <2>3. notEmpty' \in BOOLEAN
    BY DEF CommitReservation
  <2>4. rrMembers' \subseteq Partitions /\ items' \subseteq Workflows /\ submitted' \subseteq Jobs
    BY <1>1 DEF IInv, TypeOK
  <2> QED BY <1>1, <1>3, <1>11, <1>14, <2>1, <2>2, <2>3, <2>4 DEF TypeOK
<1>16. QueuedOnce'
  <2>1. ASSUME NEW p \in Priorities, NEW u \in Users
        PROVE  /\ IsInjective(queues'[p][u])
               /\ \A w \in Range(queues'[p][u]) : Prio(w) = p /\ Owner(w) = u
    BY <1>1, <1>2 DEF IInv, QueuedOnce
  <2>2. Queued' \subseteq items'
    BY <1>1, <1>5 DEF IInv, QueuedOnce
  <2> QED BY <2>1, <2>2 DEF QueuedOnce
<1>17. UserRotationComplete'
  BY <1>1, <1>9 DEF UserRotationComplete
<1>18. PartitionRotationComplete' /\ ArrivalsListQueued'
  BY <1>11, <1>12, <1>14 DEF PartitionRotationComplete, ArrivalsListQueued
<1>19. ReservationValid' /\ OnePartitionPerBatch'
  BY <1>1 DEF ReservationValid, OnePartitionPerBatch
<1>20. NoLostWakeup'
  <2>1. notEmpty' = (notEmpty /\ QueuedIn(left) # {})
    BY DEF CommitReservation, left
  <2> QED BY <1>4, <1>5, <2>1 DEF IInv, NoLostWakeup
<1> QED BY <1>5, <1>15, <1>16, <1>17, <1>18, <1>19, <1>20 DEF IInv

(* abort_reservation keeps the invariant.                                  *)
LEMMA AbortStep ==
  ASSUME IInv, AbortReservation
  PROVE  IInv'
<1>1. resv' = None /\ UNCHANGED <<queues, rrUser, rrOrder, rrMembers, items, miss,
                                  arrivals, notEmpty, submitted>>
  BY DEF AbortReservation
<1>2. /\ Queued' = Queued /\ PresentIn(queues)' = PresentIn(queues)
      /\ \A p \in Priorities : UsersIn(queues, p)' = UsersIn(queues, p)
  BY <1>1 DEF Queued, QueuedIn, PresentIn, UsersIn
<1>3. TypeOK'
  BY <1>1 DEF IInv, TypeOK
<1>4. QueuedOnce' /\ UserRotationComplete' /\ PartitionRotationComplete'
  BY <1>1, <1>2 DEF IInv, QueuedOnce, UserRotationComplete, PartitionRotationComplete
<1>5. ArrivalsListQueued' /\ ReservationValid' /\ OnePartitionPerBatch' /\ NoLostWakeup'
  BY <1>1, <1>2 DEF IInv, ArrivalsListQueued, ReservationValid, OnePartitionPerBatch,
                    NoLostWakeup
<1> QED BY <1>3, <1>4, <1>5 DEF IInv

(* finalize_workflows keeps the invariant: it forgets only workflows that  *)
(* have left the queue.                                                    *)
LEMMA FinalizeStep ==
  ASSUME IInv, NEW S \in SUBSET (items \ Queued), FinalizeWorkflows(S)
  PROVE  IInv' /\ Queued' = Queued
<1>1. items' = items \ S /\ UNCHANGED <<queues, rrUser, rrOrder, rrMembers, miss,
                                        arrivals, notEmpty, resv, submitted>>
  BY DEF FinalizeWorkflows
<1>2. /\ Queued' = Queued /\ PresentIn(queues)' = PresentIn(queues)
      /\ \A p \in Priorities : UsersIn(queues, p)' = UsersIn(queues, p)
  BY <1>1 DEF Queued, QueuedIn, PresentIn, UsersIn
<1>3. TypeOK'
  BY <1>1 DEF IInv, TypeOK
<1>4. QueuedOnce' /\ UserRotationComplete' /\ PartitionRotationComplete'
  BY <1>1, <1>2 DEF IInv, QueuedOnce, UserRotationComplete, PartitionRotationComplete
<1>5. ArrivalsListQueued' /\ ReservationValid' /\ OnePartitionPerBatch' /\ NoLostWakeup'
  BY <1>1, <1>2 DEF IInv, ArrivalsListQueued, ReservationValid, OnePartitionPerBatch,
                    NoLostWakeup
<1> QED BY <1>2, <1>3, <1>4, <1>5 DEF IInv

(* The invariant is inductive.                                             *)
THEOREM StepIInv == IInv /\ [Next]_vars => IInv'
<1> SUFFICES ASSUME IInv, [Next]_vars PROVE IInv'
  OBVIOUS
<1>1. ASSUME NEW j \in Jobs, Enqueue(j) PROVE IInv'
  BY <1>1, EnqueueStep
<1>2. CASE ReserveBatch
  BY <1>2, ReserveStep
<1>3. CASE CommitReservation
  BY <1>3, CommitStep
<1>4. CASE AbortReservation
  BY <1>4, AbortStep
<1>5. ASSUME NEW S \in SUBSET (items \ Queued), FinalizeWorkflows(S) PROVE IInv'
  BY <1>5, FinalizeStep
<1>6. CASE UNCHANGED vars
  <2>1. UNCHANGED <<queues, rrUser, rrOrder, rrMembers, items, miss, arrivals,
                    notEmpty, resv, submitted>>
    BY <1>6 DEF vars
  <2>2. /\ Queued' = Queued /\ PresentIn(queues)' = PresentIn(queues)
        /\ \A p \in Priorities : UsersIn(queues, p)' = UsersIn(queues, p)
    BY <2>1 DEF Queued, QueuedIn, PresentIn, UsersIn
  <2>3. TypeOK'
    BY <2>1 DEF IInv, TypeOK
  <2>4. QueuedOnce' /\ UserRotationComplete' /\ PartitionRotationComplete'
    BY <2>1, <2>2 DEF IInv, QueuedOnce, UserRotationComplete, PartitionRotationComplete
  <2>5. ArrivalsListQueued' /\ ReservationValid' /\ OnePartitionPerBatch' /\ NoLostWakeup'
    BY <2>1, <2>2 DEF IInv, ArrivalsListQueued, ReservationValid, OnePartitionPerBatch,
                      NoLostWakeup
  <2> QED BY <2>3, <2>4, <2>5 DEF IInv
<1> QED BY <1>1, <1>2, <1>3, <1>4, <1>5, <1>6 DEF Next

(* PriorityJobManager keeps its invariant in every reachable state.        *)
THEOREM Invariance == Spec => []IInv
BY InitIInv, StepIInv, PTL DEF Spec

-----------------------------------------------------------------------------
(***************************************************************************)
(* What the invariant gives, property by property.                         *)
(***************************************************************************)

(* The types of the manager's state, in particular that a reservation has  *)
(* its shape and miss counters stay in range.                              *)
THEOREM TypeCorrect == Spec => []TypeOK
<1>1. IInv => TypeOK
  BY DEF IInv
<1> QED BY <1>1, Invariance, PTL

(* Every queued workflow is in exactly one deque, that of its own priority *)
(* and user; the user rotations list the users with work and the partition *)
(* rotation the partitions with work, each once, so that the reseeding     *)
(* branch of reserve_batch is dead code.                                   *)
THEOREM QueuesAlwaysConsistent == Spec => []QueuesConsistent
<1>1. IInv => QueuesConsistent
  BY DEF IInv, QueuesConsistent
<1> QED BY <1>1, Invariance, PTL

(* A reservation is non-empty, fits in a batch, is still queued when it is *)
(* committed, and never mixes partitions.                                  *)
THEOREM ReservationAlwaysSound == Spec => []ReservationSound
<1>1. IInv => ReservationSound
  BY DEF IInv, ReservationSound
<1> QED BY <1>1, Invariance, PTL

(* The scheduler is never left asleep beside queued work.                  *)
THEOREM WakeupAlways == Spec => []NoLostWakeup
<1>1. IInv => NoLostWakeup
  BY DEF IInv
<1> QED BY <1>1, Invariance, PTL

(* reserve_batch changes neither queues nor rotations nor miss counters.   *)
THEOREM ReserveAlwaysPure == Spec => ReserveIsPure
<1>1. IInv /\ [Next]_vars =>
        [ReserveBatch => UNCHANGED <<queues, rrUser, rrOrder, rrMembers, items, miss>>]_vars
  <2> SUFFICES ASSUME IInv, ReserveBatch
               PROVE  UNCHANGED <<queues, rrUser, rrOrder, rrMembers, items, miss>>
    OBVIOUS
  <2> QED BY ReserveStep
<1> QED BY <1>1, Invariance, PTL DEF Spec, ReserveIsPure

-----------------------------------------------------------------------------
(***************************************************************************)
(* Refinement: the manager is a WorkflowQueue.                             *)
(***************************************************************************)
(* A new manager is an empty abstract queue.                               *)
LEMMA RefinementInit == Init => AbstractQueue!QInit
<1> SUFFICES ASSUME Init PROVE AbstractQueue!QInit
  OBVIOUS
<1>1. Queued = {}
  <2>1. Range(<< >>) = {}
    BY DEF Range
  <2> QED BY <2>1 DEF Init, Queued, QueuedIn
<1> QED BY <1>1 DEF Init, AbstractQueue!QInit

(* enqueue of a job is an abstract enqueue of its workflows.               *)
LEMMA RefinementEnqueue ==
  ASSUME IInv, IInv', NEW j \in Jobs, Enqueue(j)
  PROVE  AbstractQueue!Enqueue(Range(ItemsOf[j])) /\ Range(ItemsOf[j]) \in SUBSET Workflows
<1> DEFINE I == Range(ItemsOf[j])
<1>1. /\ ItemsOf[j] \in Seq(Workflows) /\ ItemsOf[j] # << >>
      /\ PriorityOf[j] \in Priorities /\ UserOf[j] \in Users
  BY JobAssumption
<1>2. I \subseteq Workflows /\ I # {}
  <2>1. I \subseteq Workflows
    BY <1>1 DEF Range
  <2>2. 1 \in DOMAIN ItemsOf[j]
    BY <1>1
  <2> QED BY <2>1, <2>2 DEF Range
<1>3. /\ I \cap items = {} /\ items' = items \cup I /\ resv' = resv
      /\ queues' = [queues EXCEPT ![PriorityOf[j]][UserOf[j]] = @ \o ItemsOf[j]]
  BY DEF Enqueue
<1>4. Queued \subseteq items
  BY DEF IInv, QueuedOnce
<1>5. Queued' = Queued \cup I
  BY EnqueueStep
<1>6. items' \ Queued' = items \ Queued
  BY <1>3, <1>4, <1>5
<1> QED BY <1>2, <1>3, <1>4, <1>5, <1>6 DEF AbstractQueue!Enqueue

(* reserve_batch is an abstract reservation, or a stutter when it returns  *)
(* no batch.                                                               *)
LEMMA RefinementReserve ==
  ASSUME IInv, IInv', ReserveBatch
  PROVE  \/ resv' = resv /\ Queued' = Queued /\ items' = items
         \/ AbstractQueue!Reserve(resv'.selected) /\ resv'.selected \in SUBSET Workflows
<1>1. queues' = queues /\ items' = items
  BY ReserveStep
<1>2. Queued' = Queued
  BY <1>1 DEF Queued
<1>3. resv = None
  BY DEF ReserveBatch, ReserveNothing, ReserveStarved, ReserveRoundRobin
<1>4. CASE resv' = None
  BY <1>1, <1>2, <1>3, <1>4
<1>5. CASE resv' # None
  <2>1. /\ resv'.selected # {} /\ Cardinality(resv'.selected) <= Batch
        /\ resv'.selected \subseteq Queued
        /\ \A v, w \in resv'.selected : Part(v) = Part(w)
    BY <1>2, <1>5 DEF IInv, ReservationValid, OnePartitionPerBatch, Batch
  <2>2. Queued \subseteq Workflows
    BY QueuedFinite DEF IInv
  <2>3. \A v, w \in resv'.selected :
          [x \in Workflows |-> Part(x)][v] = [x \in Workflows |-> Part(x)][w]
    BY <2>1, <2>2
  <2> QED BY <1>1, <1>2, <1>3, <1>5, <2>1, <2>2, <2>3 DEF AbstractQueue!Reserve
<1> QED BY <1>4, <1>5

(* commit_reservation is an abstract commit.                               *)
LEMMA RefinementCommit ==
  ASSUME IInv, CommitReservation
  PROVE  AbstractQueue!Commit
<1>1. Queued' = Queued \ resv.selected
  BY CommitStep
<1>2. resv # None /\ resv' = None /\ items' = items
  BY DEF CommitReservation
<1>3. resv.selected # {} /\ resv.selected \subseteq Queued
  BY <1>2 DEF IInv, ReservationValid
<1>4. Queued \subseteq items
  BY DEF IInv, QueuedOnce
<1>5. items' \ Queued' = (items \ Queued) \cup resv.selected
  BY <1>1, <1>2, <1>3, <1>4
<1> QED BY <1>1, <1>2, <1>3, <1>5 DEF AbstractQueue!Commit

(* Every step of the manager is a step of the abstract queue or a stutter. *)
LEMMA RefinementStep ==
  IInv /\ IInv' /\ [Next]_vars => [AbstractQueue!QNext]_(AbstractQueue!qvars)
<1> SUFFICES ASSUME IInv, IInv', [Next]_vars
             PROVE  [AbstractQueue!QNext]_(AbstractQueue!qvars)
  OBVIOUS
<1>1. ASSUME NEW j \in Jobs, Enqueue(j)
      PROVE  AbstractQueue!QNext
  BY <1>1, RefinementEnqueue DEF AbstractQueue!QNext
<1>2. CASE ReserveBatch
  BY <1>2, RefinementReserve DEF AbstractQueue!QNext, AbstractQueue!qvars
<1>3. CASE CommitReservation
  BY <1>3, RefinementCommit DEF AbstractQueue!QNext
<1>4. CASE AbortReservation
  <2>1. resv # None /\ resv' = None /\ items' = items /\ Queued' = Queued
    BY <1>4 DEF AbortReservation, Queued
  <2>2. resv.selected # {}
    BY <2>1 DEF IInv, ReservationValid
  <2> QED BY <2>1, <2>2 DEF AbstractQueue!QNext, AbstractQueue!Abort
<1>5. ASSUME NEW S \in SUBSET (items \ Queued), FinalizeWorkflows(S)
      PROVE  AbstractQueue!QNext
  <2>1. S # {} /\ items' = items \ S /\ Queued' = Queued /\ resv' = resv
    BY <1>5, FinalizeStep DEF FinalizeWorkflows
  <2>2. S \in SUBSET Workflows
    BY DEF IInv, TypeOK
  <2>3. items' \ Queued' = (items \ Queued) \ S
    BY <2>1
  <2>4. AbstractQueue!Finalize(S)
    BY <2>1, <2>3 DEF AbstractQueue!Finalize
  <2> QED BY <2>2, <2>4 DEF AbstractQueue!QNext
<1>6. CASE UNCHANGED vars
  BY <1>6 DEF vars, Queued, AbstractQueue!qvars
<1> QED BY <1>1, <1>2, <1>3, <1>4, <1>5, <1>6 DEF Next

(* PriorityJobManager implements the two-phase queue of BaseJobManager:    *)
(* reserved work stays queued until commit, abort changes nothing, commit  *)
(* removes exactly the batch.                                              *)
THEOREM Refinement == Spec => ImplementsWorkflowQueue
BY RefinementInit, RefinementStep, Invariance, PTL
   DEF Spec, ImplementsWorkflowQueue, AbstractQueue!QSpec

=============================================================================
