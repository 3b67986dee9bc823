------------------------------ MODULE JobQueue ------------------------------
(***************************************************************************)
(* PriorityJobManager (runtime/job_manager/priority_queue.py): workflows   *)
(* wait in one deque per priority and user; a batch is picked from one     *)
(* partition by two-level round robin, with a miss counter that forces the *)
(* workflows that were passed over too often.                              *)
(*                                                                         *)
(* Every method runs under the manager's lock and never awaits inside it,  *)
(* so each one is a single action.  What interleaves is the calls: jobs    *)
(* arrive between reserve_batch and the commit or abort that ends it.      *)
(*                                                                         *)
(* A user absent from the dict _queues[p] is a user whose sequence is      *)
(* empty: no method leaves an empty deque behind.  enqueued_at is kept as  *)
(* the order in which the jobs arrived.                                    *)
(***************************************************************************)
EXTENDS Deques, FiniteSets

CONSTANTS Workflows,       \* workflow items (the slices of the jobs)
          Jobs,            \* requests handed to enqueue
          Users,           \* config.user_id, the owner of a queue
          Partitions,      \* (principal, token, optimizer, hardware) keys
          ItemsOf,         \* the workflows of a job, in enqueue order
          UserOf,          \* the user of a job
          PriorityOf,      \* the priority of a job
          PartOf,          \* the partition of a job
          Recurring,       \* jobs that are submitted again once finished
          Quantum,         \* candidates one priority may contribute
          BatchSize,       \* argument of reserve_batch
          StarvationLimit, \* misses after which a workflow is starved
          MissCap,         \* bound: miss counters saturate here
          None             \* no reservation, no partition

Priorities == 1..3         \* HIGH, MEDIUM, LOW in the enum's order

ASSUME JobAssumption ==
  /\ ItemsOf \in [Jobs -> Seq(Workflows)]
  /\ UserOf \in [Jobs -> Users]
  /\ PriorityOf \in [Jobs -> Priorities]
  /\ PartOf \in [Jobs -> Partitions]
  /\ Recurring \subseteq Jobs
  /\ \A j \in Jobs : ItemsOf[j] # << >> /\ IsInjective(ItemsOf[j])
  /\ \A w \in Workflows : \E j \in Jobs : w \in Range(ItemsOf[j])
  /\ \A i, j \in Jobs : i # j => Range(ItemsOf[i]) \cap Range(ItemsOf[j]) = {}

ASSUME LimitAssumption ==
  /\ Quantum \in [Priorities -> Int]
  /\ BatchSize \in Int
  /\ StarvationLimit \in Nat
  /\ MissCap \in Nat /\ MissCap >= StarvationLimit

ASSUME FiniteAssumption == IsFiniteSet(Workflows)

(* What a BatchReservation carries to its commit: the batch, the pool      *)
(* members it passes over, and the rotations that are due.                 *)
Reservations ==
  [selected : SUBSET Workflows, missed : SUBSET Workflows,
   rrPart : Partitions \cup {None}, prios : SUBSET Priorities]

ASSUME NoneAssumption == None \notin Partitions /\ None \notin Reservations

VARIABLES queues,      \* _queues[priority][user]
          rrUser,      \* _rr_user_order[priority]
          rrOrder,     \* _rr_partition_order
          rrMembers,   \* _rr_partition_members
          items,       \* _items: workflows known to the manager
          miss,        \* miss_count of each workflow
          arrivals,    \* enqueued_at: jobs with queued work, oldest first
          notEmpty,    \* the _not_empty event
          resv,        \* _active_reservation
          submitted    \* jobs that have been handed to enqueue

vars == <<queues, rrUser, rrOrder, rrMembers, items, miss, arrivals,
          notEmpty, resv, submitted>>

-----------------------------------------------------------------------------
(* Attributes of a workflow are those of its job.                          *)
JobOf(w) == CHOOSE j \in Jobs : w \in Range(ItemsOf[j])
Owner(w) == UserOf[JobOf(w)]
Prio(w)  == PriorityOf[JobOf(w)]
Part(w)  == PartOf[JobOf(w)]

-----------------------------------------------------------------------------
QueuedIn(qs) == UNION {Range(qs[p][u]) : p \in Priorities, u \in Users}
Queued == QueuedIn(queues)
PresentIn(qs) == {Part(w) : w \in QueuedIn(qs)}
Starved(w) == miss[w] >= StarvationLimit
Batch == IF BatchSize <= 0 THEN 1 ELSE BatchSize

(* Users of priority p that have a queue in qs.                            *)
UsersIn(qs, p) == {u \in Users : qs[p][u] # << >>}

(***************************************************************************)
(* The candidate pool of partition part: each priority contributes the     *)
(* first Quantum of its workflows, dealt round robin over its users.  In   *)
(* that deal v comes before w if it is in an earlier round, or in the same *)
(* round and its user is earlier in the rotation.                          *)
(***************************************************************************)
Round(w) ==
  LET q == queues[Prio(w)][Owner(w)]
  IN  Cardinality({i \in 1..(IndexIn(q, w) - 1) : Part(q[i]) = Part(w)})

DealtBefore(v, w) ==
  \/ Round(v) < Round(w)
  \/ /\ Round(v) = Round(w)
     /\ IndexIn(rrUser[Prio(v)], Owner(v)) < IndexIn(rrUser[Prio(w)], Owner(w))

(* Deviations, here and below: a definition as a plausible slip in the     *)
(* code would have it, used to see that a property notices.                *)
CandidatesShort(part) ==
  {w \in Queued :
     /\ Part(w) = part
     /\ Cardinality({v \in Queued : /\ Part(v) = part
                                    /\ Prio(v) = Prio(w)
                                    /\ DealtBefore(v, w)}) < Quantum[Prio(w)] - 1}

Candidates(part) ==
  {w \in Queued :
     /\ Part(w) = part
     /\ Cardinality({v \in Queued : /\ Part(v) = part
                                    /\ Prio(v) = Prio(w)
                                    /\ DealtBefore(v, w)}) < Quantum[Prio(w)]}

(* Position in the list of candidates: priorities are concatenated.        *)
Before(v, w) == Prio(v) < Prio(w) \/ (Prio(v) = Prio(w) /\ DealtBefore(v, w))

First(S) == CHOOSE w \in S : \A v \in S \ {w} : Before(w, v)

(* Priorities whose user rotation the commit must advance.                 *)
ConsultedPriorities(part) ==
  {p \in Priorities : /\ Quantum[p] > 0
                      /\ \E w \in Queued : Part(w) = part /\ Prio(w) = p
                      /\ Len(rrUser[p]) > 1}

-----------------------------------------------------------------------------
(* Order of enqueued_at; jobs of one arrival keep their candidate order,   *)
(* because the sort that uses it is stable.                                *)
Older(v, w) ==
  \/ IndexIn(arrivals, JobOf(v)) < IndexIn(arrivals, JobOf(w))
  \/ JobOf(v) = JobOf(w) /\ Before(v, w)

Oldest(S, n) == {w \in S : Cardinality({v \in S : Older(v, w)}) < n}

AffinityPicksAll(pool, pinned) == {pool}

(* select_affinity_batch_ids: which workflows of the pool go well together *)
(* is left open; it returns the whole pool when that fits, and otherwise a *)
(* full batch around the pinned (starved) workflows.                       *)
AffinityPicks(pool, pinned) ==
  IF Cardinality(pool) <= Batch THEN {pool}
  ELSE IF Cardinality(pinned) >= Batch THEN {Oldest(pinned, Batch)}
  ELSE {S \in SUBSET pool : Cardinality(S) = Batch /\ pinned \subseteq S}

(* _apply_starvation_policy: starved workflows first, oldest first; the    *)
(* affinity picks fill what is left of the batch.                          *)
StarvationPolicy(starved, picks) ==
  IF starved = {} THEN {picks}
  ELSE IF Cardinality(starved) >= Batch THEN {Oldest(starved, Batch)}
  ELSE {starved \cup S : S \in
          {T \in SUBSET (picks \ starved) :
             Cardinality(T) = Cardinality(picks) - Cardinality(starved)}}

UserFairnessSkipped(pool, picks) == {picks}

(* _apply_user_fairness: one workflow per user of the pool, in the order   *)
(* the users appear in it, then the picks until the batch is full.         *)
UserFairness(pool, picks) ==
  LET users   == {Owner(w) : w \in pool}
      of(u)   == {w \in pool : Owner(w) = u}
      first(u) == First(of(u))
      seeded  == {u \in users : Cardinality({v \in users \ {u} :
                                   Before(first(v), first(u))}) < Batch}
      seed    == {LET mine == of(u) \cap picks
                  IN  IF mine = {} THEN first(u) ELSE First(mine) : u \in seeded}
  IN  IF Batch <= 1 \/ Cardinality(users) <= 1 THEN {picks}
      ELSE {seed \cup S : S \in
              {T \in SUBSET (picks \ seed) :
                 Cardinality(T) = Cardinality(picks) - Cardinality(seed)}}

SelectionsIgnoreStarved(pool) ==
  UNION {UserFairness(pool, picks) : picks \in AffinityPicks(pool, {})}

(* The batches reserve_batch may select from the pool of a partition.      *)
Selections(pool) ==
  LET starved == {w \in pool : Starved(w)}
  IN  UNION {UNION {IF starved = {} THEN UserFairness(pool, S) ELSE {S} :
                      S \in StarvationPolicy(starved, picks)} :
                picks \in AffinityPicks(pool, starved)}

-----------------------------------------------------------------------------
Init ==
  /\ queues = [p \in Priorities |-> [u \in Users |-> << >>]]
  /\ rrUser = [p \in Priorities |-> << >>]
  /\ rrOrder = << >>
  /\ rrMembers = {}
  /\ items = {}
  /\ miss = [w \in Workflows |-> 0]
  /\ arrivals = << >>
  /\ notEmpty = FALSE
  /\ resv = None
  /\ submitted = {}

(* enqueue: all workflows of the job join the queue of its user.  A        *)
(* recurring job stands for a later request of the same shape, under new   *)
(* workflow ids.                                                           *)
Enqueue(j) ==
  LET p == PriorityOf[j]
      u == UserOf[j]
  IN  /\ j \in submitted => j \in Recurring
      /\ Range(ItemsOf[j]) \cap items = {}
      /\ queues' = [queues EXCEPT ![p][u] = @ \o ItemsOf[j]]
      /\ rrUser' = [rrUser EXCEPT ![p] =
                      IF queues[p][u] = << >> THEN Append(@, u) ELSE @]
      /\ items' = items \cup Range(ItemsOf[j])
      /\ rrMembers' = rrMembers \cup {PartOf[j]}
      /\ rrOrder' = IF PartOf[j] \in rrMembers THEN rrOrder
                    ELSE Append(rrOrder, PartOf[j])
      /\ miss' = [w \in Workflows |->
                    IF w \in Range(ItemsOf[j]) THEN 0 ELSE miss[w]]
      /\ arrivals' = Append(arrivals, j)
      /\ notEmpty' = TRUE
      /\ submitted' = submitted \cup {j}
      /\ UNCHANGED resv

(* reserve_batch finds nothing queued: it clears the event and returns.    *)
ReserveNothing ==
  /\ resv = None
  /\ Queued = {}
  /\ notEmpty' = FALSE
  /\ UNCHANGED <<queues, rrUser, rrOrder, rrMembers, items, miss, arrivals,
                 resv, submitted>>

(* The rest of reserve_batch once the partition is known.  Peeking the     *)
(* pool prunes the user rotations it consults; a pool that the quantums    *)
(* leave empty clears the event and returns no batch.                      *)
SelectFrom(part, rrPart) ==
  /\ rrUser' = [p \in Priorities |->
                  IF Quantum[p] > 0 THEN Keep(rrUser[p], UsersIn(queues, p))
                  ELSE rrUser[p]]
  /\ \E pool \in {Candidates(part)} :
       IF pool = {}
       THEN notEmpty' = FALSE /\ UNCHANGED resv
       ELSE /\ \E S \in Selections(pool) :
                 resv' = [selected |-> S,
                          missed   |-> pool \ S,
                          rrPart   |-> rrPart,
                          prios    |-> ConsultedPriorities(part)]
            /\ UNCHANGED notEmpty
  /\ UNCHANGED <<queues, items, miss, arrivals, submitted>>

ReserveStarvedByUser ==
  /\ resv = None
  /\ \E w \in Queued : Starved(w) /\ SelectFrom(Part(w), Owner(w))
  /\ UNCHANGED <<rrOrder, rrMembers>>

(* reserve_batch while some queued workflow is starved: the partition is   *)
(* that of the first one, by priority (which user comes first in the dict  *)
(* is left open), and the partition rotation is not consulted.             *)
ReserveStarved ==
  /\ resv = None
  /\ \E w \in Queued :
       /\ Starved(w)
       /\ \A v \in Queued : Starved(v) => Prio(w) <= Prio(v)
       /\ \A i \in 1..(IndexIn(queues[Prio(w)][Owner(w)], w) - 1) :
            ~Starved(queues[Prio(w)][Owner(w)][i])
       /\ SelectFrom(Part(w), None)
  /\ UNCHANGED <<rrOrder, rrMembers>>

StaleHeadsOffByOne ==
  {i \in DOMAIN rrOrder :
     \A k \in 1..(i - 1) : rrOrder[k] \notin PresentIn(queues)}

(* _pick_partition_round_robin_locked: heads of the rotation that have no  *)
(* work are evicted.                                                       *)
StaleHeads ==
  {i \in DOMAIN rrOrder :
     \A k \in 1..i : rrOrder[k] \notin PresentIn(queues)}

(* reserve_batch with nobody starved: the head of the partition rotation.  *)
(* A rotation left empty by the eviction is reseeded with the partitions   *)
(* that have work, in some order.                                          *)
ReserveRoundRobin ==
  LET present == PresentIn(queues)
      order   == SubSeq(rrOrder, Cardinality(StaleHeads) + 1, Len(rrOrder))
      members == rrMembers \ {rrOrder[i] : i \in StaleHeads}
      seeds   == IF order = << >> THEN present \ members ELSE {}
      fresh   == CHOOSE s \in [1..Cardinality(seeds) -> seeds] : IsInjective(s)
      rotation == IF order = << >> THEN fresh ELSE order
      picked  == IF rotation # << >> THEN Head(rotation)
                 ELSE CHOOSE part \in present : TRUE
  IN  /\ resv = None
      /\ Queued # {}
      /\ \A w \in Queued : ~Starved(w)
      /\ rrOrder' = rotation
      /\ rrMembers' = members \cup seeds
      /\ SelectFrom(picked, picked)

(* commit_reservation, in the order of its five numbered steps.            *)
CommitReservation ==
  LET left == [p \in Priorities |-> [u \in Users |->
                 Keep(queues[p][u], Workflows \ resv.selected)]]
      pruned == [p \in Priorities |->
                   IF UsersIn(queues, p) = {} THEN rrUser[p]
                   ELSE Keep(rrUser[p], UsersIn(left, p))]
      stale == rrMembers \ PresentIn(left)
      live == Keep(rrOrder, Partitions \ stale)
  IN  /\ resv # None
      /\ miss' = [w \in Workflows |->
                    IF w \in resv.missed \cap items /\ miss[w] < MissCap
                    THEN miss[w] + 1 ELSE miss[w]]
      /\ queues' = left
      /\ rrMembers' = rrMembers \ stale
      /\ rrOrder' = IF live # << >> /\ resv.rrPart # None
                       /\ Head(live) = resv.rrPart
                    THEN Rotate(live) ELSE live
      /\ rrUser' = [p \in Priorities |->
                      IF p \in resv.prios /\ Len(pruned[p]) > 1
                      THEN Rotate(pruned[p]) ELSE pruned[p]]
      /\ arrivals' = Keep(arrivals, {JobOf(w) : w \in QueuedIn(left)})
      /\ notEmpty' = (notEmpty /\ QueuedIn(left) # {})
      /\ resv' = None
      /\ UNCHANGED <<items, submitted>>

AbortReservationClearsEvent ==
  /\ resv # None
  /\ resv' = None
  /\ notEmpty' = FALSE
  /\ UNCHANGED <<queues, rrUser, rrOrder, rrMembers, items, miss, arrivals, submitted>>

AbortReservationDropsBatch ==
  /\ resv # None
  /\ resv' = None
  /\ queues' = [p \in Priorities |-> [u \in Users |->
                  Keep(queues[p][u], Workflows \ resv.selected)]]
  /\ items' = items \ resv.selected
  /\ UNCHANGED <<rrUser, rrOrder, rrMembers, miss, arrivals, notEmpty, submitted>>

(* abort_reservation drops the handle and nothing else.                    *)
AbortReservation ==
  /\ resv # None
  /\ resv' = None
  /\ UNCHANGED <<queues, rrUser, rrOrder, rrMembers, items, miss, arrivals,
                 notEmpty, submitted>>

(* finalize_workflows: the scheduler forgets workflows of a finished batch.*)
FinalizeWorkflows(S) ==
  /\ S # {}
  /\ items' = items \ S
  /\ UNCHANGED <<queues, rrUser, rrOrder, rrMembers, miss, arrivals,
                 notEmpty, resv, submitted>>

ReserveBatch == ReserveNothing \/ ReserveStarved \/ ReserveRoundRobin

Next ==
  \/ \E j \in Jobs : Enqueue(j)
  \/ ReserveBatch
  \/ CommitReservation
  \/ AbortReservation
  \/ \E S \in SUBSET (items \ Queued) : FinalizeWorkflows(S)

Spec == Init /\ [][Next]_vars

-----------------------------------------------------------------------------
(* The types of the manager's state: a rotation names users and partitions *)
(* only, and a reservation names a partition as its rotation mark.         *)
TypeOK ==
  /\ queues \in [Priorities -> [Users -> Seq(Workflows)]]
  /\ rrUser \in [Priorities -> Seq(Users)]
  /\ rrOrder \in Seq(Partitions)
  /\ rrMembers \subseteq Partitions
  /\ items \subseteq Workflows
  /\ miss \in [Workflows -> 0..MissCap]
  /\ arrivals \in Seq(Jobs)
  /\ notEmpty \in BOOLEAN
  /\ resv = None \/ resv \in Reservations
  /\ submitted \subseteq Jobs

(* Every queued workflow sits at exactly one place, in the deque of its    *)
(* own priority and user, and the manager still knows it.                  *)
QueuedOnce ==
  /\ \A p \in Priorities, u \in Users :
       /\ IsInjective(queues[p][u])
       /\ \A w \in Range(queues[p][u]) : Prio(w) = p /\ Owner(w) = u
  /\ Queued \subseteq items

(* The user rotation of a priority lists each user that has a queue there  *)
(* exactly once: nobody with work is left out of the deal.                 *)
UserRotationComplete ==
  \A p \in Priorities : /\ IsInjective(rrUser[p])
                         /\ Range(rrUser[p]) = UsersIn(queues, p)

(* The partition rotation and its membership set agree, and list each      *)
(* partition that has work exactly once, so that the reseeding branch of   *)
(* reserve_batch is never needed.                                          *)
PartitionRotationComplete ==
  /\ IsInjective(rrOrder)
  /\ Range(rrOrder) = rrMembers
  /\ rrMembers = PresentIn(queues)

(* The queues, the items and both rotations tell the same story, whatever  *)
(* arrives, is committed or comes back.                                    *)
QueuesConsistent == QueuedOnce /\ UserRotationComplete /\ PartitionRotationComplete

(* A reservation stays valid until it is committed or aborted, whatever    *)
(* arrives meanwhile: its workflows are all still queued, and nothing that *)
(* the batch holds is also counted as passed over.                         *)
ReservationValid ==
  resv # None =>
    /\ resv.selected # {}
    /\ Cardinality(resv.selected) <= Batch
    /\ resv.selected \cup resv.missed \subseteq Queued
    /\ resv.selected \cap resv.missed = {}

(* A batch never spans two partitions (principal, token, optimizer,        *)
(* hardware): it is dispatched under one identity and one set of workers.  *)
OnePartitionPerBatch ==
  resv # None =>
    \A v, w \in resv.selected \cup resv.missed : Part(v) = Part(w)

(* What commit_reservation finds: a valid reservation of one partition.    *)
ReservationSound == ReservationValid /\ OnePartitionPerBatch

(* A starved workflow of the pool is passed over only when the batch is    *)
(* full of starved workflows that arrived no later.                        *)
StarvedGoFirst ==
  resv # None =>
    \A v \in resv.missed : Starved(v) =>
      /\ Cardinality(resv.selected) = Batch
      /\ \A w \in resv.selected :
           Starved(w) /\ IndexIn(arrivals, JobOf(w)) <= IndexIn(arrivals, JobOf(v))

(* With nobody starved, a batch with room for every user of the pool takes *)
(* at least one workflow of each.                                          *)
EveryUserServed ==
  LET pool  == resv.selected \cup resv.missed
      users == {Owner(w) : w \in pool}
  IN  /\ resv # None
      /\ \A w \in pool : ~Starved(w)
      /\ Cardinality(users) <= Batch
      => \A u \in users : \E w \in resv.selected : Owner(w) = u

(* wait_for_work cannot sleep over queued work: when every quantum is      *)
(* positive the event is set as long as something is queued.               *)
NoLostWakeup ==
  (\A p \in Priorities : Quantum[p] > 0) => (Queued # {} => notEmpty)

(* The jobs with queued work, and only they, are ordered by age.           *)
ArrivalsListQueued ==
  /\ IsInjective(arrivals)
  /\ Range(arrivals) = {JobOf(w) : w \in Queued}

(* The conjunction that every operation of the manager preserves.          *)
IInv ==
  /\ TypeOK
  /\ QueuedOnce
  /\ UserRotationComplete
  /\ PartitionRotationComplete
  /\ ArrivalsListQueued
  /\ ReservationValid
  /\ OnePartitionPerBatch
  /\ NoLostWakeup

(* reserve_batch only computes: the queues, both rotations and the miss    *)
(* counters are those it found, as BaseJobManager documents, although the  *)
(* code prunes and evicts on the way.                                      *)
ReserveIsPure ==
  [][ReserveBatch => UNCHANGED <<queues, rrUser, rrOrder, rrMembers, items,
                                 miss>>]_vars

(* The manager implements the queue that the scheduler relies on.          *)
AbstractQueue ==
  INSTANCE WorkflowQueue WITH
    PartitionOf <- [w \in Workflows |-> Part(w)],
    Batches     <- {S \in SUBSET Workflows : Cardinality(S) <= Batch},
    queued      <- Queued,
    reserved    <- IF resv = None THEN {} ELSE resv.selected,
    inflight    <- items \ Queued

ImplementsWorkflowQueue == AbstractQueue!QSpec

(* Workers turn up again and again, so not every reservation is aborted.   *)
Fairness == /\ WF_vars(ReserveBatch)
            /\ SF_vars(CommitReservation)

FairSpec == Spec /\ Fairness

(* Every queued workflow is eventually handed out in some batch.           *)
EventuallyDispatched ==
  \A w \in Workflows : (w \in Queued) ~> (w \notin Queued)
=============================================================================
