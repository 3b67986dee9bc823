--------------------------- MODULE WorkflowQueue ---------------------------
(***************************************************************************)
(* What a job manager promises the scheduler (BaseJobManager in            *)
(* runtime/job_manager/base.py), without saying how a batch is picked.     *)
(*                                                                         *)
(* Workflows wait in a queue.  The scheduler reserves a batch, which stays *)
(* queued, and then either commits it (the batch leaves the queue and is   *)
(* in flight) or aborts it (the queue is left exactly as it was).  At most *)
(* one reservation is outstanding, and a batch never mixes two partitions. *)
(* Work that arrives between the reservation and its commit is untouched.  *)
(***************************************************************************)
CONSTANTS Workflows,   \* identifiers of workflow items
          PartitionOf, \* the dispatch partition of a workflow
          Batches      \* the sets of workflows small enough for a batch

VARIABLES queued,    \* workflows waiting in the queue
          reserved,  \* the workflows of the outstanding reservation, or {}
          inflight   \* workflows handed to the scheduler, not yet finalized

qvars == <<queued, reserved, inflight>>

QTypeOK ==
  /\ queued \subseteq Workflows
  /\ reserved \subseteq Workflows
  /\ inflight \subseteq Workflows

QInit ==
  /\ queued = {}
  /\ reserved = {}
  /\ inflight = {}

(* enqueue: fresh workflows join the queue.                                *)
Enqueue(S) ==
  /\ S # {}
  /\ S \cap (queued \cup inflight) = {}
  /\ queued' = queued \cup S
  /\ UNCHANGED <<reserved, inflight>>

(* reserve_batch: a batch of one partition is picked and stays queued.     *)
Reserve(S) ==
  /\ reserved = {}
  /\ S # {}
  /\ S \subseteq queued
  /\ S \in Batches
  /\ \A v, w \in S : PartitionOf[v] = PartitionOf[w]
  /\ reserved' = S
  /\ UNCHANGED <<queued, inflight>>

(* commit_reservation: exactly the reserved batch leaves the queue.        *)
Commit ==
  /\ reserved # {}
  /\ queued' = queued \ reserved
  /\ inflight' = inflight \cup reserved
  /\ reserved' = {}

(* abort_reservation: only the reservation is dropped.                     *)
Abort ==
  /\ reserved # {}
  /\ reserved' = {}
  /\ UNCHANGED <<queued, inflight>>

(* finalize_workflows: metadata of workflows that have run is dropped.     *)
Finalize(S) ==
  /\ S # {}
  /\ S \subseteq inflight
  /\ inflight' = inflight \ S
  /\ UNCHANGED <<queued, reserved>>

QNext ==
  \/ \E S \in SUBSET Workflows : Enqueue(S) \/ Reserve(S) \/ Finalize(S)
  \/ Commit
  \/ Abort

QSpec == QInit /\ [][QNext]_qvars
=============================================================================
