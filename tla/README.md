# TLA+ models of Lumilake

Lumilake accepts jobs made of LLM workflows, groups workflows of many jobs into
batches, plans each batch and runs it on FlowMesh workers.  This directory
models the parts of the server that decide *what runs, when, on which rows, and
what the client is told*: how a document becomes a graph, the job queue, the
scheduler with its batch tasks and cancellation, how a batch is merged, planned,
sharded and dealt out again, and the persisted life of a job.

## 1. The system

| Part | State | Operations | Hard because |
|---|---|---|---|
| `runtime/job_manager/priority_queue.py` | a deque per priority and user, two round-robin orders, miss counters, one reservation, an event | `enqueue`, `reserve_batch`, `commit_reservation`, `abort_reservation`, `finalize_workflows` | jobs arrive between a reservation and its end; four kinds of fairness interact |
| `runtime/job_manager/cluster_algo` | none | `select_affinity_batch_ids` | must keep starved workflows |
| `runtime/server.py` | request states, busy workers, execution tracking | `execute`, `handle_request`, `_scheduler_loop`, `_run_batch`, `_handle_batch_results`, `cancel_request`, `release_request_workflows` | two event loops; batches shared by requests; every await is a window for cancellation |
| `runtime/runtime_manager/flowmesh.py` | cancelled set, FlowMesh ids, batch status | `process_request`, `cancel_request`, `release_executions` | remote calls fail, time out, or succeed unnoticed |
| `routes/jobs.py`, `main.py` | `jobs` (records in memory), background tasks | `submit_job`, `_run_job`, `cancel_job`, `get_job_progress`, `mark_running_jobs_failed`, `recover_in_flight_jobs` | saves run in threads and overlap; the process may die |
| `utils/job_storage.py` | record, result and index blobs (or a sqlite index) | `save`, `load`, `iter_summaries` | three writes, not atomic together |
| `runtime/utils/queue.py`, `loop.py` | channel between the API thread and the runtime loop | `put`, `get`, `close` | two threads |
| `parser/yaml_parser.py`, `parser/n8n.py`, `ops`, `graphs` | the ops emitted so far, names not yet resolved | `parse`, `Graph.from_json`, `compile` | loops until nothing is pending; what is emitted depends on what was emitted before, n8n's order on a set |
| `runtime/runtime_graph.py` | runtime nodes, profile nodes | `RuntimeGraphBuilder.build`, `build_profile`, merging | what a node reads and what it waits for are collected in different places |
| slicing and coalescing (`routes/jobs.py`, `runtime/server.py`) | slices, merged graph, plan cache, result buffers | slicing, literal rewriting, deduplication, cutting results apart | rows of many slices travel in one list and are found again by offsets |
| `runtime/optimizer` | search states | `HaloOptimizer`, topological sort, plug-ins | branch and bound must not cut the best plan |
| shard rewriting (`runtime_manager/flowmesh.py`) | FlowMesh nodes, shards, merge nodes, hint | `_build_task_spec` and its helpers | consumers follow the shards of their producers, or a merge of them |
| CLI, SDK, deploy, hooks | none of the server's | HTTP clients, plugins | - |

How they interact: `submit_job` saves a record and spawns `_run_job`, which calls
`LumilakeServer.execute`.  That puts the request on a thread-safe channel to the
runtime loop, where `handle_request` enqueues its workflows in the job manager.
The scheduler loop reserves a batch, waits for enough free workers, commits (or
aborts) the reservation and starts a task per batch; the task plans the batch,
submits it to FlowMesh, polls it, and hands outputs back to the requests.  The
last workflow of a request puts the answer into the request's result queue, and
`_run_job` stores the outcome.  `cancel_job` works on the API thread throughout.

## 2. Modules

| Module | Models | Remarks |
|---|---|---|
| `WorkflowQueue` | `BaseJobManager`: what the scheduler may rely on | abstract; `Server` extends it, `JobQueue` implements it |
| `Deques` | the deque operations | `Keep` is `SelectSeq` as a recursive function, so that proofs can unfold it |
| `JobQueue` | `PriorityJobManager` | one action per method, because each holds the lock and never awaits |
| `Server` | `LumilakeServer` and the dispatching half of `FlowmeshRuntimeManager` | an action is what runs between two awaits that really suspend |
| `JobLifecycle` | `_run_job` and its neighbours over `PersistentJobStorage` | a save is a thread of six steps; crash, shutdown, recovery |
| `GraphOrder` | heap order and closure of a dependency graph | shared by the planning modules |
| `ShardRewrite` | sharding of a batch over workers, merge nodes, hint order | extended by `BatchPipeline` |
| `HaloDP` | HALO's search, and the least cost by enumeration | extended by `BatchPipeline` |
| `BatchPipeline` | a job's rows: slices, coalescing, deduplication, plan, shards, results | composes the three above |
| `OpGraph` | serialized ops, `Op.from_json`, `Graph` | shared by the intake modules |
| `YamlParser`, `N8nParser` | one pass of each parser over one entry or node | operators, used by `WorkflowIntake` |
| `RuntimeGraph` | `RuntimeGraphBuilder`, both builds, prefixing and merging | operators, used by `WorkflowIntake` |
| `WorkflowIntake` | from the document to the merged runtime graph | the state machine of the intake |
| `WorkflowMeaning` | what a document says, read without the parsers | the reference that `WorkflowIntake` extends; models no code |
| `CollectionProofs`, `SumProofs` | lemmas on deques, ranked finite sets and sums | used by the proofs below |
| `JobQueueProofs`, `SelectionProofs`, `ServerProofs`, `JobLifecycleProofs`, `IntakeProofs`, `PipelineProofs` | theorems | see section 5 |
| `MCJobQueue`, `MCServer`, `MCJobLifecycle`, `MCBatchPipeline`, `MCWorkflowIntake` | instances for TLC | |

Each module keeps *deviations*: variants of a definition with a plausible slip
(`...Early`, `...Unchecked`, `...OffByOne`), defined just before it.  They are
never part of a specification; substituting one for its original must make TLC
report the property it is paired with in `PROJECT.json`.

### JobQueue

`queues`, `rrUser`, `rrOrder`, `rrMembers`, `items`, `miss`, `notEmpty` and `resv`
are the manager's fields.  `arrivals` stands for `enqueued_at`.  The pool of a
partition is given by a rank (`Round`, `DealtBefore`) rather than by replaying
the dealing loop of `_peek_round_robin_locked`.  The choices of the affinity
clustering are left open within the sizes and pins it guarantees, and so is the
order of users in a dict.  A *recurring* job is submitted again once its
workflows were finalized, with new ids in the code and the same ones in the model.

### Server

`api`, `verdict` and `traces` follow `_run_job`'s call of `execute`; `sched` and
`seen` the scheduler loop; `task`, `wfs`, `group` and `active` the batch tasks;
`execs` and `history` the execution tracking; `cancelled`, `cancelling`,
`registered` and `batchStatus` the runtime manager; `up`, `fm` and `cancelSent`
FlowMesh as the code sees it.  An exception at any checkpoint ends the batch
through `FinishBatch`, which is the code after `_process_batch` together with both
`finally` blocks: none of the awaits there suspends, since the lock they wait
for is never held across a suspension.  Data (graphs, outputs, profiles) is
reduced to which workflows produced output.

### JobLifecycle

`mem` is the record in memory (status, and whether it has a result); `record`,
`resultBlob` and `index` are the archive.  `thread[j][s]` is a save of job `j`:
it reads the status, then the result (in the order of `asdict`, while the event
loop may change them), writes `record.json`, `result.json` if there is a
result, takes `_index_lock`, reads the index and writes it.  A task has at most
one save of its own at a time, except that a save survives the cancellation of
the task that awaits it.  The load of a job of an earlier process
(`_load_job_record`) is five steps for each caller: `LoadBegin` finds nothing in
`jobs` and gives the lock back, a thread reads `record.json` (`LoadRecord`) and
`result.json` (`LoadResult`) or fails (`LoadFails`), and `LoadStore` puts what
was read into `jobs`, whatever is there by then.  `load[j]` keeps one load for
`cancel_job` and one for the readers; a `cancel_job` whose record was replaced in
`jobs` goes on with the object it holds, `own[j]`.  `MayLoad` bounds which loads
a run makes.  During `LumilakeServer.close` the API's loop is
blocked, so no task moves until `CancelTasks`.  Writes that were on the wire
when the process died land before it or not at all.

### BatchPipeline, ShardRewrite, HaloDP

A job is a record of what the code knows of it: list inputs, slice size, per node
an operator, the columns its inputs were written into, dependencies, outputs,
the optimizer and the workers.  A column has a label of its own, which need not be
that of another column nor the name of an input, and its items are texts, which
are sequences of words.  `Submit` slices the inputs and `Reserve` takes
any group of pending slices, as the queue may.  `Merge` coalesces slices of one
template into one graph: the columns are concatenated, and literals that look like
an input's first row are rewritten (`_rewrite_varying_input_literals`: aliases
are inferred label by label, the last match wins, and every column with the
label follows it).  Nodes are merged whose signatures agree once each has its
labels replaced by their places, in all its texts as well
(`_normalize_label_tokens`; labels are replaced word by word, and those of
references are left out).  `Plan` calls the optimizer, or takes the plan kept in
`cache` under the template's key, and validates it.  The `Rewrite` steps are
`_build_task_spec`: which nodes can be sharded, the parts each gets, redirected
references, merge nodes where somebody needs the whole, placement and the hint
order.  `Run` computes rows: the value of a row is the term of the operator over
the rows it was given, so two rows are equal only if they were computed from
the same things.  `DealOut` cuts the rows by slice lengths into the request's
buffers, and `Finalize` looks for what is missing.

`HaloDP` takes seconds as integers, in tenths of a millisecond; where the costs
come from (profiles, regressions) is a constant of the problem.  `Solve` is the
branch and bound; `LeastCost` is the same costs over every sequence of epochs,
without the lower bound and the symmetry of workers, and either with the shape
pruning (epochs of nearly as many GPU nodes as there are workers) or with epochs
of every size.  The code searches a state again without that pruning when it
finds no epoch there (halo_dp.py:474).  `EpochRemains`, checked for every closed
set of nodes, shows that this never happens, so the flag is not in the model, and
the memo is keyed as in the code.

### WorkflowIntake and its operators

A document is reduced to its references: texts, templates and notes are the
parts they name, with the path when one decides something.  `YamlParser` and
`N8nParser` give, for one entry or node and what is emitted so far, "wait", an
error, or the ops to emit; `WorkflowIntake` is the loop around them, in document
order for YAML and in any order for n8n, whose pending names are a set.
`LoadOp` is `Graph.from_json` one op at a time, because what a message content
means depends on what has been loaded.  Then come `Compile`, the build of the
graph that runs, the profile build, and the merge of two copies of the graph
under their prefixes.

`WorkflowMeaning` reads the same document directly: its parts, which part uses
which, and two sets of documents.  `KeepsRules` are those that keep the rules the
parsers and `Graph` state (known references, no cycle, a model for every chain,
and so on); `Buildable` names, one by one, what `RuntimeGraphBuilder` asks beyond
them, or builds wrongly without saying so; `Supported` is both.  The two are
apart because the second is no rule anybody states: section 6 lists the limits
that go against what the repository shows.  The properties compare document and
graph, and a limit is never a reason to look away from a refusal by a parser.
`Acyclic` says it of sets: of any parts
to build, one needs none of the others.

`DocumentAssumption` says that the lists of a document (entries, nodes, messages,
references, filters) are lists, and that the inputs of a YAML submission, which
are keyed by name, have distinct names.

## 3. Runs

| Run | Shows |
|---|---|
| `queue` | types, both rotations, reservations, starvation order, user fairness, wake-ups; `reserve_batch` is pure; the manager implements `WorkflowQueue`; every job of this workload is dispatched |
| `server` | workers, execution tracking and cancellation with failures and timeouts; GPU batches, and a batch that needs no worker, which the scheduler refuses on every tick |
| `server_slices` | one request in several, partly shared batches: one answer, complete success, conserved node counters, only shared executions missing from traces |
| `server_live` | every request is released, although workers come and go |
| `server_orphan` (violation) | section 6 |
| `lifecycle` | acknowledged jobs survive, the index never runs ahead of the blobs, only a stale load replaces a cancelled record, with archive failures and two restarts |
| `lifecycle_live` | two jobs and one index: the archive settles on what memory says, recovery leaves no active entry, completed jobs have their result, acknowledged jobs end |
| `lifecycle_stale` (violation) | section 6 |
| `plan` | rows of coalesced, deduplicated and sharded slices are the rows each slice computes alone, if the job's columns and texts cannot be mistaken; nothing is lost without an error; built-in plans pass validation; HALO is optimal among the epochs it allows, and with up to two GPU workers among all; shards partition the rows and the rewritten graph can be scheduled |
| `plan_alias` (violation) | section 6 |
| `intake` | documents that keep the rules are refused by no parser, and those within the builder's limits are built, in every order; nodes read what the document says and wait for it; copies stay apart; references stay references; placeholders and outputs are bound; parsing ends |
| `intake_order` (violation) | section 6 |

**Bounds.**  Queue: four jobs, two users, two partitions and batches of two are
the least in which a user shares a priority with another, a partition is
skipped, and a pool exceeds its batch; the miss counter saturates one above the
limit, where nothing distinguishes larger values.  Server: two requests suffice
for sharing; two executions allow a shared one, or one each at the same time,
and three workflows let one request be in two batches.  `MaxExecutions` equals
the number of workflows a batch can be committed for, so it never cuts a behaviour
short; the GPU workers of `server` are a symmetry set, as no action orders them.  Lifecycle: one job
shows every overlap of its own saves, two are needed only for the shared index;
two restarts put a crash into the recovery of a crash; `lifecycle` makes every load
that overlaps a cancellation or a progress request, `lifecycle_live` one load of
one job.  `lifecycle_live` has no
progress requests: with one, `StorageSettles` and `JobsEnd` fail as
`lifecycle_stale` shows.  Plan: jobs of at most four nodes, four rows and three
workers, which give a node with fewer rows than workers, a division with
remainder, a diamond, consumers on other workers than their producers, and inputs of
different lengths; every grouping and order of slices is taken; the
plug-in optimizer may return any assignment to the pools of the job.  Two jobs
are there to be mistaken: one with texts that spell labels, one with a label on
two columns.  For HALO
graphs of four nodes with every mix of models and queries on one to three GPU
workers, costs chosen so that loading a model, cached tables, the epoch penalty
and the shape pruning each decide some plan.  Intake: shapes of YAML documents in
every order of their entries and n8n documents in every order of visits, with
each kind of op, documents that break one rule each, and documents that keep the
rules and meet one of the builder's limits each; two copies are merged, the least for one to
read the other.

**Fairness.**  `JobQueue`: the scheduler keeps reserving (WF); an attempt to find
workers succeeds again and again (SF on commit), because a batch that runs ends and
frees its workers.  `Server`: both loops and all tasks run (WF), a worker that is
listed again and again is eventually seen (SF on `ListWorkers`, `TakeWorkers`),
FlowMesh finishes what it runs.  Clients are not obliged to cancel.
`JobLifecycle`: tasks, threads and a restart make progress; `execute` returns,
which is what `server_live` shows.  No fairness on crashes, submissions,
cancellations or polls.  `WorkflowIntake`: WF on the steps of `parse`, which is
one call without an await.

Deadlock is checked for the queue, which always has work to come.  The other
modules may stop: all requests answered, all jobs ended, the rows delivered, the
document refused or built.

## 4. Properties and hazards

`PROJECT.json` lists the hazards of the code with the properties that watch them.
The leading ones: a reservation stays valid while jobs arrive
(`ReservationSound`); the rotations list exactly what has work
(`QueuesConsistent`); no wake-up is lost
(`NoLostWakeup`); workers are never lost or shared (`WorkersAccountedFor`); a
request is answered once, by its last workflow (`AnsweredOnce`); cancellation
reaches exactly the executions all of whose members are cancelled
(`CancelNeedsAllMembers`, `CancelReachesExecution`); an acknowledged job is
never lost (`AcknowledgedSurvives`) and a cancelled record is replaced by nothing
but a stale load (`CancelIsFinal`); a row that is delivered is the one its slice computes alone,
whatever it travelled with (`RowsAsAlone`), and a job without an error has all
of them (`ErrorFreeIsComplete`); a node reads exactly what its document names,
and what it reads has run before it (`ReadsExact`, `ReadsScheduled`).

## 5. Proofs

Every safety invariant and action property that the runs of `JobQueue`, `Server`
and `JobLifecycle` check is a theorem, for every value of the constants that the
modules' assumptions allow; so are those of the batch pipeline, except for what a
row is and what HALO finds, and five theorems are about the intake.  The argument
is the same throughout: an inductive invariant, checked by TLC on the instances of
section 3 before it was proved; one lemma per action that the action keeps it; and
the properties as consequences.

### The queue (`JobQueueProofs`, `SelectionProofs`)

For all jobs, users, partitions, quantums, batch sizes and limits (finitely many
workflows, each of one job), `IInv` is an invariant.  It is the conjunction of
`TypeOK`, `QueuedOnce`, `UserRotationComplete`, `PartitionRotationComplete`,
`ArrivalsListQueued`, `ReservationValid`, `OnePartitionPerBatch` and
`NoLostWakeup`.  They need each other: a commit removes the reserved workflows
from queues that `QueuedOnce` says hold them once, and prunes rotations that are
complete before; selections are non-empty because the pool is; the order `Older`
picks the right number of starved workflows because the arrivals list each job
once, and the dealing order is total because each user is in its rotation once.

From `Invariance` follow `QueuesConsistent` and `ReservationSound`, which group its
parts, the action property `ReserveIsPure` (the rotations are complete, so pruning
and evicting change nothing, and the reseeding branch of `reserve_batch` is dead),
and `Refinement`: every step of `JobQueue` is a step of `WorkflowQueue` or a
stutter, which entitles `Server` to use the abstract queue.

`SelectionProofs` adds what a batch promises the pool it is taken from,
`StarvedGoFirst` and `EveryUserServed`.  The core is a fact about ranks
(`RankFull`): of a finite set under a strict total order, the elements with fewer
than *n* below them are *n* and precede all others.  `IInv` is what makes age such
an order.  The promises are then kept until the reservation ends, because an
arrival only resets the counters of workflows that are not yet queued and joins
the arrivals behind those already there.

The theorems allow quantums of zero or below, which the environment can set and
the runs leave out: such a priority is never served, but the rotations and
reservations stay sound.

### The server (`ServerProofs`)

`IInv` of `ServerProofs` joins the checked properties with what they rest on:

* `RequestsInOrder`, `ChannelInOrder`: a request passes the API, the channel and
  the runtime in this order; it has a response only when nothing is pending.
* `PendingExact`, `QueueAccounted`: what is pending for a request is what the queue
  and the batches hold of it, and no workflow is in two places.  This is what
  makes "the last workflow is back" the same for the request and for the queue,
  hence `AnsweredOnce`.
* `BatchesInOrder`, `HistoryExact`: how far a batch is, and which requests were
  started in it; a workflow that was left out at the start is one whose request
  was cancelled.
* `OutcomesRecorded`: an execution that brought a request no error was finished by
  FlowMesh, and a request without error has each workflow succeeded or pending.
  `SuccessIsComplete` follows once nothing is pending.

`NodesConserved` is about sums over sets of workflows.  The library's theorem of
induction takes an operator as a parameter, which the provers cannot use; `SumProofs`
argues by a least counterexample on cardinality instead, and shows that a sum is
that of a part plus that of the rest.

The proofs assume no more than `ServerAssumption`: every workflow has a request,
requests and executions are different ids, and a request has finitely many
workflows.  Failing calls, timeouts, workers that come and go and any order of
cancellations are included.

### The life of a job (`JobLifecycleProofs`)

Three layers, in `Inv`:

* `IInv`, always: whose a save is and how far it is (`SavesOwned`, `SavesOrdered`),
  what each phase of the process allows (`PhasesOrdered`, `RecordInMemory`), and
  that a save which says completed writes the result before the index
  (`ResultsFirst`).  It gives `TypeOK`, `AcknowledgedSurvives` and
  `IndexPointsToBlobs`, with a failing archive, crashes and shutdowns; and
  `CancelIsFinal` by cases on the actions, every interleaving of loads included:
  for a job of this process no step replaces a cancelled record, and for one of an
  earlier process none but `LoadStore`.
* `FaultFreeInv`, while no call to the archive fails (`~Faults`): all saves of a
  job carry one outcome or an active status (`OneOutcome`), and recovery still
  has to visit what is active (`RecoveryOnTrack`).  It gives `RecoveredInIndex`,
  and with recovery switched on `CompletedHasResult`.
* `SettleInv`, while besides nobody polls for progress (`MaxPolls = 0`): the save
  of the task, which comes last, leaves the archive with the final state
  (`LeftTo`).  It gives `StorageSettles`.

The hypotheses are needed, not convenient: an archive call that fails leaves a
job active in the index after recovery, and run `lifecycle_stale` shows a
progress save that overwrites the outcome.  The run `lifecycle_live` checks the
three properties on an instance that satisfies the hypotheses.

### The batch pipeline (`PipelineProofs`)

The theorems hold for every set of jobs that satisfies `JobsAssumption`, which says
what the routes and the compiler let through: inputs that are lists, a positive
batch size, finitely many nodes without a cycle, columns that hold literals or name
an input, and at least one worker.  Numbers of rows, nodes and workers are
arbitrary, and so is the plan.  Two invariants carry them.

* `BufferInv`: the places of the rows of a slice that is pending or in the batch are
  still free in every output buffer, and the pending slices and those of the batch
  are different.  It rests on `SliceRows`: the slices cut `1..Total` into ranges
  that cover it and do not overlap, although each start is the sum of the lengths
  before it.  `JobsEndComplete` follows: a batch finds its places free, whatever
  ran before it, and a row that is missing at the end is an error.
* `RewriteInv`, one conjunct per stage.  The merged graph has no cycle
  (`GraphOK`), because a node is only merged into one that does not come later in
  the topological order of the job.  The assignment covers it.  While nodes are
  cut, what is left of the rewrite order is still in order, no node that was visited
  depends on what is left, and each of them was cut or has one candidate
  (`OrderOK`); a cut is an index partition of a number of rows not below
  the number of parts (`CutOK`).  `ShardsCoverRows` follows from `CutOK` by
  arithmetic on the partition, which the capping of the shard count keeps from
  having an empty part.  For `RewriteSchedules` the emitted graph is closed and has
  no cycle (`FmGraphOK`): a merge node depends on shards of its own node, any other
  rewritten node on rewritten nodes of what its node depends on, and the shard of
  the same index exists.  Every rewritten node has one home (`Home`) and a worker
  gets exactly those of which it is the home, the merge nodes whose host has no
  shard included (`PlacedOK`).  Kahn's algorithm puts out all nodes of such a graph
  (`HeapOrderComplete`): if it stopped, the nodes left over would contain one that
  depends on none of them.
* `SoleInv`, for the topological sort: no plan of it, used or cached, has a node on
  two workers; so nothing is cut and the checks that can refuse a cut never run.
  With it `TopologicalPlansAccepted`, and from the order of the graph
  `TopologicalPlansFit`.

What the proofs need of the recursive functions (`HeapOrder`, `Closure`, `Deduplicate`,
the fold behind `FlattenSeq`) is proved by counting up to a bound (`Counting`) and by the
existence of a solution of a bounded recursion (`RecursionSolves`), which need no
theorem with an operator as a parameter.

### The intake (`IntakeProofs`)

* `UnresolvedJustified`: both parsers end their loop with "unresolved" only on a
  document with a cycle, or with a reference to a name that no part has.  The loop
  invariant (`LoopInv`, `PassInv`) says that a pass visits every pending name
  exactly once, and that those it has visited have to wait as long as it makes no
  progress; so a pass without progress has found all of them waiting for each
  other.  For YAML this needs that the pass keeps the names of the document in
  order and once each (`PassComplete`), for n8n that the ids are those of the
  triggers and of what was built.
* `ParsersAccept`: a document that keeps the rules (`KeepsRules`) is refused neither
  by a parser, nor by `Graph.from_json`, nor by `Graph.compile`: `RefusalsJustified`
  for every document and every order of the visits, except for what
  `RuntimeGraphBuilder.build` refuses.
* `ReferencesStay`: `ReferencesKept` holds, so a content of a message that names an
  op is never taken for text.

  Both follow from `SaneInv`, which says of a document that keeps the rules:
  the ops emitted stand in an order in which each one needs only earlier ones
  (`InOrder`: what `from_json` looks up, and the contents of messages); in the
  loop, every part that is not pending has its id among theirs; inputs and outputs
  have names of their own; what is loaded is `FromJson` of what was emitted, place
  by place; and only a build has refused.  The step that carries the proof is a
  visit that need not wait (`EntryReady`, `NodeReady`): everything it uses has
  been emitted, and then each kind of entry (`YamlMakes...`) and of node
  (`N8nMakes...`) is shown to emit ops in order, the implicit FormatOps before
  the messages that hold them.  `AddOps` of the n8n parser drops ops that are there
  already, which keeps the order (`AddOpsInOrder`).  A chain in a plain mode that
  names a data source is not among the documents that keep the rules, because the
  parser does not wait for it (section 6).  The attempt to prove `ParsersAccept`
  found a rule that was missing: an ImageGenerationOp or EmbeddingOp of a
  YAML document must name its content.  The limits of the builder play no part in
  these proofs.
* `NodesWaitForReads`: of every kind of op, the builder enters what a node reads
  among its dependencies, whatever the compiled graph is.
* `MergeKeepsApart`: the merged graph is the graphs under their prefixes, no two of
  which share a node, so a renamed reference finds its own node.  The hypothesis
  `ReadsInGraph`, that no data spec names a node outside its graph, is about what
  both parsers emit and what `Graph.from_json` keeps of it; the run `intake` covers
  it on its documents, as part of `ReadsScheduled`.

### Only model-checked

* Liveness (`EventuallyDispatched`, `EveryRequestReleased`, `JobsEnd`, `ParseEnds`):
  the prover cannot reason about fairness.
* `RowsAsAlone`: it compares the rows that two recursions compute, one along the
  hint over shards, one along the job's order over a slice, and would take an
  induction over data that goes through the whole pipeline.
* `HaloOptimal`, and `PlansAccepted` for jobs planned by HALO: the search is a
  recursion over search states with a fold over the epochs inside.
* Of `WorkflowIntake`: `ReadsExact`, `PlaceholdersBound`, `ProfileNeedsSamples`, the
  part of `RefusalsJustified` about `RuntimeGraphBuilder.build`, and the part of
  `ReadsScheduled` that `MergeKeepsApart` takes as its hypothesis.  They are about
  `Traces`, a recursion along the compiled graph, and about `Sources` and
  `Prompting`, recursions along the document.

## 6. Where the code and its documents differ

* **Cancelling while a batch is submitted** (`server_orphan`).  "Cancelling a job
  must cancel the underlying runtime request as well."  Until the FlowMesh id is
  filed, nothing is sent.
* **Overlapping saves** (`lifecycle_stale`).  "safe to call concurrently from
  multiple threads": the lock protects the index document, not the order of two
  saves of one job; the older state may be written last.
* **A single value that looks like a row** (`plan_alias`).  "workflow inputs list
  lengths must match or be a single value": when the single value of one input
  equals the first row of a varying one, its column is rewritten to the whole
  list, and the other rows run with other values.
* **The order of n8n nodes** (`intake_order`).  "Build workflow nodes in dependency
  order": a chain does not wait for the Postgres or S3 nodes its prompt names,
  and the order of visits is a set's; the same document is accepted or refused
  with "Unknown reference".

Of the following the passing runs say where the properties stop; each is in the
runs as a state or a document that the property lets go.

* **A stale load** (`CancelIsFinal`).  `_load_job_record` (jobs.py:866) looks into
  `jobs`, releases `jobs_lock`, awaits the load, and stores what it read without
  looking again.  When a progress request and a cancellation of a job of an
  earlier process overlap, the request may have read the archive before the
  cancellation and store after it: memory shows the job as active again.
  `StaleLoad` is the name of this step, the only exception of the property; TLC
  violates the property without it.  A cancellation whose save fails
  (jobs.py:2319) is a different matter: the record stays cancelled, but the
  server is never told, and a retry is refused with 409; no property covers that.
* **Jobs that can be mistaken** (`RowsAsAlone`).  `Unmistakable` says what a job must
  observe for its rows to be told apart: no label on two different columns, no
  column of constants that equals a row of a varying input, and no text that
  spells a label of its node.  No document of the repository asks for any of it.
  Without it TLC shows wrong rows twice: two nodes with texts that spell their
  labels `p` and `q` have equal signatures (optimizer/base.py:20) and become one
  node; and of two columns with one label, each the first row of another input,
  both follow the last match (server.py:1447).
* **HALO on three GPU workers** (`HaloOptimal`).  An epoch has at most one GPU node
  fewer than there are workers.  On a chain of four nodes of one model that is
  slow to load, three workers, the cheapest schedule uses smaller epochs (453,400
  against 463,266 units); the property claims no more there than the cheapest
  sequence of allowed epochs.
* **The docstring's own query** (`DrillsInput`).  The example of the YAML parser
  (yaml_parser.py:9-33) gives a param `node: query, path: data` where `query` is an
  input.  The parser takes it, `RuntimeGraphBuilder` refuses it ("InputOp-derived
  params cannot be drilled", runtime_graph.py:942).  The run has the example, and
  `PlaceholdersBound` says that no graph with such a param is built.
* **Prompts of images** (`ImagePromptBuilt`).  The parsers take any content of an
  ImageGenerationOp (yaml_parser.py:540).  Over an input the document is refused as
  orphaned (runtime_graph.py:471), unless something else uses the input; over a
  template of several parts, or a literal or system text of n8n, a graph is built
  whose node reads a FormatOp or DataOp, which is no node of it.
* **Answers in messages** (`MessagesBuilt`).  "The parser recognises that the string
  resolves to another op in the workflow" (yaml_parser.py:53) holds for user
  messages.  A system message or a MessageOp that is the answer of an LLM is not
  wrapped, and is refused at the build; so is the empty prompt of an n8n chain
  after another chain.
* **Labels of filters** (`LabelsApart`).  The label of a filter of an n8n select is its
  column without punctuation, with Min or Max for a comparison (n8n.py:1922), so
  `price >` and `priceMin =` have one; `add_param` (n8n.py:1655) then drops the
  value of the second filter, which is compared with that of the first.  The same
  holds of a YAML document that uses a label twice.  `PlaceholdersBound` and
  `ReadsExact` claim the binding of every place where the labels differ, and nowhere
  a value the document does not name.
* **Two outputs of one part** (`OutputsBuilt`).  One of them is lost
  (runtime_graph.py:376).  And n8n inputs are compared with trigger names as they
  are written: names that differ in case are outside `WellFormed`.

Three limits of the liveness claims and of `TracesOwn` follow from the code as well,
and are noted with their hazards.  `EventuallyDispatched` depends on the workload: with one
candidate per round, two users who return after every batch keep a third at
the tail of the rotation (a commit drops a drained user and then rotates the
rest), and misses count only for members of the pool.  `EveryRequestReleased`
needs workers that meet the request again and again: cancelling does not take
workflows out of the queue, so a request no worker can serve is not released
("Cancel the job to release it.", docs/API.md:17).  And `TracesOwn` is no more than
it says: the first request to finish drops the ids of shared executions, which
later members then miss in their list ("one per execution batch",
docs/API.md:25).

Two further windows, of crashes only, are listed as hazards: `record.json` may
be left at running while the index is terminal, which recovery, going by the
index, does not see; and with recovery switched off a crash between
`record.json` and `result.json` leaves a completed job without its result.

## 7. Not modelled, and the plan

Not modelled: HTTP validation of submissions, artifacts and output files,
previews, the read-only routes, HTTP clients, CLI, SDK, deployment, plugins
(pure I/O or translation); the native workflow format, which enters at
`Graph.from_json` as it is; the Python builder API of the ops; how the
optimizer's costs are estimated (numeric), and the process it runs in; texts,
model settings and values inside the outputs; the id digest of `make_id`, taken
as injective.

What is left, in this order:

1. Theorems: `RowsAsAlone` for jobs whose nodes are not cut, as a first case;
   that a schedule HALO finds puts each node into one epoch; `ReadsInGraph` from
   the order of the loaded ops.
2. `TaskPolling`: `update_task_status`, `_resolve_task_node_maps` and the progress
   derived from them; the counters of `get_request_status` never go back.
3. `Channel`: `TSQueue`, `AsyncEventLoop` and the async runner across two
   threads, start and close; one `asyncio.Lock` is awaited from both loops.
4. `SqliteIndex`: pruning, backfill from the legacy index (which returns when
   pruning has emptied the table), output locations.
5. `Affinity`: `select_affinity_batch_ids` as an algorithm, which would let
   `JobQueue` take its result instead of an open choice.
