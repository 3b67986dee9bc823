------------------------------- MODULE Server -------------------------------
(***************************************************************************)
(* LumilakeServer (runtime/server.py) with the part of FlowmeshRuntime-    *)
(* Manager (runtime/runtime_manager/flowmesh.py) that runs a batch: how a  *)
(* request is queued, reserved, given workers, submitted to FlowMesh,      *)
(* polled, answered, and cancelled on the way.                             *)
(*                                                                         *)
(* Two threads share the state: the API's event loop (submitting,          *)
(* cancelling and releasing a request) and the runtime's event loop (the   *)
(* request handler, the scheduler and one task per batch).  An action is   *)
(* what one of them does between two awaits that really suspend.  The      *)
(* queue is the abstract one, which JobQueue implements.                   *)
(***************************************************************************)
EXTENDS WorkflowQueue, Integers, Sequences, FiniteSets, Functions

CONSTANTS Requests,     \* requests handed to LumilakeServer.execute
          RequestOf,    \* the request of a workflow
          NodesOf,      \* runtime nodes of a workflow
          Workers,      \* FlowMesh workers
          GpuWorkers,   \* those that have a GPU
          Meets,        \* the workers that meet a partition's hardware
          CpuGroup,     \* cpu_worker_group_size
          GpuGroup,     \* GPU workers a partition's batches need
          Flaky,        \* workers FlowMesh may stop or start listing
          MaxExecutions,\* bound: batches that are ever dispatched
          Faults,       \* whether planning steps and calls to FlowMesh may fail
          PollTimeout   \* whether LUMILAKE_POLL_TIMEOUT_SECONDS is finite

Executions == 1..MaxExecutions

ASSUME ServerAssumption ==
  /\ RequestOf \in [Workflows -> Requests]
  /\ NodesOf \in [Workflows -> Nat]
  /\ \A r \in Requests : IsFiniteSet({w \in Workflows : RequestOf[w] = r})
  /\ GpuWorkers \subseteq Workers /\ Flaky \subseteq Workers
  /\ \A w \in Workflows : /\ Meets[PartitionOf[w]] \subseteq Workers
                          /\ GpuGroup[PartitionOf[w]] \in Nat
  /\ CpuGroup \in Nat /\ MaxExecutions \in Nat
  /\ Faults \in BOOLEAN /\ PollTimeout \in BOOLEAN
  /\ Requests \cap Executions = {}

VARIABLES
  api,        \* where _run_job's call of execute stands, per request
  verdict,    \* how the call ended
  traces,     \* trace_ids_for_request, the executions found
  channel,    \* in_channel: requests on their way to handle_request
  pending,    \* RequestState.pending_workflows
  errors,     \* requests whose error_info is not empty
  succeeded,  \* RequestState.successful_workflow_ids
  nodes,      \* RequestState.{pending,processing,processed}_runtime_nodes_raw
  responses,  \* responses put into the request's result queue
  sched,      \* where the scheduler loop stands
  seen,       \* free workers of the scheduler's latest look
  up,         \* workers FlowMesh lists as idle
  busy,       \* _busy_workers
  task,       \* where the task of each execution stands
  wfs,        \* the workflows of its batch
  group,      \* the workers of its batch
  active,     \* the workflows whose request was not cancelled at its start
  execs,      \* _request_execution_ids
  history,    \* _request_execution_history_ids
  batchStatus,\* _batch_status
  cancelled,  \* _cancelled_requests: requests and executions
  cancelling, \* cancel_request calls between their two halves
  registered, \* _batch_workflow_id: executions whose FlowMesh id is known
  fm,         \* FlowMesh's own state of the workflow of an execution
  cancelSent  \* workflows.cancel calls on their way to FlowMesh

requestVars == <<api, verdict, traces, channel, pending, errors, succeeded,
                 nodes, responses>>
workerVars  == <<sched, seen, up, busy>>
batchVars   == <<task, wfs, group, active, execs, history, batchStatus>>
cancelVars  == <<cancelled, cancelling>>
remoteVars  == <<registered, fm, cancelSent>>
vars == <<qvars, requestVars, workerVars, batchVars, cancelVars, remoteVars>>

-----------------------------------------------------------------------------
WorkflowsOf(r) == {w \in Workflows : RequestOf[w] = r}
Members(e) == {RequestOf[w] : w \in wfs[e]}
Live == {e \in Executions : task[e] \notin {"unused", "spawned", "done"}}

NodeSum(S) == SumFunctionOnSet(NodesOf, S)

Init ==
  /\ QInit
  /\ api = [r \in Requests |-> "new"]
  /\ verdict = [r \in Requests |-> "none"]
  /\ traces = [r \in Requests |-> {}]
  /\ channel = << >>
  /\ pending = [r \in Requests |-> {}]
  /\ errors = {}
  /\ succeeded = [r \in Requests |-> {}]
  /\ nodes = [r \in Requests |-> [pending |-> 0, processing |-> 0, processed |-> 0]]
  /\ responses = [r \in Requests |-> << >>]
  /\ sched = "idle"
  /\ seen = {}
  /\ up = Workers
  /\ busy = {}
  /\ task = [e \in Executions |-> "unused"]
  /\ wfs = [e \in Executions |-> {}]
  /\ group = [e \in Executions |-> {}]
  /\ active = [e \in Executions |-> {}]
  /\ execs = [r \in Requests |-> {}]
  /\ history = [r \in Requests |-> {}]
  /\ batchStatus = [e \in Executions |-> "none"]
  /\ cancelled = {}
  /\ cancelling = {}
  /\ registered = {}
  /\ fm = [e \in Executions |-> "none"]
  /\ cancelSent = {}

-----------------------------------------------------------------------------
(* The API thread: _run_job's call of execute.                             *)

(* _process_request up to its wait: a request cancelled before it is sent  *)
(* never reaches the queue.                                                *)
SubmitRequest(r) ==
  /\ api[r] = "new"
  /\ IF r \in cancelled
     THEN /\ api' = [api EXCEPT ![r] = "collected"]
          /\ verdict' = [verdict EXCEPT ![r] = "cancelled"]
          /\ UNCHANGED channel
     ELSE /\ api' = [api EXCEPT ![r] = "waiting"]
          /\ channel' = Append(channel, r)
          /\ UNCHANGED verdict
  /\ UNCHANGED <<qvars, traces, pending, errors, succeeded, nodes, responses,
                 workerVars, batchVars, cancelVars, remoteVars>>

(* A deviation, like the ones below: a definition as a plausible slip in   *)
(* the code would have it, used to see that a property notices.            *)
TraceIdsOfRunning(r) == execs[r] \cap registered

(* trace_ids_for_request: the FlowMesh workflows known for a request.      *)
TraceIds(r) == (execs[r] \cup history[r]) \cap registered

(* get_result returns; unless the request was cancelled meanwhile, its     *)
(* trace ids are looked up before anything is released.                    *)
CollectResult(r) ==
  /\ api[r] = "waiting"
  /\ responses[r] # << >>
  /\ api' = [api EXCEPT ![r] = "collected"]
  /\ responses' = [responses EXCEPT ![r] = Tail(@)]
  /\ IF r \in cancelled
     THEN /\ verdict' = [verdict EXCEPT ![r] = "cancelled"]
          /\ UNCHANGED traces
     ELSE /\ verdict' = [verdict EXCEPT ![r] =
                           IF Head(responses[r]) = "ok" THEN "completed" ELSE "failed"]
          /\ traces' = [traces EXCEPT ![r] = TraceIds(r)]
  /\ UNCHANGED <<qvars, channel, pending, errors, succeeded, nodes,
                 workerVars, batchVars, cancelVars, remoteVars>>

(* release_request_workflows, at the end of _run_job.                      *)
ReleaseRequest(r) ==
  /\ api[r] = "collected"
  /\ api' = [api EXCEPT ![r] = "released"]
  /\ registered' = registered \ (execs[r] \cup history[r])
  /\ UNCHANGED <<qvars, verdict, traces, channel, pending, errors, succeeded,
                 nodes, responses, workerVars, batchVars, cancelVars, fm, cancelSent>>

(* cancel_request, first half: the request is marked in the runtime        *)
(* manager.  No FlowMesh workflow is filed under a request id.             *)
CancelRequest(r) ==
  /\ verdict[r] = "none"
  /\ r \notin cancelled
  /\ cancelled' = cancelled \cup {r}
  /\ cancelling' = cancelling \cup {r}
  /\ UNCHANGED <<qvars, requestVars, workerVars, batchVars, remoteVars>>

ShouldCancelAny(e, members) == e \in cancelled \/ members \cap cancelled # {}

(* _should_cancel_execution: every member has been cancelled.              *)
ShouldCancel(e, members) == e \in cancelled \/ members \subseteq cancelled

CancelOwnExecutions(r) ==
  LET E == {e \in execs[r] : e \notin cancelled /\ Members(e) = {r}}
  IN  /\ r \in cancelling
      /\ cancelling' = cancelling \ {r}
      /\ cancelled' = cancelled \cup E
      /\ cancelSent' = cancelSent \cup (E \cap registered)
      /\ UNCHANGED <<qvars, requestVars, workerVars, batchVars, registered, fm>>

(* Second half: executions the request takes part in are cancelled once    *)
(* all their members are; FlowMesh is told about those it is known to run. *)
CancelExecutions(r) ==
  LET E == {e \in execs[r] : e \notin cancelled /\ Members(e) \subseteq cancelled}
  IN  /\ r \in cancelling
      /\ cancelling' = cancelling \ {r}
      /\ cancelled' = cancelled \cup E
      /\ cancelSent' = cancelSent \cup (E \cap registered)
      /\ UNCHANGED <<qvars, requestVars, workerVars, batchVars, registered, fm>>

-----------------------------------------------------------------------------
(* The runtime thread: handle_request takes the next request.              *)
HandleRequest ==
  LET r == Head(channel)
      W == WorkflowsOf(r)
  IN  /\ channel # << >>
      /\ channel' = Tail(channel)
      /\ IF W = {}
         THEN /\ responses' = [responses EXCEPT ![r] = Append(@, "ok")]
              /\ UNCHANGED <<qvars, pending, nodes>>
         ELSE /\ Enqueue(W)
              /\ pending' = [pending EXCEPT ![r] = W]
              /\ nodes' = [nodes EXCEPT ![r].pending = NodeSum(W)]
              /\ UNCHANGED responses
      /\ UNCHANGED <<api, verdict, traces, errors, succeeded, workerVars,
                     batchVars, cancelVars, remoteVars>>

-----------------------------------------------------------------------------
(* The scheduler loop.                                                     *)
ReservedPartition == PartitionOf[CHOOSE w \in reserved : TRUE]

(* _worker_meets_hardware and the split into roles: enough of the workers  *)
(* in S, whose profiles could be read, suit the reserved batch.            *)
CpuIn(S) == (S \ GpuWorkers) \cap Meets[ReservedPartition]
GpuIn(S) == S \cap GpuWorkers \cap Meets[ReservedPartition]
Enough(S) == /\ Cardinality(CpuIn(S)) >= CpuGroup
             /\ Cardinality(GpuIn(S)) >= GpuGroup[ReservedPartition]

(* wait_for_work, the accumulation window and reserve_batch.               *)
ReserveBatch ==
  /\ sched = "idle"
  /\ \E S \in SUBSET queued : Reserve(S)
  /\ sched' = "acquiring"
  /\ UNCHANGED <<requestVars, seen, up, busy, batchVars, cancelVars, remoteVars>>

(* get_workers, without the workers that are busy at that moment.          *)
ListWorkers ==
  /\ sched = "acquiring"
  /\ CpuGroup + GpuGroup[ReservedPartition] > 0
  /\ seen' = up \ busy
  /\ sched' = "checking"
  /\ UNCHANGED <<qvars, requestVars, up, busy, batchVars, cancelVars, remoteVars>>

(* A worker whose profile cannot be fetched is skipped.                    *)
Profiled(S) == IF Faults THEN SUBSET S ELSE {S}

(* Enough workers: they are taken, the reservation is committed and a task *)
(* for the batch is created.  No await suspends in between.                *)
TakeWorkers ==
  LET e == CHOOSE x \in Executions : task[x] = "unused"
  IN  /\ sched = "checking"
      /\ \E x \in Executions : task[x] = "unused"
      /\ \E S \in Profiled(seen), C, G \in SUBSET seen :
           /\ Enough(S)
           /\ C \subseteq CpuIn(S) /\ Cardinality(C) = CpuGroup
           /\ G \subseteq GpuIn(S) /\ Cardinality(G) = GpuGroup[ReservedPartition]
           /\ (C \cup G) \cap busy = {}
           /\ busy' = busy \cup C \cup G
           /\ group' = [group EXCEPT ![e] = C \cup G]
      /\ wfs' = [wfs EXCEPT ![e] = reserved]
      /\ Commit
      /\ task' = [task EXCEPT ![e] = "spawned"]
      /\ sched' = "idle"
      /\ seen' = {}
      /\ UNCHANGED <<requestVars, up, active, execs, history, batchStatus,
                     cancelVars, remoteVars>>

(* Too few workers: poll again.                                            *)
RetryWorkers ==
  /\ sched = "checking"
  /\ \E S \in Profiled(seen) : ~Enough(S)
  /\ sched' = "acquiring"
  /\ seen' = {}
  /\ UNCHANGED <<qvars, requestVars, up, busy, batchVars, cancelVars, remoteVars>>

(* The attempt times out, a call to FlowMesh fails, or the batch needs no  *)
(* worker at all (a ValueError): the reservation is aborted and the loop   *)
(* starts over.                                                            *)
AbandonReservation ==
  /\ \/ sched = "acquiring" /\ CpuGroup + GpuGroup[ReservedPartition] = 0
     \/ PollTimeout /\ sched = "checking" /\ \E S \in Profiled(seen) : ~Enough(S)
     \/ Faults /\ sched = "acquiring"
  /\ Abort
  /\ sched' = "idle"
  /\ seen' = {}
  /\ UNCHANGED <<requestVars, up, busy, batchVars, cancelVars, remoteVars>>

-----------------------------------------------------------------------------
(* The task of a batch.                                                    *)

(* Workflows of the batch whose output reaches their request: those of a   *)
(* cancelled request are discarded.                                        *)
Delivered(e, produced) ==
  {w \in wfs[e] : RequestOf[w] \notin cancelled /\ w \in produced}

BlamedOnFailure(e, produced, failed) == IF failed THEN Members(e) ELSE {}

(* Requests that get an error entry: the batch failed, a workflow was      *)
(* cancelled, or its output is missing.                                    *)
Blamed(e, produced, failed) ==
  {RequestOf[w] : w \in IF failed THEN wfs[e] ELSE wfs[e] \ Delivered(e, produced)}

HandleBatchResultsEarly(e, produced, failed) ==
  LET blamed == errors \cup Blamed(e, produced, failed)
  IN  /\ errors' = blamed
      /\ succeeded' = [r \in Requests |->
           succeeded[r] \cup {w \in Delivered(e, produced) : RequestOf[w] = r}]
      /\ pending' = [r \in Requests |-> pending[r] \ wfs[e]]
      /\ responses' = [r \in Requests |->
           IF r \in Members(e)
           THEN Append(responses[r], IF r \in blamed THEN "error" ELSE "ok")
           ELSE responses[r]]

HandleBatchResultsSkipCancelled(e, produced, failed) ==
  LET blamed  == errors \cup Blamed(e, produced, failed)
      left(r) == IF r \in cancelled THEN pending[r] ELSE pending[r] \ wfs[e]
  IN  /\ errors' = blamed
      /\ succeeded' = [r \in Requests |->
           succeeded[r] \cup {w \in Delivered(e, produced) : RequestOf[w] = r}]
      /\ pending' = [r \in Requests |-> left(r)]
      /\ responses' = [r \in Requests |->
           IF r \in Members(e) /\ left(r) = {}
           THEN Append(responses[r], IF r \in blamed THEN "error" ELSE "ok")
           ELSE responses[r]]

(* _handle_batch_results: outcomes are recorded and every request with     *)
(* nothing pending is answered.                                            *)
HandleBatchResults(e, produced, failed) ==
  LET blamed  == errors \cup Blamed(e, produced, failed)
      left(r) == pending[r] \ wfs[e]
  IN  /\ errors' = blamed
      /\ succeeded' = [r \in Requests |->
           succeeded[r] \cup {w \in Delivered(e, produced) : RequestOf[w] = r}]
      /\ pending' = [r \in Requests |-> left(r)]
      /\ responses' = [r \in Requests |->
           IF r \in Members(e) /\ left(r) = {}
           THEN Append(responses[r], IF r \in blamed THEN "error" ELSE "ok")
           ELSE responses[r]]

CountProcessedAll(e) ==
  LET counted(r) == NodeSum({w \in wfs[e] : RequestOf[w] = r})
  IN  nodes' = [r \in Requests |->
                  [nodes[r] EXCEPT !.processing = @ - counted(r),
                                   !.processed = @ + counted(r)]]

CountProcessedDelivered(e) ==
  LET counted(r) == IF r \in cancelled THEN 0
                    ELSE NodeSum({w \in active[e] : RequestOf[w] = r})
  IN  nodes' = [r \in Requests |->
                  [nodes[r] EXCEPT !.processing = @ - counted(r),
                                   !.processed = @ + counted(r)]]

(* Nodes of the batch that were counted when it started are processed now. *)
CountProcessed(e) ==
  LET counted(r) == NodeSum({w \in active[e] : RequestOf[w] = r})
  IN  nodes' = [r \in Requests |->
                  [nodes[r] EXCEPT !.processing = @ - counted(r),
                                   !.processed = @ + counted(r)]]

FreeWorkersIfUncancelled(e) == busy' = IF e \in cancelled THEN busy ELSE busy \ group[e]

FreeWorkers(e) == busy' = busy \ group[e]

(* _cleanup_execution_tracking                                             *)
ForgetExecution(e) == execs' = [r \in Requests |-> execs[r] \ {e}]

(* The end of _run_batch_inner and _run_batch on every path: the results   *)
(* are handled and then the finally blocks run.  A batch that failed has   *)
(* produced nothing.                                                       *)
FinishBatch(e, produced, failed) ==
  /\ HandleBatchResults(e, produced, failed)
  /\ CountProcessed(e)
  /\ FreeWorkers(e)
  /\ Finalize(wfs[e])
  /\ ForgetExecution(e)
  /\ task' = [task EXCEPT ![e] = "done"]
  /\ UNCHANGED <<api, verdict, traces, channel, sched, seen, up, wfs, group,
                 cancelling, registered>>

(* _run_batch up to its first await: the execution is filed under its      *)
(* members, cancelled members are dropped, and a batch with nobody left is *)
(* finished at once.                                                       *)
StartBatch(e) ==
  LET act == {w \in wfs[e] : RequestOf[w] \notin cancelled}
      filed(f) == [r \in Requests |-> IF r \in Members(e) THEN f[r] \cup {e} ELSE f[r]]
      count(r) == NodeSum({w \in act : RequestOf[w] = r})
  IN  /\ task[e] = "spawned"
      /\ history' = filed(history)
      /\ active' = [active EXCEPT ![e] = act]
      /\ IF act = {}
         THEN /\ FinishBatch(e, {}, FALSE)
              /\ cancelled' = cancelled \cup {e}
              /\ UNCHANGED <<batchStatus, fm, cancelSent>>
         ELSE /\ execs' = filed(execs)
              /\ nodes' = [r \in Requests |->
                             [nodes[r] EXCEPT !.pending = @ - count(r),
                                              !.processing = @ + count(r)]]
              /\ task' = [task EXCEPT ![e] = "planning"]
              /\ UNCHANGED <<qvars, api, verdict, traces, channel, pending, errors,
                             succeeded, responses, workerVars, wfs, group,
                             batchStatus, cancelVars, remoteVars>>

(* RequestCancelledError or another exception ends the batch.              *)
AbortBatch(e) ==
  /\ FinishBatch(e, {}, TRUE)
  /\ batchStatus' = [batchStatus EXCEPT ![e] = "FAILED"]
  /\ UNCHANGED <<active, history>>

(* A checkpoint that finds all members cancelled cancels the execution; no *)
(* FlowMesh workflow has been filed for it yet.                            *)
CancelBatch(e) ==
  /\ AbortBatch(e)
  /\ cancelled' = cancelled \cup {e}
  /\ UNCHANGED <<fm, cancelSent>>

AdvanceBatch(e, next) ==
  /\ task' = [task EXCEPT ![e] = next]
  /\ UNCHANGED <<qvars, requestVars, workerVars, wfs, group, active, execs,
                 history, cancelVars, cancelSent>>

ActiveMembers(e) == {RequestOf[w] : w \in active[e]}

(* _process_batch: the slices are coalesced and merged into one graph.     *)
PlanBatch(e) ==
  /\ task[e] = "planning"
  /\ \/ /\ ShouldCancel(e, ActiveMembers(e))
        /\ CancelBatch(e)
     \/ /\ ~ShouldCancel(e, ActiveMembers(e))
        /\ AdvanceBatch(e, "planned")
        /\ batchStatus' = [batchStatus EXCEPT ![e] = "RUNNING"]
        /\ UNCHANGED <<registered, fm>>

(* The data profile and the optimizer have run; the last checkpoint that   *)
(* looks at the members.                                                   *)
ScheduleBatch(e) ==
  /\ task[e] = "planned"
  /\ \/ /\ ShouldCancel(e, ActiveMembers(e))
        /\ CancelBatch(e)
     \/ /\ ~ShouldCancel(e, ActiveMembers(e))
        /\ AdvanceBatch(e, "building")
        /\ UNCHANGED <<batchStatus, registered, fm>>

(* process_request: the task specification is built and sent; from here on *)
(* only the execution's own mark is looked at.                             *)
SendBatch(e) ==
  /\ task[e] = "building"
  /\ \/ /\ e \in cancelled
        /\ CancelBatch(e)
     \/ /\ e \notin cancelled
        /\ AdvanceBatch(e, "submitting")
        /\ UNCHANGED <<batchStatus, registered, fm>>

(* FlowMesh accepts the workflow and answers.                              *)
AcceptBatch(e) ==
  /\ task[e] = "submitting"
  /\ fm' = [fm EXCEPT ![e] = "running"]
  /\ AdvanceBatch(e, "resolving")
  /\ UNCHANGED <<batchStatus, registered>>

(* The tasks have been matched with their nodes; the workflow id is filed. *)
RegisterBatch(e) ==
  /\ task[e] = "resolving"
  /\ registered' = registered \cup {e}
  /\ AdvanceBatch(e, "polling")
  /\ UNCHANGED <<batchStatus, fm>>

(* The polling loop sees the cancellation, a failed task, or the deadline. *)
StopPolling(e) ==
  /\ task[e] = "polling"
  /\ e \in cancelled \/ fm[e] = "failed" \/ PollTimeout
  /\ AbortBatch(e)
  /\ UNCHANGED <<cancelled, fm, cancelSent>>

(* The polling loop sees every task done.                                  *)
PollBatch(e) ==
  /\ task[e] = "polling"
  /\ fm[e] = "done"
  /\ AdvanceBatch(e, "collecting")
  /\ UNCHANGED <<batchStatus, registered, fm>>

(* Outputs are fetched, cut back into slices and handed to the requests;   *)
(* a workflow may come back without output.                                *)
CompleteBatch(e) ==
  /\ task[e] = "collecting"
  /\ \E produced \in SUBSET active[e] : FinishBatch(e, produced, FALSE)
  /\ batchStatus' = [batchStatus EXCEPT ![e] = "COMPLETED"]
  /\ UNCHANGED <<active, history, cancelled, fm, cancelSent>>

(* A call to FlowMesh, or a step of the planning, raises.                  *)
BatchError(e) ==
  /\ Faults
  /\ task[e] \in {"planning", "planned", "building", "resolving", "polling",
                  "collecting"}
  /\ AbortBatch(e)
  /\ UNCHANGED <<cancelled, fm, cancelSent>>

-----------------------------------------------------------------------------
(* FlowMesh, as the server sees it.                                        *)

(* A submission is lost, or carried out although its answer is.            *)
SubmitError(e) ==
  /\ Faults
  /\ task[e] = "submitting"
  /\ AbortBatch(e)
  /\ \E s \in {"none", "running"} : fm' = [fm EXCEPT ![e] = s]
  /\ UNCHANGED <<cancelled, cancelSent>>

FlowmeshFinish(e) ==
  /\ fm[e] = "running"
  /\ \E s \in {"done"} \cup (IF Faults THEN {"failed"} ELSE {}) :
       fm' = [fm EXCEPT ![e] = s]
  /\ UNCHANGED <<qvars, requestVars, workerVars, batchVars, cancelVars,
                 registered, cancelSent>>

(* workflows.cancel arrives.                                               *)
FlowmeshCancel(e) ==
  /\ e \in cancelSent
  /\ fm' = [fm EXCEPT ![e] = IF @ = "running" THEN "cancelled" ELSE @]
  /\ cancelSent' = cancelSent \ {e}
  /\ UNCHANGED <<qvars, requestVars, workerVars, batchVars, cancelVars, registered>>

(* workflows.cancel fails: the APIError is logged.                         *)
CancelError(e) ==
  /\ Faults
  /\ e \in cancelSent
  /\ cancelSent' = cancelSent \ {e}
  /\ UNCHANGED <<qvars, requestVars, workerVars, batchVars, cancelVars, registered, fm>>

(* A worker starts or stops being listed as idle.                          *)
WorkerChange(k) ==
  /\ up' = IF k \in up THEN up \ {k} ELSE up \cup {k}
  /\ UNCHANGED <<qvars, requestVars, sched, seen, busy, batchVars, cancelVars,
                 remoteVars>>

-----------------------------------------------------------------------------
ApiStep(r) ==
  \/ SubmitRequest(r)
  \/ CollectResult(r)
  \/ ReleaseRequest(r)
  \/ CancelRequest(r)
  \/ CancelExecutions(r)

SchedulerStep ==
  \/ ReserveBatch
  \/ ListWorkers
  \/ TakeWorkers
  \/ RetryWorkers
  \/ AbandonReservation

BatchStep(e) ==
  \/ StartBatch(e)
  \/ PlanBatch(e)
  \/ ScheduleBatch(e)
  \/ SendBatch(e)
  \/ AcceptBatch(e)
  \/ RegisterBatch(e)
  \/ StopPolling(e)
  \/ PollBatch(e)
  \/ CompleteBatch(e)
  \/ BatchError(e)
  \/ SubmitError(e)

FlowmeshStep(e) ==
  \/ FlowmeshFinish(e)
  \/ FlowmeshCancel(e)
  \/ CancelError(e)

Next ==
  \/ \E r \in Requests : ApiStep(r)
  \/ HandleRequest
  \/ SchedulerStep
  \/ \E e \in Executions : BatchStep(e) \/ FlowmeshStep(e)
  \/ \E k \in Flaky : WorkerChange(k)

Spec == Init /\ [][Next]_vars

-----------------------------------------------------------------------------
TaskStates == {"unused", "spawned", "planning", "planned", "building",
               "submitting", "resolving", "polling", "collecting", "done"}

(* The types of the server's state; that the node counters never go below  *)
(* zero is what the checks of _run_batch_inner raise about.                *)
TypeOK ==
  /\ QTypeOK
  /\ api \in [Requests -> {"new", "waiting", "collected", "released"}]
  /\ verdict \in [Requests -> {"none", "completed", "failed", "cancelled"}]
  /\ traces \in [Requests -> SUBSET Executions]
  /\ channel \in Seq(Requests)
  /\ pending \in [Requests -> SUBSET Workflows]
  /\ errors \subseteq Requests
  /\ succeeded \in [Requests -> SUBSET Workflows]
  /\ nodes \in [Requests -> [pending : Nat, processing : Nat, processed : Nat]]
  /\ responses \in [Requests -> Seq({"ok", "error"})]
  /\ sched \in {"idle", "acquiring", "checking"}
  /\ seen \subseteq Workers /\ up \subseteq Workers /\ busy \subseteq Workers
  /\ task \in [Executions -> TaskStates]
  /\ wfs \in [Executions -> SUBSET Workflows]
  /\ group \in [Executions -> SUBSET Workers]
  /\ active \in [Executions -> SUBSET Workflows]
  /\ execs \in [Requests -> SUBSET Executions]
  /\ history \in [Requests -> SUBSET Executions]
  /\ batchStatus \in [Executions -> {"none", "RUNNING", "COMPLETED", "FAILED"}]
  /\ cancelled \subseteq Requests \cup Executions
  /\ cancelling \subseteq Requests
  /\ registered \subseteq Executions
  /\ fm \in [Executions -> {"none", "running", "done", "failed", "cancelled"}]
  /\ cancelSent \subseteq Executions

Dispatched == {e \in Executions : task[e] \notin {"unused", "done"}}

(* No worker serves two batches, and _busy_workers is exactly the workers  *)
(* of the batches under way: whatever path a batch ends on, its workers    *)
(* come back, and none is freed under a batch that still uses it.          *)
WorkersAccountedFor ==
  /\ \A d, e \in Dispatched : d # e => group[d] \cap group[e] = {}
  /\ busy = UNION {group[e] : e \in Dispatched}

(* A request is answered exactly when its last workflow has come back from *)
(* a batch: never twice, never while one of its workflows is still queued  *)
(* or running, and never forgotten.                                        *)
AnsweredOnce ==
  \A r \in Requests :
    LET answers == Len(responses[r])
                   + (IF verdict[r] \in {"completed", "failed"} THEN 1 ELSE 0)
        held == {w \in queued : RequestOf[w] = r}
                  \cup {w \in Workflows : RequestOf[w] = r /\
                                         \E e \in Dispatched : w \in wfs[e]}
    IN  /\ answers <= 1
        /\ pending[r] = held
        /\ answers = 1 => held = {}

(* An execution that others depend on is not cancelled: it is marked only  *)
(* once every request in it has been cancelled.                            *)
CancelNeedsAllMembers ==
  \A e \in Executions \cap cancelled : Members(e) \subseteq cancelled

(* Bookkeeping used by cancel_request: a request is filed under exactly    *)
(* the executions that are running its workflows.                          *)
ExecutionsTracked ==
  \A r \in Requests : execs[r] = {e \in Live : r \in Members(e)}

(* No cancellation is overlooked: the tracking cancel_request goes by is   *)
(* right, and when all members of a running execution are cancelled, and   *)
(* their cancel calls have returned, the execution is marked, however the  *)
(* calls interleave with its start.                                        *)
CancelReachesExecution ==
  /\ ExecutionsTracked
  /\ \A e \in Live :
       Members(e) \subseteq cancelled \ cancelling => e \in cancelled

(* The API reports no success for a request unless each of its workflows   *)
(* came back from FlowMesh with output.                                    *)
SuccessIsComplete ==
  \A r \in Requests :
    verdict[r] = "completed" =>
      /\ succeeded[r] = WorkflowsOf(r)
      /\ \A e \in history[r] : fm[e] = "done"

(* The node counters behind the progress report: nothing is lost or        *)
(* counted twice, and processing is what the running batches hold, so the  *)
(* underflow checks of _run_batch_inner never fire.                        *)
NodesConserved ==
  \A r \in Requests :
    /\ nodes[r].processing = NodeSum({w \in Workflows : RequestOf[w] = r /\
                                        \E e \in Live : w \in active[e]})
    /\ nodes[r].pending >= NodeSum({w \in pending[r] :
                              \A e \in Live : w \notin wfs[e]})

(* What a completed request lists as its FlowMesh workflows: of its        *)
(* executions, none is missing but those shared with a request that was    *)
(* released before, which drops the ids of all executions it was in.       *)
TracesOwn ==
  \A r \in Requests :
    verdict[r] = "completed" =>
      /\ traces[r] \subseteq history[r]
      /\ \A e \in history[r] \ traces[r] :
           \E q \in Members(e) \ {r} : api[q] = "released"

-----------------------------------------------------------------------------
(* Every thread keeps running; a worker group that is free again and again *)
(* is noticed; FlowMesh finishes its workflows and receives cancels.       *)
Fairness ==
  /\ \A r \in Requests : /\ WF_vars(SubmitRequest(r))
                         /\ WF_vars(CollectResult(r))
                         /\ WF_vars(ReleaseRequest(r))
                         /\ WF_vars(CancelExecutions(r))
  /\ WF_vars(HandleRequest)
  /\ WF_vars(SchedulerStep)
  /\ SF_vars(ListWorkers)
  /\ SF_vars(TakeWorkers)
  /\ \A e \in Executions : /\ WF_vars(BatchStep(e))
                           /\ WF_vars(FlowmeshFinish(e))
                           /\ WF_vars(FlowmeshCancel(e))

FairSpec == Spec /\ Fairness

(* Every request is answered and released in the end, cancelled or not.    *)
EveryRequestReleased ==
  \A r \in Requests : <>(api[r] = "released")

(* docs/CODE_STYLE.md: "Cancelling a job must cancel the underlying        *)
(* runtime request as well."  A cancelled execution does not leave a       *)
(* FlowMesh workflow running behind.                                       *)
CancelStopsRuntime ==
  \A e \in Executions :
    (task[e] = "done" /\ e \in cancelled) => (fm[e] # "running" \/ e \in cancelSent)
=============================================================================
