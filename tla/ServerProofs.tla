---------------------------- MODULE ServerProofs ----------------------------
(***************************************************************************)
(* Theorems about LumilakeServer, for any number of requests, workflows,   *)
(* workers and executions, with failing calls, timeouts and cancellations. *)
(***************************************************************************)
EXTENDS Server, SumProofs

-----------------------------------------------------------------------------
InChannel(r) == \E i \in 1..Len(channel) : channel[i] = r

(* A request passes the API, the channel and the runtime in this order,    *)
(* and is in the channel at most once.                                     *)
ChannelInOrder ==
  \A i, k \in 1..Len(channel) : channel[i] = channel[k] => i = k

RequestsInOrder ==
  \A r \in Requests :
    /\ verdict[r] = "none" <=> api[r] \in {"new", "waiting"}
    /\ InChannel(r) => api[r] = "waiting"
    /\ (api[r] = "new" \/ InChannel(r)) =>
         pending[r] = {} /\ responses[r] = << >> /\ r \notin errors
    /\ pending[r] # {} => api[r] = "waiting" /\ responses[r] = << >>
    /\ responses[r] # << >> => api[r] = "waiting" /\ Len(responses[r]) = 1

(* What is pending for a request is what the queue still holds of it.      *)
PendingExact ==
  \A r \in Requests : pending[r] = {w \in queued \cup inflight : RequestOf[w] = r}

(* The queue and the batches hold different workflows, and the queue's     *)
(* list of workflows in flight is what the batches hold.                   *)
QueueAccounted ==
  /\ reserved \subseteq queued
  /\ queued \cap inflight = {}
  /\ inflight = UNION {wfs[e] : e \in Dispatched}
  /\ \A d, e \in Dispatched : d # e => wfs[d] \cap wfs[e] = {}

(* The workflow id of an execution stays filed until a member is released. *)
Kept(e) == e \in registered \/ \E q \in Members(e) : api[q] = "released"

(* How far a batch has come, and what is then known of it.                 *)
BatchesInOrder ==
  \A e \in Executions :
    /\ task[e] = "unused" => wfs[e] = {}
    /\ task[e] \in {"unused", "spawned"} => active[e] = {} /\ e \notin cancelled
    /\ active[e] \subseteq wfs[e]
    /\ task[e] \notin {"unused", "spawned"} =>
         \A w \in wfs[e] \ active[e] : RequestOf[w] \in cancelled
    /\ task[e] \in {"polling", "collecting"} => Kept(e)
    /\ task[e] = "collecting" => fm[e] = "done"

(* The executions of a request are those that were started with it.        *)
HistoryExact ==
  \A r \in Requests : \A e \in Executions :
    e \in history[r] <=> task[e] \notin {"unused", "spawned"} /\ r \in Members(e)

(* What a request knows of its executions: one of them that brought it no  *)
(* error has run to its end, and while it has no error its workflows have  *)
(* succeeded or are pending.                                               *)
Outcome(r) ==
  /\ \A e \in history[r] :
       (task[e] = "done" /\ r \notin errors) => fm[e] = "done" /\ Kept(e)
  /\ succeeded[r] \subseteq WorkflowsOf(r)
  /\ (/\ api[r] # "new" /\ ~ InChannel(r)
      /\ verdict[r] # "cancelled" /\ r \notin errors) =>
       WorkflowsOf(r) = succeeded[r] \cup pending[r]
  /\ verdict[r] = "completed" => r \notin errors
  /\ (responses[r] # << >> /\ Head(responses[r]) = "ok") => r \notin errors

OutcomesRecorded == \A r \in Requests : Outcome(r)

IInv ==
  /\ TypeOK
  /\ ChannelInOrder
  /\ RequestsInOrder
  /\ PendingExact
  /\ QueueAccounted
  /\ BatchesInOrder
  /\ HistoryExact
  /\ OutcomesRecorded
  /\ WorkersAccountedFor
  /\ CancelNeedsAllMembers
  /\ CancelReachesExecution
  /\ NodesConserved
  /\ TracesOwn

-----------------------------------------------------------------------------
(* The parts of the invariant, in the form the steps below use.            *)
LEMMA Parts ==
  ASSUME IInv
  PROVE  /\ TypeOK /\ ChannelInOrder /\ RequestsInOrder /\ PendingExact
         /\ QueueAccounted /\ BatchesInOrder /\ HistoryExact /\ OutcomesRecorded
         /\ WorkersAccountedFor /\ CancelNeedsAllMembers
         /\ CancelReachesExecution /\ NodesConserved /\ TracesOwn
BY DEF IInv

(* What the constants are, as far as the steps need it.                    *)
LEMMA RequestsKnown == \A w \in Workflows : RequestOf[w] \in Requests
BY ServerAssumption

(* Request ids and execution ids are different, although _cancelled holds  *)
(* both.                                                                   *)
LEMMA Apart == \A r \in Requests, e \in Executions : r # e
BY ServerAssumption

(* Sums of node counts over workflows of one request.                      *)
LEMMA NodesKnown ==
  ASSUME NEW r \in Requests
  PROVE  /\ IsFiniteSet(WorkflowsOf(r)) /\ \A w \in WorkflowsOf(r) : NodesOf[w] \in Nat
         /\ \A w : w \in WorkflowsOf(r) <=> w \in Workflows /\ RequestOf[w] = r
BY ServerAssumption DEF WorkflowsOf

(* The nodes of some workflows are those of a part of them and of the      *)
(* rest.                                                                   *)
LEMMA NodeSumParts ==
  ASSUME NEW r \in Requests, NEW S \in SUBSET WorkflowsOf(r), NEW T \in SUBSET S
  PROVE  /\ NodeSum(S) = NodeSum(T) + NodeSum(S \ T)
         /\ NodeSum(S) \in Nat /\ NodeSum(T) \in Nat /\ NodeSum(S \ T) \in Nat
<1>1. IsFiniteSet(S) /\ \A w \in S : NodesOf[w] \in Nat
  BY NodesKnown, FS_Subset
<1> QED BY <1>1, SumPart DEF NodeSum

(* No workflows, no nodes.                                                 *)
LEMMA NoNodes == NodeSum({}) = 0
BY SumStep, FS_EmptySet DEF NodeSum

(* A result queue with one response, and one that gets its first.          *)
LEMMA TailOfOne ==
  ASSUME NEW S, NEW s \in Seq(S), Len(s) = 1
  PROVE  Tail(s) = << >>
<1>1. Tail(s) \in Seq(S) /\ Len(Tail(s)) = 0
  OBVIOUS
<1> QED BY <1>1, EmptySeq

(* The first response that is put on an empty result queue.                *)
LEMMA FirstOfNone ==
  ASSUME NEW S, NEW x \in S
  PROVE  /\ Append(<< >>, x) \in Seq(S) /\ Append(<< >>, x) # << >>
         /\ Len(Append(<< >>, x)) = 1 /\ Head(Append(<< >>, x)) = x
OBVIOUS

(* The members of an execution are requests, and stay what they are.       *)
LEMMA MembersKnown ==
  ASSUME TypeOK, NEW e \in Executions
  PROVE  /\ Members(e) \subseteq Requests
         /\ \A w \in wfs[e] : w \in Workflows /\ RequestOf[w] \in Members(e)
<1>1. wfs[e] \subseteq Workflows
  BY DEF TypeOK
<1> QED BY <1>1, RequestsKnown DEF Members

(* Only a new batch changes who its members are.                           *)
LEMMA MembersSame ==
  ASSUME UNCHANGED wfs
  PROVE  \A e \in Executions : Members(e)' = Members(e)
BY DEF Members

(* A workflow id that is filed is only dropped for a member.               *)
LEMMA KeptStays ==
  ASSUME TypeOK, UNCHANGED wfs, registered \subseteq registered',
         \A q \in Requests : api[q] = "released" => api'[q] = "released"
  PROVE  \A e \in Executions : Kept(e) => Kept(e)'
BY MembersKnown, MembersSame DEF Kept

(* The trace ids of a request that has been answered stay explained.       *)
LEMMA TracesStay ==
  ASSUME TypeOK, TracesOwn, UNCHANGED wfs,
         \A q \in Requests : api[q] = "released" => api'[q] = "released",
         NEW r \in Requests, verdict[r] = "completed", traces'[r] = traces[r],
         history'[r] = history[r]
  PROVE  /\ traces'[r] \subseteq history'[r]
         /\ \A e \in history'[r] \ traces'[r] :
              \E q \in Members(e)' \ {r} : api'[q] = "released"
<1>1. history[r] \subseteq Executions
  BY DEF TypeOK
<1> QED BY <1>1, MembersKnown, MembersSame DEF TracesOwn

(* What a request knows stays as it is if nothing about it changes.        *)
LEMMA OutcomeStays ==
  ASSUME NEW r \in Requests, Outcome(r), r \in errors' <=> r \in errors,
         history'[r] = history[r], succeeded'[r] = succeeded[r],
         pending'[r] = pending[r], responses'[r] = responses[r],
         api'[r] = api[r], verdict'[r] = verdict[r], InChannel(r)' = InChannel(r),
         \A e \in history[r] : task'[e] = "done" /\ r \notin errors =>
           /\ task[e] = "done"
           /\ fm[e] = "done" => fm'[e] = "done"
           /\ Kept(e) => Kept(e)'
  PROVE  Outcome(r)'
BY DEF Outcome, WorkflowsOf

(* A request that is in a batch has something pending.                     *)
LEMMA MemberPending ==
  ASSUME IInv, NEW e \in Dispatched, NEW r \in Members(e)
  PROVE  /\ r \in Requests /\ pending[r] # {} /\ api[r] = "waiting"
         /\ responses[r] = << >> /\ ~ InChannel(r) /\ verdict[r] = "none"
<1>1. e \in Executions /\ r \in Requests
  BY Parts, MembersKnown DEF Dispatched
<1>2. PICK w \in wfs[e] : RequestOf[w] = r
  BY DEF Members
<1>3. w \in inflight
  BY <1>2, Parts DEF QueueAccounted
<1>4. w \in pending[r]
  BY <1>1, <1>2, <1>3, Parts DEF PendingExact
<1> QED BY <1>1, <1>4, Parts DEF RequestsInOrder

(* What does not depend on the API, the channel and FlowMesh.              *)
LEMMA BatchFrame ==
  ASSUME IInv, UNCHANGED <<queued, inflight, task, wfs, group, busy>>,
         UNCHANGED <<active, execs, cancelled, cancelling, nodes, pending>>,
         reserved' \subseteq queued
  PROVE  /\ PendingExact' /\ QueueAccounted' /\ WorkersAccountedFor'
         /\ CancelNeedsAllMembers' /\ CancelReachesExecution' /\ NodesConserved'
<1>1. PendingExact' /\ QueueAccounted' /\ WorkersAccountedFor'
  BY Parts DEF PendingExact, QueueAccounted, WorkersAccountedFor, Dispatched
<1>2. CancelNeedsAllMembers' /\ CancelReachesExecution'
  BY Parts DEF CancelNeedsAllMembers, CancelReachesExecution, ExecutionsTracked,
     Members, Live
<1>3. NodesConserved'
  BY Parts DEF NodesConserved, Live
<1> QED BY <1>1, <1>2, <1>3

-----------------------------------------------------------------------------
(* The scheduler looks for workers; nothing but its own state changes.     *)
LEMMA LookingStep ==
  ASSUME IInv, UNCHANGED <<queued, inflight, requestVars, busy, batchVars, cancelVars,
                           remoteVars>>,
         reserved' \subseteq queued, sched' \in {"idle", "acquiring", "checking"},
         seen' \subseteq Workers, up' \subseteq Workers
  PROVE  IInv'
<1>1. /\ UNCHANGED <<queued, inflight, api, verdict, traces, channel, pending, errors>>
      /\ UNCHANGED <<succeeded, nodes, responses, busy, task, wfs, group, active, execs>>
      /\ UNCHANGED <<history, batchStatus, cancelled, cancelling, registered, fm>>
      /\ UNCHANGED cancelSent
  BY DEF requestVars, batchVars, cancelVars, remoteVars
<1>2. TypeOK'
  BY <1>1, Parts DEF TypeOK, QTypeOK
<1>3. /\ PendingExact' /\ QueueAccounted' /\ WorkersAccountedFor'
      /\ CancelNeedsAllMembers' /\ CancelReachesExecution' /\ NodesConserved'
  BY <1>1, BatchFrame
<1>4. ChannelInOrder' /\ RequestsInOrder'
  BY <1>1, Parts DEF ChannelInOrder, RequestsInOrder, InChannel
<1>5. BatchesInOrder' /\ HistoryExact' /\ OutcomesRecorded' /\ TracesOwn'
  BY <1>1, Parts DEF BatchesInOrder, HistoryExact, OutcomesRecorded, Outcome, TracesOwn, Kept,
     Members, InChannel
<1> QED BY <1>2, <1>3, <1>4, <1>5 DEF IInv

(* FlowMesh finishes a workflow or receives a cancel; either way what is   *)
(* done stays done.                                                        *)
LEMMA RemoteStep ==
  ASSUME IInv, UNCHANGED <<qvars, requestVars, workerVars, batchVars, cancelVars, registered>>,
         fm' \in [Executions -> {"none", "running", "done", "failed", "cancelled"}],
         \A e \in Executions : fm[e] = "done" => fm'[e] = "done",
         cancelSent' \subseteq Executions
  PROVE  IInv'
<1>1. /\ UNCHANGED <<queued, reserved, inflight, api, verdict, traces, channel, pending>>
      /\ UNCHANGED <<errors, succeeded, nodes, responses, sched, seen, up, busy, task, wfs>>
      /\ UNCHANGED <<group, active, execs, history, batchStatus, cancelled, cancelling>>
      /\ UNCHANGED registered
  BY DEF qvars, requestVars, workerVars, batchVars, cancelVars
<1>2. TypeOK'
  BY <1>1, Parts DEF TypeOK, QTypeOK
<1>3. /\ PendingExact' /\ QueueAccounted' /\ WorkersAccountedFor'
      /\ CancelNeedsAllMembers' /\ CancelReachesExecution' /\ NodesConserved'
  BY <1>1, Parts, BatchFrame DEF QueueAccounted
<1>4. ChannelInOrder' /\ RequestsInOrder' /\ HistoryExact' /\ TracesOwn'
  BY <1>1, Parts
     DEF ChannelInOrder, RequestsInOrder, HistoryExact, TracesOwn, InChannel, Members
<1>5. BatchesInOrder'
  BY <1>1, Parts DEF BatchesInOrder, Kept, Members
<1>6. OutcomesRecorded'
  BY <1>1, Parts, ZenonT(30) DEF OutcomesRecorded, Outcome, Kept, Members, InChannel, TypeOK
<1> QED BY <1>2, <1>3, <1>4, <1>5, <1>6 DEF IInv

-----------------------------------------------------------------------------
(* The API thread.                                                         *)

(* A request cancelled before it is sent is answered at once.              *)
LEMMA SubmitCancelledStep ==
  ASSUME IInv, NEW r \in Requests, SubmitRequest(r), r \in cancelled
  PROVE  IInv'
<1>1. /\ UNCHANGED <<queued, reserved, inflight, traces, channel, pending>>
      /\ UNCHANGED <<errors, succeeded, nodes, responses, sched, seen, up, busy, task, wfs>>
      /\ UNCHANGED <<group, active, execs, history, batchStatus, cancelled, cancelling>>
      /\ UNCHANGED <<registered, fm, cancelSent>>
  BY DEF SubmitRequest, qvars, workerVars, batchVars, cancelVars, remoteVars
<1>2. /\ api[r] = "new"
      /\ api' \in [Requests -> {"new", "waiting", "collected", "released"}]
      /\ verdict' \in [Requests -> {"none", "completed", "failed", "cancelled"}]
      /\ api'[r] = "collected" /\ verdict'[r] = "cancelled"
      /\ \A q \in Requests \ {r} : api'[q] = api[q] /\ verdict'[q] = verdict[q]
  BY Parts DEF SubmitRequest, TypeOK
<1>3. \A e \in Executions : (Kept(e) => Kept(e)') /\ Members(e)' = Members(e)
  BY <1>1, <1>2, Parts, KeptStays, MembersSame
<1>4. TypeOK'
  BY <1>1, <1>2, Parts DEF TypeOK, QTypeOK
<1>5. /\ PendingExact' /\ QueueAccounted' /\ WorkersAccountedFor'
      /\ CancelNeedsAllMembers' /\ CancelReachesExecution' /\ NodesConserved'
  BY <1>1, Parts, BatchFrame DEF QueueAccounted
<1>6. ChannelInOrder' /\ RequestsInOrder'
  BY <1>1, <1>2, Parts DEF ChannelInOrder, RequestsInOrder, InChannel
<1>7. BatchesInOrder' /\ HistoryExact'
  BY <1>1, <1>3, Parts DEF BatchesInOrder, HistoryExact
<1>8. OutcomesRecorded'
  BY <1>1, <1>2, <1>3, Parts, ZenonT(30)
     DEF OutcomesRecorded, Outcome, InChannel, WorkflowsOf, TypeOK
<1>9. TracesOwn'
  BY <1>1, <1>2, Parts, TracesStay DEF TracesOwn
<1> QED BY <1>4, <1>5, <1>6, <1>7, <1>8, <1>9 DEF IInv

(* A request is sent to the runtime thread.                                *)
LEMMA SubmitRequestStep ==
  ASSUME IInv, NEW r \in Requests, SubmitRequest(r), r \notin cancelled
  PROVE  IInv'
<1>1. /\ UNCHANGED <<queued, reserved, inflight, verdict, traces, pending>>
      /\ UNCHANGED <<errors, succeeded, nodes, responses, sched, seen, up, busy, task, wfs>>
      /\ UNCHANGED <<group, active, execs, history, batchStatus, cancelled, cancelling>>
      /\ UNCHANGED <<registered, fm, cancelSent>>
  BY DEF SubmitRequest, qvars, workerVars, batchVars, cancelVars, remoteVars
<1>2. /\ api[r] = "new"
      /\ api' \in [Requests -> {"new", "waiting", "collected", "released"}]
      /\ api'[r] = "waiting" /\ \A q \in Requests \ {r} : api'[q] = api[q]
  BY Parts DEF SubmitRequest, TypeOK
<1>3. /\ channel' \in Seq(Requests)
      /\ Len(channel') = Len(channel) + 1 /\ Len(channel) \in Nat
      /\ channel'[Len(channel) + 1] = r
      /\ \A i \in 1..Len(channel) : channel'[i] = channel[i]
  <2>1. channel' = Append(channel, r) /\ channel \in Seq(Requests)
    BY Parts DEF SubmitRequest, TypeOK
  <2> QED BY <2>1
<1>4. \A q \in Requests : InChannel(q)' <=> InChannel(q) \/ q = r
  BY <1>3 DEF InChannel
<1>5. \A e \in Executions : (Kept(e) => Kept(e)') /\ Members(e)' = Members(e)
  BY <1>1, <1>2, Parts, KeptStays, MembersSame
<1>6. TypeOK'
  BY <1>1, <1>2, <1>3, Parts DEF TypeOK, QTypeOK
<1>7. /\ PendingExact' /\ QueueAccounted' /\ WorkersAccountedFor'
      /\ CancelNeedsAllMembers' /\ CancelReachesExecution' /\ NodesConserved'
  BY <1>1, Parts, BatchFrame DEF QueueAccounted
<1>8. ChannelInOrder'
  <2>1. \A i \in 1..Len(channel) : channel[i] # r
    BY <1>2, Parts DEF RequestsInOrder, InChannel
  <2>2. \A i \in 1..Len(channel') : i \in 1..Len(channel) \/ i = Len(channel) + 1
    BY <1>3
  <2> QED BY <1>3, <2>1, <2>2, Parts DEF ChannelInOrder
<1>9. RequestsInOrder'
  BY <1>1, <1>2, <1>4, Parts DEF RequestsInOrder
<1>10. BatchesInOrder' /\ HistoryExact'
  BY <1>1, <1>5, Parts DEF BatchesInOrder, HistoryExact
<1>11. OutcomesRecorded'
  BY <1>1, <1>2, <1>4, <1>5, Parts DEF OutcomesRecorded, Outcome, WorkflowsOf, TypeOK
<1>12. TracesOwn'
  BY <1>1, <1>2, Parts, TracesStay DEF TracesOwn
<1> QED BY <1>6, <1>7, <1>8, <1>9, <1>10, <1>11, <1>12 DEF IInv

(* A request is answered: its executions are over, and what a success      *)
(* reports is what they left.                                              *)
LEMMA CollectResultStep ==
  ASSUME IInv, NEW r \in Requests, CollectResult(r)
  PROVE  IInv'
<1>1. /\ UNCHANGED <<queued, reserved, inflight, channel, pending>>
      /\ UNCHANGED <<errors, succeeded, nodes, sched, seen, up, busy, task, wfs>>
      /\ UNCHANGED <<group, active, execs, history, batchStatus, cancelled, cancelling>>
      /\ UNCHANGED <<registered, fm, cancelSent>>
  BY DEF CollectResult, qvars, workerVars, batchVars, cancelVars, remoteVars
<1>2. /\ api[r] = "waiting" /\ responses[r] # << >> /\ Len(responses[r]) = 1
      /\ pending[r] = {} /\ ~ InChannel(r)
      /\ api' \in [Requests -> {"new", "waiting", "collected", "released"}]
      /\ api'[r] = "collected" /\ \A q \in Requests \ {r} : api'[q] = api[q]
  BY Parts DEF CollectResult, TypeOK, RequestsInOrder
<1>3. /\ verdict' \in [Requests -> {"none", "completed", "failed", "cancelled"}]
      /\ verdict'[r] \in {"completed", "failed", "cancelled"}
      /\ verdict'[r] = "completed" =>
           Head(responses[r]) = "ok" /\ traces'[r] = TraceIds(r)
      /\ \A q \in Requests \ {r} : verdict'[q] = verdict[q] /\ traces'[q] = traces[q]
      /\ traces' \in [Requests -> SUBSET Executions]
  <2>1. TraceIds(r) \subseteq Executions
    BY Parts DEF TypeOK, TraceIds
  <2>2. CASE r \in cancelled
    BY <2>2, Parts DEF CollectResult, TypeOK
  <2>3. CASE r \notin cancelled
    <3> DEFINE v == IF Head(responses[r]) = "ok" THEN "completed" ELSE "failed"
    <3>1. /\ verdict' = [verdict EXCEPT ![r] = v]
          /\ traces' = [traces EXCEPT ![r] = TraceIds(r)]
      BY <2>3 DEF CollectResult
    <3>2. v \in {"completed", "failed"} /\ (v = "completed" => Head(responses[r]) = "ok")
      OBVIOUS
    <3> HIDE DEF v
    <3> QED BY <2>1, <3>1, <3>2, Parts DEF TypeOK
  <2> QED BY <2>2, <2>3
<1>4. /\ responses' \in [Requests -> Seq({"ok", "error"})]
      /\ responses'[r] = << >> /\ \A q \in Requests \ {r} : responses'[q] = responses[q]
  <2>1. responses[r] \in Seq({"ok", "error"}) /\ Tail(responses[r]) = << >>
    BY <1>2, Parts, TailOfOne DEF TypeOK
  <2> QED BY <2>1, Parts DEF CollectResult, TypeOK
<1>5. \A e \in Executions : (Kept(e) => Kept(e)') /\ Members(e)' = Members(e)
  BY <1>1, <1>2, Parts, KeptStays, MembersSame
<1>6. TypeOK'
  BY <1>1, <1>2, <1>3, <1>4, Parts DEF TypeOK, QTypeOK
<1>7. /\ PendingExact' /\ QueueAccounted' /\ WorkersAccountedFor'
      /\ CancelNeedsAllMembers' /\ CancelReachesExecution' /\ NodesConserved'
  BY <1>1, Parts, BatchFrame DEF QueueAccounted
<1>8. ChannelInOrder' /\ RequestsInOrder'
  BY <1>1, <1>2, <1>3, <1>4, Parts, ZenonT(30) DEF ChannelInOrder, RequestsInOrder, InChannel
<1>9. BatchesInOrder' /\ HistoryExact'
  BY <1>1, <1>5, Parts DEF BatchesInOrder, HistoryExact
<1>10. OutcomesRecorded'
  <2> SUFFICES ASSUME NEW q \in Requests PROVE Outcome(q)'
    BY DEF OutcomesRecorded
  <2>1. history[q] \subseteq Executions /\ InChannel(q)' = InChannel(q)
    BY <1>1, Parts DEF TypeOK, InChannel
  <2>2. CASE q # r
    BY <1>1, <1>2, <1>3, <1>4, <1>5, <2>1, <2>2, Parts, OutcomeStays DEF OutcomesRecorded
  <2>3. CASE q = r
    <3>1. verdict[r] = "none"
      BY <1>2, Parts DEF RequestsInOrder
    <3> QED BY <1>1, <1>2, <1>3, <1>4, <1>5, <2>1, <2>3, <3>1, Parts
            DEF OutcomesRecorded, Outcome, WorkflowsOf
  <2> QED BY <2>2, <2>3
<1>11. TracesOwn'
  <2>1. ASSUME NEW q \in Requests \ {r}, verdict'[q] = "completed"
        PROVE  /\ traces'[q] \subseteq history'[q]
               /\ \A e \in history'[q] \ traces'[q] :
                    \E p \in Members(e)' \ {q} : api'[p] = "released"
    BY <1>1, <1>2, <1>3, <2>1, Parts, TracesStay
  <2>2. ASSUME verdict'[r] = "completed"
        PROVE  /\ traces'[r] \subseteq history[r]
               /\ \A e \in history[r] \ traces'[r] :
                    \E p \in Members(e) \ {r} : api'[p] = "released"
    <3>1. history[r] \subseteq Executions
      BY Parts DEF TypeOK
    <3>2. execs[r] \subseteq history[r]
      BY Parts DEF CancelReachesExecution, ExecutionsTracked, HistoryExact, Live
    <3>3. r \notin errors
      BY <1>2, <1>3, <2>2, Parts DEF OutcomesRecorded, Outcome
    <3>4. ASSUME NEW e \in history[r] PROVE task[e] = "done"
      <4>1. e \in Executions /\ task[e] \notin {"unused", "spawned"} /\ r \in Members(e)
        BY <3>1, Parts DEF HistoryExact
      <4>2. e \notin Dispatched
        BY <1>2, <4>1, MemberPending
      <4> QED BY <4>1, <4>2 DEF Dispatched
    <3>5. ASSUME NEW e \in history[r], e \notin registered
          PROVE  \E p \in Members(e) \ {r} : api'[p] = "released"
      <4>1. PICK p \in Members(e) : api[p] = "released"
        BY <3>3, <3>4, <3>5, Parts DEF OutcomesRecorded, Outcome, Kept
      <4>2. p \in Requests /\ p # r
        BY <1>2, <3>1, <4>1, Parts, MembersKnown
      <4> QED BY <1>2, <4>1, <4>2
    <3> QED BY <1>3, <2>2, <3>2, <3>5 DEF TraceIds
  <2> QED BY <1>1, <2>1, <2>2 DEF TracesOwn, Members
<1> QED BY <1>6, <1>7, <1>8, <1>9, <1>10, <1>11 DEF IInv

(* The workflow ids of a request are dropped.                              *)
LEMMA ReleaseRequestStep ==
  ASSUME IInv, NEW r \in Requests, ReleaseRequest(r)
  PROVE  IInv'
<1>1. /\ UNCHANGED <<queued, reserved, inflight, verdict, traces, channel, pending>>
      /\ UNCHANGED <<errors, succeeded, nodes, responses, sched, seen, up, busy, task, wfs>>
      /\ UNCHANGED <<group, active, execs, history, batchStatus, cancelled, cancelling>>
      /\ UNCHANGED <<fm, cancelSent>>
  BY DEF ReleaseRequest, qvars, workerVars, batchVars, cancelVars
<1>2. /\ api[r] = "collected"
      /\ api' \in [Requests -> {"new", "waiting", "collected", "released"}]
      /\ api'[r] = "released" /\ \A q \in Requests \ {r} : api'[q] = api[q]
      /\ registered' = registered \ (execs[r] \cup history[r])
  BY Parts DEF ReleaseRequest, TypeOK
<1>3. \A e \in Executions : (Kept(e) => Kept(e)') /\ Members(e)' = Members(e)
  <2> SUFFICES ASSUME NEW e \in Executions, Kept(e) PROVE Kept(e)'
    BY <1>1, MembersSame
  <2>1. Members(e)' = Members(e) /\ Members(e) \subseteq Requests
    BY <1>1, Parts, MembersSame, MembersKnown
  <2>2. e \in execs[r] \cup history[r] => r \in Members(e)
    BY Parts DEF CancelReachesExecution, ExecutionsTracked, HistoryExact
  <2> QED BY <1>2, <2>1, <2>2 DEF Kept
<1>4. TypeOK'
  BY <1>1, <1>2, Parts DEF TypeOK, QTypeOK
<1>5. /\ PendingExact' /\ QueueAccounted' /\ WorkersAccountedFor'
      /\ CancelNeedsAllMembers' /\ CancelReachesExecution' /\ NodesConserved'
  BY <1>1, Parts, BatchFrame DEF QueueAccounted
<1>6. ChannelInOrder' /\ RequestsInOrder'
  BY <1>1, <1>2, Parts DEF ChannelInOrder, RequestsInOrder, InChannel
<1>7. BatchesInOrder' /\ HistoryExact'
  BY <1>1, <1>3, Parts DEF BatchesInOrder, HistoryExact
<1>8. OutcomesRecorded'
  BY <1>1, <1>2, <1>3, Parts, ZenonT(30)
     DEF OutcomesRecorded, Outcome, InChannel, WorkflowsOf, TypeOK
<1>9. TracesOwn'
  BY <1>1, <1>2, Parts, TracesStay DEF TracesOwn
<1> QED BY <1>4, <1>5, <1>6, <1>7, <1>8, <1>9 DEF IInv

(* Marks are added: of a request, whose cancel call goes on, or of         *)
(* executions all members of which are marked.                             *)
LEMMA MarkingStep ==
  ASSUME IInv, UNCHANGED <<qvars, requestVars, workerVars, batchVars, registered, fm>>,
         cancelled \subseteq cancelled', cancelled' \subseteq Requests \cup Executions,
         cancelling' \subseteq Requests, cancelSent' \subseteq Executions,
         \A e \in Executions \cap cancelled' :
           e \in cancelled \/ (e \in Live /\ Members(e) \subseteq cancelled),
         \A e \in Live : Members(e) \subseteq cancelled' \ cancelling' => e \in cancelled'
  PROVE  IInv'
<1>1. /\ UNCHANGED <<queued, reserved, inflight, api, verdict, traces, channel, pending>>
      /\ UNCHANGED <<errors, succeeded, nodes, responses, sched, seen, up, busy, task, wfs>>
      /\ UNCHANGED <<group, active, execs, history, batchStatus, registered, fm>>
  BY DEF qvars, requestVars, workerVars, batchVars
<1>2. \A e \in Executions : (Kept(e) <=> Kept(e)') /\ Members(e)' = Members(e)
  BY <1>1 DEF Kept, Members
<1>3. TypeOK'
  BY <1>1, Parts DEF TypeOK, QTypeOK
<1>4. ChannelInOrder' /\ RequestsInOrder' /\ PendingExact' /\ HistoryExact' /\ TracesOwn'
  BY <1>1, Parts DEF ChannelInOrder, RequestsInOrder, PendingExact, HistoryExact, TracesOwn,
     InChannel, Members
<1>5. QueueAccounted' /\ WorkersAccountedFor'
  BY <1>1, Parts DEF QueueAccounted, WorkersAccountedFor, Dispatched
<1>10. NodesConserved'
  BY <1>1, Parts DEF NodesConserved, Live
<1>6. BatchesInOrder'
  BY <1>1, <1>2, Parts DEF BatchesInOrder, Live
<1>7. OutcomesRecorded'
  BY <1>1, <1>2, Parts DEF OutcomesRecorded, Outcome, InChannel, WorkflowsOf, TypeOK
<1>8. CancelNeedsAllMembers'
  BY <1>2, Parts DEF CancelNeedsAllMembers
<1>9. CancelReachesExecution'
  BY <1>1, Parts DEF CancelReachesExecution, ExecutionsTracked, Members, Live
<1> QED BY <1>3, <1>4, <1>5, <1>6, <1>7, <1>8, <1>9, <1>10 DEF IInv

(* The first half of a cancel call marks the request and no execution.     *)
LEMMA CancelRequestStep ==
  ASSUME IInv, NEW r \in Requests, CancelRequest(r)
  PROVE  IInv'
<1>1. /\ cancelled' = cancelled \cup {r} /\ cancelling' = cancelling \cup {r}
      /\ cancelSent' = cancelSent
      /\ UNCHANGED <<qvars, requestVars, workerVars, batchVars, registered, fm>>
  BY DEF CancelRequest, remoteVars
<1>2. /\ cancelled' \subseteq Requests \cup Executions
      /\ cancelling' \subseteq Requests /\ cancelSent' \subseteq Executions
  BY <1>1, Parts DEF TypeOK
<1>3. \A e \in Executions \cap cancelled' : e \in cancelled
  BY <1>1, Apart
<1>4. \A e \in Live : Members(e) \subseteq cancelled' \ cancelling' => e \in cancelled'
  BY <1>1, Parts DEF CancelReachesExecution
<1> QED BY <1>1, <1>2, <1>3, <1>4, MarkingStep

(* However the second halves of the cancel calls interleave, the last one  *)
(* finds all members marked.                                               *)
LEMMA CancelExecutionsStep ==
  ASSUME IInv, NEW r \in Requests, CancelExecutions(r)
  PROVE  IInv'
<1> DEFINE E == {e \in execs[r] : e \notin cancelled /\ Members(e) \subseteq cancelled}
<1>1. /\ cancelled' = cancelled \cup E /\ cancelling' = cancelling \ {r}
      /\ cancelSent' = cancelSent \cup (E \cap registered)
      /\ UNCHANGED <<qvars, requestVars, workerVars, batchVars, registered, fm>>
  BY DEF CancelExecutions
<1>2. E \subseteq Executions /\ execs[r] = {e \in Live : r \in Members(e)}
  BY Parts DEF TypeOK, CancelReachesExecution, ExecutionsTracked
<1>3. /\ cancelled' \subseteq Requests \cup Executions
      /\ cancelling' \subseteq Requests /\ cancelSent' \subseteq Executions
  BY <1>1, <1>2, Parts DEF TypeOK
<1>4. \A e \in Executions \cap cancelled' :
        e \in cancelled \/ (e \in Live /\ Members(e) \subseteq cancelled)
  BY <1>1, <1>2
<1>5. ASSUME NEW e \in Live, Members(e) \subseteq cancelled' \ cancelling'
      PROVE  e \in cancelled'
  <2>1. Members(e) \subseteq Requests
    BY Parts, MembersKnown DEF Live
  <2>2. Members(e) \subseteq cancelled
    BY <1>1, <1>2, <1>5, <2>1, Apart
  <2>3. CASE r \in Members(e)
    BY <1>1, <1>2, <2>2, <2>3
  <2>4. CASE r \notin Members(e)
    BY <1>1, <1>5, <2>2, <2>4, Parts DEF CancelReachesExecution
  <2> QED BY <2>3, <2>4
<1> QED BY <1>1, <1>3, <1>4, <1>5, MarkingStep

-----------------------------------------------------------------------------
(* The runtime thread takes a request from the channel.                    *)
LEMMA TakeFromChannel ==
  ASSUME IInv, channel # << >>, channel' = Tail(channel)
  PROVE  /\ Head(channel) \in Requests /\ InChannel(Head(channel))
         /\ channel' \in Seq(Requests) /\ ChannelInOrder'
         /\ \A q \in Requests : InChannel(q)' <=> InChannel(q) /\ q # Head(channel)
<1>1. channel \in Seq(Requests) /\ Len(channel) \in Nat \ {0}
  BY Parts, EmptySeq DEF TypeOK
<1>2. /\ Head(channel) = channel[1] /\ channel[1] \in Requests /\ 1 \in 1..Len(channel)
      /\ channel' \in Seq(Requests) /\ Len(channel') = Len(channel) - 1
      /\ \A i \in 1..Len(channel') : channel'[i] = channel[i + 1]
  BY <1>1
<1>3. \A i, k \in 1..Len(channel) : channel[i] = channel[k] => i = k
  BY Parts DEF ChannelInOrder
<1>4. \A i \in 1..Len(channel') : i + 1 \in 1..Len(channel) /\ i + 1 # 1
  BY <1>1, <1>2
<1>5. ChannelInOrder'
  <2> SUFFICES ASSUME NEW i \in 1..Len(channel'), NEW k \in 1..Len(channel'),
                      channel'[i] = channel'[k]
               PROVE  i = k
    BY DEF ChannelInOrder
  <2>1. i + 1 = k + 1
    BY <1>2, <1>3, <1>4
  <2> QED BY <2>1
<1>6. \A q \in Requests : InChannel(q)' <=> InChannel(q) /\ q # Head(channel)
  <2> SUFFICES ASSUME NEW q \in Requests
               PROVE  InChannel(q)' <=> InChannel(q) /\ q # Head(channel)
    OBVIOUS
  <2>1. ASSUME InChannel(q)' PROVE InChannel(q) /\ q # Head(channel)
    <3>1. PICK i \in 1..Len(channel') : channel'[i] = q
      BY <2>1 DEF InChannel
    <3> QED BY <1>2, <1>3, <1>4, <3>1 DEF InChannel
  <2>2. ASSUME InChannel(q), q # Head(channel) PROVE InChannel(q)'
    <3>1. PICK i \in 1..Len(channel) : channel[i] = q
      BY <2>2 DEF InChannel
    <3>2. i - 1 \in 1..Len(channel') /\ (i - 1) + 1 = i
      BY <1>1, <1>2, <2>2, <3>1
    <3>3. channel'[i - 1] = q
      BY <1>2, <3>1, <3>2
    <3> QED BY <3>2, <3>3 DEF InChannel
  <2> QED BY <2>1, <2>2
<1> QED BY <1>2, <1>5, <1>6 DEF InChannel

(* One without workflows is answered at once.                              *)
LEMMA HandleEmptyStep ==
  ASSUME IInv, HandleRequest, WorkflowsOf(Head(channel)) = {}
  PROVE  IInv'
<1>1. /\ UNCHANGED <<queued, reserved, inflight, api, verdict, traces, pending>>
      /\ UNCHANGED <<errors, succeeded, nodes, sched, seen, up, busy, task, wfs>>
      /\ UNCHANGED <<group, active, execs, history, batchStatus, cancelled, cancelling>>
      /\ UNCHANGED <<registered, fm, cancelSent>>
  BY DEF HandleRequest, qvars, workerVars, batchVars, cancelVars, remoteVars
<1>2. PICK r \in Requests :
        /\ r = Head(channel) /\ InChannel(r) /\ channel' \in Seq(Requests) /\ ChannelInOrder'
        /\ \A q \in Requests : InChannel(q)' <=> InChannel(q) /\ q # r
  BY TakeFromChannel DEF HandleRequest
<1>3. responses' = [responses EXCEPT ![r] = Append(@, "ok")]
  BY <1>2 DEF HandleRequest
<1>4. WorkflowsOf(r) = {}
  BY <1>2
<1>5. /\ api[r] = "waiting" /\ pending[r] = {} /\ responses[r] = << >>
      /\ verdict[r] = "none"
  BY <1>2, Parts DEF RequestsInOrder
<1>6. /\ responses' \in [Requests -> Seq({"ok", "error"})]
      /\ responses'[r] # << >> /\ Len(responses'[r]) = 1
      /\ \A q \in Requests \ {r} : responses'[q] = responses[q]
  <2>1. /\ Append(<< >>, "ok") \in Seq({"ok", "error"}) /\ Append(<< >>, "ok") # << >>
        /\ Len(Append(<< >>, "ok")) = 1
    OBVIOUS
  <2>2. responses' = [responses EXCEPT ![r] = Append(<< >>, "ok")]
    BY <1>2, <1>3, <1>5
  <2> QED BY <1>2, <2>1, <2>2, Parts DEF TypeOK
<1>7. \A e \in Executions : (Kept(e) => Kept(e)') /\ Members(e)' = Members(e)
  BY <1>1, Parts, KeptStays, MembersSame
<1>8. TypeOK'
  BY <1>1, <1>2, <1>6, Parts DEF TypeOK, QTypeOK
<1>9. /\ PendingExact' /\ QueueAccounted' /\ WorkersAccountedFor'
      /\ CancelNeedsAllMembers' /\ CancelReachesExecution' /\ NodesConserved'
  BY <1>1, Parts, BatchFrame DEF QueueAccounted
<1>10. RequestsInOrder'
  BY <1>1, <1>2, <1>5, <1>6, Parts DEF RequestsInOrder
<1>11. BatchesInOrder' /\ HistoryExact'
  BY <1>1, <1>7, Parts DEF BatchesInOrder, HistoryExact
<1>12. OutcomesRecorded'
  <2> SUFFICES ASSUME NEW q \in Requests PROVE Outcome(q)'
    BY DEF OutcomesRecorded
  <2>1. history[q] \subseteq Executions
    BY Parts DEF TypeOK
  <2>2. CASE q # r
    <3>1. InChannel(q)' = InChannel(q)
      BY <1>2, <2>2 DEF InChannel
    <3> QED BY <1>1, <1>6, <1>7, <2>1, <2>2, <3>1, Parts, OutcomeStays
            DEF OutcomesRecorded
  <2>3. CASE q = r
    <3>1. r \notin errors
      BY <1>2, Parts DEF RequestsInOrder
    <3>2. WorkflowsOf(r)' = {}
      BY <1>4 DEF WorkflowsOf
    <3> QED BY <1>1, <1>2, <1>4, <1>5, <1>7, <2>1, <2>3, <3>1, <3>2, Parts
            DEF OutcomesRecorded, Outcome
  <2> QED BY <2>2, <2>3
<1>13. TracesOwn'
  BY <1>1, Parts, TracesStay DEF TracesOwn
<1> QED BY <1>2, <1>8, <1>9, <1>10, <1>11, <1>12, <1>13 DEF IInv

(* Otherwise its workflows are queued, and their nodes are pending.        *)
LEMMA HandleRequestStep ==
  ASSUME IInv, HandleRequest, WorkflowsOf(Head(channel)) # {}
  PROVE  IInv'
<1>1. /\ UNCHANGED <<reserved, inflight, api, verdict, traces>>
      /\ UNCHANGED <<errors, succeeded, responses, sched, seen, up, busy, task, wfs>>
      /\ UNCHANGED <<group, active, execs, history, batchStatus, cancelled, cancelling>>
      /\ UNCHANGED <<registered, fm, cancelSent>>
  BY DEF HandleRequest, Enqueue, qvars, workerVars, batchVars, cancelVars, remoteVars
<1>2. PICK r \in Requests :
        /\ r = Head(channel) /\ InChannel(r) /\ channel' \in Seq(Requests) /\ ChannelInOrder'
        /\ \A q \in Requests : InChannel(q)' <=> InChannel(q) /\ q # r
  BY TakeFromChannel DEF HandleRequest
<1> DEFINE W == WorkflowsOf(r)
<1>3. /\ W \cap (queued \cup inflight) = {} /\ queued' = queued \cup W
      /\ pending' = [pending EXCEPT ![r] = W]
      /\ nodes' = [nodes EXCEPT ![r].pending = NodeSum(W)]
  BY <1>2 DEF HandleRequest, Enqueue
<1>4. \A w : w \in W <=> w \in Workflows /\ RequestOf[w] = r
  BY <1>2, NodesKnown
<1>5. NodeSum(W) \in Nat
  BY <1>2, NodeSumParts
<1> HIDE DEF W
<1>6. /\ api[r] = "waiting" /\ responses[r] = << >> /\ verdict[r] = "none"
      /\ r \notin errors
  BY <1>2, Parts DEF RequestsInOrder
<1>7. /\ pending' \in [Requests -> SUBSET Workflows]
      /\ pending'[r] = W /\ \A q \in Requests \ {r} : pending'[q] = pending[q]
  BY <1>2, <1>3, <1>4, Parts DEF TypeOK
<1>8. /\ nodes' \in [Requests -> [pending : Nat, processing : Nat, processed : Nat]]
      /\ nodes'[r].pending = NodeSum(W) /\ nodes'[r].processing = nodes[r].processing
      /\ \A q \in Requests \ {r} : nodes'[q] = nodes[q]
  <2> DEFINE c == [nodes[r] EXCEPT !.pending = NodeSum(W)]
  <2>1. nodes[r] \in [pending : Nat, processing : Nat, processed : Nat]
    BY Parts DEF TypeOK
  <2>2. /\ c \in [pending : Nat, processing : Nat, processed : Nat]
        /\ c.pending = NodeSum(W) /\ c.processing = nodes[r].processing
    BY <1>5, <2>1
  <2>3. nodes' = [nodes EXCEPT ![r] = c]
    BY <1>3
  <2> HIDE DEF c
  <2> QED BY <2>2, <2>3, Parts DEF TypeOK
<1>9. \A e \in Executions : (Kept(e) => Kept(e)') /\ Members(e)' = Members(e)
  BY <1>1, Parts, KeptStays, MembersSame
<1>10. TypeOK'
  BY <1>1, <1>2, <1>3, <1>4, <1>7, <1>8, Parts DEF TypeOK, QTypeOK
<1>11. RequestsInOrder'
  BY <1>1, <1>2, <1>6, <1>7, Parts DEF RequestsInOrder
<1>12. PendingExact'
  <2> SUFFICES ASSUME NEW q \in Requests
               PROVE  pending'[q] = {w \in queued' \cup inflight' : RequestOf[w] = q}
    BY DEF PendingExact
  <2>1. pending[q] = {w \in queued \cup inflight : RequestOf[w] = q}
    BY Parts DEF PendingExact
  <2>2. CASE q # r
    BY <1>1, <1>3, <1>4, <1>7, <2>1, <2>2
  <2>3. CASE q = r
    <3>1. pending[r] = {}
      BY <1>2, Parts DEF RequestsInOrder
    <3> QED BY <1>1, <1>3, <1>4, <1>7, <2>1, <2>3, <3>1
  <2> QED BY <2>2, <2>3
<1>13. QueueAccounted' /\ WorkersAccountedFor'
  BY <1>1, <1>3, Parts DEF QueueAccounted, WorkersAccountedFor, Dispatched
<1>14. BatchesInOrder' /\ HistoryExact'
  BY <1>1, <1>9, Parts DEF BatchesInOrder, HistoryExact
<1>15. OutcomesRecorded'
  <2> SUFFICES ASSUME NEW q \in Requests PROVE Outcome(q)'
    BY DEF OutcomesRecorded
  <2>1. history[q] \subseteq Executions
    BY Parts DEF TypeOK
  <2>2. CASE q # r
    <3>1. InChannel(q)' = InChannel(q)
      BY <1>2, <2>2 DEF InChannel
    <3> QED BY <1>1, <1>7, <1>9, <2>1, <2>2, <3>1, Parts, OutcomeStays
            DEF OutcomesRecorded
  <2>3. CASE q = r
    <3>1. WorkflowsOf(r)' = W /\ WorkflowsOf(r) = W
      BY DEF WorkflowsOf, W
    <3> QED BY <1>1, <1>2, <1>6, <1>7, <1>9, <2>1, <2>3, <3>1, Parts
            DEF OutcomesRecorded, Outcome
  <2> QED BY <2>2, <2>3
<1>16. CancelNeedsAllMembers' /\ CancelReachesExecution'
  BY <1>1, Parts DEF CancelNeedsAllMembers, CancelReachesExecution, ExecutionsTracked,
     Members, Live
<1>17. NodesConserved'
  <2> SUFFICES ASSUME NEW q \in Requests
               PROVE  /\ nodes'[q].processing =
                           NodeSum({w \in Workflows : RequestOf[w] = q /\
                                      \E e \in Live : w \in active[e]})
                      /\ nodes'[q].pending >=
                           NodeSum({w \in pending'[q] : \A e \in Live : w \notin wfs[e]})
    BY <1>1 DEF NodesConserved, Live
  <2>1. CASE q # r
    BY <1>7, <1>8, <2>1, Parts DEF NodesConserved
  <2>2. CASE q = r
    <3>1. {w \in W : \A e \in Live : w \notin wfs[e]} = W
      BY <1>3, Parts DEF QueueAccounted, Dispatched, Live
    <3>2. nodes'[r].pending >= NodeSum(W)
      BY <1>5, <1>8
    <3>3. nodes[r].processing = NodeSum({w \in Workflows : RequestOf[w] = r /\
                                           \E e \in Live : w \in active[e]})
      BY Parts DEF NodesConserved
    <3> QED BY <1>7, <1>8, <2>2, <3>1, <3>2, <3>3
  <2> QED BY <2>1, <2>2
<1>18. TracesOwn'
  BY <1>1, Parts, TracesStay DEF TracesOwn
<1> QED BY <1>2, <1>10, <1>11, <1>12, <1>13, <1>14, <1>15, <1>16, <1>17, <1>18 DEF IInv

-----------------------------------------------------------------------------
(* The scheduler takes workers for the reserved batch.                     *)
LEMMA TakeWorkersStep ==
  ASSUME IInv, TakeWorkers
  PROVE  IInv'
<1>1. /\ UNCHANGED <<api, verdict, traces, channel, pending>>
      /\ UNCHANGED <<errors, succeeded, nodes, responses, up>>
      /\ UNCHANGED <<active, execs, history, batchStatus, cancelled, cancelling>>
      /\ UNCHANGED <<registered, fm, cancelSent>>
      /\ sched' = "idle" /\ seen' = {}
  BY DEF TakeWorkers, requestVars, cancelVars, remoteVars
<1>2. /\ queued' = queued \ reserved /\ inflight' = inflight \cup reserved
      /\ reserved' = {} /\ reserved \subseteq queued
  BY Parts DEF TakeWorkers, Commit, QueueAccounted
<1>3. PICK e \in Executions, g \in SUBSET Workers :
        /\ task[e] = "unused" /\ wfs' = [wfs EXCEPT ![e] = reserved]
        /\ task' = [task EXCEPT ![e] = "spawned"]
        /\ group' = [group EXCEPT ![e] = g]
        /\ g \cap busy = {} /\ busy' = busy \cup g
  <2> DEFINE x == CHOOSE d \in Executions : task[d] = "unused"
  <2>1. x \in Executions /\ task[x] = "unused"
    BY DEF TakeWorkers
  <2>2. PICK C, G \in SUBSET seen :
          /\ (C \cup G) \cap busy = {} /\ busy' = busy \cup C \cup G
          /\ group' = [group EXCEPT ![x] = C \cup G]
    BY DEF TakeWorkers
  <2>3. /\ wfs' = [wfs EXCEPT ![x] = reserved]
        /\ task' = [task EXCEPT ![x] = "spawned"]
    BY DEF TakeWorkers
  <2>4. C \cup G \in SUBSET Workers /\ busy' = busy \cup (C \cup G)
    BY <2>2, Parts DEF TypeOK
  <2> HIDE DEF x
  <2> QED BY <2>1, <2>2, <2>3, <2>4
<1>4. /\ task'[e] = "spawned" /\ \A d \in Executions \ {e} : task'[d] = task[d]
      /\ wfs'[e] = reserved /\ \A d \in Executions \ {e} : wfs'[d] = wfs[d]
      /\ group'[e] = g /\ \A d \in Executions \ {e} : group'[d] = group[d]
      /\ task' \in [Executions -> TaskStates]
      /\ wfs' \in [Executions -> SUBSET Workflows]
      /\ group' \in [Executions -> SUBSET Workers]
  BY <1>2, <1>3, Parts DEF TypeOK, QTypeOK, TaskStates
<1>5. /\ Dispatched' = Dispatched \cup {e} /\ e \notin Dispatched
      /\ Live' = Live /\ e \notin Live
  BY <1>3, <1>4 DEF Dispatched, Live
<1>6. /\ \A d \in Executions \ {e} : Members(d)' = Members(d) /\ (Kept(d) => Kept(d)')
      /\ e \notin cancelled /\ active[e] = {}
      /\ \A r \in Requests : e \notin history[r]
  BY <1>1, <1>3, <1>4, Parts DEF Members, Kept, BatchesInOrder, HistoryExact
<1>7. TypeOK'
  BY <1>1, <1>2, <1>3, <1>4, Parts DEF TypeOK, QTypeOK
<1>8. ChannelInOrder' /\ RequestsInOrder' /\ PendingExact'
  BY <1>1, <1>2, Parts DEF ChannelInOrder, RequestsInOrder, InChannel, PendingExact
<1>9. QueueAccounted'
  <2>1. \A d \in Dispatched : wfs[d] \subseteq inflight /\ wfs'[d] = wfs[d]
    BY <1>4, <1>5, Parts DEF QueueAccounted, Dispatched
  <2>2. inflight' = UNION {wfs'[d] : d \in Dispatched'}
    BY <1>2, <1>4, <1>5, <2>1, Parts DEF QueueAccounted
  <2>3. \A c, d \in Dispatched' : c # d => wfs'[c] \cap wfs'[d] = {}
    BY <1>2, <1>4, <1>5, <2>1, Parts DEF QueueAccounted
  <2>4. reserved' \subseteq queued' /\ queued' \cap inflight' = {}
    BY <1>2, Parts DEF QueueAccounted
  <2> QED BY <2>2, <2>3, <2>4 DEF QueueAccounted
<1>10. BatchesInOrder'
  BY <1>1, <1>4, <1>6, Parts DEF BatchesInOrder
<1>11. HistoryExact'
  BY <1>1, <1>3, <1>4, <1>6, Parts DEF HistoryExact
<1>12. OutcomesRecorded'
  <2> SUFFICES ASSUME NEW q \in Requests PROVE Outcome(q)'
    BY DEF OutcomesRecorded
  <2>1. history[q] \subseteq Executions \ {e} /\ InChannel(q)' = InChannel(q)
    BY <1>1, <1>6, Parts DEF TypeOK, InChannel
  <2> QED BY <1>1, <1>4, <1>6, <2>1, Parts, OutcomeStays DEF OutcomesRecorded
<1>13. WorkersAccountedFor'
  <2>1. \A d \in Dispatched : group[d] \subseteq busy /\ group'[d] = group[d]
    BY <1>4, <1>5, Parts DEF WorkersAccountedFor, Dispatched
  <2>2. busy' = UNION {group'[d] : d \in Dispatched'}
    BY <1>3, <1>4, <1>5, <2>1, Parts DEF WorkersAccountedFor
  <2>3. \A c, d \in Dispatched' : c # d => group'[c] \cap group'[d] = {}
    BY <1>3, <1>4, <1>5, <2>1, Parts DEF WorkersAccountedFor
  <2> QED BY <2>2, <2>3 DEF WorkersAccountedFor
<1>14. CancelNeedsAllMembers'
  BY <1>1, <1>6, Parts DEF CancelNeedsAllMembers
<1>15. CancelReachesExecution'
  <2>1. \A d \in Live : Members(d)' = Members(d)
    BY <1>5, <1>6 DEF Live
  <2> QED BY <1>1, <1>5, <2>1, Parts DEF CancelReachesExecution, ExecutionsTracked
<1>16. NodesConserved'
  <2>1. \A d \in Live : wfs'[d] = wfs[d]
    BY <1>4, <1>5 DEF Live
  <2> QED BY <1>1, <1>5, <2>1, Parts DEF NodesConserved
<1>17. TracesOwn'
  <2>1. \A q \in Requests : history[q] \subseteq Executions \ {e}
    BY <1>6, Parts DEF TypeOK
  <2> QED BY <1>1, <1>6, <2>1, Parts DEF TracesOwn
<1> QED BY <1>7, <1>8, <1>9, <1>10, <1>11, <1>12, <1>13, <1>14, <1>15, <1>16, <1>17
        DEF IInv

-----------------------------------------------------------------------------
(* The task of a batch.                                                    *)

(* A batch that goes on: only how far it has come changes.                 *)
LEMMA AdvanceStep ==
  ASSUME IInv, NEW e \in Live, NEW next \in TaskStates \ {"unused", "spawned", "done"},
         AdvanceBatch(e, next),
         batchStatus' \in [Executions -> {"none", "RUNNING", "COMPLETED", "FAILED"}],
         fm' \in [Executions -> {"none", "running", "done", "failed", "cancelled"}],
         \A d \in Executions \ {e} : fm'[d] = fm[d],
         registered \subseteq registered', registered' \subseteq Executions,
         next \in {"polling", "collecting"} => Kept(e)',
         next = "collecting" => fm'[e] = "done"
  PROVE  IInv'
<1>1. /\ UNCHANGED <<queued, reserved, inflight, api, verdict, traces, channel, pending>>
      /\ UNCHANGED <<errors, succeeded, nodes, responses, sched, seen, up, busy>>
      /\ UNCHANGED <<wfs, group, active, execs, history, cancelled, cancelling>>
      /\ UNCHANGED cancelSent
  BY DEF AdvanceBatch, qvars, requestVars, workerVars, cancelVars
<1>2. /\ e \in Executions /\ task[e] \notin {"unused", "spawned", "done"}
      /\ task'[e] = next /\ \A d \in Executions \ {e} : task'[d] = task[d]
      /\ task' \in [Executions -> TaskStates]
      /\ next \notin {"unused", "spawned", "done"}
  BY Parts DEF AdvanceBatch, TypeOK, Live
<1>3. Dispatched' = Dispatched /\ Live' = Live
  BY <1>2 DEF Dispatched, Live
<1>4. \A d \in Executions : (Kept(d) => Kept(d)') /\ Members(d)' = Members(d)
  BY <1>1, Parts, KeptStays, MembersSame
<1>5. TypeOK'
  BY <1>1, <1>2, Parts DEF TypeOK, QTypeOK
<1>6. ChannelInOrder' /\ RequestsInOrder' /\ PendingExact'
  BY <1>1, Parts DEF ChannelInOrder, RequestsInOrder, InChannel, PendingExact
<1>7. QueueAccounted' /\ WorkersAccountedFor' /\ NodesConserved'
  <2>1. QueueAccounted' /\ WorkersAccountedFor'
    BY <1>1, <1>3, Parts DEF QueueAccounted, WorkersAccountedFor
  <2>2. NodesConserved'
    BY <1>1, <1>3, Parts DEF NodesConserved
  <2> QED BY <2>1, <2>2
<1>8. BatchesInOrder'
  BY <1>1, <1>2, <1>4, Parts DEF BatchesInOrder
<1>9. HistoryExact'
  BY <1>1, <1>2, <1>4, Parts DEF HistoryExact
<1>10. OutcomesRecorded'
  <2> SUFFICES ASSUME NEW q \in Requests PROVE Outcome(q)'
    BY DEF OutcomesRecorded
  <2>1. history[q] \subseteq Executions /\ InChannel(q)' = InChannel(q)
    BY <1>1, Parts DEF TypeOK, InChannel
  <2> QED BY <1>1, <1>2, <1>4, <2>1, Parts, OutcomeStays DEF OutcomesRecorded
<1>11. CancelNeedsAllMembers'
  BY <1>1, <1>4, Parts DEF CancelNeedsAllMembers
<1>12. CancelReachesExecution'
  <2>1. \A d \in Live : Members(d)' = Members(d)
    BY <1>4 DEF Live
  <2> QED BY <1>1, <1>3, <2>1, Parts DEF CancelReachesExecution, ExecutionsTracked
<1>13. TracesOwn'
  BY <1>1, Parts, TracesStay DEF TracesOwn
<1> QED BY <1>5, <1>6, <1>7, <1>8, <1>9, <1>10, <1>11, <1>12, <1>13 DEF IInv

(* What a batch that ends leaves of a request's workflows.                 *)
LEMMA DispatchedHolds ==
  ASSUME IInv, NEW e \in Dispatched
  PROVE  /\ wfs[e] \subseteq inflight /\ wfs[e] \cap queued = {}
         /\ active[e] \subseteq wfs[e] /\ e \in Executions
         /\ \A d \in Dispatched \ {e} : wfs[d] \cap wfs[e] = {}
         /\ \A w \in wfs[e] : w \in pending[RequestOf[w]]
<1>1. e \in Executions
  BY DEF Dispatched
<1>2. /\ wfs[e] \subseteq inflight /\ wfs[e] \cap queued = {}
      /\ \A d \in Dispatched \ {e} : wfs[d] \cap wfs[e] = {}
  BY Parts DEF QueueAccounted
<1>3. active[e] \subseteq wfs[e]
  BY <1>1, Parts DEF BatchesInOrder
<1>4. \A w \in wfs[e] : w \in pending[RequestOf[w]]
  BY <1>1, <1>2, Parts, RequestsKnown DEF PendingExact, TypeOK
<1> QED BY <1>1, <1>2, <1>3, <1>4

(* The answers: a request gets its one answer when its last workflow comes *)
(* back, and it is a success only if nothing was wrong.                    *)
LEMMA ResultsHandled ==
  ASSUME IInv, NEW e \in Dispatched, NEW produced, NEW failed \in BOOLEAN,
         HandleBatchResults(e, produced, failed)
  PROVE  /\ errors \subseteq errors' /\ errors' \subseteq errors \cup Members(e)
         /\ Blamed(e, produced, failed) \subseteq errors'
         /\ pending' \in [Requests -> SUBSET Workflows]
         /\ succeeded' \in [Requests -> SUBSET Workflows]
         /\ responses' \in [Requests -> Seq({"ok", "error"})]
         /\ \A r \in Requests : pending'[r] = pending[r] \ wfs[e]
         /\ \A r \in Requests \ Members(e) :
              /\ pending'[r] = pending[r] /\ responses'[r] = responses[r]
              /\ succeeded'[r] = succeeded[r] /\ (r \in errors' <=> r \in errors)
         /\ \A r \in Members(e) :
              /\ pending'[r] # {} => responses'[r] = << >>
              /\ pending'[r] = {} => responses'[r] # << >> /\ Len(responses'[r]) = 1
              /\ (pending'[r] = {} /\ Head(responses'[r]) = "ok") => r \notin errors'
              /\ succeeded[r] \subseteq succeeded'[r]
              /\ succeeded'[r] \subseteq WorkflowsOf(r)
              /\ r \notin errors' =>
                   \A w \in wfs[e] : RequestOf[w] = r => w \in succeeded'[r]
<1> DEFINE B == Blamed(e, produced, failed)
           D == Delivered(e, produced)
           answer(r) == IF r \in errors \cup B THEN "error" ELSE "ok"
<1>1. /\ e \in Executions /\ Members(e) \subseteq Requests
      /\ \A w \in wfs[e] : w \in Workflows /\ RequestOf[w] \in Members(e)
  BY Parts, MembersKnown DEF Dispatched
<1>2. B \subseteq Members(e) /\ D \subseteq wfs[e]
  BY <1>1 DEF Blamed, Delivered
<1>3. \A w \in wfs[e] : w \in D \/ RequestOf[w] \in B
  BY DEF Blamed
<1>4. /\ errors' = errors \cup B
      /\ pending' = [r \in Requests |-> pending[r] \ wfs[e]]
      /\ succeeded' = [r \in Requests |-> succeeded[r] \cup {w \in D : RequestOf[w] = r}]
      /\ responses' = [r \in Requests |->
           IF r \in Members(e) /\ pending[r] \ wfs[e] = {}
           THEN Append(responses[r], answer(r)) ELSE responses[r]]
  BY DEF HandleBatchResults
<1>5. \A r : answer(r) \in {"ok", "error"} /\ (answer(r) = "ok" => r \notin errors \cup B)
  OBVIOUS
<1> HIDE DEF B, D, answer
<1>6. \A r \in Members(e) : responses[r] = << >>
  BY MemberPending
<1>7. ASSUME NEW r \in Requests
      PROVE  /\ pending'[r] = pending[r] \ wfs[e]
             /\ pending'[r] \subseteq Workflows
             /\ succeeded'[r] = succeeded[r] \cup {w \in D : RequestOf[w] = r}
             /\ succeeded'[r] \subseteq Workflows
             /\ responses'[r] = IF r \in Members(e) /\ pending'[r] = {}
                                THEN Append(responses[r], answer(r)) ELSE responses[r]
  BY <1>1, <1>2, <1>4, Parts DEF TypeOK
<1>8. ASSUME NEW r \in Requests \ Members(e)
      PROVE  /\ pending'[r] = pending[r] /\ responses'[r] = responses[r]
             /\ succeeded'[r] = succeeded[r] /\ (r \in errors' <=> r \in errors)
  <2>1. \A w \in wfs[e] : RequestOf[w] # r
    BY <1>1
  <2>2. pending[r] \cap wfs[e] = {}
    BY <2>1, Parts DEF PendingExact
  <2> QED BY <1>2, <1>4, <1>7, <2>1, <2>2
<1>9. ASSUME NEW r \in Members(e)
      PROVE  /\ pending'[r] # {} => responses'[r] = << >>
             /\ pending'[r] = {} => /\ responses'[r] # << >> /\ Len(responses'[r]) = 1
                                    /\ responses'[r] \in Seq({"ok", "error"})
                                    /\ Head(responses'[r]) = "ok" => r \notin errors'
  <2>1. CASE pending'[r] # {}
    BY <1>1, <1>6, <1>7, <2>1
  <2>2. CASE pending'[r] = {}
    <3>1. responses'[r] = Append(<< >>, answer(r))
      BY <1>1, <1>6, <1>7, <2>2
    <3>2. /\ responses'[r] \in Seq({"ok", "error"}) /\ responses'[r] # << >>
          /\ Len(responses'[r]) = 1 /\ Head(responses'[r]) = answer(r)
      BY <1>5, <3>1, FirstOfNone
    <3> QED BY <1>4, <1>5, <2>2, <3>2
  <2> QED BY <2>1, <2>2
<1>10. ASSUME NEW r \in Members(e)
       PROVE  /\ succeeded[r] \subseteq succeeded'[r]
              /\ succeeded'[r] \subseteq WorkflowsOf(r)
              /\ r \notin errors' =>
                   \A w \in wfs[e] : RequestOf[w] = r => w \in succeeded'[r]
  <2>1. succeeded[r] \subseteq WorkflowsOf(r)
    BY <1>1, Parts DEF OutcomesRecorded, Outcome
  <2>2. {w \in D : RequestOf[w] = r} \subseteq WorkflowsOf(r)
    BY <1>1, <1>2 DEF WorkflowsOf
  <2> QED BY <1>1, <1>3, <1>4, <1>7, <2>1, <2>2
<1>11. responses' \in [Requests -> Seq({"ok", "error"})]
  <2>1. \A r \in Requests : responses[r] \in Seq({"ok", "error"})
    BY Parts DEF TypeOK
  <2>2. \A r \in Requests : responses'[r] \in Seq({"ok", "error"})
    BY <1>6, <1>8, <1>9, <2>1
  <2> QED BY <1>4, <2>2
<1>12. /\ pending' \in [Requests -> SUBSET Workflows]
       /\ succeeded' \in [Requests -> SUBSET Workflows]
  BY <1>4, <1>7
<1>13. /\ errors \subseteq errors' /\ errors' \subseteq errors \cup Members(e)
       /\ Blamed(e, produced, failed) \subseteq errors'
  BY <1>2, <1>4 DEF B
<1> QED BY <1>1, <1>7, <1>8, <1>9, <1>10, <1>11, <1>12, <1>13

(* Nodes move from one counter to the next.                                *)
Counters == [pending : Nat, processing : Nat, processed : Nat]

(* Nodes go from processing to processed when a batch ends.                *)
LEMMA CountersEnd ==
  ASSUME NEW n \in Counters, NEW k \in Nat, n.processing - k \in Nat,
         NEW c, c = [n EXCEPT !.processing = @ - k, !.processed = @ + k]
  PROVE  /\ c \in Counters
         /\ c.pending = n.pending /\ c.processing = n.processing - k
<1> DEFINE a == n.processing - k
           b == n.processed + k
<1>1. a \in Nat /\ b \in Nat /\ a = n.processing - k
  BY DEF Counters
<1>2. c = [n EXCEPT !.processing = a, !.processed = b]
  BY Zenon
<1> HIDE DEF a, b
<1> QED BY <1>1, <1>2 DEF Counters

(* Nodes go from pending to processing when a batch starts.                *)
LEMMA CountersStart ==
  ASSUME NEW n \in Counters, NEW k \in Nat, n.pending - k \in Nat,
         NEW c, c = [n EXCEPT !.pending = @ - k, !.processing = @ + k]
  PROVE  /\ c \in Counters
         /\ c.pending = n.pending - k /\ c.processing = n.processing + k
<1> DEFINE a == n.pending - k
           b == n.processing + k
<1>1. a \in Nat /\ b \in Nat /\ a = n.pending - k /\ b = n.processing + k
  BY DEF Counters
<1>2. c = [n EXCEPT !.pending = a, !.processing = b]
  BY Zenon
<1> HIDE DEF a, b
<1> QED BY <1>1, <1>2 DEF Counters

(* The node counters: what the running batches hold is in processing, so   *)
(* a batch that ends can be taken off, and nothing goes below zero.        *)
LEMMA NodesProcessed ==
  ASSUME IInv, NEW e \in Dispatched, CountProcessed(e)
  PROVE  /\ nodes' \in [Requests -> [pending : Nat, processing : Nat, processed : Nat]]
         /\ \A r \in Requests :
              /\ nodes'[r].pending = nodes[r].pending
              /\ nodes'[r].processing =
                   NodeSum({w \in Workflows : RequestOf[w] = r /\
                              \E d \in Live \ {e} : w \in active[d]})
<1>1. /\ e \in Executions /\ active[e] \subseteq wfs[e] /\ wfs[e] \subseteq Workflows
      /\ \A d \in Dispatched \ {e} : wfs[d] \cap wfs[e] = {} /\ active[d] \subseteq wfs[d]
  BY Parts, DispatchedHolds DEF TypeOK
<1> DEFINE counted(r) == NodeSum({w \in active[e] : RequestOf[w] = r})
           c(r) == [nodes[r] EXCEPT !.processing = @ - counted(r),
                                    !.processed = @ + counted(r)]
<1>2. nodes' = [r \in Requests |-> c(r)]
  BY DEF CountProcessed
<1>3. ASSUME NEW r \in Requests
      PROVE  /\ counted(r) \in Nat /\ nodes[r].processing - counted(r) \in Nat
             /\ nodes[r].processing - counted(r) =
                  NodeSum({w \in Workflows : RequestOf[w] = r /\
                             \E d \in Live \ {e} : w \in active[d]})
  <2> DEFINE P == {w \in Workflows : RequestOf[w] = r /\ \E d \in Live : w \in active[d]}
             A == {w \in active[e] : RequestOf[w] = r}
             Z == {w \in Workflows : RequestOf[w] = r /\
                     \E d \in Live \ {e} : w \in active[d]}
  <2>1. A \subseteq P /\ Z = P \ A /\ P \subseteq WorkflowsOf(r)
    <3>1. \A d \in Live : d \in Dispatched
      BY DEF Live, Dispatched
    <3>2. e \in Live \/ active[e] = {}
      BY <1>1, Parts DEF Live, Dispatched, BatchesInOrder
    <3>3. P \subseteq WorkflowsOf(r)
      BY DEF WorkflowsOf
    <3>4. \A w \in active[e] : \A d \in Live \ {e} : w \notin active[d]
      BY <1>1, <3>1
    <3> QED BY <1>1, <3>2, <3>3, <3>4
  <2>2. nodes[r].processing = NodeSum(P)
    BY Parts DEF NodesConserved
  <2> HIDE DEF P, A, Z
  <2>3. /\ NodeSum(P) = NodeSum(A) + NodeSum(P \ A)
        /\ NodeSum(A) \in Nat /\ NodeSum(P \ A) \in Nat
    BY <2>1, NodeSumParts
  <2>4. nodes[r].processing - NodeSum(A) = NodeSum(Z)
    BY <2>1, <2>2, <2>3
  <2> QED BY <2>1, <2>3, <2>4 DEF A, Z
<1> HIDE DEF counted
<1>4. ASSUME NEW r \in Requests
      PROVE  /\ c(r) \in Counters
             /\ c(r).pending = nodes[r].pending
             /\ c(r).processing = nodes[r].processing - counted(r)
  <2>1. nodes[r] \in Counters
    BY Parts DEF TypeOK, Counters
  <2>2. c(r) = [nodes[r] EXCEPT !.processing = @ - counted(r), !.processed = @ + counted(r)]
    OBVIOUS
  <2> QED BY <1>3, <2>1, <2>2, CountersEnd
<1> HIDE DEF c
<1> QED BY <1>2, <1>3, <1>4 DEF Counters

(* A batch ends, on whatever path: what its members get is settled, and    *)
(* its workers and its workflows are given back.  A member that gets no    *)
(* error saw FlowMesh finish the batch.                                    *)
LEMMA FinishStep ==
  ASSUME IInv, NEW e \in Dispatched, NEW produced, NEW failed \in BOOLEAN,
         FinishBatch(e, produced, failed), UNCHANGED <<active, cancelSent>>,
         batchStatus' \in [Executions -> {"none", "RUNNING", "COMPLETED", "FAILED"}],
         fm' \in [Executions -> {"none", "running", "done", "failed", "cancelled"}],
         \A d \in Executions \ {e} : fm'[d] = fm[d],
         history' \in [Requests -> SUBSET Executions],
         \A r \in Requests :
           history'[r] = IF r \in Members(e) THEN history[r] \cup {e} ELSE history[r],
         \/ cancelled' = cancelled
         \/ cancelled' = cancelled \cup {e} /\ Members(e) \subseteq cancelled,
         \A w \in wfs[e] \ active[e] : RequestOf[w] \in cancelled,
         \A r \in Members(e) \ Blamed(e, produced, failed) : fm'[e] = "done" /\ Kept(e)
  PROVE  IInv'
<1>1. /\ UNCHANGED <<queued, reserved, api, verdict, traces, channel, sched, seen, up>>
      /\ UNCHANGED <<wfs, group, active, cancelling, registered, cancelSent>>
      /\ inflight' = inflight \ wfs[e] /\ busy' = busy \ group[e]
  BY DEF FinishBatch, Finalize, FreeWorkers
<1>2. /\ e \in Executions /\ task[e] \notin {"unused", "done"}
      /\ task'[e] = "done" /\ \A d \in Executions \ {e} : task'[d] = task[d]
      /\ task' \in [Executions -> TaskStates]
  BY Parts DEF FinishBatch, TypeOK, TaskStates, Dispatched
<1>3. Dispatched' = Dispatched \ {e} /\ Live' = Live \ {e}
  BY <1>2 DEF Dispatched, Live
<1>4. \A d \in Executions :
        (Kept(d) => Kept(d)') /\ Members(d)' = Members(d) /\ Members(d) \subseteq Requests
  BY <1>1, Parts, KeptStays, MembersSame, MembersKnown
<1>5. /\ errors \subseteq errors' /\ errors' \subseteq errors \cup Members(e)
      /\ Blamed(e, produced, failed) \subseteq errors'
      /\ pending' \in [Requests -> SUBSET Workflows]
      /\ succeeded' \in [Requests -> SUBSET Workflows]
      /\ responses' \in [Requests -> Seq({"ok", "error"})]
      /\ \A r \in Requests : pending'[r] = pending[r] \ wfs[e]
  BY ResultsHandled DEF FinishBatch
<1>6. \A r \in Requests \ Members(e) :
        /\ pending'[r] = pending[r] /\ responses'[r] = responses[r]
        /\ succeeded'[r] = succeeded[r] /\ (r \in errors' <=> r \in errors)
        /\ history'[r] = history[r]
  BY ResultsHandled DEF FinishBatch
<1>7. \A r \in Members(e) :
        /\ pending'[r] # {} => responses'[r] = << >>
        /\ pending'[r] = {} => responses'[r] # << >> /\ Len(responses'[r]) = 1
        /\ (pending'[r] = {} /\ Head(responses'[r]) = "ok") => r \notin errors'
        /\ succeeded[r] \subseteq succeeded'[r]
        /\ succeeded'[r] \subseteq WorkflowsOf(r)
        /\ r \notin errors' =>
             \A w \in wfs[e] : RequestOf[w] = r => w \in succeeded'[r]
        /\ history'[r] = history[r] \cup {e}
  BY <1>2, <1>4, ResultsHandled DEF FinishBatch
<1>8. /\ nodes' \in [Requests -> [pending : Nat, processing : Nat, processed : Nat]]
      /\ \A r \in Requests :
           /\ nodes'[r].pending = nodes[r].pending
           /\ nodes'[r].processing =
                NodeSum({w \in Workflows : RequestOf[w] = r /\
                           \E d \in Live \ {e} : w \in active[d]})
  BY NodesProcessed DEF FinishBatch
<1>9. /\ \A r \in Requests : execs'[r] = execs[r] \ {e}
      /\ execs' \in [Requests -> SUBSET Executions]
  BY Parts DEF FinishBatch, ForgetExecution, TypeOK
<1>10. \A r \in Members(e) :
         /\ r \in Requests /\ api[r] = "waiting" /\ responses[r] = << >>
         /\ ~ InChannel(r) /\ verdict[r] = "none"
  BY MemberPending
<1>11. TypeOK'
  <2>1. errors' \subseteq Requests /\ cancelled' \subseteq Requests \cup Executions
    BY <1>2, <1>4, <1>5, Parts DEF TypeOK
  <2> QED BY <1>1, <1>2, <1>5, <1>8, <1>9, <2>1, Parts DEF TypeOK, QTypeOK
<1>12. ChannelInOrder'
  BY <1>1, Parts DEF ChannelInOrder
<1>13. RequestsInOrder'
  <2> SUFFICES ASSUME NEW r \in Requests
               PROVE  /\ verdict[r] = "none" <=> api[r] \in {"new", "waiting"}
                      /\ InChannel(r) => api[r] = "waiting"
                      /\ (api[r] = "new" \/ InChannel(r)) =>
                           pending'[r] = {} /\ responses'[r] = << >> /\ r \notin errors'
                      /\ pending'[r] # {} => api[r] = "waiting" /\ responses'[r] = << >>
                      /\ responses'[r] # << >> =>
                           api[r] = "waiting" /\ Len(responses'[r]) = 1
    BY <1>1 DEF RequestsInOrder, InChannel
  <2>1. CASE r \in Members(e)
    BY <1>7, <1>10, <2>1, Parts DEF RequestsInOrder
  <2>2. CASE r \notin Members(e)
    BY <1>6, <2>2, Parts DEF RequestsInOrder
  <2> QED BY <2>1, <2>2
<1>14. PendingExact'
  <2>1. wfs[e] \cap queued = {}
    BY DispatchedHolds
  <2> QED BY <1>1, <1>5, <2>1, Parts DEF PendingExact
<1>15. QueueAccounted'
  <2>1. \A d \in Dispatched \ {e} : wfs[d] \cap wfs[e] = {}
    BY DispatchedHolds
  <2> QED BY <1>1, <1>3, <2>1, Parts DEF QueueAccounted
<1>16. BatchesInOrder'
  <2>1. \A d \in Executions \ {e} : d \in cancelled' <=> d \in cancelled
    OBVIOUS
  <2>2. \A r \in Requests : r \in cancelled => r \in cancelled'
    OBVIOUS
  <2>3. active[e] \subseteq wfs[e] /\ \A w \in wfs[e] \ active[e] : RequestOf[w] \in cancelled'
    BY DispatchedHolds
  <2> SUFFICES ASSUME NEW d \in Executions
               PROVE  /\ task'[d] = "unused" => wfs[d] = {}
                      /\ task'[d] \in {"unused", "spawned"} =>
                           active[d] = {} /\ d \notin cancelled'
                      /\ active[d] \subseteq wfs[d]
                      /\ task'[d] \notin {"unused", "spawned"} =>
                           \A w \in wfs[d] \ active[d] : RequestOf[w] \in cancelled'
                      /\ task'[d] \in {"polling", "collecting"} => Kept(d)'
                      /\ task'[d] = "collecting" => fm'[d] = "done"
    BY <1>1 DEF BatchesInOrder
  <2>4. CASE d = e
    BY <1>2, <2>3, <2>4
  <2>5. CASE d # e
    BY <1>2, <1>4, <2>1, <2>2, <2>5, Parts DEF BatchesInOrder
  <2> QED BY <2>4, <2>5
<1>17. HistoryExact'
  BY <1>2, <1>4, <1>6, <1>7, Parts DEF HistoryExact
<1>18. OutcomesRecorded'
  <2> SUFFICES ASSUME NEW r \in Requests PROVE Outcome(r)'
    BY DEF OutcomesRecorded
  <2>1. history[r] \subseteq Executions /\ InChannel(r)' = InChannel(r)
    BY <1>1, Parts DEF TypeOK, InChannel
  <2>2. CASE r \notin Members(e)
    <3>1. e \notin history[r]
      BY <1>2, <2>2, Parts DEF HistoryExact
    <3> QED BY <1>1, <1>2, <1>4, <1>6, <2>1, <2>2, <3>1, Parts, OutcomeStays
            DEF OutcomesRecorded
  <2>3. CASE r \in Members(e)
    <3>1. ASSUME NEW d \in history'[r], task'[d] = "done", r \notin errors'
          PROVE  fm'[d] = "done" /\ Kept(d)'
      <4>1. CASE d = e
        BY <1>2, <1>4, <1>5, <2>3, <3>1, <4>1
      <4>2. CASE d # e
        <5>1. d \in history[r] /\ d \in Executions \ {e} /\ task[d] = "done" /\ r \notin errors
          BY <1>2, <1>5, <1>7, <2>1, <2>3, <3>1, <4>2
        <5> QED BY <1>4, <5>1, Parts DEF OutcomesRecorded, Outcome
      <4> QED BY <4>1, <4>2
    <3>2. ASSUME r \notin errors' PROVE WorkflowsOf(r) = succeeded'[r] \cup pending'[r]
      <4>1. WorkflowsOf(r) = succeeded[r] \cup pending[r]
        BY <1>5, <1>10, <2>3, <3>2, Parts DEF OutcomesRecorded, Outcome
      <4>2. \A w \in pending[r] : RequestOf[w] = r
        BY Parts DEF PendingExact
      <4> QED BY <1>5, <1>7, <2>3, <3>2, <4>1, <4>2
    <3>3. (responses'[r] # << >> /\ Head(responses'[r]) = "ok") => r \notin errors'
      BY <1>7, <2>3
    <3>4. verdict'[r] = "none" /\ succeeded'[r] \subseteq WorkflowsOf(r)
      BY <1>1, <1>7, <1>10, <2>3
    <3> QED BY <3>1, <3>2, <3>3, <3>4 DEF Outcome, WorkflowsOf
  <2> QED BY <2>2, <2>3
<1>19. WorkersAccountedFor'
  <2>1. \A d \in Dispatched \ {e} : group[d] \cap group[e] = {}
    BY Parts DEF WorkersAccountedFor
  <2> QED BY <1>1, <1>3, <2>1, Parts DEF WorkersAccountedFor
<1>20. CancelNeedsAllMembers'
  BY <1>2, <1>4, Parts DEF CancelNeedsAllMembers
<1>21. CancelReachesExecution'
  <2>1. \A d \in Live : Members(d)' = Members(d) /\ d \in Executions
    BY <1>4 DEF Live
  <2>2. ExecutionsTracked'
    BY <1>3, <1>9, <2>1, Parts DEF CancelReachesExecution, ExecutionsTracked
  <2>3. \A d \in Live \ {e} :
          Members(d) \subseteq cancelled' \ cancelling => d \in cancelled'
    <3> SUFFICES ASSUME NEW d \in Live \ {e}, Members(d) \subseteq cancelled' \ cancelling
                 PROVE  d \in cancelled'
      OBVIOUS
    <3>1. Members(d) \subseteq cancelled \ cancelling
      BY <1>2, <1>4, <2>1, Apart
    <3> QED BY <3>1, Parts DEF CancelReachesExecution
  <2> QED BY <1>1, <1>3, <2>1, <2>2, <2>3 DEF CancelReachesExecution
<1>22. NodesConserved'
  <2> SUFFICES ASSUME NEW r \in Requests
               PROVE  nodes'[r].pending >=
                        NodeSum({w \in pending'[r] : \A d \in Live \ {e} : w \notin wfs[d]})
    BY <1>1, <1>3, <1>8 DEF NodesConserved
  <2> DEFINE Q == {w \in pending[r] : \A d \in Live : w \notin wfs[d]}
             Z == {w \in pending'[r] : \A d \in Live \ {e} : w \notin wfs[d]}
  <2>1. nodes[r].pending >= NodeSum(Q)
    BY Parts DEF NodesConserved
  <2>2. Z \subseteq Q
    BY <1>5
  <2>3. Q \subseteq WorkflowsOf(r)
    BY Parts DEF WorkflowsOf, PendingExact, TypeOK
  <2>4. nodes'[r].pending = nodes[r].pending /\ nodes[r].pending \in Nat
    BY <1>8, Parts DEF TypeOK
  <2> HIDE DEF Q, Z
  <2>5. NodeSum(Q) = NodeSum(Z) + NodeSum(Q \ Z) /\ NodeSum(Z) \in Nat /\ NodeSum(Q \ Z) \in Nat
    BY <2>2, <2>3, NodeSumParts
  <2>6. nodes'[r].pending >= NodeSum(Z)
    BY <2>1, <2>4, <2>5
  <2> QED BY <2>6 DEF Z
<1>23. TracesOwn'
  <2> SUFFICES ASSUME NEW r \in Requests, verdict'[r] = "completed"
               PROVE  /\ traces'[r] \subseteq history'[r]
                      /\ \A d \in history'[r] \ traces'[r] :
                           \E q \in Members(d)' \ {r} : api'[q] = "released"
    BY DEF TracesOwn
  <2>1. r \notin Members(e)
    BY <1>1, <1>10
  <2> QED BY <1>1, <1>6, <2>1, Parts, TracesStay
<1> QED BY <1>11, <1>12, <1>13, <1>14, <1>15, <1>16, <1>17, <1>18, <1>19, <1>20, <1>21,
           <1>22, <1>23 DEF IInv

(* A batch that has started is filed with its members.                     *)
LEMMA LiveBatch ==
  ASSUME IInv, NEW e \in Live
  PROVE  /\ e \in Dispatched /\ e \in Executions
         /\ \A w \in wfs[e] \ active[e] : RequestOf[w] \in cancelled
         /\ \A r \in Requests :
              history[r] = IF r \in Members(e) THEN history[r] \cup {e} ELSE history[r]
<1>1. e \in Executions /\ task[e] \notin {"unused", "spawned", "done"}
  BY DEF Live
<1>2. \A r \in Members(e) : r \in Requests => e \in history[r]
  BY <1>1, Parts DEF HistoryExact
<1> QED BY <1>1, <1>2, Parts DEF Dispatched, BatchesInOrder

(* A batch fails: by an exception, a timeout, or because it was cancelled. *)
LEMMA AbortStep ==
  ASSUME IInv, NEW e \in Live, AbortBatch(e), cancelSent' = cancelSent,
         fm' \in [Executions -> {"none", "running", "done", "failed", "cancelled"}],
         \A d \in Executions \ {e} : fm'[d] = fm[d],
         \/ cancelled' = cancelled
         \/ cancelled' = cancelled \cup {e} /\ Members(e) \subseteq cancelled
  PROVE  IInv'
<1>1. /\ FinishBatch(e, {}, TRUE) /\ active' = active /\ history' = history
      /\ batchStatus' = [batchStatus EXCEPT ![e] = "FAILED"]
  BY DEF AbortBatch
<1>2. /\ history' \in [Requests -> SUBSET Executions]
      /\ batchStatus' \in [Executions -> {"none", "RUNNING", "COMPLETED", "FAILED"}]
  BY <1>1, Parts DEF TypeOK
<1>3. /\ e \in Dispatched /\ \A w \in wfs[e] \ active[e] : RequestOf[w] \in cancelled
      /\ \A r \in Requests :
           history'[r] = IF r \in Members(e) THEN history[r] \cup {e} ELSE history[r]
  BY <1>1, LiveBatch
<1>4. Members(e) \ Blamed(e, {}, TRUE) = {}
  BY DEF Members, Blamed
<1> QED BY <1>1, <1>2, <1>3, <1>4, FinishStep

(* The checkpoints of a batch cancel it only when every member is marked:  *)
(* those left out at its start were marked then.                           *)
LEMMA CancelBatchStep ==
  ASSUME IInv, NEW e \in Live, CancelBatch(e), ShouldCancel(e, ActiveMembers(e))
  PROVE  IInv'
<1>1. /\ AbortBatch(e) /\ cancelled' = cancelled \cup {e} /\ cancelSent' = cancelSent
      /\ fm' = fm
  BY DEF CancelBatch
<1>2. Members(e) \subseteq cancelled
  <2>1. e \in Executions /\ \A w \in wfs[e] \ active[e] : RequestOf[w] \in cancelled
    BY LiveBatch
  <2>2. CASE e \in cancelled
    BY <2>1, <2>2, Parts DEF CancelNeedsAllMembers
  <2>3. CASE ActiveMembers(e) \subseteq cancelled
    BY <2>1, <2>3 DEF Members, ActiveMembers
  <2> QED BY <2>2, <2>3 DEF ShouldCancel
<1>3. fm' \in [Executions -> {"none", "running", "done", "failed", "cancelled"}]
  BY <1>1, Parts DEF TypeOK
<1> QED BY <1>1, <1>2, <1>3, AbortStep

(* The checkpoint passes, or the batch is cancelled.                       *)
LEMMA CheckpointStep ==
  ASSUME IInv, NEW e \in Live, PlanBatch(e) \/ ScheduleBatch(e) \/ SendBatch(e)
  PROVE  IInv'
<1>1. CASE CancelBatch(e) /\ ShouldCancel(e, ActiveMembers(e))
  BY <1>1, CancelBatchStep
<1>2. ASSUME NEW next \in {"planned", "building", "submitting"},
             AdvanceBatch(e, next), registered' = registered, fm' = fm,
             \/ batchStatus' = [batchStatus EXCEPT ![e] = "RUNNING"]
             \/ batchStatus' = batchStatus
      PROVE  IInv'
  <2>1. /\ batchStatus' \in [Executions -> {"none", "RUNNING", "COMPLETED", "FAILED"}]
        /\ fm' \in [Executions -> {"none", "running", "done", "failed", "cancelled"}]
        /\ registered' \subseteq Executions
    BY <1>2, Parts DEF TypeOK
  <2>2. next \in TaskStates \ {"unused", "spawned", "done"}
    BY DEF TaskStates
  <2> QED BY <1>2, <2>1, <2>2, AdvanceStep
<1>3. CASE PlanBatch(e)
  BY <1>1, <1>2, <1>3 DEF PlanBatch
<1>4. CASE ScheduleBatch(e)
  BY <1>1, <1>2, <1>4 DEF ScheduleBatch
<1>5. CASE SendBatch(e)
  BY <1>1, <1>2, <1>5 DEF SendBatch, ShouldCancel
<1> QED BY <1>3, <1>4, <1>5

(* The workflow is accepted, registered and polled to its end.             *)
LEMMA RunStep ==
  ASSUME IInv, NEW e \in Live, AcceptBatch(e) \/ RegisterBatch(e) \/ PollBatch(e)
  PROVE  IInv'
<1>1. /\ e \in Executions
      /\ batchStatus \in [Executions -> {"none", "RUNNING", "COMPLETED", "FAILED"}]
      /\ fm \in [Executions -> {"none", "running", "done", "failed", "cancelled"}]
      /\ registered \subseteq Executions
  BY Parts, LiveBatch DEF TypeOK
<1>2. CASE AcceptBatch(e)
  <2>1. /\ AdvanceBatch(e, "resolving") /\ fm' = [fm EXCEPT ![e] = "running"]
        /\ UNCHANGED <<batchStatus, registered>>
    BY <1>2 DEF AcceptBatch
  <2>2. "resolving" \in TaskStates \ {"unused", "spawned", "done"}
    BY DEF TaskStates
  <2>3. /\ fm' \in [Executions -> {"none", "running", "done", "failed", "cancelled"}]
        /\ \A d \in Executions \ {e} : fm'[d] = fm[d]
    BY <1>1, <2>1
  <2> QED BY <1>1, <2>1, <2>2, <2>3, AdvanceStep
<1>3. CASE RegisterBatch(e)
  <2>1. /\ AdvanceBatch(e, "polling") /\ registered' = registered \cup {e}
        /\ UNCHANGED <<batchStatus, fm>>
    BY <1>3 DEF RegisterBatch
  <2>2. "polling" \in TaskStates \ {"unused", "spawned", "done"}
    BY DEF TaskStates
  <2>3. Kept(e)'
    BY <2>1 DEF Kept
  <2> QED BY <1>1, <2>1, <2>2, <2>3, AdvanceStep
<1>4. CASE PollBatch(e)
  <2>1. /\ AdvanceBatch(e, "collecting") /\ fm[e] = "done" /\ task[e] = "polling"
        /\ UNCHANGED <<batchStatus, registered, fm>>
    BY <1>4 DEF PollBatch
  <2>2. "collecting" \in TaskStates \ {"unused", "spawned", "done"}
    BY DEF TaskStates
  <2>3. Kept(e)'
    <3>1. Kept(e)
      BY <1>1, <2>1, Parts DEF BatchesInOrder
    <3>2. UNCHANGED <<wfs, api>>
      BY <2>1 DEF AdvanceBatch, requestVars
    <3> QED BY <1>1, <2>1, <3>1, <3>2, Parts, KeptStays
  <2> QED BY <1>1, <2>1, <2>2, <2>3, AdvanceStep
<1> QED BY <1>2, <1>3, <1>4

(* A batch ends in an error.                                               *)
LEMMA FailStep ==
  ASSUME IInv, NEW e \in Live, StopPolling(e) \/ BatchError(e) \/ SubmitError(e)
  PROVE  IInv'
<1>1. /\ e \in Executions
      /\ fm \in [Executions -> {"none", "running", "done", "failed", "cancelled"}]
  BY Parts, LiveBatch DEF TypeOK
<1>2. CASE StopPolling(e) \/ BatchError(e)
  <2>1. AbortBatch(e) /\ cancelled' = cancelled /\ fm' = fm /\ cancelSent' = cancelSent
    BY <1>2 DEF StopPolling, BatchError
  <2> QED BY <1>1, <2>1, AbortStep
<1>3. CASE SubmitError(e)
  <2>1. /\ AbortBatch(e) /\ cancelled' = cancelled /\ cancelSent' = cancelSent
        /\ \E s \in {"none", "running"} : fm' = [fm EXCEPT ![e] = s]
    BY <1>3 DEF SubmitError
  <2>2. /\ fm' \in [Executions -> {"none", "running", "done", "failed", "cancelled"}]
        /\ \A d \in Executions \ {e} : fm'[d] = fm[d]
    BY <1>1, <2>1
  <2> QED BY <2>1, <2>2, AbortStep
<1> QED BY <1>2, <1>3

(* A batch is complete: FlowMesh is done with it.                          *)
LEMMA CompleteBatchStep ==
  ASSUME IInv, NEW e \in Live, CompleteBatch(e)
  PROVE  IInv'
<1>1. /\ task[e] = "collecting" /\ active' = active /\ history' = history
      /\ cancelled' = cancelled /\ fm' = fm /\ cancelSent' = cancelSent
      /\ batchStatus' = [batchStatus EXCEPT ![e] = "COMPLETED"]
  BY DEF CompleteBatch
<1>2. PICK produced \in SUBSET active[e] : FinishBatch(e, produced, FALSE)
  BY DEF CompleteBatch
<1>3. /\ history' \in [Requests -> SUBSET Executions]
      /\ fm' \in [Executions -> {"none", "running", "done", "failed", "cancelled"}]
      /\ batchStatus' \in [Executions -> {"none", "RUNNING", "COMPLETED", "FAILED"}]
  BY <1>1, Parts DEF TypeOK
<1>4. /\ e \in Dispatched /\ \A w \in wfs[e] \ active[e] : RequestOf[w] \in cancelled
      /\ \A r \in Requests :
           history'[r] = IF r \in Members(e) THEN history[r] \cup {e} ELSE history[r]
  BY <1>1, LiveBatch
<1>5. fm'[e] = "done" /\ Kept(e)
  BY <1>1, Parts, LiveBatch DEF BatchesInOrder
<1> QED BY <1>1, <1>2, <1>3, <1>4, <1>5, FinishStep

(* A batch all members of which were cancelled before it could start.      *)
LEMMA StartCancelledStep ==
  ASSUME IInv, NEW e \in Executions, StartBatch(e),
         \A w \in wfs[e] : RequestOf[w] \in cancelled
  PROVE  IInv'
<1> DEFINE act == {w \in wfs[e] : RequestOf[w] \notin cancelled}
<1>1. act = {}
  OBVIOUS
<1>2. /\ task[e] = "spawned" /\ FinishBatch(e, {}, FALSE) /\ cancelled' = cancelled \cup {e}
      /\ batchStatus' = batchStatus /\ fm' = fm /\ cancelSent' = cancelSent
      /\ active' = [active EXCEPT ![e] = {}]
      /\ history' = [r \in Requests |->
                       IF r \in Members(e) THEN history[r] \cup {e} ELSE history[r]]
  BY <1>1 DEF StartBatch
<1>3. active' = active /\ e \in Dispatched
  BY <1>2, Parts DEF BatchesInOrder, TypeOK, Dispatched
<1>4. /\ history' \in [Requests -> SUBSET Executions]
      /\ \A r \in Requests :
           history'[r] = IF r \in Members(e) THEN history[r] \cup {e} ELSE history[r]
      /\ fm' \in [Executions -> {"none", "running", "done", "failed", "cancelled"}]
      /\ batchStatus' \in [Executions -> {"none", "RUNNING", "COMPLETED", "FAILED"}]
  BY <1>2, Parts DEF TypeOK
<1>5. Members(e) \subseteq cancelled
  BY DEF Members
<1>6. Members(e) \ Blamed(e, {}, FALSE) = {}
  BY DEF Members, Blamed, Delivered
<1> QED BY <1>2, <1>3, <1>4, <1>5, <1>6, FinishStep

(* A batch that starts moves the nodes of its active workflows from the    *)
(* pending to the processing counters of their requests.                   *)
LEMMA NodesStarted ==
  ASSUME IInv, NEW e \in Dispatched, e \notin Live, NEW act \in SUBSET wfs[e],
         NEW r \in Requests, NEW k, k = NodeSum({w \in act : RequestOf[w] = r})
  PROVE  /\ k \in Nat /\ nodes[r].pending - k \in Nat
         /\ nodes[r].processing + k =
              NodeSum({w \in Workflows : RequestOf[w] = r /\
                         (w \in act \/ \E d \in Live : w \in active[d])})
         /\ nodes[r].pending - k >=
              NodeSum({w \in pending[r] : w \notin wfs[e] /\ \A d \in Live : w \notin wfs[d]})
<1> DEFINE A == {w \in act : RequestOf[w] = r}
           P == {w \in Workflows : RequestOf[w] = r /\ \E d \in Live : w \in active[d]}
           U == {w \in Workflows : RequestOf[w] = r /\
                   (w \in act \/ \E d \in Live : w \in active[d])}
           Q == {w \in pending[r] : \A d \in Live : w \notin wfs[d]}
           Z == {w \in pending[r] : w \notin wfs[e] /\ \A d \in Live : w \notin wfs[d]}
<1>1. /\ wfs[e] \subseteq Workflows
      /\ \A d \in Live : wfs[d] \cap wfs[e] = {} /\ active[d] \subseteq wfs[d]
      /\ \A w \in wfs[e] : w \in pending[RequestOf[w]]
  <2>1. \A d \in Live : d \in Dispatched \ {e}
    BY DEF Live, Dispatched
  <2> QED BY <2>1, Parts, DispatchedHolds DEF TypeOK
<1>2. A \subseteq U /\ P = U \ A /\ U \subseteq WorkflowsOf(r)
  <2>1. \A w \in act : \A d \in Live : w \notin active[d]
    BY <1>1
  <2>2. U \subseteq WorkflowsOf(r)
    BY DEF WorkflowsOf
  <2> QED BY <1>1, <2>1, <2>2
<1>3. A \subseteq Q /\ Z \subseteq Q \ A /\ Q \subseteq WorkflowsOf(r)
  <2>1. Q \subseteq WorkflowsOf(r)
    BY Parts DEF WorkflowsOf, PendingExact, TypeOK
  <2> QED BY <1>1, <2>1
<1>4. nodes[r].processing = NodeSum(P) /\ nodes[r].pending >= NodeSum(Q)
  BY Parts DEF NodesConserved
<1>5. nodes[r].pending \in Nat /\ nodes[r].processing \in Nat
  BY Parts DEF TypeOK
<1>6. k = NodeSum(A)
  OBVIOUS
<1> HIDE DEF A, P, U, Q, Z
<1>7. /\ NodeSum(U) = NodeSum(A) + NodeSum(U \ A)
      /\ NodeSum(A) \in Nat /\ NodeSum(U \ A) \in Nat
  BY <1>2, NodeSumParts
<1>8. /\ NodeSum(Q) = NodeSum(A) + NodeSum(Q \ A) /\ NodeSum(Q \ A) \in Nat
      /\ NodeSum(Q) \in Nat
  BY <1>3, NodeSumParts
<1>9. /\ NodeSum(Q \ A) = NodeSum(Z) + NodeSum((Q \ A) \ Z)
      /\ NodeSum(Z) \in Nat /\ NodeSum((Q \ A) \ Z) \in Nat
  <2>1. Q \ A \in SUBSET WorkflowsOf(r) /\ Z \in SUBSET (Q \ A)
    BY <1>3
  <2> HIDE DEF NodeSum
  <2> QED BY <2>1, NodeSumParts
<1>10. /\ k \in Nat /\ nodes[r].pending - k \in Nat
       /\ nodes[r].processing + k = NodeSum(U) /\ nodes[r].pending - k >= NodeSum(Z)
  BY <1>2, <1>4, <1>5, <1>6, <1>7, <1>8, <1>9
<1> QED BY <1>10 DEF U, Z

(* A batch starts with the members that were not cancelled before.         *)
LEMMA StartBatchStep ==
  ASSUME IInv, NEW e \in Executions, StartBatch(e),
         NEW v \in wfs[e], RequestOf[v] \notin cancelled
  PROVE  IInv'
<1>1. PICK act \in SUBSET wfs[e] :
        /\ act = {w \in wfs[e] : RequestOf[w] \notin cancelled}
        /\ active' = [active EXCEPT ![e] = act]
        /\ nodes' = [r \in Requests |->
             [nodes[r] EXCEPT !.pending = @ - NodeSum({w \in act : RequestOf[w] = r}),
                              !.processing = @ + NodeSum({w \in act : RequestOf[w] = r})]]
  <2> DEFINE a == {w \in wfs[e] : RequestOf[w] \notin cancelled}
  <2>1. a # {} /\ a \in SUBSET wfs[e]
    OBVIOUS
  <2>2. /\ active' = [active EXCEPT ![e] = a]
        /\ nodes' = [r \in Requests |->
             [nodes[r] EXCEPT !.pending = @ - NodeSum({w \in a : RequestOf[w] = r}),
                              !.processing = @ + NodeSum({w \in a : RequestOf[w] = r})]]
    BY <2>1 DEF StartBatch
  <2> QED BY <2>1, <2>2
<1>2. /\ UNCHANGED <<queued, reserved, inflight, api, verdict, traces, channel, pending>>
      /\ UNCHANGED <<errors, succeeded, responses, sched, seen, up, busy, wfs, group>>
      /\ UNCHANGED <<batchStatus, cancelled, cancelling, registered, fm, cancelSent>>
      /\ task[e] = "spawned" /\ task' = [task EXCEPT ![e] = "planning"]
      /\ history' = [r \in Requests |->
                       IF r \in Members(e) THEN history[r] \cup {e} ELSE history[r]]
      /\ execs' = [r \in Requests |->
                     IF r \in Members(e) THEN execs[r] \cup {e} ELSE execs[r]]
  <2>1. {w \in wfs[e] : RequestOf[w] \notin cancelled} # {}
    OBVIOUS
  <2> QED BY <2>1 DEF StartBatch, qvars, workerVars, cancelVars, remoteVars
<1>3. /\ task'[e] = "planning" /\ \A d \in Executions \ {e} : task'[d] = task[d]
      /\ task' \in [Executions -> TaskStates]
      /\ active'[e] = act /\ \A d \in Executions \ {e} : active'[d] = active[d]
      /\ active' \in [Executions -> SUBSET Workflows]
  BY <1>1, <1>2, Parts DEF TypeOK, TaskStates
<1>4. /\ Dispatched' = Dispatched /\ e \in Dispatched
      /\ Live' = Live \cup {e} /\ e \notin Live
  BY <1>2, <1>3 DEF Dispatched, Live
<1>5. /\ \A r \in Requests :
           history'[r] = IF r \in Members(e) THEN history[r] \cup {e} ELSE history[r]
      /\ \A r \in Requests :
           execs'[r] = IF r \in Members(e) THEN execs[r] \cup {e} ELSE execs[r]
      /\ history' \in [Requests -> SUBSET Executions]
      /\ execs' \in [Requests -> SUBSET Executions]
  BY <1>2, Parts DEF TypeOK
<1>6. \A d \in Executions : (Kept(d) => Kept(d)') /\ Members(d)' = Members(d)
  BY <1>2, Parts, KeptStays, MembersSame
<1>7. /\ nodes' \in [Requests -> Counters]
      /\ \A r \in Requests :
           /\ nodes'[r].processing =
                NodeSum({w \in Workflows : RequestOf[w] = r /\
                           (w \in act \/ \E d \in Live : w \in active[d])})
           /\ nodes'[r].pending >=
                NodeSum({w \in pending[r] : w \notin wfs[e] /\
                           \A d \in Live : w \notin wfs[d]})
  <2> DEFINE count(r) == NodeSum({w \in act : RequestOf[w] = r})
             c(r) == [nodes[r] EXCEPT !.pending = @ - count(r), !.processing = @ + count(r)]
  <2>1. nodes' = [r \in Requests |-> c(r)]
    BY <1>1
  <2>2. ASSUME NEW r \in Requests
        PROVE  /\ count(r) \in Nat /\ nodes[r].pending - count(r) \in Nat
               /\ nodes[r].processing + count(r) =
                    NodeSum({w \in Workflows : RequestOf[w] = r /\
                               (w \in act \/ \E d \in Live : w \in active[d])})
               /\ nodes[r].pending - count(r) >=
                    NodeSum({w \in pending[r] : w \notin wfs[e] /\
                               \A d \in Live : w \notin wfs[d]})
    BY <1>4, NodesStarted
  <2> HIDE DEF count
  <2>3. ASSUME NEW r \in Requests
        PROVE  /\ c(r) \in Counters
               /\ c(r).pending = nodes[r].pending - count(r)
               /\ c(r).processing = nodes[r].processing + count(r)
    <3>1. nodes[r] \in Counters
      BY Parts DEF TypeOK, Counters
    <3>2. c(r) = [nodes[r] EXCEPT !.pending = @ - count(r), !.processing = @ + count(r)]
      OBVIOUS
    <3> QED BY <2>2, <3>1, <3>2, CountersStart
  <2> HIDE DEF c
  <2> QED BY <2>1, <2>2, <2>3
<1>8. TypeOK'
  BY <1>2, <1>3, <1>5, <1>7, Parts DEF TypeOK, QTypeOK, Counters
<1>9. ChannelInOrder' /\ RequestsInOrder' /\ PendingExact'
  BY <1>2, Parts DEF ChannelInOrder, RequestsInOrder, InChannel, PendingExact
<1>10. QueueAccounted' /\ WorkersAccountedFor'
  BY <1>2, <1>4, Parts DEF QueueAccounted, WorkersAccountedFor
<1>11. BatchesInOrder'
  BY <1>1, <1>2, <1>3, <1>6, Parts, ZenonT(30) DEF BatchesInOrder
<1>12. HistoryExact'
  BY <1>2, <1>3, <1>5, <1>6, Parts DEF HistoryExact
<1>13. OutcomesRecorded'
  <2> SUFFICES ASSUME NEW r \in Requests PROVE Outcome(r)'
    BY DEF OutcomesRecorded
  <2>1. Outcome(r) /\ history[r] \subseteq Executions /\ InChannel(r)' = InChannel(r)
    BY <1>2, Parts DEF TypeOK, InChannel, OutcomesRecorded
  <2>2. ASSUME NEW d \in history'[r], task'[d] = "done", r \notin errors'
        PROVE  fm'[d] = "done" /\ Kept(d)'
    <3>1. d \in history[r] /\ d \in Executions /\ task[d] = "done"
      BY <1>3, <1>5, <2>1, <2>2
    <3> QED BY <1>2, <1>6, <2>1, <2>2, <3>1 DEF Outcome
  <2> QED BY <1>2, <2>1, <2>2 DEF Outcome, WorkflowsOf
<1>14. CancelNeedsAllMembers'
  BY <1>2, <1>6, Parts DEF CancelNeedsAllMembers
<1>15. CancelReachesExecution'
  <2>1. \A d \in Live' : Members(d)' = Members(d)
    BY <1>4, <1>6 DEF Live
  <2>2. ExecutionsTracked'
    <3> SUFFICES ASSUME NEW r \in Requests
                 PROVE  execs'[r] = {d \in Live' : r \in Members(d)}
      BY <2>1 DEF ExecutionsTracked
    <3>1. execs[r] = {d \in Live : r \in Members(d)}
      BY Parts DEF CancelReachesExecution, ExecutionsTracked
    <3> QED BY <1>4, <1>5, <3>1
  <2>3. ~ (Members(e) \subseteq cancelled)
    BY DEF Members
  <2> QED BY <1>2, <1>4, <2>1, <2>2, <2>3, Parts DEF CancelReachesExecution
<1>16. NodesConserved'
  <2> SUFFICES ASSUME NEW r \in Requests
               PROVE  /\ nodes'[r].processing =
                           NodeSum({w \in Workflows : RequestOf[w] = r /\
                                      \E d \in Live' : w \in active'[d]})
                      /\ nodes'[r].pending >=
                           NodeSum({w \in pending[r] : \A d \in Live' : w \notin wfs[d]})
    BY <1>2 DEF NodesConserved
  <2>1. \A d \in Live : active'[d] = active[d]
    BY <1>3, <1>4 DEF Live
  <2>2. {w \in Workflows : RequestOf[w] = r /\ \E d \in Live' : w \in active'[d]}
          = {w \in Workflows : RequestOf[w] = r /\
               (w \in act \/ \E d \in Live : w \in active[d])}
    BY <1>3, <1>4, <2>1
  <2>3. {w \in pending[r] : \A d \in Live' : w \notin wfs[d]}
          = {w \in pending[r] : w \notin wfs[e] /\ \A d \in Live : w \notin wfs[d]}
    BY <1>4
  <2> QED BY <1>7, <2>2, <2>3
<1>17. TracesOwn'
  <2> SUFFICES ASSUME NEW r \in Requests, verdict'[r] = "completed"
               PROVE  /\ traces'[r] \subseteq history'[r]
                      /\ \A d \in history'[r] \ traces'[r] :
                           \E q \in Members(d)' \ {r} : api'[q] = "released"
    BY DEF TracesOwn
  <2>1. r \notin Members(e)
    BY <1>2, <1>4, MemberPending
  <2> QED BY <1>2, <1>5, <2>1, Parts, TracesStay
<1> QED BY <1>2, <1>8, <1>9, <1>10, <1>11, <1>12, <1>13, <1>14, <1>15, <1>16, <1>17
        DEF IInv

-----------------------------------------------------------------------------
(* Every step keeps the invariant.                                         *)
LEMMA SchedulerKeeps ==
  ASSUME IInv, SchedulerStep
  PROVE  IInv'
<1>1. CASE TakeWorkers
  BY <1>1, TakeWorkersStep
<1>2. CASE ReserveBatch \/ ListWorkers \/ RetryWorkers \/ AbandonReservation
  <2>1. /\ UNCHANGED <<queued, inflight, requestVars, busy, batchVars, cancelVars>>
        /\ UNCHANGED <<remoteVars, up>>
        /\ sched' \in {"idle", "acquiring", "checking"}
    BY <1>2 DEF ReserveBatch, ListWorkers, RetryWorkers, AbandonReservation, Reserve, Abort,
       qvars
  <2>2. reserved' \subseteq queued
    BY <1>2, Parts DEF ReserveBatch, ListWorkers, RetryWorkers, AbandonReservation, Reserve,
       Abort, qvars, QueueAccounted
  <2>3. seen' \subseteq Workers /\ up' \subseteq Workers
    BY <1>2, Parts DEF ReserveBatch, ListWorkers, RetryWorkers, AbandonReservation, TypeOK
  <2> QED BY <2>1, <2>2, <2>3, LookingStep
<1> QED BY <1>1, <1>2 DEF SchedulerStep

(* Every step of a batch task keeps the invariant.                         *)
LEMMA BatchKeeps ==
  ASSUME IInv, NEW e \in Executions, BatchStep(e)
  PROVE  IInv'
<1>1. CASE StartBatch(e)
  BY <1>1, StartCancelledStep, StartBatchStep
<1>2. CASE ~ StartBatch(e)
  <2>1. e \in Live
    BY <1>2 DEF BatchStep, Live, PlanBatch, ScheduleBatch, SendBatch, AcceptBatch,
       RegisterBatch, StopPolling, PollBatch, CompleteBatch, BatchError, SubmitError
  <2> QED BY <1>2, <2>1, CheckpointStep, RunStep, FailStep, CompleteBatchStep DEF BatchStep
<1> QED BY <1>1, <1>2

(* So does every step of FlowMesh.                                         *)
LEMMA FlowmeshKeeps ==
  ASSUME IInv, NEW e \in Executions, FlowmeshStep(e)
  PROVE  IInv'
<1>1. UNCHANGED <<qvars, requestVars, workerVars, batchVars, cancelVars, registered>>
  BY DEF FlowmeshStep, FlowmeshFinish, FlowmeshCancel, CancelError
<1>2. /\ fm \in [Executions -> {"none", "running", "done", "failed", "cancelled"}]
      /\ cancelSent \subseteq Executions
  BY Parts DEF TypeOK
<1>3. cancelSent' \subseteq Executions
  BY <1>2 DEF FlowmeshStep, FlowmeshFinish, FlowmeshCancel, CancelError
<1>4. \/ fm' = fm
      \/ \E s \in {"done", "failed", "cancelled"} :
           fm[e] = "running" /\ fm' = [fm EXCEPT ![e] = s]
  <2>1. CASE FlowmeshFinish(e)
    BY <2>1 DEF FlowmeshFinish
  <2>2. CASE FlowmeshCancel(e)
    BY <1>2, <2>2 DEF FlowmeshCancel
  <2>3. CASE CancelError(e)
    BY <2>3 DEF CancelError
  <2> QED BY <2>1, <2>2, <2>3 DEF FlowmeshStep
<1>5. /\ fm' \in [Executions -> {"none", "running", "done", "failed", "cancelled"}]
      /\ \A d \in Executions : fm[d] = "done" => fm'[d] = "done"
  BY <1>2, <1>4
<1> QED BY <1>1, <1>3, <1>5, RemoteStep

(* A server that has just started satisfies the invariant.                 *)
LEMMA InitInv == Init => IInv
<1> SUFFICES ASSUME Init PROVE IInv
  OBVIOUS
<1>1. /\ \A r \in Requests : /\ api[r] = "new" /\ verdict[r] = "none" /\ pending[r] = {}
                             /\ responses[r] = << >> /\ succeeded[r] = {} /\ execs[r] = {}
                             /\ history[r] = {}
                             /\ nodes[r].pending = 0 /\ nodes[r].processing = 0
      /\ \A e \in Executions : /\ task[e] = "unused" /\ wfs[e] = {} /\ group[e] = {}
                               /\ active[e] = {}
      /\ queued = {} /\ reserved = {} /\ inflight = {} /\ errors = {} /\ busy = {}
      /\ cancelled = {} /\ channel = << >>
  BY DEF Init, QInit
<1>2. TypeOK
  BY DEF Init, QInit, TypeOK, QTypeOK, TaskStates
<1>3. Dispatched = {} /\ Live = {}
  BY <1>1 DEF Dispatched, Live
<1>4. \A r \in Requests : ~ InChannel(r)
  BY <1>1 DEF InChannel
<1>5. ChannelInOrder /\ RequestsInOrder /\ PendingExact /\ QueueAccounted
  BY <1>1, <1>3, <1>4 DEF ChannelInOrder, RequestsInOrder, PendingExact, QueueAccounted
<1>6. BatchesInOrder /\ HistoryExact /\ OutcomesRecorded
  BY <1>1 DEF BatchesInOrder, HistoryExact, OutcomesRecorded, Outcome
<1>7. WorkersAccountedFor /\ CancelNeedsAllMembers /\ CancelReachesExecution
  BY <1>1, <1>3 DEF WorkersAccountedFor, CancelNeedsAllMembers, CancelReachesExecution,
     ExecutionsTracked
<1>8. NodesConserved
  <2> SUFFICES ASSUME NEW r \in Requests
               PROVE  /\ nodes[r].processing =
                           NodeSum({w \in Workflows : RequestOf[w] = r /\
                                      \E e \in Live : w \in active[e]})
                      /\ nodes[r].pending >=
                           NodeSum({w \in pending[r] : \A e \in Live : w \notin wfs[e]})
    BY DEF NodesConserved
  <2> DEFINE P == {w \in Workflows : RequestOf[w] = r /\ \E e \in Live : w \in active[e]}
             Q == {w \in pending[r] : \A e \in Live : w \notin wfs[e]}
  <2>1. P = {} /\ Q = {}
    BY <1>1, <1>3
  <2> HIDE DEF P, Q
  <2>2. nodes[r].processing = NodeSum(P) /\ nodes[r].pending >= NodeSum(Q)
    BY <1>1, <2>1, NoNodes
  <2> QED BY <2>2 DEF P, Q
<1>9. TracesOwn
  BY <1>1 DEF TracesOwn
<1> QED BY <1>2, <1>5, <1>6, <1>7, <1>8, <1>9 DEF IInv

(* Every step of the API thread, the runtime thread and FlowMesh keeps it. *)
LEMMA StepInv == IInv /\ [Next]_vars => IInv'
<1> SUFFICES ASSUME IInv, [Next]_vars PROVE IInv'
  OBVIOUS
<1>1. CASE \E r \in Requests : ApiStep(r)
  BY <1>1, SubmitCancelledStep, SubmitRequestStep, CollectResultStep, ReleaseRequestStep,
     CancelRequestStep, CancelExecutionsStep DEF ApiStep
<1>2. CASE HandleRequest
  BY <1>2, HandleEmptyStep, HandleRequestStep
<1>3. CASE SchedulerStep
  BY <1>3, SchedulerKeeps
<1>4. CASE \E e \in Executions : BatchStep(e) \/ FlowmeshStep(e)
  BY <1>4, BatchKeeps, FlowmeshKeeps
<1>5. CASE \E k \in Flaky : WorkerChange(k)
  <2>1. PICK k \in Flaky : WorkerChange(k)
    BY <1>5
  <2>2. /\ UNCHANGED <<queued, reserved, inflight, requestVars, sched, seen, busy>>
        /\ UNCHANGED <<batchVars, cancelVars, remoteVars>>
    BY <2>1 DEF WorkerChange, qvars
  <2>3. /\ up' \subseteq Workers /\ seen' \subseteq Workers
        /\ sched' \in {"idle", "acquiring", "checking"} /\ reserved' \subseteq queued
    BY <2>1, <2>2, Parts, ServerAssumption DEF WorkerChange, TypeOK, QueueAccounted
  <2> QED BY <2>2, <2>3, LookingStep
<1>6. CASE UNCHANGED vars
  <2>1. /\ UNCHANGED <<queued, reserved, inflight, requestVars, sched, seen, up, busy>>
        /\ UNCHANGED <<batchVars, cancelVars, remoteVars>>
    BY <1>6 DEF vars, qvars, workerVars
  <2>2. /\ up' \subseteq Workers /\ seen' \subseteq Workers
        /\ sched' \in {"idle", "acquiring", "checking"} /\ reserved' \subseteq queued
    BY <2>1, Parts DEF TypeOK, QueueAccounted
  <2> QED BY <2>1, <2>2, LookingStep
<1> QED BY <1>1, <1>2, <1>3, <1>4, <1>5, <1>6 DEF Next

(* The inductive invariant of LumilakeServer: it holds in every reachable  *)
(* state.                                                                  *)
THEOREM Invariance == Spec => []IInv
BY InitInv, StepInv, PTL DEF Spec

-----------------------------------------------------------------------------
(* The state of the server keeps its types; no node counter goes below     *)
(* zero, so the underflow checks of _run_batch_inner never raise.          *)
THEOREM TypeCorrect == Spec => []TypeOK
<1>1. IInv => TypeOK
  BY DEF IInv
<1> QED BY <1>1, Invariance, PTL

(* Workers are taken and freed exactly, on every path a batch can end on.  *)
THEOREM NoWorkerLost == Spec => []WorkersAccountedFor
<1>1. IInv => WorkersAccountedFor
  BY DEF IInv
<1> QED BY <1>1, Invariance, PTL

(* A request gets one answer, when the last of its workflows is back.      *)
THEOREM OneAnswer == Spec => []AnsweredOnce
<1>1. IInv => AnsweredOnce
  <2> SUFFICES ASSUME IInv PROVE AnsweredOnce
    OBVIOUS
  <2> DEFINE answers(r) == Len(responses[r])
                           + (IF verdict[r] \in {"completed", "failed"} THEN 1 ELSE 0)
             held(r) == {w \in queued : RequestOf[w] = r}
                          \cup {w \in Workflows : RequestOf[w] = r /\
                                  \E e \in Dispatched : w \in wfs[e]}
  <2>1. ASSUME NEW r \in Requests PROVE pending[r] = held(r)
    <3>1. inflight = {w \in Workflows : \E e \in Dispatched : w \in wfs[e]}
      BY Parts DEF QueueAccounted, TypeOK, Dispatched
    <3> QED BY <3>1, Parts DEF PendingExact
  <2>2. ASSUME NEW r \in Requests
        PROVE  answers(r) <= 1 /\ (answers(r) = 1 => pending[r] = {})
    <3>1. CASE responses[r] = << >>
      <4>1. Len(responses[r]) = 0 /\ (verdict[r] # "none" => pending[r] = {})
        BY <3>1, Parts DEF RequestsInOrder
      <4> QED BY <4>1
    <3>2. CASE responses[r] # << >>
      <4>1. Len(responses[r]) = 1 /\ verdict[r] = "none" /\ pending[r] = {}
        BY <3>2, Parts DEF RequestsInOrder
      <4> QED BY <4>1
    <3> QED BY <3>1, <3>2
  <2> HIDE DEF answers, held
  <2>3. \A r \in Requests : /\ answers(r) <= 1 /\ pending[r] = held(r)
                            /\ answers(r) = 1 => held(r) = {}
    BY <2>1, <2>2
  <2> QED BY <2>3 DEF AnsweredOnce, answers, held
<1> QED BY <1>1, Invariance, PTL

(* An execution is cancelled only when nobody wants it any more.           *)
THEOREM NobodyElseCancelled == Spec => []CancelNeedsAllMembers
<1>1. IInv => CancelNeedsAllMembers
  BY DEF IInv
<1> QED BY <1>1, Invariance, PTL

(* And it is cancelled then, however the calls interleave with its start.  *)
THEOREM CancelNotMissed == Spec => []CancelReachesExecution
<1>1. IInv => CancelReachesExecution
  BY DEF IInv
<1> QED BY <1>1, Invariance, PTL

(* A reported success has all outputs, and every execution behind it was   *)
(* finished by FlowMesh.                                                   *)
THEOREM NoFalseSuccess == Spec => []SuccessIsComplete
<1>1. IInv => SuccessIsComplete
  <2> SUFFICES ASSUME IInv, NEW r \in Requests, verdict[r] = "completed"
               PROVE  /\ succeeded[r] = WorkflowsOf(r)
                      /\ \A e \in history[r] : fm[e] = "done"
    BY DEF SuccessIsComplete
  <2>1. /\ api[r] \notin {"new", "waiting"} /\ pending[r] = {} /\ ~ InChannel(r)
    BY Parts DEF RequestsInOrder
  <2>2. r \notin errors /\ succeeded[r] = WorkflowsOf(r)
    BY <2>1, Parts DEF OutcomesRecorded, Outcome
  <2>3. ASSUME NEW e \in history[r] PROVE fm[e] = "done"
    <3>1. e \in Executions /\ task[e] \notin {"unused", "spawned"} /\ r \in Members(e)
      BY Parts DEF TypeOK, HistoryExact
    <3>2. e \notin Dispatched
      BY <2>1, <3>1, MemberPending
    <3>3. task[e] = "done"
      BY <3>1, <3>2 DEF Dispatched
    <3> QED BY <2>2, <3>3, Parts DEF OutcomesRecorded, Outcome
  <2> QED BY <2>2, <2>3
<1> QED BY <1>1, Invariance, PTL

(* The counters behind the progress report neither lose nor double nodes.  *)
THEOREM NoNodeLost == Spec => []NodesConserved
<1>1. IInv => NodesConserved
  BY DEF IInv
<1> QED BY <1>1, Invariance, PTL

(* The workflows a completed request lists are its own, and none is left   *)
(* out but those a member that was released took along.                    *)
THEOREM TracesExplained == Spec => []TracesOwn
<1>1. IInv => TracesOwn
  BY DEF IInv
<1> QED BY <1>1, Invariance, PTL
=============================================================================
