---------------------------- MODULE JobLifecycle ----------------------------
(***************************************************************************)
(* The persisted life of a job: submit_job, _run_job, cancel_job,          *)
(* get_job_progress, shutdown and startup recovery (routes/jobs.py,        *)
(* main.py) over PersistentJobStorage (utils/job_storage.py).              *)
(*                                                                         *)
(* The record of a job lives in memory and is saved by worker threads      *)
(* (asyncio.to_thread), each of which reads the record, then writes the    *)
(* record blob, the result blob and the index, one HTTP call each.  Saves  *)
(* of one job overlap.  The process may crash at any step.                 *)
(***************************************************************************)
EXTENDS Integers, FiniteSets

CONSTANTS Jobs,          \* job ids
          Recover,       \* LUMILAKE_RECOVER_IN_FLIGHT_JOBS
          Faults,        \* whether a call to the archive or a hook may fail
          MaxPolls,      \* bound: progress requests
          MaxBoots,      \* bound: restarts of the process
          MayLoad,       \* bound: the loads that may be made, as job and loader
          None           \* nothing stored, nothing in memory

Active   == {"pending", "running"}
Terminal == {"completed", "failed", "cancelled"}
Statuses == Active \cup Terminal

(* Who saves a record: _run_job before its finally (and submit_job before  *)
(* it), its finally, cancel_job, get_job_progress, and the process itself  *)
(* on its way down or up.                                                  *)
Savers == {"run", "final", "cancel", "progress", "boot"}

(* Who loads a record from the archive: cancel_job, and the handlers that  *)
(* only read it.                                                           *)
Loaders == {"cancel", "read"}

(* A record, as far as the properties tell records apart.                  *)
Records == [status : Statuses, result : BOOLEAN]

ASSUME LifecycleAssumption ==
  /\ Recover \in BOOLEAN /\ Faults \in BOOLEAN
  /\ MaxPolls \in Nat /\ MaxBoots \in Nat /\ MayLoad \subseteq Jobs \X Loaders
  /\ None \notin Statuses /\ None \notin Records /\ None \notin Jobs \X Savers

VARIABLES
  mem,         \* jobs: the record in memory, as status and presence of a result
  load,        \* the loads under way, per job and loader
  own,         \* the record that cancel_job holds once jobs holds another one
  pc,          \* where the submission or the task of the job stands
  thread,      \* the saves under way, per job and saver
  record,      \* record.json: the status it holds
  resultBlob,  \* whether result.json exists
  index,       \* jobs_index.json: the status of each job
  indexLock,   \* the save that holds _index_lock
  acked,       \* jobs whose submission was answered
  cancelAcked, \* jobs whose cancellation was answered
  srvCancelled,\* jobs that server.cancel_request was called for
  polls,       \* progress requests so far
  phase,       \* what the process is doing
  todo,        \* jobs the shutdown or the recovery still has to save
  boots        \* restarts so far

storageVars == <<record, resultBlob, index>>
loadVars    == <<load, own>>
clientVars  == <<acked, cancelAcked, polls, loadVars>>
processVars == <<phase, todo, boots>>
vars == <<mem, pc, thread, storageVars, indexLock, clientVars, srvCancelled,
          processVars>>

Idle == [at |-> "off", status |-> None, result |-> FALSE, index |-> None]
NoLoad == [at |-> "off", status |-> None, result |-> FALSE]

Init ==
  /\ mem = [j \in Jobs |-> None]
  /\ load = [j \in Jobs |-> [h \in Loaders |-> NoLoad]]
  /\ own = [j \in Jobs |-> None]
  /\ pc = [j \in Jobs |-> "none"]
  /\ thread = [j \in Jobs |-> [s \in Savers |-> Idle]]
  /\ record = [j \in Jobs |-> None]
  /\ resultBlob = [j \in Jobs |-> FALSE]
  /\ index = [j \in Jobs |-> None]
  /\ indexLock = None
  /\ acked = {}
  /\ cancelAcked = {}
  /\ srvCancelled = {}
  /\ polls = 0
  /\ phase = "up"
  /\ todo = {}
  /\ boots = 0

-----------------------------------------------------------------------------
(* PersistentJobStorage.save, as a thread of its own.                      *)
At(j, s) == thread[j][s].at

Moved(j, s, at) == [thread EXCEPT ![j][s].at = at]

(* asyncio.to_thread(save, record): the thread has not read anything yet.  *)
Saving(j, s) == [thread EXCEPT ![j][s] = [Idle EXCEPT !.at = "status"]]

Ended(j, s) == [thread EXCEPT ![j][s] = Idle]

(* The record a saver works on: the one in jobs, unless a load has put     *)
(* another one there since cancel_job looked it up.                        *)
RecordOf(j, s) == IF s = "cancel" /\ own[j] # None THEN own[j] ELSE mem[j]

(* asdict reads the fields in their order, the status long before the      *)
(* result, without a lock.                                                 *)
ReadStatus(j, s) ==
  /\ At(j, s) = "status"
  /\ thread' = [thread EXCEPT ![j][s].status = RecordOf(j, s).status,
                             ![j][s].at = "result"]
  /\ UNCHANGED <<mem, pc, storageVars, indexLock, clientVars, srvCancelled, processVars>>

ReadResult(j, s) ==
  /\ At(j, s) = "result"
  /\ thread' = [thread EXCEPT ![j][s].result = RecordOf(j, s).result,
                             ![j][s].at = "record"]
  /\ UNCHANGED <<mem, pc, storageVars, indexLock, clientVars, srvCancelled, processVars>>

(* Deviations, here and below: a definition as a plausible slip in the     *)
(* code would have it, used to see that a property notices.                *)
PutRecordSkipsResult(j, s) ==
  /\ At(j, s) = "record"
  /\ record' = [record EXCEPT ![j] = thread[j][s].status]
  /\ thread' = Moved(j, s, "index")
  /\ UNCHANGED <<mem, pc, resultBlob, index, indexLock, clientVars, srvCancelled,
                 processVars>>

(* _save_record_blobs: record.json, and then result.json if there is one.  *)
PutRecord(j, s) ==
  /\ At(j, s) = "record"
  /\ record' = [record EXCEPT ![j] = thread[j][s].status]
  /\ thread' = Moved(j, s, IF thread[j][s].result THEN "blob" ELSE "index")
  /\ UNCHANGED <<mem, pc, resultBlob, index, indexLock, clientVars, srvCancelled,
                 processVars>>

PutResult(j, s) ==
  /\ At(j, s) = "blob"
  /\ resultBlob' = [resultBlob EXCEPT ![j] = TRUE]
  /\ thread' = Moved(j, s, "index")
  /\ UNCHANGED <<mem, pc, record, index, indexLock, clientVars, srvCancelled,
                 processVars>>

ReadIndexUnlocked(j, s) ==
  /\ At(j, s) = "index"
  /\ thread' = [thread EXCEPT ![j][s].index = index, ![j][s].at = "write"]
  /\ UNCHANGED <<mem, pc, storageVars, indexLock, clientVars, srvCancelled, processVars>>

(* save: the index is read, changed and written under _index_lock.         *)
ReadIndex(j, s) ==
  /\ At(j, s) = "index"
  /\ indexLock = None
  /\ indexLock' = <<j, s>>
  /\ thread' = [thread EXCEPT ![j][s].index = index, ![j][s].at = "write"]
  /\ UNCHANGED <<mem, pc, storageVars, clientVars, srvCancelled, processVars>>

PutIndex(j, s) ==
  /\ At(j, s) = "write"
  /\ index' = [thread[j][s].index EXCEPT ![j] = thread[j][s].status]
  /\ indexLock' = None
  /\ thread' = [thread EXCEPT ![j][s] = [Idle EXCEPT !.at = "saved"]]
  /\ UNCHANGED <<mem, pc, record, resultBlob, clientVars, srvCancelled, processVars>>

(* A call to the archive raises: whoever awaits the save gets the error.   *)
StorageError(j, s) ==
  /\ Faults
  /\ At(j, s) \in {"record", "blob", "index", "write"}
  /\ At(j, s) = "index" => indexLock = None
  /\ indexLock' = IF At(j, s) = "write" THEN None ELSE indexLock
  /\ thread' = [thread EXCEPT ![j][s] = [Idle EXCEPT !.at = "failed"]]
  /\ UNCHANGED <<mem, pc, storageVars, clientVars, srvCancelled, processVars>>

SaveStep(j, s) ==
  \/ ReadStatus(j, s)
  \/ ReadResult(j, s)
  \/ PutRecord(j, s)
  \/ PutResult(j, s)
  \/ ReadIndex(j, s)
  \/ PutIndex(j, s)
  \/ StorageError(j, s)

-----------------------------------------------------------------------------
(* submit_job: the record is put in memory and saved; then the task is     *)
(* spawned and the client gets its answer.                                 *)
SubmitJob(j) ==
  /\ phase = "up"
  /\ pc[j] = "none" /\ mem[j] = None /\ record[j] = None
  /\ mem' = [mem EXCEPT ![j] = [status |-> "pending", result |-> FALSE]]
  /\ pc' = [pc EXCEPT ![j] = "submitting"]
  /\ thread' = Saving(j, "run")
  /\ UNCHANGED <<storageVars, indexLock, clientVars, srvCancelled, processVars>>

SubmitReturnsEarly(j) ==
  /\ pc[j] = "submitting"
  /\ At(j, "run") \in {"index", "write", "saved"}
  /\ pc' = [pc EXCEPT ![j] = "spawned"]
  /\ acked' = acked \cup {j}
  /\ thread' = IF At(j, "run") = "saved" THEN Ended(j, "run") ELSE thread
  /\ UNCHANGED <<mem, storageVars, indexLock, cancelAcked, polls, loadVars,
                 srvCancelled, processVars>>

SubmitReturns(j) ==
  /\ pc[j] = "submitting"
  /\ At(j, "run") = "saved"
  /\ pc' = [pc EXCEPT ![j] = "spawned"]
  /\ acked' = acked \cup {j}
  /\ thread' = Ended(j, "run")
  /\ UNCHANGED <<mem, storageVars, indexLock, cancelAcked, polls, loadVars,
                 srvCancelled, processVars>>

(* The save or register_resource raises: no task is spawned, and the       *)
(* record stays behind in memory.                                          *)
SubmitFails(j) ==
  /\ pc[j] = "submitting"
  /\ At(j, "run") = "failed" \/ (Faults /\ At(j, "run") = "saved")
  /\ pc' = [pc EXCEPT ![j] = "dead"]
  /\ thread' = Ended(j, "run")
  /\ UNCHANGED <<mem, storageVars, indexLock, clientVars, srvCancelled, processVars>>

-----------------------------------------------------------------------------
(* _run_job, on the API's event loop.                                      *)
Up(j, at) == phase = "up" /\ pc[j] = at

(* The job starts, unless it has been cancelled; either way it is saved.   *)
StartRun(j) ==
  /\ Up(j, "spawned")
  /\ IF mem[j].status = "cancelled"
     THEN pc' = [pc EXCEPT ![j] = "skipping"] /\ UNCHANGED mem
     ELSE /\ pc' = [pc EXCEPT ![j] = "starting"]
          /\ mem' = [mem EXCEPT ![j].status = "running"]
  /\ thread' = Saving(j, "run")
  /\ UNCHANGED <<storageVars, indexLock, clientVars, srvCancelled, processVars>>

(* The first save is back; one that failed ends the task before its try.   *)
StartReturns(j) ==
  /\ Up(j, "starting") \/ Up(j, "skipping")
  /\ At(j, "run") \in {"saved", "failed"}
  /\ pc' = [pc EXCEPT ![j] =
              IF At(j, "run") = "failed" THEN "dead"
              ELSE IF @ = "skipping" THEN "done" ELSE "executing"]
  /\ thread' = Ended(j, "run")
  /\ UNCHANGED <<mem, storageVars, indexLock, clientVars, srvCancelled, processVars>>

(* server.execute returns.                                                 *)
ExecuteReturns(j) ==
  /\ Up(j, "executing")
  /\ j \notin srvCancelled
  /\ pc' = [pc EXCEPT ![j] = "storing"]
  /\ UNCHANGED <<mem, thread, storageVars, indexLock, clientVars, srvCancelled,
                 processVars>>

(* The finally block: the record is saved once more.                       *)
Finally(j) ==
  /\ pc' = [pc EXCEPT ![j] = "final"]
  /\ thread' = Saving(j, "final")

(* server.execute raises RequestCancelledError.                            *)
ExecuteCancelled(j) ==
  /\ Up(j, "executing")
  /\ j \in srvCancelled
  /\ Finally(j)
  /\ UNCHANGED <<mem, storageVars, indexLock, clientVars, srvCancelled, processVars>>

(* Anything else is raised, from parsing to storing the artifacts.         *)
RunRaises(j) ==
  /\ Up(j, "executing") \/ Up(j, "storing")
  /\ mem' = [mem EXCEPT ![j].status = IF @ = "cancelled" THEN @ ELSE "failed"]
  /\ Finally(j)
  /\ UNCHANGED <<storageVars, indexLock, clientVars, srvCancelled, processVars>>

FinalizeJobUnchecked(j) ==
  /\ Up(j, "storing")
  /\ pc' = [pc EXCEPT ![j] = "finishing"]
  /\ \E st \in {"completed", "failed"} :
       mem' = [mem EXCEPT ![j] = [status |-> st, result |-> TRUE]]
  /\ thread' = Saving(j, "run")
  /\ UNCHANGED <<storageVars, indexLock, clientVars, srvCancelled, processVars>>

(* The outcome is entered in the record, whose result is assigned before   *)
(* its status, and saved; a cancellation that came first stays.            *)
FinalizeJob(j) ==
  /\ Up(j, "storing")
  /\ IF mem[j].status = "cancelled"
     THEN pc' = [pc EXCEPT ![j] = "registering"] /\ UNCHANGED <<mem, thread>>
     ELSE /\ pc' = [pc EXCEPT ![j] = "finishing"]
          /\ \E st \in {"completed", "failed"} :
               mem' = [mem EXCEPT ![j] = [status |-> st, result |-> TRUE]]
          /\ thread' = Saving(j, "run")
  /\ UNCHANGED <<storageVars, indexLock, clientVars, srvCancelled, processVars>>

FinishReturns(j) ==
  /\ Up(j, "finishing")
  /\ At(j, "run") = "saved"
  /\ pc' = [pc EXCEPT ![j] = "registering"]
  /\ thread' = Ended(j, "run")
  /\ UNCHANGED <<mem, storageVars, indexLock, clientVars, srvCancelled, processVars>>

(* The save of the outcome raises: the except clause enters a failure.     *)
FinishFails(j) ==
  /\ Up(j, "finishing")
  /\ At(j, "run") = "failed"
  /\ mem' = [mem EXCEPT ![j].status = IF @ = "cancelled" THEN @ ELSE "failed"]
  /\ pc' = [pc EXCEPT ![j] = "final"]
  /\ thread' = [thread EXCEPT ![j]["run"] = Idle,
                              ![j]["final"] = [Idle EXCEPT !.at = "status"]]
  /\ UNCHANGED <<storageVars, indexLock, clientVars, srvCancelled, processVars>>

(* Resources are registered and outputs written; errors are logged.        *)
RegisterDone(j) ==
  /\ Up(j, "registering")
  /\ Finally(j)
  /\ UNCHANGED <<mem, storageVars, indexLock, clientVars, srvCancelled, processVars>>

FinalReturns(j) ==
  /\ pc[j] = "final"
  /\ phase \in {"up", "draining"}
  /\ At(j, "final") \in {"saved", "failed"}
  /\ pc' = [pc EXCEPT ![j] = "done"]
  /\ thread' = Ended(j, "final")
  /\ UNCHANGED <<mem, storageVars, indexLock, clientVars, srvCancelled, processVars>>

RunStep(j) ==
  \/ StartRun(j)
  \/ StartReturns(j)
  \/ ExecuteReturns(j)
  \/ ExecuteCancelled(j)
  \/ RunRaises(j)
  \/ FinalizeJob(j)
  \/ FinishReturns(j)
  \/ FinishFails(j)
  \/ RegisterDone(j)
  \/ FinalReturns(j)

-----------------------------------------------------------------------------
(* The other handlers.  _load_job_record looks the record up under         *)
(* jobs_lock and, if it is not there (a job of an earlier process), has a  *)
(* thread read the blobs.  What was read is then put in jobs, whatever is  *)
(* there by now.                                                           *)

(* A client knows of a job from the answer to its submission or from the   *)
(* list, which shows the index.                                            *)
Known(j) == j \in acked \/ index[j] # None

Loading(j, h) == load[j][h].at

LoadBegin(j, h) ==
  /\ phase = "up" /\ <<j, h>> \in MayLoad
  /\ Known(j) /\ mem[j] = None
  /\ Loading(j, h) = "off"
  /\ load' = [load EXCEPT ![j][h].at = "record"]
  /\ UNCHANGED <<mem, own, pc, thread, storageVars, indexLock, acked, cancelAcked,
                 polls, srvCancelled, processVars>>

LoadRecord(j, h) ==
  /\ Loading(j, h) = "record"
  /\ load' = [load EXCEPT ![j][h].at = "result", ![j][h].status = record[j]]
  /\ UNCHANGED <<mem, own, pc, thread, storageVars, indexLock, acked, cancelAcked,
                 polls, srvCancelled, processVars>>

LoadResult(j, h) ==
  /\ Loading(j, h) = "result"
  /\ load' = [load EXCEPT ![j][h].at = "store", ![j][h].result = resultBlob[j]]
  /\ UNCHANGED <<mem, own, pc, thread, storageVars, indexLock, acked, cancelAcked,
                 polls, srvCancelled, processVars>>

(* The blobs cannot be read: the answer is 404.                            *)
LoadFails(j, h) ==
  /\ Faults
  /\ Loading(j, h) \in {"record", "result"}
  /\ load' = [load EXCEPT ![j][h] = NoLoad]
  /\ UNCHANGED <<mem, own, pc, thread, storageVars, indexLock, acked, cancelAcked,
                 polls, srvCancelled, processVars>>

(* A cancel_job that has its record already goes on with that one; one     *)
(* that has loaded it awaits its permission.                               *)
LoadStore(j, h) ==
  /\ Loading(j, h) = "store"
  /\ mem' = [mem EXCEPT ![j] = [status |-> load[j][h].status,
                                result |-> load[j][h].result]]
  /\ own' = IF At(j, "cancel") # "off" /\ own[j] = None
            THEN [own EXCEPT ![j] = mem[j]] ELSE own
  /\ load' = [load EXCEPT ![j][h] = NoLoad]
  /\ thread' = IF h = "cancel" THEN Moved(j, "cancel", "asked") ELSE thread
  /\ UNCHANGED <<pc, storageVars, indexLock, acked, cancelAcked, polls, srvCancelled,
                 processVars>>

LoadStep(j, h) ==
  \/ LoadBegin(j, h)
  \/ LoadRecord(j, h)
  \/ LoadResult(j, h)
  \/ LoadFails(j, h)
  \/ LoadStore(j, h)

(* cancel_job finds the record in jobs and awaits its permission.  The     *)
(* entry of a job of this process stays the same object, so for such a job *)
(* looking it up is no step of its own.                                    *)
CancelAsked(j) ==
  /\ phase = "up" /\ pc[j] = "none"
  /\ Known(j) /\ mem[j] # None
  /\ At(j, "cancel") = "off" /\ Loading(j, "cancel") = "off"
  /\ thread' = Moved(j, "cancel", "asked")
  /\ UNCHANGED <<mem, pc, storageVars, indexLock, clientVars, srvCancelled, processVars>>

(* A job that has ended is not cancelled: the answer is 409.               *)
CancelRefused(j) ==
  /\ At(j, "cancel") = "asked"
  /\ RecordOf(j, "cancel").status \in Terminal
  /\ thread' = Ended(j, "cancel")
  /\ own' = [own EXCEPT ![j] = None]
  /\ UNCHANGED <<mem, load, pc, storageVars, indexLock, acked, cancelAcked, polls,
                 srvCancelled, processVars>>

(* Any other is cancelled and saved; then the server is told, and the      *)
(* client gets its answer.                                                 *)
CancelJob(j) ==
  /\ \/ At(j, "cancel") = "asked"
     \/ phase = "up" /\ pc[j] # "none" /\ Known(j) /\ At(j, "cancel") = "off"
  /\ RecordOf(j, "cancel").status \in Active
  /\ IF own[j] = None
     THEN mem' = [mem EXCEPT ![j].status = "cancelled"] /\ UNCHANGED own
     ELSE own' = [own EXCEPT ![j].status = "cancelled"] /\ UNCHANGED mem
  /\ thread' = Saving(j, "cancel")
  /\ UNCHANGED <<load, pc, storageVars, indexLock, acked, cancelAcked, polls,
                 srvCancelled, processVars>>

CancelReturns(j) ==
  /\ At(j, "cancel") = "saved"
  /\ thread' = Ended(j, "cancel")
  /\ own' = [own EXCEPT ![j] = None]
  /\ srvCancelled' = srvCancelled \cup {j}
  /\ cancelAcked' = cancelAcked \cup {j}
  /\ UNCHANGED <<mem, load, pc, storageVars, indexLock, acked, polls, processVars>>

(* The save raises before the server is told.                              *)
CancelFails(j) ==
  /\ At(j, "cancel") = "failed"
  /\ thread' = Ended(j, "cancel")
  /\ own' = [own EXCEPT ![j] = None]
  /\ UNCHANGED <<mem, load, pc, storageVars, indexLock, acked, cancelAcked, polls,
                 srvCancelled, processVars>>

(* get_job_progress: the server is asked, and what it says is saved if it  *)
(* differs from the record's progress.                                     *)
PollProgress(j) ==
  /\ phase = "up"
  /\ Known(j) /\ mem[j] # None
  /\ mem[j].status # "cancelled"
  /\ pc[j] \in {"executing", "storing", "finishing", "registering", "final", "done"}
  /\ At(j, "progress") = "off"
  /\ polls < MaxPolls
  /\ polls' = polls + 1
  /\ thread' = Moved(j, "progress", "asked")
  /\ UNCHANGED <<mem, pc, storageVars, indexLock, acked, cancelAcked, loadVars,
                 srvCancelled, processVars>>

ApplyProgress(j) ==
  /\ At(j, "progress") = "asked"
  /\ thread' \in {Saving(j, "progress"), Ended(j, "progress")}
  /\ UNCHANGED <<mem, pc, storageVars, indexLock, clientVars, srvCancelled, processVars>>

ProgressReturns(j) ==
  /\ At(j, "progress") \in {"saved", "failed"}
  /\ thread' = Ended(j, "progress")
  /\ UNCHANGED <<mem, pc, storageVars, indexLock, clientVars, srvCancelled, processVars>>

ClientStep(j) ==
  \/ SubmitJob(j)
  \/ SubmitReturns(j)
  \/ SubmitFails(j)
  \/ \E h \in Loaders : LoadStep(j, h)
  \/ CancelAsked(j)
  \/ CancelRefused(j)
  \/ CancelJob(j)
  \/ CancelReturns(j)
  \/ CancelFails(j)
  \/ PollProgress(j)
  \/ ApplyProgress(j)
  \/ ProgressReturns(j)

-----------------------------------------------------------------------------
(* Shutdown: no request is open any more; the API's loop is blocked in     *)
(* LumilakeServer.close, which lets mark_running_jobs_failed fail the jobs *)
(* that are active and save them, one after the other.                     *)
BeginShutdown ==
  /\ phase = "up"
  /\ boots < MaxBoots
  /\ \A j \in Jobs : /\ pc[j] # "submitting"
                     /\ At(j, "cancel") = "off" /\ At(j, "progress") = "off"
                     /\ \A h \in Loaders : Loading(j, h) = "off"
  /\ phase' = "marking"
  /\ todo' = {j \in Jobs : mem[j] # None /\ mem[j].status \in Active}
  /\ mem' = [j \in Jobs |-> IF j \in todo' THEN [mem[j] EXCEPT !.status = "failed"]
                            ELSE mem[j]]
  /\ UNCHANGED <<pc, thread, storageVars, indexLock, clientVars, srvCancelled, boots>>

NobodyBooting == \A j \in Jobs : At(j, "boot") = "off"

ShutdownSave(j) ==
  /\ phase = "marking"
  /\ j \in todo
  /\ NobodyBooting
  /\ thread' = Saving(j, "boot")
  /\ UNCHANGED <<mem, pc, storageVars, indexLock, clientVars, srvCancelled, processVars>>

(* The save is back; one that raises ends the marking.                     *)
ShutdownSaved(j) ==
  /\ phase = "marking"
  /\ At(j, "boot") \in {"saved", "failed"}
  /\ todo' = IF At(j, "boot") = "failed" THEN {} ELSE todo \ {j}
  /\ thread' = Ended(j, "boot")
  /\ UNCHANGED <<mem, pc, storageVars, indexLock, clientVars, srvCancelled,
                 phase, boots>>

(* The tasks are cancelled.  One that has not reached its try just ends;   *)
(* the others run their finally.  A save under way is not stopped by that. *)
CancelTasks ==
  LET finally == {j \in Jobs : pc[j] \in {"executing", "storing", "finishing",
                                          "registering"}}
  IN  /\ phase = "marking"
      /\ todo = {}
      /\ phase' = "draining"
      /\ pc' = [j \in Jobs |->
                  IF j \in finally THEN "final"
                  ELSE IF pc[j] \in {"spawned", "starting", "skipping"} THEN "dead"
                  ELSE IF pc[j] = "final" THEN "done" ELSE pc[j]]
      /\ thread' = [j \in Jobs |-> [s \in Savers |->
                      IF j \in finally /\ s = "final"
                      THEN [Idle EXCEPT !.at = "status"] ELSE thread[j][s]]]
      /\ UNCHANGED <<mem, storageVars, indexLock, clientVars, srvCancelled, todo, boots>>

(* What is in memory is gone; the archive stays.                           *)
Forget ==
  /\ phase' = "down"
  /\ mem' = [j \in Jobs |-> None]
  /\ load' = [j \in Jobs |-> [h \in Loaders |-> NoLoad]]
  /\ own' = [j \in Jobs |-> None]
  /\ pc' = [j \in Jobs |-> "none"]
  /\ thread' = [j \in Jobs |-> [s \in Savers |-> Idle]]
  /\ indexLock' = None
  /\ srvCancelled' = {}
  /\ todo' = {}
  /\ UNCHANGED <<storageVars, acked, cancelAcked, polls, boots>>

(* The process ends when its tasks have ended and its threads are joined.  *)
ProcessExit ==
  /\ phase = "draining"
  /\ \A j \in Jobs : /\ pc[j] # "final"
                     /\ \A s \in Savers : At(j, s) \in {"off", "saved", "failed"}
  /\ Forget

Crash ==
  /\ phase # "down"
  /\ boots < MaxBoots
  /\ Forget

-----------------------------------------------------------------------------
ToRecoverRunning == {j \in Jobs : index[j] = "running"}

(* recover_in_flight_jobs works on the jobs that are active in the index.  *)
ToRecover == {j \in Jobs : index[j] \in Active}

Restart ==
  /\ phase = "down"
  /\ boots' = boots + 1
  /\ phase' = IF Recover THEN "recovering" ELSE "up"
  /\ todo' = IF Recover THEN ToRecover ELSE {}
  /\ UNCHANGED <<mem, pc, thread, storageVars, indexLock, clientVars, srvCancelled>>

(* One is loaded, turned into a failure and saved; if its record cannot be *)
(* read it is skipped.                                                     *)
RecoverJob(j) ==
  /\ phase = "recovering"
  /\ j \in todo
  /\ NobodyBooting
  /\ \/ /\ record[j] # None
        /\ thread' = [thread EXCEPT ![j]["boot"] =
                        [at |-> "record", status |-> "failed",
                         result |-> resultBlob[j], index |-> None]]
        /\ UNCHANGED todo
     \/ /\ record[j] = None \/ Faults
        /\ todo' = todo \ {j}
        /\ UNCHANGED thread
  /\ UNCHANGED <<mem, pc, storageVars, indexLock, clientVars, srvCancelled, phase, boots>>

RecoverSaved(j) ==
  /\ phase = "recovering"
  /\ At(j, "boot") \in {"saved", "failed"}
  /\ todo' = todo \ {j}
  /\ thread' = Ended(j, "boot")
  /\ UNCHANGED <<mem, pc, storageVars, indexLock, clientVars, srvCancelled, phase, boots>>

RecoverDone ==
  /\ phase = "recovering"
  /\ todo = {}
  /\ phase' = "up"
  /\ UNCHANGED <<mem, pc, thread, storageVars, indexLock, clientVars, srvCancelled,
                 todo, boots>>

ProcessStep ==
  \/ CancelTasks
  \/ ProcessExit
  \/ Restart
  \/ RecoverDone
  \/ \E j \in Jobs : ShutdownSave(j) \/ ShutdownSaved(j) \/ RecoverJob(j) \/ RecoverSaved(j)

Next ==
  \/ \E j \in Jobs : RunStep(j) \/ ClientStep(j) \/ \E s \in Savers : SaveStep(j, s)
  \/ ProcessStep
  \/ BeginShutdown
  \/ Crash

Spec == Init /\ [][Next]_vars

-----------------------------------------------------------------------------
Places == {"none", "submitting", "spawned", "starting", "skipping", "executing",
           "storing", "finishing", "registering", "final", "done", "dead"}
Steps == {"off", "asked", "status", "result", "record", "blob", "index", "write",
          "saved", "failed"}
Loads == [at : {"off", "record", "result", "store"}, status : Statuses \cup {None},
          result : BOOLEAN]
Threads == [at : Steps, status : Statuses \cup {None}, result : BOOLEAN,
            index : [Jobs -> Statuses \cup {None}] \cup {None}]

(* The types of memory and archive; _index_lock is held exactly while one  *)
(* save is between reading and writing the index.                          *)
TypeOK ==
  /\ mem \in [Jobs -> Records \cup {None}]
  /\ load \in [Jobs -> [Loaders -> Loads]]
  /\ own \in [Jobs -> Records \cup {None}]
  /\ pc \in [Jobs -> Places]
  /\ thread \in [Jobs -> [Savers -> Threads]]
  /\ record \in [Jobs -> Statuses \cup {None}]
  /\ resultBlob \in [Jobs -> BOOLEAN]
  /\ index \in [Jobs -> Statuses \cup {None}]
  /\ indexLock \in (Jobs \X Savers) \cup {None}
  /\ \A j \in Jobs, s \in Savers : At(j, s) = "write" <=> indexLock = <<j, s>>
  /\ acked \subseteq Jobs /\ cancelAcked \subseteq Jobs /\ srvCancelled \subseteq Jobs
  /\ polls \in 0..MaxPolls
  /\ phase \in {"up", "marking", "draining", "down", "recovering"}
  /\ todo \subseteq Jobs
  /\ boots \in 0..MaxBoots

(* A job whose submission was answered is never lost: record and index     *)
(* entry are in the archive, whatever crashes and whoever else rewrites    *)
(* the index.                                                              *)
AcknowledgedSurvives ==
  \A j \in acked : record[j] # None /\ index[j] # None

(* The index never runs ahead of the blobs: a job it lists has a record,   *)
(* and one it lists as completed has a result.                             *)
IndexPointsToBlobs ==
  \A j \in Jobs : /\ index[j] # None => record[j] # None
                  /\ index[j] = "completed" => resultBlob[j]

(* "The cancel is the authoritative outcome" (_run_job): no outcome,       *)
(* exception or shutdown replaces a cancelled record in jobs.  What can is *)
(* only _load_job_record, for a job of an earlier process, when a load     *)
(* began before the record was put in jobs and ends after the cancellation.*)
StaleLoad(j) == pc[j] = "none" /\ \E h \in Loaders : LoadStore(j, h)

CancelIsFinal ==
  [][\A j \in Jobs : (mem[j] # None /\ mem[j].status = "cancelled" /\ mem'[j] # None)
        => mem'[j].status = "cancelled" \/ StaleLoad(j)]_vars

(* When the task of a job has ended and no save is under way, the archive  *)
(* shows what the record says; _index_lock is there "so the storage layer  *)
(* is safe to call concurrently from multiple threads".                    *)
StorageSettles ==
  \A j \in Jobs :
    (phase = "up" /\ pc[j] = "done" /\ \A s \in Savers : At(j, s) = "off") =>
      /\ record[j] = mem[j].status
      /\ index[j] = mem[j].status
      /\ mem[j].result => resultBlob[j]

(* After recovery, the list shows no job of an earlier process as active.  *)
RecoveredInIndex ==
  \A j \in Jobs :
    (Recover /\ phase = "up" /\ pc[j] = "none") => index[j] \notin Active

(* get_job_result serves "a completed job": one that is reported completed *)
(* has its result at hand, also when it was loaded after a crash.          *)
CompletedHasResult ==
  \A j \in Jobs : (mem[j] # None /\ mem[j].status = "completed") => mem[j].result

-----------------------------------------------------------------------------
(* The event loops run, the threads get their HTTP calls done, execute     *)
(* returns (Server!EveryRequestReleased), and a stopped process is started *)
(* again.  A job has finitely many saves of finitely many steps, so it is  *)
(* enough that some save of it goes on.                                    *)
Fairness ==
  /\ WF_vars(ProcessStep)
  /\ \A j \in Jobs : /\ WF_vars(RunStep(j))
                     /\ WF_vars(SubmitReturns(j))
                     /\ WF_vars(CancelReturns(j))
                     /\ WF_vars(ApplyProgress(j))
                     /\ WF_vars(ProgressReturns(j))
                     /\ WF_vars(\E s \in Savers : SaveStep(j, s))

FairSpec == Spec /\ Fairness

(* An acknowledged job ends, and the list says so for good.                *)
JobsEnd ==
  \A j \in Jobs : [](j \in acked => <>[](index[j] \in Terminal))
=============================================================================
