------------------------- MODULE JobLifecycleProofs -------------------------
(***************************************************************************)
(* Theorems about the persisted life of a job, for any number of jobs,     *)
(* restarts and progress requests.                                         *)
(***************************************************************************)
EXTENDS JobLifecycle, TLAPS

-----------------------------------------------------------------------------
(* The invariant of memory, saves and archive.                             *)

(* A save has a status exactly between reading it and writing the index.   *)
Carrying == {"result", "record", "blob", "index", "write"}

(* A save belongs to somebody who is still waiting for it, or whose wait   *)
(* a shutdown has cut short: no save is started over one that is under way.*)
SavesOwned ==
  \A j \in Jobs :
    /\ phase \in {"up", "marking"} =>
         /\ At(j, "run") # "off" =>
              pc[j] \in {"submitting", "starting", "skipping", "finishing"}
         /\ At(j, "final") # "off" => pc[j] = "final"
    /\ At(j, "cancel") # "off" => mem[j] # None
    /\ At(j, "boot") # "off" =>
         /\ j \in todo
         /\ phase \in {"marking", "recovering"}
         /\ \A k \in Jobs : At(k, "boot") # "off" => k = j
    /\ \A s \in {"run", "final", "progress"} : At(j, s) # "off" => pc[j] # "none"

(* What the process may be in the middle of, phase by phase.               *)
PhasesOrdered ==
  /\ phase \in {"marking", "draining", "down"} => boots < MaxBoots
  /\ \A j \in Jobs :
       /\ pc[j] = "submitting" => phase = "up"
       /\ phase \in {"down", "recovering"} => mem[j] = None
       /\ (phase = "marking" /\ j \in todo) => mem[j] # None /\ mem[j].status = "failed"

(* A task, and a save that has yet to read the record, finds it in memory. *)
RecordInMemory ==
  \A j \in Jobs :
    /\ pc[j] # "none" => mem[j] # None
    /\ \A s \in Savers : At(j, s) \in {"asked", "status", "result"} => mem[j] # None

(* A load is of a job of an earlier process, which has a record; a record  *)
(* that cancel_job holds is cancelled from the moment it is being saved,   *)
(* whether it is the one in jobs or not.                                   *)
LoadsOwned ==
  \A j \in Jobs :
    /\ \A h \in Loaders :
         /\ Loading(j, h) # "off" => phase = "up" /\ pc[j] = "none" /\ record[j] # None
         /\ Loading(j, h) \in {"result", "store"} => load[j][h].status # None
    /\ Loading(j, "cancel") # "off" => At(j, "cancel") = "off"
    /\ At(j, "cancel") # "off" => phase = "up"
    /\ At(j, "cancel") = "asked" => pc[j] = "none"
    /\ own[j] # None => pc[j] = "none" /\ At(j, "cancel") # "off"
    /\ At(j, "cancel") \notin {"off", "asked"} =>
         RecordOf(j, "cancel").status = "cancelled"
    /\ At(j, "cancel") \in Carrying => thread[j]["cancel"].status = "cancelled"

(* How far a save has come, and what the archive then holds.               *)
SavesOrdered ==
  \A j \in Jobs : \A s \in Savers :
    /\ thread[j][s].status # None <=> At(j, s) \in Carrying
    /\ At(j, s) \in {"blob", "index", "write"} => record[j] # None
    /\ At(j, s) = "write" => thread[j][s].index = index
    /\ At(j, s) = "saved" => index[j] # None

(* A save that says completed brings a result, and brings it first.        *)
ResultsFirst ==
  \A j \in Jobs :
    /\ (pc[j] # "none" /\ mem[j].status = "completed") => mem[j].result
    /\ \A s \in Savers : thread[j][s].status = "completed" =>
         /\ At(j, s) = "result" => mem[j].result
         /\ At(j, s) = "record" => thread[j][s].result
         /\ At(j, s) \in {"index", "write"} => resultBlob[j]

IInv ==
  /\ TypeOK
  /\ SavesOwned
  /\ PhasesOrdered
  /\ RecordInMemory
  /\ LoadsOwned
  /\ SavesOrdered
  /\ ResultsFirst
  /\ AcknowledgedSurvives
  /\ IndexPointsToBlobs

-----------------------------------------------------------------------------
(* What holds besides while no call to the archive fails.                  *)

(* The outcome of a job, once entered, is the only one that any save of it *)
(* carries; until then they carry active states.                           *)
OneOutcome ==
  \A j \in Jobs :
    /\ pc[j] # "none" =>
         /\ record[j] \in Active \cup {None, mem[j].status}
         /\ \A s \in Savers : thread[j][s].status \in Active \cup {None, mem[j].status}
    /\ pc[j] # "none" => index[j] \in Active \cup {None, mem[j].status}
    /\ pc[j] \notin {"none", "submitting", "dead"} => index[j] # None
    /\ (phase = "up" /\ pc[j] \in {"submitting", "spawned", "starting", "skipping",
                                   "executing", "storing"}) =>
         /\ mem[j].status \in Active \cup {"cancelled"}
         /\ ~mem[j].result
    /\ At(j, "boot") \in Carrying => thread[j]["boot"].status = "failed"
    /\ \A s \in Savers : At(j, s) # "failed"

(* While recovery runs, what it has yet to do is what is active.           *)
RecoveryOnTrack ==
  \A j \in Jobs :
    (phase = "recovering" /\ index[j] \in Active) =>
      j \in todo /\ At(j, "boot") # "saved"

(* A completed record without its result is still active in the index.     *)
OutcomesBacked ==
  \A j \in Jobs :
    /\ (record[j] = "completed" /\ ~resultBlob[j]) => index[j] \in Active
    /\ \A s \in Savers : (pc[j] = "none" /\ At(j, s) \in {"blob", "index", "write"}) =>
         record[j] = thread[j][s].status
    /\ (pc[j] # "none" /\ mem[j].status = "completed") =>
         resultBlob[j] \/ index[j] \in Active

(* A load that finds a completed record finds its result.                  *)
LoadsBacked ==
  \A j \in Jobs : \A h \in Loaders :
    load[j][h].status = "completed" =>
      resultBlob[j] /\ (Loading(j, h) = "store" => load[j][h].result)

FaultFreeInv ==
  /\ OneOutcome
  /\ OutcomesBacked
  /\ Recover => RecoveryOnTrack /\ RecoveredInIndex /\ CompletedHasResult /\ LoadsBacked

-----------------------------------------------------------------------------
(* And while, besides, nobody asks for the progress of a job.              *)

(* The save of saver s leaves the archive with the state in memory.        *)
LeftTo(j, s) ==
  /\ \A t \in Savers : thread[j][t].status \in {None, mem[j].status}
  /\ record[j] = mem[j].status \/ At(j, s) \in {"status", "result", "record"}
  /\ index[j] = mem[j].status \/ At(j, s) \in {"status"} \cup Carrying
  /\ mem[j].result =>
       \/ resultBlob[j]
       \/ At(j, s) \in {"status", "result", "blob"}
       \/ At(j, s) = "record" /\ thread[j][s].result

SettleInv ==
  \A j \in Jobs :
    /\ At(j, "progress") = "off"
    /\ j \in srvCancelled =>
         record[j] # None /\ (pc[j] # "none" => mem[j].status = "cancelled")
    /\ phase = "up" =>
         /\ pc[j] \in {"finishing", "registering", "final", "done"} =>
              mem[j].status \in Terminal
         /\ pc[j] \in {"final", "done"} => LeftTo(j, "final")
         /\ pc[j] = "skipping" => mem[j].status = "cancelled" /\ LeftTo(j, "run")
-----------------------------------------------------------------------------
(* The invariant as a whole: with a failing archive, without, and without  *)
(* progress requests.                                                      *)
Inv ==
  /\ IInv
  /\ ~Faults => FaultFreeInv
  /\ (~Faults /\ MaxPolls = 0) => SettleInv

-----------------------------------------------------------------------------
(* How a step changes one job, and nothing of the others.                  *)
Cells == [Jobs -> [Savers -> Threads]]
Fresh == [Idle EXCEPT !.at = "status"]
Saved == [Idle EXCEPT !.at = "saved"]
Failed == [Idle EXCEPT !.at = "failed"]

Cell(j, s, c) ==
  /\ thread' \in Cells
  /\ thread'[j][s] = c
  /\ \A k \in Jobs, t \in Savers : (k # j \/ t # s) => thread'[k][t] = thread[k][t]

CellAs(j, s, at, st, r, ix) ==
  /\ thread' \in Cells
  /\ thread'[j][s].at = at /\ thread'[j][s].status = st
  /\ thread'[j][s].result = r /\ thread'[j][s].index = ix
  /\ \A k \in Jobs, t \in Savers : (k # j \/ t # s) => thread'[k][t] = thread[k][t]

Task(j, p) ==
  /\ pc' \in [Jobs -> Places]
  /\ pc'[j] = p
  /\ \A k \in Jobs \ {j} : pc'[k] = pc[k]

Memory(j, st, b) ==
  /\ mem' \in [Jobs -> Records \cup {None}]
  /\ mem'[j] # None /\ mem'[j].status = st /\ mem'[j].result = b
  /\ \A k \in Jobs \ {j} : mem'[k] = mem[k]

(* Nothing stored is a value of its own.                                   *)
LEMMA NoneApart ==
  /\ None \notin Statuses /\ None \notin Active /\ None \notin Terminal
  /\ None # "completed" /\ None # "failed" /\ None # "cancelled"
  /\ \A r \in Records : r # None
BY LifecycleAssumption DEF Statuses, Active, Terminal

(* A held index lock is not the value of a free one.                       *)
LEMMA LockApart == \A j \in Jobs, s \in Savers : <<j, s>> # None
BY LifecycleAssumption

(* The saves that have not begun, or have ended.                           *)
LEMMA CellValues ==
  /\ Idle \in Threads /\ Fresh \in Threads /\ Saved \in Threads /\ Failed \in Threads
  /\ Idle.at = "off" /\ Fresh.at = "status" /\ Saved.at = "saved" /\ Failed.at = "failed"
  /\ Idle.status = None /\ Fresh.status = None /\ Saved.status = None
  /\ Failed.status = None
BY DEF Idle, Fresh, Saved, Failed, Threads, Steps

(* Replacing one save leaves the others alone.                             *)
LEMMA CellReplaced ==
  ASSUME TypeOK, NEW j \in Jobs, NEW s \in Savers, NEW c \in Threads,
         thread' = [thread EXCEPT ![j][s] = c]
  PROVE  Cell(j, s, c)
BY DEF Cell, Cells, TypeOK

(* A save that starts.                                                     *)
LEMMA CellSaving ==
  ASSUME TypeOK, NEW j \in Jobs, NEW s \in Savers, thread' = Saving(j, s)
  PROVE  Cell(j, s, Fresh)
BY CellReplaced, CellValues DEF Saving, Fresh

(* A save that is collected.                                               *)
LEMMA CellEnded ==
  ASSUME TypeOK, NEW j \in Jobs, NEW s \in Savers, thread' = Ended(j, s)
  PROVE  Cell(j, s, Idle)
BY CellReplaced, CellValues DEF Ended

(* A save whose fields change.                                             *)
LEMMA CellChanged ==
  ASSUME TypeOK, NEW j \in Jobs, NEW s \in Savers, NEW at, NEW st, NEW r, NEW ix,
         [at |-> at, status |-> st, result |-> r, index |-> ix] \in Threads,
         thread' = [thread EXCEPT ![j][s] =
                      [at |-> at, status |-> st, result |-> r, index |-> ix]]
  PROVE  CellAs(j, s, at, st, r, ix)
<1>1. Cell(j, s, [at |-> at, status |-> st, result |-> r, index |-> ix])
  BY CellReplaced
<1> QED BY <1>1 DEF Cell, CellAs

(* A save that goes on to its next step.                                   *)
LEMMA CellMoved ==
  ASSUME TypeOK, NEW j \in Jobs, NEW s \in Savers, NEW at \in Steps,
         thread' = Moved(j, s, at)
  PROVE  CellAs(j, s, at, thread[j][s].status, thread[j][s].result, thread[j][s].index)
<1> DEFINE c == [at |-> at, status |-> thread[j][s].status,
                 result |-> thread[j][s].result, index |-> thread[j][s].index]
<1>1. thread[j][s] \in Threads
  BY DEF TypeOK
<1>2. c \in Threads /\ [thread[j][s] EXCEPT !.at = at] = c
  BY <1>1 DEF Threads
<1>3. thread' = [thread EXCEPT ![j][s] = c]
  BY <1>2 DEF Moved
<1> QED BY <1>2, <1>3, CellChanged

(* Replacing one load leaves the others alone.                             *)
LEMMA LoadReplaced ==
  ASSUME TypeOK, NEW j \in Jobs, NEW h \in Loaders, NEW c \in Loads,
         load' = [load EXCEPT ![j][h] = c]
  PROVE  /\ load' \in [Jobs -> [Loaders -> Loads]]
         /\ load'[j][h] = c
         /\ \A k \in Jobs, g \in Loaders : (k # j \/ g # h) => load'[k][g] = load[k][g]
BY DEF TypeOK

(* A task that goes on.                                                    *)
LEMMA TaskMoved ==
  ASSUME TypeOK, NEW j \in Jobs, NEW p \in Places, pc' = [pc EXCEPT ![j] = p]
  PROVE  Task(j, p)
BY DEF Task, TypeOK

(* A record that is entered in memory.                                     *)
LEMMA RecordEntered ==
  ASSUME TypeOK, NEW j \in Jobs, NEW st \in Statuses, NEW b \in BOOLEAN,
         mem' = [mem EXCEPT ![j] = [status |-> st, result |-> b]]
  PROVE  Memory(j, st, b)
<1>1. [status |-> st, result |-> b] \in Records
  BY DEF Records
<1>2. [status |-> st, result |-> b] # None
  BY <1>1, NoneApart
<1>3. mem'[j] = [status |-> st, result |-> b]
  BY DEF TypeOK
<1>4. mem' \in [Jobs -> Records \cup {None}] /\ \A k \in Jobs \ {j} : mem'[k] = mem[k]
  BY <1>1 DEF TypeOK
<1> QED BY <1>2, <1>3, <1>4 DEF Memory

(* A record whose status changes.                                          *)
LEMMA StatusChanged ==
  ASSUME TypeOK, NEW j \in Jobs, NEW st \in Statuses, mem[j] # None,
         mem' = [mem EXCEPT ![j].status = st]
  PROVE  Memory(j, st, mem[j].result)
<1>1. mem[j] \in Records
  BY DEF TypeOK
<1>2. [mem[j] EXCEPT !.status = st] = [status |-> st, result |-> mem[j].result]
  BY <1>1 DEF Records
<1>3. mem' = [mem EXCEPT ![j] = [status |-> st, result |-> mem[j].result]]
  BY <1>2
<1>4. mem[j].result \in BOOLEAN
  BY <1>1 DEF Records
<1> QED BY <1>3, <1>4, RecordEntered

-----------------------------------------------------------------------------
(* The steps of a save.                                                    *)

(* The save reads the status.                                              *)
LEMMA ReadStatusStep ==
  ASSUME Inv, NEW j \in Jobs, NEW s \in Savers, ReadStatus(j, s)
  PROVE  Inv'
<1>1. TypeOK
  BY DEF Inv, IInv
<1>2. mem[j] # None /\ RecordOf(j, s) \in Records /\ RecordOf(j, s).status \in Statuses
      /\ thread[j][s] \in Threads
  BY <1>1 DEF ReadStatus, Inv, IInv, RecordInMemory, RecordOf, TypeOK, Records
<1>3. /\ s = "cancel" => RecordOf(j, s).status = "cancelled"
      /\ s # "cancel" \/ pc[j] # "none" => RecordOf(j, s) = mem[j]
  BY DEF ReadStatus, Inv, IInv, LoadsOwned, RecordOf
<1>4. CellAs(j, s, "result", RecordOf(j, s).status, thread[j][s].result,
             thread[j][s].index)
  <2> DEFINE c == [thread[j][s] EXCEPT !.status = RecordOf(j, s).status, !.at = "result"]
  <2>1. /\ c \in Threads /\ c.at = "result" /\ c.status = RecordOf(j, s).status
        /\ c.result = thread[j][s].result /\ c.index = thread[j][s].index
    BY <1>2 DEF Threads, Steps
  <2>2. thread' = [thread EXCEPT ![j][s] = c]
    BY <1>1 DEF ReadStatus, TypeOK
  <2> HIDE DEF c
  <2>3. Cell(j, s, c)
    BY <1>1, <2>1, <2>2, CellReplaced
  <2> QED BY <2>1, <2>3 DEF Cell, CellAs
<1>5. /\ At(j, s) = "status"
      /\ UNCHANGED <<mem, pc, record, resultBlob, index, indexLock, acked>>
      /\ UNCHANGED <<cancelAcked, polls, srvCancelled, phase, todo, boots>>
      /\ UNCHANGED <<load, own>>
  BY DEF ReadStatus, storageVars, clientVars, loadVars, processVars
<1>6. \A k \in Jobs, t \in Savers : (At(k, t) = "write" <=> indexLock = <<k, t>>)'
  <2>1. \A k \in Jobs, t \in Savers : At(k, t) = "write" <=> indexLock = <<k, t>>
    BY <1>1 DEF TypeOK
  <2> QED BY <1>4, <1>5, <2>1 DEF At, CellAs
<1>7. TypeOK'
  BY <1>1, <1>4, <1>5, <1>6 DEF Inv, IInv, TypeOK, CellAs, Cells
<1>8. SavesOwned'
  BY <1>1, <1>4, <1>5 DEF Inv, IInv, At, SavesOwned, CellAs, Savers
<1>9. LoadsOwned'
  BY <1>1, <1>2, <1>3, <1>4, <1>5, CellValues, NoneApart DEF Inv, IInv, LoadsOwned,
     RecordOf, Loading, At, Savers, Loaders, Carrying, CellAs, Cell
<1>10. (~Faults /\ Recover) => LoadsBacked'
  BY <1>1, <1>4, <1>5 DEF Inv, IInv, FaultFreeInv, LoadsBacked, Loading
<1>11. PhasesOrdered' /\ RecordInMemory'
  BY <1>1, <1>4, <1>5 DEF Inv, IInv, At, PhasesOrdered, RecordInMemory, CellAs
<1>12. SavesOrdered'
  BY <1>1, <1>2, <1>4, <1>5, NoneApart DEF Inv, IInv, At, SavesOrdered, Carrying,
     CellAs
<1>13. ResultsFirst'
  BY <1>1, <1>2, <1>3, <1>4, <1>5 DEF Inv, IInv, At, ResultsFirst, SavesOwned,
     PhasesOrdered, Savers, CellAs
<1>14. AcknowledgedSurvives' /\ IndexPointsToBlobs'
  BY <1>1, <1>5 DEF Inv, IInv, AcknowledgedSurvives, IndexPointsToBlobs, At
<1>15. ~Faults => OneOutcome'
  BY <1>1, <1>2, <1>3, <1>4, <1>5 DEF LoadsOwned, Carrying, Inv, IInv, FaultFreeInv,
     OneOutcome, PhasesOrdered, SavesOwned, At, CellAs, Savers
<1>16. ~Faults => OutcomesBacked'
  BY <1>1, <1>4, <1>5 DEF Inv, IInv, FaultFreeInv, OutcomesBacked, At, CellAs, Savers
<1>17. (~Faults /\ Recover) => RecoveryOnTrack' /\ RecoveredInIndex' /\ CompletedHasResult'
  BY <1>1, <1>4, <1>5 DEF Inv, IInv, FaultFreeInv, RecoveryOnTrack, RecoveredInIndex,
     CompletedHasResult, At, CellAs, Savers
<1>18. (~Faults /\ MaxPolls = 0) => SettleInv'
  BY <1>1, <1>3, <1>4, <1>5 DEF LoadsOwned, Inv, IInv, SettleInv, LeftTo, Carrying,
     At, CellAs, Savers, Active
<1> QED BY <1>6, <1>7, <1>8, <1>9, <1>10, <1>11, <1>12, <1>13, <1>14, <1>15, <1>16,
   <1>17, <1>18 DEF Inv, IInv, FaultFreeInv

(* The save reads the result.                                              *)
LEMMA ReadResultStep ==
  ASSUME Inv, NEW j \in Jobs, NEW s \in Savers, ReadResult(j, s)
  PROVE  Inv'
<1>1. TypeOK
  BY DEF Inv, IInv
<1>2. mem[j] # None /\ RecordOf(j, s) \in Records /\ RecordOf(j, s).result \in BOOLEAN
      /\ thread[j][s] \in Threads
  BY <1>1 DEF ReadResult, Inv, IInv, RecordInMemory, RecordOf, TypeOK, Records
<1>3. /\ s = "cancel" => RecordOf(j, s).status = "cancelled"
      /\ s = "cancel" => thread[j][s].status = "cancelled"
      /\ s # "cancel" \/ pc[j] # "none" => RecordOf(j, s) = mem[j]
  BY DEF ReadResult, Inv, IInv, LoadsOwned, RecordOf, Carrying, At
<1>4. CellAs(j, s, "record", thread[j][s].status, RecordOf(j, s).result,
             thread[j][s].index)
  <2> DEFINE c == [thread[j][s] EXCEPT !.result = RecordOf(j, s).result, !.at = "record"]
  <2>1. /\ c \in Threads /\ c.at = "record" /\ c.status = thread[j][s].status
        /\ c.result = RecordOf(j, s).result /\ c.index = thread[j][s].index
    BY <1>2 DEF Threads, Steps
  <2>2. thread' = [thread EXCEPT ![j][s] = c]
    BY <1>1 DEF ReadResult, TypeOK
  <2> HIDE DEF c
  <2>3. Cell(j, s, c)
    BY <1>1, <2>1, <2>2, CellReplaced
  <2> QED BY <2>1, <2>3 DEF Cell, CellAs
<1>5. /\ At(j, s) = "result"
      /\ UNCHANGED <<mem, pc, record, resultBlob, index, indexLock, acked>>
      /\ UNCHANGED <<cancelAcked, polls, srvCancelled, phase, todo, boots>>
      /\ UNCHANGED <<load, own>>
  BY DEF ReadResult, storageVars, clientVars, loadVars, processVars
<1>6. \A k \in Jobs, t \in Savers : (At(k, t) = "write" <=> indexLock = <<k, t>>)'
  <2>1. \A k \in Jobs, t \in Savers : At(k, t) = "write" <=> indexLock = <<k, t>>
    BY <1>1 DEF TypeOK
  <2> QED BY <1>4, <1>5, <2>1 DEF At, CellAs
<1>7. TypeOK'
  BY <1>1, <1>4, <1>5, <1>6 DEF Inv, IInv, TypeOK, CellAs, Cells
<1>8. SavesOwned'
  BY <1>1, <1>4, <1>5 DEF Inv, IInv, At, SavesOwned, CellAs, Savers
<1>9. LoadsOwned'
  BY <1>1, <1>4, <1>5, CellValues, NoneApart DEF Inv, IInv, LoadsOwned, RecordOf,
     Loading, At, Savers, Loaders, Carrying, CellAs, Cell
<1>10. (~Faults /\ Recover) => LoadsBacked'
  BY <1>1, <1>4, <1>5 DEF Inv, IInv, FaultFreeInv, LoadsBacked, Loading
<1>11. PhasesOrdered' /\ RecordInMemory'
  BY <1>1, <1>4, <1>5 DEF Inv, IInv, At, PhasesOrdered, RecordInMemory, CellAs
<1>12. SavesOrdered'
  BY <1>1, <1>4, <1>5 DEF Inv, IInv, At, SavesOrdered, Carrying, CellAs
<1>13. ResultsFirst'
  BY <1>1, <1>3, NoneApart, <1>4, <1>5 DEF Inv, IInv, At, ResultsFirst, CellAs
<1>14. AcknowledgedSurvives' /\ IndexPointsToBlobs'
  BY <1>1, <1>5 DEF Inv, IInv, AcknowledgedSurvives, IndexPointsToBlobs, At
<1>15. ~Faults => OneOutcome'
  BY <1>1, <1>4, <1>5 DEF LoadsOwned, Inv, IInv, FaultFreeInv, OneOutcome, Carrying,
     At, CellAs, Savers
<1>16. ~Faults => OutcomesBacked'
  BY <1>1, <1>4, <1>5 DEF Inv, IInv, FaultFreeInv, OutcomesBacked, At, CellAs, Savers
<1>17. (~Faults /\ Recover) => RecoveryOnTrack' /\ RecoveredInIndex' /\ CompletedHasResult'
  BY <1>1, <1>4, <1>5 DEF Inv, IInv, FaultFreeInv, RecoveryOnTrack, RecoveredInIndex,
     CompletedHasResult, At, CellAs, Savers
<1>18. (~Faults /\ MaxPolls = 0) => SettleInv'
  BY <1>1, <1>3, <1>4, <1>5 DEF LoadsOwned, Inv, IInv, SettleInv, LeftTo,
     SavesOwned, Carrying, At, CellAs, Savers, Active
<1> QED BY <1>6, <1>7, <1>8, <1>9, <1>10, <1>11, <1>12, <1>13, <1>14, <1>15, <1>16,
   <1>17, <1>18 DEF Inv, IInv, FaultFreeInv

(* record.json is written.                                                 *)
LEMMA PutRecordStep ==
  ASSUME Inv, NEW j \in Jobs, NEW s \in Savers, PutRecord(j, s)
  PROVE  Inv'
<1>1. TypeOK
  BY DEF Inv, IInv
<1>2. thread[j][s] \in Threads /\ thread[j][s].status \in Statuses
  BY <1>1 DEF PutRecord, Inv, IInv, SavesOrdered, Carrying, At, TypeOK, Threads
<1>3. CellAs(j, s, IF thread[j][s].result THEN "blob" ELSE "index",
             thread[j][s].status, thread[j][s].result, thread[j][s].index)
  BY <1>1, CellMoved DEF PutRecord, Steps
<1>4. /\ record' \in [Jobs -> Statuses \cup {None}]
      /\ record'[j] = thread[j][s].status
      /\ \A k \in Jobs \ {j} : record'[k] = record[k]
  BY <1>1, <1>2 DEF PutRecord, TypeOK
<1>5. /\ At(j, s) = "record"
      /\ UNCHANGED <<mem, pc, resultBlob, index, indexLock, acked, cancelAcked>>
      /\ UNCHANGED <<polls, srvCancelled, phase, todo, boots>>
      /\ UNCHANGED <<load, own>>
  BY DEF PutRecord, storageVars, clientVars, loadVars, processVars
<1>6. \A k \in Jobs, t \in Savers : (At(k, t) = "write" <=> indexLock = <<k, t>>)'
  BY <1>1, <1>3, <1>5 DEF TypeOK, At, CellAs
<1>7. TypeOK'
  BY <1>1, <1>3, <1>4, <1>5, <1>6 DEF Inv, IInv, TypeOK, CellAs, Cells
<1>8. SavesOwned'
  BY <1>1, <1>3, <1>5 DEF Inv, IInv, At, SavesOwned, CellAs, Savers
<1>9. LoadsOwned'
  BY <1>1, <1>2, <1>3, <1>4, <1>5, CellValues, NoneApart DEF Inv, IInv, LoadsOwned,
     RecordOf, Loading, At, Savers, Loaders, Carrying, CellAs
<1>10. (~Faults /\ Recover) => LoadsBacked'
  BY <1>1, <1>3, <1>5 DEF Inv, IInv, FaultFreeInv, LoadsBacked, Loading
<1>11. PhasesOrdered' /\ RecordInMemory'
  BY <1>1, <1>3, <1>5 DEF Inv, IInv, At, PhasesOrdered, RecordInMemory, CellAs
<1>12. SavesOrdered'
  BY <1>1, <1>3, <1>4, <1>5 DEF Inv, IInv, At, SavesOrdered, Carrying, CellAs
<1>13. ResultsFirst'
  BY <1>1, <1>3, <1>5 DEF Inv, IInv, At, ResultsFirst, CellAs
<1>14. AcknowledgedSurvives' /\ IndexPointsToBlobs'
  BY <1>1, <1>2, <1>4, <1>5, NoneApart DEF Inv, IInv, TypeOK, AcknowledgedSurvives,
     IndexPointsToBlobs, At
<1>15. ~Faults => OneOutcome'
  <2>1. SUFFICES ASSUME ~Faults PROVE OneOutcome'
    OBVIOUS
  <2>2. OneOutcome /\ thread[j][s].status \in Statuses
    BY <1>2, <2>1 DEF Inv, IInv, FaultFreeInv
  <2> QED BY <1>3, <1>4, <1>5, <2>2, NoneApart DEF OneOutcome, Carrying, At, CellAs,
     Savers
<1>16. ~Faults => OutcomesBacked'
  <2>1. SUFFICES ASSUME ~Faults PROVE OutcomesBacked'
    OBVIOUS
  <2>2. OneOutcome /\ OutcomesBacked /\ SavesOwned /\ LoadsOwned
    BY <2>1 DEF Inv, IInv, FaultFreeInv
  <2>3. s \notin {"cancel", "boot"} => pc[j] # "none"
    BY <1>5, <2>2 DEF SavesOwned, Savers, At
  <2>4. (s = "cancel" => thread[j][s].status = "cancelled")
        /\ (s = "boot" => thread[j][s].status = "failed")
    BY <1>5, <2>2 DEF LoadsOwned, OneOutcome, Carrying, At
  <2>5. pc[j] = "none" => \A t \in Savers \ {s} : At(j, t) = "off"
    BY <1>5, <2>2 DEF SavesOwned, LoadsOwned, Savers, At
  <2>6. thread[j][s].status = "completed" =>
          pc[j] # "none" /\ mem[j].status = "completed"
    BY <2>2, <2>3, <2>4, NoneApart DEF OneOutcome, Active
  <2>7. ASSUME NEW k \in Jobs
        PROVE  (record'[k] = "completed" /\ ~resultBlob[k]) => index[k] \in Active
    BY <1>4, <2>2, <2>6 DEF OutcomesBacked
  <2>8. ASSUME NEW k \in Jobs, NEW t \in Savers, pc[k] = "none",
               At(k, t)' \in {"blob", "index", "write"}
        PROVE  record'[k] = thread'[k][t].status
    <3>1. CASE k = j
      BY <1>3, <1>4, <2>5, <2>8, <3>1 DEF CellAs, At
    <3>2. CASE k # j
      BY <1>3, <1>4, <2>2, <2>8, <3>2 DEF CellAs, At, OutcomesBacked
    <3> QED BY <3>1, <3>2
  <2> QED BY <1>5, <2>2, <2>7, <2>8 DEF OutcomesBacked
<1>17. (~Faults /\ Recover) => RecoveryOnTrack' /\ RecoveredInIndex' /\ CompletedHasResult'
  BY <1>1, <1>3, <1>5 DEF Inv, IInv, FaultFreeInv, RecoveryOnTrack, RecoveredInIndex,
     CompletedHasResult, At, CellAs, Savers
<1>18. (~Faults /\ MaxPolls = 0) => SettleInv'
  BY <1>1, <1>3, <1>4, <1>5, NoneApart DEF Inv, IInv, SettleInv, LeftTo, OneOutcome,
     SavesOwned, LoadsOwned, SavesOrdered, Carrying, At, CellAs, Savers, Active,
     Terminal
<1> QED BY <1>6, <1>7, <1>8, <1>9, <1>10, <1>11, <1>12, <1>13, <1>14, <1>15, <1>16,
   <1>17, <1>18 DEF Inv, IInv, FaultFreeInv

(* result.json is written.                                                 *)
LEMMA PutResultStep ==
  ASSUME Inv, NEW j \in Jobs, NEW s \in Savers, PutResult(j, s)
  PROVE  Inv'
<1>1. TypeOK
  BY DEF Inv, IInv
<1>2. CellAs(j, s, "index", thread[j][s].status, thread[j][s].result,
             thread[j][s].index)
  BY <1>1, CellMoved DEF PutResult, Steps
<1>3. /\ resultBlob' \in [Jobs -> BOOLEAN]
      /\ resultBlob'[j]
      /\ \A k \in Jobs \ {j} : resultBlob'[k] = resultBlob[k]
  BY <1>1 DEF PutResult, TypeOK
<1>4. /\ At(j, s) = "blob"
      /\ UNCHANGED <<mem, pc, record, index, indexLock, acked, cancelAcked>>
      /\ UNCHANGED <<polls, srvCancelled, phase, todo, boots>>
      /\ UNCHANGED <<load, own>>
  BY DEF PutResult, storageVars, clientVars, loadVars, processVars
<1>5. \A k \in Jobs, t \in Savers : (At(k, t) = "write" <=> indexLock = <<k, t>>)'
  BY <1>1, <1>2, <1>4 DEF TypeOK, At, CellAs
<1>6. TypeOK'
  BY <1>1, <1>2, <1>3, <1>4, <1>5 DEF Inv, IInv, TypeOK, CellAs, Cells
<1>7. SavesOwned'
  BY <1>1, <1>2, <1>4 DEF Inv, IInv, At, SavesOwned, CellAs, Savers
<1>8. LoadsOwned'
  BY <1>1, <1>2, <1>4, CellValues, NoneApart DEF Inv, IInv, LoadsOwned, RecordOf,
     Loading, At, Savers, Loaders, Carrying, CellAs
<1>9. (~Faults /\ Recover) => LoadsBacked'
  BY <1>1, <1>2, <1>3, <1>4 DEF Inv, IInv, FaultFreeInv, LoadsBacked, Loading
<1>10. PhasesOrdered' /\ RecordInMemory'
  BY <1>1, <1>2, <1>4 DEF Inv, IInv, At, PhasesOrdered, RecordInMemory, CellAs
<1>11. SavesOrdered'
  BY <1>1, <1>2, <1>4 DEF Inv, IInv, At, SavesOrdered, Carrying, CellAs
<1>12. ResultsFirst'
  BY <1>1, <1>2, <1>3, <1>4 DEF Inv, IInv, At, ResultsFirst, CellAs
<1>13. AcknowledgedSurvives' /\ IndexPointsToBlobs'
  BY <1>1, <1>3, <1>4 DEF Inv, IInv, AcknowledgedSurvives, IndexPointsToBlobs, At
<1>14. ~Faults => OneOutcome'
  BY <1>1, <1>2, <1>4 DEF LoadsOwned, Inv, IInv, FaultFreeInv, OneOutcome, Carrying,
     At, CellAs, Savers
<1>15. ~Faults => OutcomesBacked'
  BY <1>1, <1>2, <1>3, <1>4 DEF Inv, IInv, FaultFreeInv, OutcomesBacked, At, CellAs,
     Savers
<1>16. (~Faults /\ Recover) => RecoveryOnTrack' /\ RecoveredInIndex' /\ CompletedHasResult'
  BY <1>1, <1>2, <1>4 DEF Inv, IInv, FaultFreeInv, RecoveryOnTrack, RecoveredInIndex,
     CompletedHasResult, At, CellAs, Savers
<1>17. (~Faults /\ MaxPolls = 0) => SettleInv'
  BY <1>1, <1>2, <1>3, <1>4 DEF LoadsOwned, Inv, IInv, SettleInv, LeftTo,
     OneOutcome, SavesOwned, SavesOrdered, Carrying, At, CellAs, Savers, Active,
     Terminal
<1> QED BY <1>5, <1>6, <1>7, <1>8, <1>9, <1>10, <1>11, <1>12, <1>13, <1>14, <1>15,
   <1>16, <1>17 DEF Inv, IInv, FaultFreeInv

(* The index is read, under the lock.                                      *)
LEMMA ReadIndexStep ==
  ASSUME Inv, NEW j \in Jobs, NEW s \in Savers, ReadIndex(j, s)
  PROVE  Inv'
<1>1. TypeOK
  BY DEF Inv, IInv
<1>2. thread[j][s] \in Threads /\ index \in [Jobs -> Statuses \cup {None}]
  BY <1>1 DEF TypeOK
<1>3. CellAs(j, s, "write", thread[j][s].status, thread[j][s].result,
             index)
  <2> DEFINE c == [thread[j][s] EXCEPT !.index = index, !.at = "write"]
  <2>1. /\ c \in Threads /\ c.at = "write" /\ c.status = thread[j][s].status
        /\ c.result = thread[j][s].result /\ c.index = index
    BY <1>2 DEF Threads, Steps
  <2>2. thread' = [thread EXCEPT ![j][s] = c]
    BY <1>1 DEF ReadIndex, TypeOK
  <2> HIDE DEF c
  <2>3. Cell(j, s, c)
    BY <1>1, <2>1, <2>2, CellReplaced
  <2> QED BY <2>1, <2>3 DEF Cell, CellAs
<1>4. /\ At(j, s) = "index" /\ indexLock = None /\ indexLock' = <<j, s>>
      /\ UNCHANGED <<mem, pc, record, resultBlob, index, acked, cancelAcked>>
      /\ UNCHANGED <<polls, srvCancelled, phase, todo, boots>>
      /\ UNCHANGED <<load, own>>
  BY DEF ReadIndex, storageVars, clientVars, loadVars, processVars
<1>5. \A k \in Jobs, t \in Savers : (At(k, t) = "write" <=> indexLock = <<k, t>>)'
  BY <1>1, <1>3, <1>4, LockApart DEF TypeOK, At, CellAs
<1>6. TypeOK'
  BY <1>1, <1>3, <1>4, <1>5 DEF Inv, IInv, TypeOK, CellAs, Cells
<1>7. SavesOwned'
  BY <1>1, <1>3, <1>4 DEF Inv, IInv, At, SavesOwned, CellAs, Savers
<1>8. LoadsOwned'
  BY <1>1, <1>3, <1>4, CellValues, NoneApart DEF Inv, IInv, LoadsOwned, RecordOf,
     Loading, At, Savers, Loaders, Carrying, CellAs, Cell
<1>9. (~Faults /\ Recover) => LoadsBacked'
  BY <1>1, <1>3, <1>4 DEF Inv, IInv, FaultFreeInv, LoadsBacked, Loading
<1>10. PhasesOrdered' /\ RecordInMemory'
  BY <1>1, <1>3, <1>4 DEF Inv, IInv, At, PhasesOrdered, RecordInMemory, CellAs
<1>11. SavesOrdered'
  BY <1>1, <1>3, <1>4 DEF Inv, IInv, At, SavesOrdered, Carrying, CellAs
<1>12. ResultsFirst'
  BY <1>1, <1>3, <1>4 DEF Inv, IInv, At, ResultsFirst, CellAs
<1>13. AcknowledgedSurvives' /\ IndexPointsToBlobs'
  BY <1>1, <1>4 DEF Inv, IInv, AcknowledgedSurvives, IndexPointsToBlobs, At
<1>14. ~Faults => OneOutcome'
  BY <1>1, <1>3, <1>4 DEF LoadsOwned, Inv, IInv, FaultFreeInv, OneOutcome, Carrying,
     At, CellAs, Savers, Active
<1>15. ~Faults => OutcomesBacked'
  BY <1>1, <1>3, <1>4 DEF Inv, IInv, FaultFreeInv, OutcomesBacked, At, CellAs, Savers
<1>16. (~Faults /\ Recover) => RecoveryOnTrack' /\ RecoveredInIndex' /\ CompletedHasResult'
  BY <1>1, <1>3, <1>4 DEF Inv, IInv, FaultFreeInv, RecoveryOnTrack, RecoveredInIndex,
     CompletedHasResult, At, CellAs, Savers
<1>17. (~Faults /\ MaxPolls = 0) => SettleInv'
  BY <1>1, <1>2, <1>3, <1>4, NoneApart DEF LoadsOwned, Inv, IInv, FaultFreeInv,
     SettleInv, LeftTo, OneOutcome, SavesOwned, SavesOrdered, Carrying, At, CellAs,
     Savers, Active, Terminal
<1> QED BY <1>5, <1>6, <1>7, <1>8, <1>9, <1>10, <1>11, <1>12, <1>13, <1>14, <1>15,
   <1>16, <1>17 DEF Inv, IInv, FaultFreeInv

(* The index is written, and the lock released.                            *)
LEMMA PutIndexStep ==
  ASSUME Inv, NEW j \in Jobs, NEW s \in Savers, PutIndex(j, s)
  PROVE  Inv'
<1>1. TypeOK
  BY DEF Inv, IInv
<1>2. /\ thread[j][s] \in Threads /\ thread[j][s].status \in Statuses
      /\ thread[j][s].index = index /\ index \in [Jobs -> Statuses \cup {None}]
  BY <1>1 DEF PutIndex, Inv, IInv, SavesOrdered, Carrying, At, TypeOK, Threads
<1>3. indexLock = <<j, s>>
  BY <1>1 DEF PutIndex, TypeOK
<1>4. Cell(j, s, Saved)
  BY <1>1, CellReplaced, CellValues DEF PutIndex, Saved
<1>5. /\ index' \in [Jobs -> Statuses \cup {None}]
      /\ index'[j] = thread[j][s].status
      /\ \A k \in Jobs \ {j} : index'[k] = index[k]
  BY <1>2 DEF PutIndex
<1>6. /\ At(j, s) = "write" /\ indexLock' = None
      /\ UNCHANGED <<mem, pc, record, resultBlob, acked, cancelAcked, polls>>
      /\ UNCHANGED <<srvCancelled, phase, todo, boots>>
      /\ UNCHANGED <<load, own>>
  BY DEF PutIndex, storageVars, clientVars, loadVars, processVars
<1>7. \A k \in Jobs, t \in Savers : (At(k, t) = "write" <=> indexLock = <<k, t>>)'
  <2>1. \A k \in Jobs, t \in Savers : (k # j \/ t # s) => At(k, t) # "write"
    BY <1>1, <1>3 DEF TypeOK
  <2>2. \A k \in Jobs, t \in Savers : At(k, t)' # "write"
    BY <1>4, <2>1, CellValues DEF Cell, At
  <2> QED BY <1>6, <2>2, LockApart
<1>8. TypeOK'
  BY <1>1, <1>4, <1>5, <1>6, <1>7 DEF Inv, IInv, TypeOK, Cell, Cells
<1>9. SavesOwned'
  BY <1>1, <1>4, <1>6 DEF Inv, IInv, At, SavesOwned, Cell, Savers
<1>10. LoadsOwned'
  BY <1>1, <1>4, <1>6, CellValues, NoneApart DEF Inv, IInv, LoadsOwned, RecordOf,
     Loading, At, Savers, Loaders, Carrying, Cell
<1>11. (~Faults /\ Recover) => LoadsBacked'
  BY <1>1, <1>4, <1>6 DEF Inv, IInv, FaultFreeInv, LoadsBacked, Loading
<1>12. PhasesOrdered' /\ RecordInMemory'
  BY <1>1, <1>4, <1>6, CellValues DEF Inv, IInv, At, PhasesOrdered, RecordInMemory,
     Cell
<1>13. SavesOrdered'
  <2>1. SavesOrdered
    BY DEF Inv, IInv
  <2>2. ASSUME NEW k \in Jobs, NEW t \in Savers, k # j \/ t # s
        PROVE  /\ thread'[k][t] = thread[k][t]
               /\ At(k, t) # "write"
               /\ index[k] # None => index'[k] # None
    BY <1>1, <1>2, <1>3, <1>4, <1>5, <2>2, NoneApart DEF Cell, TypeOK, At
  <2>3. thread'[j][s] = Saved /\ index'[j] # None
    BY <1>2, <1>4, <1>5, NoneApart DEF Cell
  <2>4. ASSUME NEW k \in Jobs, NEW t \in Savers
        PROVE  (/\ thread[k][t].status # None <=> At(k, t) \in Carrying
                /\ At(k, t) \in {"blob", "index", "write"} => record[k] # None
                /\ At(k, t) = "write" => thread[k][t].index = index
                /\ At(k, t) = "saved" => index[k] # None)'
    <3>1. CASE k = j /\ t = s
      BY <1>6, <2>3, <3>1, CellValues DEF At, Carrying
    <3>2. CASE k # j \/ t # s
      BY <1>6, <2>1, <2>2, <3>2 DEF At, SavesOrdered
    <3> QED BY <3>1, <3>2
  <2> QED BY <2>4 DEF SavesOrdered
<1>14. ResultsFirst'
  BY <1>1, <1>4, <1>6, CellValues DEF Inv, IInv, At, ResultsFirst, Cell
<1>15. AcknowledgedSurvives' /\ IndexPointsToBlobs'
  BY <1>1, <1>2, <1>5, <1>6, NoneApart DEF Inv, IInv, TypeOK, AcknowledgedSurvives,
     IndexPointsToBlobs, SavesOrdered, At, ResultsFirst
<1>16. ~Faults => OneOutcome'
  <2>1. SUFFICES ASSUME ~Faults PROVE OneOutcome'
    OBVIOUS
  <2>2. OneOutcome
    BY <2>1 DEF Inv, IInv, FaultFreeInv
  <2> QED BY <1>2, <1>4, <1>5, <1>6, <2>2, NoneApart, CellValues DEF OneOutcome,
     Carrying, At, Cell, Savers
<1>17. ~Faults => OutcomesBacked'
  <2>1. SUFFICES ASSUME ~Faults PROVE OutcomesBacked'
    OBVIOUS
  <2>2. OneOutcome /\ OutcomesBacked /\ ResultsFirst
    BY <2>1 DEF Inv, IInv, FaultFreeInv
  <2>3. thread[j][s].status = "completed" => resultBlob[j]
    BY <1>6, <2>2 DEF ResultsFirst, At
  <2>4. pc[j] = "none" => record[j] = thread[j][s].status
    BY <1>6, <2>2 DEF OutcomesBacked
  <2>5. (pc[j] # "none" /\ "completed" \in {record[j], mem[j].status} /\ ~resultBlob[j]) =>
          thread[j][s].status \in Active
    BY <1>2, <2>2, <2>3, NoneApart DEF OneOutcome, Active
  <2>6. ASSUME NEW k \in Jobs
        PROVE  /\ (record[k] = "completed" /\ ~resultBlob[k]) => index'[k] \in Active
               /\ (pc[k] # "none" /\ mem[k].status = "completed") =>
                    resultBlob[k] \/ index'[k] \in Active
    BY <1>5, <2>2, <2>3, <2>4, <2>5 DEF OutcomesBacked
  <2>7. ASSUME NEW k \in Jobs, NEW t \in Savers, pc[k] = "none",
               At(k, t)' \in {"blob", "index", "write"}
        PROVE  record[k] = thread'[k][t].status
    BY <1>4, <2>2, <2>7, CellValues DEF Cell, At, OutcomesBacked
  <2> QED BY <1>6, <2>6, <2>7 DEF OutcomesBacked
<1>18. (~Faults /\ Recover) => RecoveryOnTrack' /\ RecoveredInIndex' /\ CompletedHasResult'
  <2>1. SUFFICES ASSUME ~Faults, Recover
                 PROVE  RecoveryOnTrack' /\ RecoveredInIndex' /\ CompletedHasResult'
    OBVIOUS
  <2>2. /\ RecoveryOnTrack /\ RecoveredInIndex /\ CompletedHasResult /\ OneOutcome
        /\ SavesOwned /\ PhasesOrdered /\ RecordInMemory /\ LoadsOwned
    BY <2>1 DEF Inv, IInv, FaultFreeInv
  <2> QED BY <1>4, <1>5, <1>6, <2>2 DEF RecoveryOnTrack, RecoveredInIndex,
     CompletedHasResult, At, Cell, Savers, Active, OneOutcome, SavesOwned,
     PhasesOrdered, RecordInMemory, LoadsOwned, Carrying
<1>19. (~Faults /\ MaxPolls = 0) => SettleInv'
  BY <1>1, <1>2, <1>4, <1>5, <1>6, NoneApart, CellValues DEF LoadsOwned, Inv, IInv,
     SettleInv, LeftTo, Carrying, At, Cell, Savers, Active, Terminal
<1> QED BY <1>7, <1>8, <1>9, <1>10, <1>11, <1>12, <1>13, <1>14, <1>15, <1>16, <1>17,
   <1>18, <1>19 DEF Inv, IInv, FaultFreeInv

(* A call to the archive fails.                                            *)
LEMMA StorageErrorStep ==
  ASSUME Inv, NEW j \in Jobs, NEW s \in Savers, StorageError(j, s)
  PROVE  Inv'
<1>1. TypeOK
  BY DEF Inv, IInv
<1>2. /\ At(j, s) = "write" <=> indexLock = <<j, s>>
      /\ \A k \in Jobs, t \in Savers : At(k, t) = "write" <=> indexLock = <<k, t>>
  BY <1>1 DEF TypeOK
<1>3. Cell(j, s, Failed)
  BY <1>1, CellReplaced, CellValues DEF StorageError, Failed
<1>4. /\ Faults /\ At(j, s) \in {"record", "blob", "index", "write"}
      /\ indexLock' = IF At(j, s) = "write" THEN None ELSE indexLock
      /\ UNCHANGED <<mem, pc, record, resultBlob, index, acked, cancelAcked>>
      /\ UNCHANGED <<polls, srvCancelled, phase, todo, boots>>
      /\ UNCHANGED <<load, own>>
  BY DEF StorageError, storageVars, clientVars, loadVars, processVars
<1>5. \A k \in Jobs, t \in Savers : (At(k, t) = "write" <=> indexLock = <<k, t>>)'
  <2>1. CASE At(j, s) = "write"
    BY <1>2, <1>3, <1>4, <2>1, CellValues, LockApart DEF At, Cell
  <2>2. CASE At(j, s) # "write"
    BY <1>2, <1>3, <1>4, <2>2, CellValues DEF At, Cell
  <2> QED BY <2>1, <2>2
<1>6. TypeOK'
  BY <1>1, <1>3, <1>4, <1>5 DEF Inv, IInv, TypeOK, Cell, Cells
<1>7. SavesOwned'
  BY <1>1, <1>3, <1>4 DEF Inv, IInv, At, SavesOwned, Cell, Savers
<1>8. LoadsOwned'
  BY <1>1, <1>3, <1>4, CellValues, NoneApart DEF Inv, IInv, LoadsOwned, RecordOf,
     Loading, At, Savers, Loaders, Carrying, Cell
<1>9. (~Faults /\ Recover) => LoadsBacked'
  BY <1>1, <1>3, <1>4 DEF Inv, IInv, FaultFreeInv, LoadsBacked, Loading
<1>10. PhasesOrdered' /\ RecordInMemory'
  BY <1>1, <1>3, <1>4, CellValues DEF Inv, IInv, At, PhasesOrdered, RecordInMemory,
     Cell
<1>11. SavesOrdered'
  BY <1>1, <1>3, <1>4, CellValues DEF Inv, IInv, At, SavesOrdered, Carrying, Cell
<1>12. ResultsFirst'
  BY <1>1, <1>3, <1>4, CellValues DEF Inv, IInv, At, ResultsFirst, Cell
<1>13. AcknowledgedSurvives' /\ IndexPointsToBlobs'
  BY <1>1, <1>4 DEF Inv, IInv, AcknowledgedSurvives, IndexPointsToBlobs, At
<1>14. ~Faults => OneOutcome'
  BY <1>1, <1>4 DEF Inv, IInv, At, Cell
<1>15. ~Faults => OutcomesBacked'
  BY <1>1, <1>4 DEF Inv, IInv, At, Cell
<1>16. (~Faults /\ Recover) => RecoveryOnTrack' /\ RecoveredInIndex' /\ CompletedHasResult'
  BY <1>1, <1>4 DEF Inv, IInv, At, Cell
<1>17. (~Faults /\ MaxPolls = 0) => SettleInv'
  BY <1>1, <1>4 DEF Inv, IInv, At, Cell
<1> QED BY <1>5, <1>6, <1>7, <1>8, <1>9, <1>10, <1>11, <1>12, <1>13, <1>14, <1>15,
   <1>16, <1>17 DEF Inv, IInv, FaultFreeInv

-----------------------------------------------------------------------------
(* submit_job and _run_job.                                                *)

(* submit_job enters a record and starts its first save.                   *)
LEMMA SubmitJobStep ==
  ASSUME Inv, NEW j \in Jobs, SubmitJob(j)
  PROVE  Inv'
<1>1. TypeOK
  BY DEF Inv, IInv
<1>2. At(j, "run") = "off" /\ Cell(j, "run", Fresh)
  BY <1>1, CellSaving DEF SubmitJob, Inv, IInv, SavesOwned, At, Savers
<1>3. Task(j, "submitting")
  BY <1>1, TaskMoved DEF SubmitJob, Places
<1>4. Memory(j, "pending", FALSE)
  BY <1>1, RecordEntered DEF SubmitJob, Statuses, Active
<1>5. /\ phase = "up" /\ pc[j] = "none" /\ mem[j] = None /\ record[j] = None
      /\ UNCHANGED <<record, resultBlob, index, indexLock, acked, cancelAcked>>
      /\ UNCHANGED <<polls, srvCancelled, phase, todo, boots>>
      /\ UNCHANGED <<load, own>>
  BY DEF SubmitJob, storageVars, clientVars, loadVars, processVars
<1>6. \A k \in Jobs, t \in Savers : (At(k, t) = "write" <=> indexLock = <<k, t>>)'
  BY <1>1, <1>2, <1>5, CellValues DEF TypeOK, At, Cell
<1>7. TypeOK'
  BY <1>1, <1>2, <1>3, <1>4, <1>5, <1>6 DEF Inv, IInv, TypeOK, Cell, Cells, Task,
     Memory
<1>8. SavesOwned'
  BY <1>1, <1>2, <1>3, <1>4, <1>5 DEF Inv, IInv, At, SavesOwned, Cell, Task, Memory,
     Savers
<1>9. own[j] = None /\ At(j, "cancel") = "off" /\ \A h \in Loaders : Loading(j, h) = "off"
  BY <1>5 DEF Inv, IInv, LoadsOwned, SavesOwned
<1>10. LoadsOwned'
  BY <1>1, <1>2, <1>3, <1>4, <1>5, <1>9, CellValues, NoneApart DEF Inv, IInv,
     LoadsOwned, RecordOf, Loading, At, Savers, Loaders, Carrying, Cell, Memory,
     Task
<1>11. (~Faults /\ Recover) => LoadsBacked'
  BY <1>1, <1>2, <1>3, <1>4, <1>5 DEF Inv, IInv, FaultFreeInv, LoadsBacked, Loading
<1>12. PhasesOrdered' /\ RecordInMemory'
  BY <1>1, <1>2, <1>3, <1>4, <1>5 DEF Inv, IInv, At, PhasesOrdered, RecordInMemory,
     Cell, Task, Memory
<1>13. SavesOrdered'
  BY <1>1, <1>2, <1>5, CellValues DEF Inv, IInv, At, SavesOrdered, Carrying, Cell
<1>14. ResultsFirst'
  BY <1>1, <1>2, <1>3, <1>4, <1>5, CellValues DEF Inv, IInv, At, RecordInMemory,
     ResultsFirst, Cell, Task, Memory
<1>15. AcknowledgedSurvives' /\ IndexPointsToBlobs'
  BY <1>1, <1>5 DEF Inv, IInv, AcknowledgedSurvives, IndexPointsToBlobs, At
<1>16. ~Faults => OneOutcome'
  BY <1>1, <1>2, <1>3, <1>4, <1>5, CellValues DEF LoadsOwned, Inv, IInv,
     FaultFreeInv, OneOutcome, IndexPointsToBlobs, SavesOwned, SavesOrdered,
     Carrying, At, Cell, Task, Memory, Savers, Active
<1>17. ~Faults => OutcomesBacked'
  BY <1>1, <1>2, <1>3, <1>4, <1>5, CellValues DEF Inv, IInv, FaultFreeInv,
     OutcomesBacked, At, Cell, Task, Memory
<1>18. (~Faults /\ Recover) => RecoveryOnTrack' /\ RecoveredInIndex' /\ CompletedHasResult'
  BY <1>1, <1>3, <1>4, <1>5 DEF Inv, IInv, FaultFreeInv, RecoveryOnTrack,
     RecoveredInIndex, CompletedHasResult, At, Cell, Task, Memory
<1>19. (~Faults /\ MaxPolls = 0) => SettleInv'
  BY <1>1, <1>2, <1>3, <1>4, <1>5 DEF LoadsOwned, Carrying, Inv, IInv, SettleInv,
     LeftTo, At, Cell, Task, Memory, Savers
<1> QED BY <1>6, <1>7, <1>8, <1>10, <1>11, <1>12, <1>13, <1>14, <1>15, <1>16, <1>17,
   <1>18, <1>19 DEF Inv, IInv, FaultFreeInv

(* The submission is answered.                                             *)
LEMMA SubmitReturnsStep ==
  ASSUME Inv, NEW j \in Jobs, SubmitReturns(j)
  PROVE  Inv'
<1>1. TypeOK
  BY DEF Inv, IInv
<1>2. Cell(j, "run", Idle)
  BY <1>1, CellEnded DEF SubmitReturns, Savers
<1>3. Task(j, "spawned")
  BY <1>1, TaskMoved DEF SubmitReturns, Places
<1>4. /\ pc[j] = "submitting" /\ At(j, "run") = "saved"
      /\ acked' = acked \cup {j}
      /\ UNCHANGED <<mem, record, resultBlob, index, indexLock, cancelAcked>>
      /\ UNCHANGED <<polls, srvCancelled, phase, todo, boots>>
      /\ UNCHANGED <<load, own>>
  BY DEF SubmitReturns, storageVars, clientVars, loadVars, processVars
<1>5. \A k \in Jobs, t \in Savers : (At(k, t) = "write" <=> indexLock = <<k, t>>)'
  BY <1>1, <1>2, <1>4, CellValues DEF TypeOK, At, Cell
<1>6. TypeOK'
  BY <1>1, <1>2, <1>3, <1>4, <1>5 DEF Inv, IInv, TypeOK, Cell, Cells, Task
<1>7. SavesOwned'
  BY <1>1, <1>2, <1>3, <1>4, CellValues DEF Inv, IInv, At, SavesOwned, Cell, Task,
     Savers
<1>8. LoadsOwned'
  BY <1>1, <1>2, <1>3, <1>4, CellValues, NoneApart DEF Inv, IInv, LoadsOwned,
     RecordOf, Loading, At, Savers, Loaders, Carrying, Cell, Task
<1>9. (~Faults /\ Recover) => LoadsBacked'
  BY <1>1, <1>2, <1>3, <1>4 DEF Inv, IInv, FaultFreeInv, LoadsBacked, Loading
<1>10. PhasesOrdered' /\ RecordInMemory'
  BY <1>1, <1>2, <1>3, <1>4 DEF Inv, IInv, At, PhasesOrdered, RecordInMemory, Cell,
     Task
<1>11. SavesOrdered'
  BY <1>1, <1>2, <1>4, CellValues DEF Inv, IInv, At, SavesOrdered, Carrying, Cell
<1>12. ResultsFirst'
  BY <1>1, <1>2, <1>3, <1>4, CellValues DEF Inv, IInv, At, ResultsFirst, Cell, Task
<1>13. AcknowledgedSurvives' /\ IndexPointsToBlobs'
  BY <1>1, <1>4 DEF Inv, IInv, AcknowledgedSurvives, IndexPointsToBlobs,
     SavesOrdered, At, Savers
<1>14. ~Faults => OneOutcome'
  BY <1>1, <1>2, <1>3, <1>4, CellValues DEF LoadsOwned, Carrying, Inv, IInv,
     FaultFreeInv, OneOutcome, SavesOrdered, At, Cell, Task, Savers
<1>15. ~Faults => OutcomesBacked'
  BY <1>1, <1>2, <1>3, <1>4 DEF Inv, IInv, FaultFreeInv, OutcomesBacked, At, Cell,
     Task, Savers
<1>16. (~Faults /\ Recover) => RecoveryOnTrack' /\ RecoveredInIndex' /\ CompletedHasResult'
  BY <1>1, <1>2, <1>3, <1>4 DEF Inv, IInv, FaultFreeInv, RecoveryOnTrack,
     RecoveredInIndex, CompletedHasResult, At, Cell, Task, Savers
<1>17. (~Faults /\ MaxPolls = 0) => SettleInv'
  BY <1>1, <1>2, <1>3, <1>4 DEF LoadsOwned, Inv, IInv, SettleInv, LeftTo,
     SavesOwned, Carrying, At, Cell, Task, Savers
<1> QED BY <1>5, <1>6, <1>7, <1>8, <1>9, <1>10, <1>11, <1>12, <1>13, <1>14, <1>15,
   <1>16, <1>17 DEF Inv, IInv, FaultFreeInv

(* The submission fails.                                                   *)
LEMMA SubmitFailsStep ==
  ASSUME Inv, NEW j \in Jobs, SubmitFails(j)
  PROVE  Inv'
<1>1. TypeOK
  BY DEF Inv, IInv
<1>2. Cell(j, "run", Idle)
  BY <1>1, CellEnded DEF SubmitFails, Savers
<1>3. Task(j, "dead")
  BY <1>1, TaskMoved DEF SubmitFails, Places
<1>4. /\ pc[j] = "submitting" /\ At(j, "run") \in {"saved", "failed"}
      /\ ~Faults => At(j, "run") = "failed"
      /\ UNCHANGED <<mem, record, resultBlob, index, indexLock, acked>>
      /\ UNCHANGED <<cancelAcked, polls, srvCancelled, phase, todo, boots>>
      /\ UNCHANGED <<load, own>>
  BY DEF SubmitFails, storageVars, clientVars, loadVars, processVars
<1>5. \A k \in Jobs, t \in Savers : (At(k, t) = "write" <=> indexLock = <<k, t>>)'
  BY <1>1, <1>2, <1>4, CellValues DEF TypeOK, At, Cell
<1>6. TypeOK'
  BY <1>1, <1>2, <1>3, <1>4, <1>5 DEF Inv, IInv, TypeOK, Cell, Cells, Task
<1>7. SavesOwned'
  BY <1>1, <1>2, <1>3, <1>4, CellValues DEF Inv, IInv, At, SavesOwned, Cell, Task,
     Savers
<1>8. LoadsOwned'
  BY <1>1, <1>2, <1>3, <1>4, CellValues, NoneApart DEF Inv, IInv, LoadsOwned,
     RecordOf, Loading, At, Savers, Loaders, Carrying, Cell, Task
<1>9. (~Faults /\ Recover) => LoadsBacked'
  BY <1>1, <1>2, <1>3, <1>4 DEF Inv, IInv, FaultFreeInv, LoadsBacked, Loading
<1>10. PhasesOrdered' /\ RecordInMemory'
  BY <1>1, <1>2, <1>3, <1>4 DEF Inv, IInv, At, PhasesOrdered, RecordInMemory, Cell,
     Task
<1>11. SavesOrdered'
  BY <1>1, <1>2, <1>4, CellValues DEF Inv, IInv, At, SavesOrdered, Carrying, Cell
<1>12. ResultsFirst'
  BY <1>1, <1>2, <1>3, <1>4, CellValues DEF Inv, IInv, At, ResultsFirst, Cell, Task
<1>13. AcknowledgedSurvives' /\ IndexPointsToBlobs'
  BY <1>1, <1>4 DEF Inv, IInv, AcknowledgedSurvives, IndexPointsToBlobs, At
<1>14. ~Faults => OneOutcome'
  BY <1>1, <1>4 DEF LoadsOwned, Carrying, Inv, IInv, FaultFreeInv, OneOutcome, At,
     Cell, Savers
<1>15. ~Faults => OutcomesBacked'
  BY <1>1, <1>4 DEF Inv, IInv, FaultFreeInv, OneOutcome, At, Cell, Savers
<1>16. (~Faults /\ Recover) => RecoveryOnTrack' /\ RecoveredInIndex' /\ CompletedHasResult'
  BY <1>1, <1>2, <1>3, <1>4 DEF Inv, IInv, FaultFreeInv, RecoveryOnTrack,
     RecoveredInIndex, CompletedHasResult, At, Cell, Task, Savers
<1>17. (~Faults /\ MaxPolls = 0) => SettleInv'
  BY <1>1, <1>4 DEF LoadsOwned, Carrying, Inv, IInv, FaultFreeInv, OneOutcome, At,
     Cell, Savers, Active
<1> QED BY <1>5, <1>6, <1>7, <1>8, <1>9, <1>10, <1>11, <1>12, <1>13, <1>14, <1>15,
   <1>16, <1>17 DEF Inv, IInv, FaultFreeInv

(* The task starts.                                                        *)
LEMMA StartRunStep ==
  ASSUME Inv, NEW j \in Jobs, StartRun(j), mem[j].status # "cancelled"
  PROVE  Inv'
<1>1. TypeOK
  BY DEF Inv, IInv
<1>2. At(j, "run") = "off" /\ Cell(j, "run", Fresh)
  BY <1>1, CellSaving DEF StartRun, Inv, IInv, SavesOwned, Up, At, Savers
<1>3. Task(j, "starting")
  BY <1>1, TaskMoved DEF StartRun, Places
<1>4. mem[j] # None /\ Memory(j, "running", mem[j].result)
  BY <1>1, StatusChanged DEF StartRun, Up, Inv, IInv, RecordInMemory, Statuses, Active
<1>5. /\ phase = "up" /\ pc[j] = "spawned" /\ mem[j].status # "cancelled"
      /\ UNCHANGED <<record, resultBlob, index, indexLock, acked, cancelAcked>>
      /\ UNCHANGED <<polls, srvCancelled, phase, todo, boots>>
      /\ UNCHANGED <<load, own>>
  BY DEF StartRun, Up, storageVars, clientVars, loadVars, processVars
<1>6. \A k \in Jobs, t \in Savers : (At(k, t) = "write" <=> indexLock = <<k, t>>)'
  BY <1>1, <1>2, <1>3, <1>4, <1>5, CellValues DEF TypeOK, At, Cell
<1>7. TypeOK'
  BY <1>1, <1>2, <1>3, <1>4, <1>5, <1>6 DEF Inv, IInv, TypeOK, Cell, Cells, Task,
     Memory
<1>8. SavesOwned'
  BY <1>1, <1>2, <1>3, <1>4, <1>5 DEF Inv, IInv, At, SavesOwned, Cell, Task, Memory,
     Savers
<1>9. LoadsOwned'
  BY <1>1, <1>2, <1>3, <1>4, <1>5, CellValues, NoneApart DEF Inv, IInv, LoadsOwned,
     RecordOf, Loading, At, Savers, Loaders, Carrying, Cell, Memory, Task
<1>10. (~Faults /\ Recover) => LoadsBacked'
  BY <1>1, <1>2, <1>3, <1>4, <1>5 DEF Inv, IInv, FaultFreeInv, LoadsBacked, Loading
<1>11. PhasesOrdered' /\ RecordInMemory'
  BY <1>1, <1>2, <1>3, <1>4, <1>5 DEF Inv, IInv, At, PhasesOrdered, RecordInMemory,
     Cell, Task, Memory
<1>12. SavesOrdered'
  BY <1>1, <1>2, <1>5, CellValues DEF Inv, IInv, At, SavesOrdered, Carrying, Cell
<1>13. ResultsFirst'
  BY <1>1, <1>2, <1>3, <1>4, <1>5, CellValues DEF Inv, IInv, At, ResultsFirst, Cell,
     Task, Memory
<1>14. AcknowledgedSurvives' /\ IndexPointsToBlobs'
  BY <1>1, <1>5 DEF Inv, IInv, AcknowledgedSurvives, IndexPointsToBlobs, At
<1>15. ~Faults => OneOutcome'
  BY <1>1, <1>2, <1>3, <1>4, <1>5, CellValues DEF LoadsOwned, Carrying, Inv, IInv,
     FaultFreeInv, OneOutcome, At, Cell, Task, Memory, Savers, Active
<1>16. ~Faults => OutcomesBacked'
  BY <1>1, <1>2, <1>3, <1>4, <1>5, CellValues DEF Inv, IInv, FaultFreeInv,
     OutcomesBacked, At, Cell, Task, Memory
<1>17. (~Faults /\ Recover) => RecoveryOnTrack' /\ RecoveredInIndex' /\ CompletedHasResult'
  BY <1>1, <1>3, <1>4, <1>5 DEF Inv, IInv, FaultFreeInv, RecoveryOnTrack,
     RecoveredInIndex, CompletedHasResult, At, Cell, Task, Memory
<1>18. (~Faults /\ MaxPolls = 0) => SettleInv'
  BY <1>1, <1>2, <1>3, <1>4, <1>5 DEF LoadsOwned, Inv, IInv, SettleInv, LeftTo,
     Carrying, At, Cell, Task, Memory, Savers, Active
<1> QED BY <1>6, <1>7, <1>8, <1>9, <1>10, <1>11, <1>12, <1>13, <1>14, <1>15, <1>16,
   <1>17, <1>18 DEF Inv, IInv, FaultFreeInv

(* The task starts, of a job that has been cancelled.                      *)
LEMMA SkipRunStep ==
  ASSUME Inv, NEW j \in Jobs, StartRun(j), mem[j].status = "cancelled"
  PROVE  Inv'
<1>1. TypeOK
  BY DEF Inv, IInv
<1>2. At(j, "run") = "off" /\ Cell(j, "run", Fresh)
  BY <1>1, CellSaving DEF StartRun, Inv, IInv, SavesOwned, Up, At, Savers
<1>3. Task(j, "skipping")
  BY <1>1, TaskMoved DEF StartRun, Places
<1>4. /\ phase = "up" /\ pc[j] = "spawned" /\ mem[j].status = "cancelled"
      /\ UNCHANGED <<mem, record, resultBlob, index, indexLock, acked>>
      /\ UNCHANGED <<cancelAcked, polls, srvCancelled, phase, todo, boots>>
      /\ UNCHANGED <<load, own>>
  BY DEF StartRun, Up, storageVars, clientVars, loadVars, processVars
<1>5. \A k \in Jobs, t \in Savers : (At(k, t) = "write" <=> indexLock = <<k, t>>)'
  BY <1>1, <1>2, <1>4, CellValues DEF TypeOK, At, Cell
<1>6. TypeOK'
  BY <1>1, <1>2, <1>3, <1>4, <1>5 DEF Inv, IInv, TypeOK, Cell, Cells, Task
<1>7. SavesOwned'
  BY <1>1, <1>2, <1>3, <1>4 DEF Inv, IInv, At, SavesOwned, Cell, Task, Savers
<1>8. LoadsOwned'
  BY <1>1, <1>2, <1>3, <1>4, CellValues, NoneApart DEF Inv, IInv, LoadsOwned,
     RecordOf, Loading, At, Savers, Loaders, Carrying, Cell, Task
<1>9. (~Faults /\ Recover) => LoadsBacked'
  BY <1>1, <1>2, <1>3, <1>4 DEF Inv, IInv, FaultFreeInv, LoadsBacked, Loading
<1>10. PhasesOrdered' /\ RecordInMemory'
  BY <1>1, <1>2, <1>3, <1>4 DEF Inv, IInv, At, PhasesOrdered, RecordInMemory, Cell,
     Task
<1>11. SavesOrdered'
  BY <1>1, <1>2, <1>4, CellValues DEF Inv, IInv, At, SavesOrdered, Carrying, Cell
<1>12. ResultsFirst'
  BY <1>1, <1>2, <1>3, <1>4, CellValues DEF Inv, IInv, At, ResultsFirst, Cell, Task
<1>13. AcknowledgedSurvives' /\ IndexPointsToBlobs'
  BY <1>1, <1>4 DEF Inv, IInv, AcknowledgedSurvives, IndexPointsToBlobs, At
<1>14. ~Faults => OneOutcome'
  BY <1>1, <1>2, <1>3, <1>4, CellValues DEF LoadsOwned, Carrying, Inv, IInv,
     FaultFreeInv, OneOutcome, At, Cell, Task, Savers
<1>15. ~Faults => OutcomesBacked'
  BY <1>1, <1>2, <1>3, <1>4, CellValues DEF Inv, IInv, FaultFreeInv, OutcomesBacked,
     At, Cell, Task
<1>16. (~Faults /\ Recover) => RecoveryOnTrack' /\ RecoveredInIndex' /\ CompletedHasResult'
  BY <1>1, <1>3, <1>4 DEF Inv, IInv, FaultFreeInv, RecoveryOnTrack, RecoveredInIndex,
     CompletedHasResult, At, Cell, Task
<1>17. (~Faults /\ MaxPolls = 0) => SettleInv'
  BY <1>1, <1>2, <1>3, <1>4, CellValues DEF LoadsOwned, Inv, IInv, FaultFreeInv,
     SettleInv, LeftTo, OneOutcome, SavesOwned, SavesOrdered, Carrying, At, Cell,
     Task, Savers
<1> QED BY <1>5, <1>6, <1>7, <1>8, <1>9, <1>10, <1>11, <1>12, <1>13, <1>14, <1>15,
   <1>16, <1>17 DEF Inv, IInv, FaultFreeInv

(* The first save of a task is over.                                       *)
LEMMA StartReturnsStep ==
  ASSUME Inv, NEW j \in Jobs, StartReturns(j)
  PROVE  Inv'
<1>1. TypeOK
  BY DEF Inv, IInv
<1>2. Cell(j, "run", Idle)
  BY <1>1, CellEnded DEF StartReturns, Savers
<1>3. Task(j, IF At(j, "run") = "failed" THEN "dead"
              ELSE IF pc[j] = "skipping" THEN "done" ELSE "executing")
  BY <1>1, TaskMoved DEF StartReturns, Places
<1>4. /\ phase = "up" /\ pc[j] \in {"starting", "skipping"}
      /\ At(j, "run") \in {"saved", "failed"}
      /\ UNCHANGED <<mem, record, resultBlob, index, indexLock, acked>>
      /\ UNCHANGED <<cancelAcked, polls, srvCancelled, phase, todo, boots>>
      /\ UNCHANGED <<load, own>>
  BY DEF StartReturns, Up, storageVars, clientVars, loadVars, processVars
<1>5. \A k \in Jobs, t \in Savers : (At(k, t) = "write" <=> indexLock = <<k, t>>)'
  BY <1>1, <1>2, <1>3, <1>4, CellValues DEF TypeOK, At, Cell
<1>6. TypeOK'
  BY <1>1, <1>2, <1>3, <1>4, <1>5 DEF Inv, IInv, TypeOK, Cell, Cells, Task
<1>7. SavesOwned'
  BY <1>1, <1>2, <1>3, <1>4, CellValues DEF Inv, IInv, At, SavesOwned, Cell, Task,
     Savers
<1>8. LoadsOwned'
  BY <1>1, <1>2, <1>3, <1>4, CellValues, NoneApart DEF Inv, IInv, LoadsOwned,
     RecordOf, Loading, At, Savers, Loaders, Carrying, Cell, Task
<1>9. (~Faults /\ Recover) => LoadsBacked'
  BY <1>1, <1>2, <1>3, <1>4 DEF Inv, IInv, FaultFreeInv, LoadsBacked, Loading
<1>10. PhasesOrdered' /\ RecordInMemory'
  BY <1>1, <1>2, <1>3, <1>4 DEF Inv, IInv, At, PhasesOrdered, RecordInMemory, Cell,
     Task
<1>11. SavesOrdered'
  BY <1>1, <1>2, <1>4, CellValues DEF Inv, IInv, At, SavesOrdered, Carrying, Cell
<1>12. ResultsFirst'
  BY <1>1, <1>2, <1>3, <1>4, CellValues DEF Inv, IInv, At, ResultsFirst, Cell, Task
<1>13. AcknowledgedSurvives' /\ IndexPointsToBlobs'
  BY <1>1, <1>4 DEF Inv, IInv, AcknowledgedSurvives, IndexPointsToBlobs, At
<1>14. ~Faults => OneOutcome'
  BY <1>1, <1>2, <1>3, <1>4, CellValues DEF LoadsOwned, Carrying, Inv, IInv,
     FaultFreeInv, OneOutcome, At, Cell, Task, Savers
<1>15. ~Faults => OutcomesBacked'
  BY <1>1, <1>2, <1>3, <1>4, CellValues DEF Inv, IInv, FaultFreeInv, OutcomesBacked,
     At, Cell, Task
<1>16. (~Faults /\ Recover) => RecoveryOnTrack' /\ RecoveredInIndex' /\ CompletedHasResult'
  BY <1>1, <1>3, <1>4 DEF Inv, IInv, FaultFreeInv, RecoveryOnTrack, RecoveredInIndex,
     CompletedHasResult, At, Cell, Task
<1>17. (~Faults /\ MaxPolls = 0) => SettleInv'
  BY <1>1, <1>2, <1>3, <1>4, CellValues DEF LoadsOwned, Inv, IInv, SettleInv,
     LeftTo, SavesOwned, SavesOrdered, Carrying, At, Cell, Task, Savers, Active,
     Terminal
<1> QED BY <1>5, <1>6, <1>7, <1>8, <1>9, <1>10, <1>11, <1>12, <1>13, <1>14, <1>15,
   <1>16, <1>17 DEF Inv, IInv, FaultFreeInv

(* The task raises.                                                        *)
LEMMA RunRaisesStep ==
  ASSUME Inv, NEW j \in Jobs, RunRaises(j)
  PROVE  Inv'
<1>1. TypeOK
  BY DEF Inv, IInv
<1>2. At(j, "final") = "off" /\ Cell(j, "final", Fresh)
  BY <1>1, CellSaving DEF RunRaises, Finally, Inv, IInv, SavesOwned, Up, At, Savers
<1>3. Task(j, "final")
  BY <1>1, TaskMoved DEF RunRaises, Finally, Places
<1>4. /\ mem[j] # None
      /\ Memory(j, IF mem[j].status = "cancelled" THEN "cancelled" ELSE "failed", mem[j].result)
  BY <1>1, StatusChanged DEF RunRaises, Up, Inv, IInv, RecordInMemory, Statuses,
     Terminal
<1>5. /\ phase = "up" /\ pc[j] \in {"executing", "storing"}
      /\ UNCHANGED <<record, resultBlob, index, indexLock, acked, cancelAcked>>
      /\ UNCHANGED <<polls, srvCancelled, phase, todo, boots>>
      /\ UNCHANGED <<load, own>>
  BY DEF RunRaises, Up, storageVars, clientVars, loadVars, processVars
<1>6. \A k \in Jobs, t \in Savers : (At(k, t) = "write" <=> indexLock = <<k, t>>)'
  BY <1>1, <1>2, <1>3, <1>4, <1>5, CellValues DEF TypeOK, At, Cell
<1>7. TypeOK'
  BY <1>1, <1>2, <1>3, <1>4, <1>5, <1>6 DEF Inv, IInv, TypeOK, Cell, Cells, Task,
     Memory
<1>8. SavesOwned'
  BY <1>1, <1>2, <1>3, <1>4, <1>5 DEF Inv, IInv, At, SavesOwned, Cell, Task, Memory,
     Savers
<1>9. LoadsOwned'
  BY <1>1, <1>2, <1>3, <1>4, <1>5, CellValues, NoneApart DEF Inv, IInv, LoadsOwned,
     RecordOf, Loading, At, Savers, Loaders, Carrying, Cell, Memory, Task
<1>10. (~Faults /\ Recover) => LoadsBacked'
  BY <1>1, <1>2, <1>3, <1>4, <1>5 DEF Inv, IInv, FaultFreeInv, LoadsBacked, Loading
<1>11. PhasesOrdered' /\ RecordInMemory'
  BY <1>1, <1>2, <1>3, <1>4, <1>5 DEF Inv, IInv, At, PhasesOrdered, RecordInMemory,
     Cell, Task, Memory
<1>12. SavesOrdered'
  BY <1>1, <1>2, <1>5, CellValues DEF Inv, IInv, At, SavesOrdered, Carrying, Cell
<1>13. ResultsFirst'
  BY <1>1, <1>2, <1>3, <1>4, <1>5, CellValues DEF Inv, IInv, At, ResultsFirst, Cell,
     Task, Memory
<1>14. AcknowledgedSurvives' /\ IndexPointsToBlobs'
  BY <1>1, <1>5 DEF Inv, IInv, AcknowledgedSurvives, IndexPointsToBlobs, At
<1>15. ~Faults => OneOutcome'
  BY <1>1, <1>2, <1>3, <1>4, <1>5, CellValues DEF LoadsOwned, Inv, IInv,
     FaultFreeInv, OneOutcome, RecordInMemory, SavesOrdered, Carrying, At, Cell,
     Task, Memory, Savers, Active
<1>16. ~Faults => OutcomesBacked'
  BY <1>1, <1>2, <1>3, <1>4, <1>5, CellValues DEF Inv, IInv, FaultFreeInv,
     OutcomesBacked, At, Cell, Task, Memory
<1>17. (~Faults /\ Recover) => RecoveryOnTrack' /\ RecoveredInIndex' /\ CompletedHasResult'
  BY <1>1, <1>3, <1>4, <1>5 DEF Inv, IInv, FaultFreeInv, RecoveryOnTrack,
     RecoveredInIndex, CompletedHasResult, At, Cell, Task, Memory
<1>18. (~Faults /\ MaxPolls = 0) => SettleInv'
  <2>1. SUFFICES ASSUME ~Faults, MaxPolls = 0 PROVE SettleInv'
    OBVIOUS
  <2>2. SettleInv /\ OneOutcome /\ SavesOwned /\ SavesOrdered /\ LoadsOwned
    BY <2>1 DEF Inv, IInv, FaultFreeInv
  <2>3. \A t \in Savers \ {"cancel", "final"} : thread[j][t].status = None
    BY <1>5, <2>2 DEF SettleInv, SavesOwned, SavesOrdered, Carrying, At, Savers
  <2>4. thread[j]["cancel"].status # None =>
          mem[j].status = "cancelled" /\ thread[j]["cancel"].status = "cancelled"
    BY <1>5, <2>2 DEF LoadsOwned, RecordOf, SavesOrdered, Carrying, At, Savers
  <2>5. LeftTo(j, "final")'
    BY <1>2, <1>3, <1>4, <1>5, <2>2, <2>3, <2>4, CellValues DEF LeftTo, Cell,
       Memory, At, OneOutcome
  <2> QED BY <1>2, <1>3, <1>4, <1>5, <2>2, <2>5, CellValues DEF SettleInv, LeftTo,
     Cell, Task, Memory, At, Savers, Terminal
<1> QED BY <1>6, <1>7, <1>8, <1>9, <1>10, <1>11, <1>12, <1>13, <1>14, <1>15, <1>16,
   <1>17, <1>18 DEF Inv, IInv, FaultFreeInv

(* The outcome is entered and saved.                                       *)
LEMMA FinalizeJobStep ==
  ASSUME Inv, NEW j \in Jobs, FinalizeJob(j), mem[j].status # "cancelled"
  PROVE  Inv'
<1>1. TypeOK
  BY DEF Inv, IInv
<1>2. PICK st \in {"completed", "failed"} :
        mem' = [mem EXCEPT ![j] = [status |-> st, result |-> TRUE]]
  BY DEF FinalizeJob
<1>3. At(j, "run") = "off" /\ Cell(j, "run", Fresh)
  BY <1>1, CellSaving DEF FinalizeJob, Inv, IInv, SavesOwned, Up, At, Savers
<1>4. Task(j, "finishing")
  BY <1>1, TaskMoved DEF FinalizeJob, Places
<1>5. Memory(j, st, TRUE)
  BY <1>1, <1>2, RecordEntered DEF Statuses, Terminal
<1>6. /\ phase = "up" /\ pc[j] = "storing" /\ mem[j].status # "cancelled"
      /\ UNCHANGED <<record, resultBlob, index, indexLock, acked, cancelAcked>>
      /\ UNCHANGED <<polls, srvCancelled, phase, todo, boots>>
      /\ UNCHANGED <<load, own>>
  BY DEF FinalizeJob, Up, storageVars, clientVars, loadVars, processVars
<1>7. \A k \in Jobs, t \in Savers : (At(k, t) = "write" <=> indexLock = <<k, t>>)'
  BY <1>1, <1>3, <1>4, <1>5, <1>6, CellValues DEF TypeOK, At, Cell
<1>8. TypeOK'
  BY <1>1, <1>3, <1>4, <1>5, <1>6, <1>7 DEF Inv, IInv, TypeOK, Cell, Cells, Task,
     Memory
<1>9. SavesOwned'
  <2>2. SavesOwned
    BY DEF Inv, IInv
  <2> QED BY <1>2, <1>3, <1>4, <1>5, <1>6, <2>2 DEF SavesOwned, At, Cell, Task,
     Memory, Savers
<1>10. LoadsOwned'
  BY <1>1, <1>2, <1>3, <1>4, <1>6, CellValues, NoneApart DEF Inv, IInv, LoadsOwned,
     RecordOf, Loading, At, Savers, Loaders, Carrying, Cell, Memory, Task
<1>11. (~Faults /\ Recover) => LoadsBacked'
  BY <1>1, <1>2, <1>3, <1>4, <1>6 DEF Inv, IInv, FaultFreeInv, LoadsBacked, Loading
<1>12. PhasesOrdered' /\ RecordInMemory'
  BY <1>1, <1>3, <1>4, <1>5, <1>6 DEF Inv, IInv, At, PhasesOrdered, RecordInMemory,
     Cell, Task, Memory
<1>13. SavesOrdered'
  BY <1>1, <1>3, <1>6, CellValues DEF Inv, IInv, At, SavesOrdered, Carrying, Cell
<1>14. ResultsFirst'
  BY <1>1, <1>2, <1>3, <1>4, <1>6, CellValues DEF Inv, IInv, At, ResultsFirst, Cell,
     Task
<1>15. AcknowledgedSurvives' /\ IndexPointsToBlobs'
  BY <1>1, <1>6 DEF Inv, IInv, AcknowledgedSurvives, IndexPointsToBlobs, At
<1>16. ~Faults => OneOutcome'
  BY <1>1, <1>2, <1>3, <1>4, <1>6, CellValues DEF LoadsOwned, Carrying, Inv, IInv,
     FaultFreeInv, OneOutcome, RecordInMemory, At, Cell, Task, Memory, Savers
<1>17. ~Faults => OutcomesBacked'
  BY <1>1, <1>2, <1>3, <1>4, <1>6, CellValues DEF Inv, IInv, FaultFreeInv,
     OneOutcome, OutcomesBacked, At, Cell, Task
<1>18. (~Faults /\ Recover) => RecoveryOnTrack' /\ RecoveredInIndex' /\ CompletedHasResult'
  BY <1>1, <1>2, <1>4, <1>6 DEF Inv, IInv, FaultFreeInv, RecoveryOnTrack,
     RecoveredInIndex, CompletedHasResult, At, Cell, Task
<1>19. (~Faults /\ MaxPolls = 0) => SettleInv'
  BY <1>1, <1>2, <1>3, <1>4, <1>5, <1>6 DEF LoadsOwned, Carrying, Inv, IInv,
     SettleInv, LeftTo, OneOutcome, SavesOwned, SavesOrdered, At, Cell, Task,
     Memory, Savers, Active, Terminal
<1> QED BY <1>7, <1>8, <1>9, <1>10, <1>11, <1>12, <1>13, <1>14, <1>15, <1>16, <1>17,
   <1>18, <1>19 DEF Inv, IInv, FaultFreeInv

(* The outcome is dropped, because the job has been cancelled.             *)
LEMMA DropOutcomeStep ==
  ASSUME Inv, NEW j \in Jobs, FinalizeJob(j), mem[j].status = "cancelled"
  PROVE  Inv'
<1>1. TypeOK
  BY DEF Inv, IInv
<1>2. Task(j, "registering")
  BY <1>1, TaskMoved DEF FinalizeJob, Places
<1>3. /\ phase = "up" /\ pc[j] = "storing" /\ mem[j].status = "cancelled"
      /\ UNCHANGED <<mem, thread, record, resultBlob, index, indexLock, acked>>
      /\ UNCHANGED <<cancelAcked, polls, srvCancelled, phase, todo, boots>>
      /\ UNCHANGED <<load, own>>
  BY DEF FinalizeJob, Up, storageVars, clientVars, loadVars, processVars
<1>4. \A k \in Jobs, t \in Savers : (At(k, t) = "write" <=> indexLock = <<k, t>>)'
  BY <1>1, <1>2, <1>3 DEF TypeOK, At
<1>5. TypeOK'
  BY <1>1, <1>2, <1>3, <1>4 DEF Inv, IInv, TypeOK, Task
<1>6. SavesOwned'
  BY <1>1, <1>2, <1>3 DEF Inv, IInv, At, SavesOwned, Task
<1>7. LoadsOwned'
  BY <1>1, <1>2, <1>3, CellValues, NoneApart DEF Inv, IInv, LoadsOwned, RecordOf,
     Loading, At, Savers, Loaders, Carrying, Task
<1>8. (~Faults /\ Recover) => LoadsBacked'
  BY <1>1, <1>2, <1>3 DEF Inv, IInv, FaultFreeInv, LoadsBacked, Loading
<1>9. PhasesOrdered' /\ RecordInMemory'
  BY <1>1, <1>2, <1>3 DEF Inv, IInv, At, PhasesOrdered, RecordInMemory, Task
<1>10. SavesOrdered'
  BY <1>1, <1>3 DEF Inv, IInv, At, SavesOrdered
<1>11. ResultsFirst'
  BY <1>1, <1>2, <1>3 DEF Inv, IInv, At, ResultsFirst, Task
<1>12. AcknowledgedSurvives' /\ IndexPointsToBlobs'
  BY <1>1, <1>3 DEF Inv, IInv, AcknowledgedSurvives, IndexPointsToBlobs, At
<1>13. ~Faults => OneOutcome'
  BY <1>1, <1>2, <1>3 DEF LoadsOwned, Carrying, Inv, IInv, FaultFreeInv, OneOutcome,
     At, Task
<1>14. ~Faults => OutcomesBacked'
  BY <1>1, <1>2, <1>3 DEF Inv, IInv, FaultFreeInv, OutcomesBacked, At, Task
<1>15. (~Faults /\ Recover) => RecoveryOnTrack' /\ RecoveredInIndex' /\ CompletedHasResult'
  BY <1>1, <1>2, <1>3 DEF Inv, IInv, FaultFreeInv, RecoveryOnTrack, RecoveredInIndex,
     CompletedHasResult, At, Task
<1>16. (~Faults /\ MaxPolls = 0) => SettleInv'
  BY <1>1, <1>2, <1>3 DEF LoadsOwned, Carrying, Inv, IInv, SettleInv, LeftTo, At,
     Task, Terminal
<1> QED BY <1>4, <1>5, <1>6, <1>7, <1>8, <1>9, <1>10, <1>11, <1>12, <1>13, <1>14,
   <1>15, <1>16 DEF Inv, IInv, FaultFreeInv

(* A load that goes on changes nothing else.                               *)
LEMMA LoadOnlyStep ==
  ASSUME Inv, load' \in [Jobs -> [Loaders -> Loads]],
         UNCHANGED <<mem, own, pc, thread, record, resultBlob, index, indexLock, acked>>,
         UNCHANGED <<cancelAcked, polls, srvCancelled, phase, todo, boots>>,
         LoadsOwned', (~Faults /\ Recover) => LoadsBacked'
  PROVE  Inv'
<1>1. TypeOK /\ TypeOK'
  BY DEF Inv, IInv, TypeOK, At
<1>2. SavesOwned' /\ PhasesOrdered' /\ RecordInMemory' /\ SavesOrdered' /\ ResultsFirst'
  BY DEF Inv, IInv, At, SavesOwned, PhasesOrdered, RecordInMemory, SavesOrdered,
     ResultsFirst
<1>3. AcknowledgedSurvives' /\ IndexPointsToBlobs'
  BY DEF Inv, IInv, AcknowledgedSurvives, IndexPointsToBlobs
<1>4. ~Faults => OneOutcome' /\ OutcomesBacked'
  BY DEF LoadsOwned, Carrying, Inv, FaultFreeInv, OneOutcome, OutcomesBacked, At
<1>5. (~Faults /\ Recover) => RecoveryOnTrack' /\ RecoveredInIndex' /\ CompletedHasResult'
  BY DEF Inv, FaultFreeInv, RecoveryOnTrack, RecoveredInIndex, CompletedHasResult, At
<1>6. (~Faults /\ MaxPolls = 0) => SettleInv'
  BY DEF LoadsOwned, Carrying, Inv, SettleInv, LeftTo, At
<1> QED BY <1>1, <1>2, <1>3, <1>4, <1>5, <1>6 DEF Inv, IInv, FaultFreeInv

(* A record of an earlier process is looked for in vain.                    *)
LEMMA LoadBeginStep ==
  ASSUME Inv, NEW j \in Jobs, NEW h \in Loaders, LoadBegin(j, h)
  PROVE  Inv'
<1>1. TypeOK /\ LoadsOwned
  BY DEF Inv, IInv
<1>2. /\ phase = "up" /\ Known(j) /\ mem[j] = None /\ Loading(j, h) = "off"
      /\ UNCHANGED <<mem, own, pc, thread, record, resultBlob, index, indexLock, acked>>
      /\ UNCHANGED <<cancelAcked, polls, srvCancelled, phase, todo, boots>>
  BY DEF LoadBegin, storageVars, processVars
<1>3. /\ load' \in [Jobs -> [Loaders -> Loads]]
      /\ load'[j][h].at = "record" /\ load'[j][h].status = load[j][h].status
      /\ \A k \in Jobs, g \in Loaders : (k # j \/ g # h) => load'[k][g] = load[k][g]
  <2> DEFINE c == [load[j][h] EXCEPT !.at = "record"]
  <2>1. load[j][h] \in Loads /\ record[j] \in Statuses \cup {None} /\ resultBlob[j] \in BOOLEAN
    BY <1>1 DEF TypeOK
  <2>2. c \in Loads
    BY <2>1 DEF Loads, NoLoad
  <2>3. load' = [load EXCEPT ![j][h] = c]
    BY <1>1, <2>1 DEF LoadBegin, TypeOK, Loads
  <2>4. load'[j][h] = c
    BY <1>1, <2>2, <2>3, LoadReplaced
  <2>5. c.at = "record" /\ c.status = load[j][h].status
    BY <2>1 DEF Loads
  <2> HIDE DEF c
  <2>6. /\ load' \in [Jobs -> [Loaders -> Loads]]
        /\ \A k \in Jobs, g \in Loaders : (k # j \/ g # h) => load'[k][g] = load[k][g]
    BY <1>1, <2>2, <2>3, LoadReplaced
  <2> QED BY <2>4, <2>5, <2>6
<1>4. record[j] # None /\ pc[j] = "none" /\ At(j, "cancel") = "off"
  BY <1>1, <1>2 DEF Inv, IInv, Known, AcknowledgedSurvives, IndexPointsToBlobs,
     RecordInMemory, SavesOwned
<1>5. LoadsOwned'
  BY NoneApart, <1>1, <1>2, <1>3, <1>4 DEF LoadsOwned, Loading, RecordOf, At, Loaders
<1>6. (~Faults /\ Recover) => LoadsBacked'
  BY <1>1, <1>2, <1>3, <1>4, NoneApart DEF Inv, FaultFreeInv, LoadsBacked,
     LoadsOwned, Loading, OutcomesBacked, RecoveredInIndex
<1> QED BY <1>2, <1>3, <1>5, <1>6, LoadOnlyStep

(* Its status is read.                                                     *)
LEMMA LoadRecordStep ==
  ASSUME Inv, NEW j \in Jobs, NEW h \in Loaders, LoadRecord(j, h)
  PROVE  Inv'
<1>1. TypeOK /\ LoadsOwned
  BY DEF Inv, IInv
<1>2. /\ Loading(j, h) = "record"
      /\ UNCHANGED <<mem, own, pc, thread, record, resultBlob, index, indexLock, acked>>
      /\ UNCHANGED <<cancelAcked, polls, srvCancelled, phase, todo, boots>>
  BY DEF LoadRecord, storageVars, processVars
<1>3. /\ load' \in [Jobs -> [Loaders -> Loads]]
      /\ load'[j][h].at = "result" /\ load'[j][h].status = record[j]
      /\ \A k \in Jobs, g \in Loaders : (k # j \/ g # h) => load'[k][g] = load[k][g]
  <2> DEFINE c == [load[j][h] EXCEPT !.at = "result", !.status = record[j]]
  <2>1. load[j][h] \in Loads /\ record[j] \in Statuses \cup {None} /\ resultBlob[j] \in BOOLEAN
    BY <1>1 DEF TypeOK
  <2>2. c \in Loads
    BY <2>1 DEF Loads, NoLoad
  <2>3. load' = [load EXCEPT ![j][h] = c]
    BY <1>1, <2>1 DEF LoadRecord, TypeOK, Loads
  <2>4. load'[j][h] = c
    BY <1>1, <2>2, <2>3, LoadReplaced
  <2>5. c.at = "result" /\ c.status = record[j]
    BY <2>1 DEF Loads
  <2> HIDE DEF c
  <2>6. /\ load' \in [Jobs -> [Loaders -> Loads]]
        /\ \A k \in Jobs, g \in Loaders : (k # j \/ g # h) => load'[k][g] = load[k][g]
    BY <1>1, <2>2, <2>3, LoadReplaced
  <2> QED BY <2>4, <2>5, <2>6
<1>4. LoadsOwned'
  BY NoneApart, <1>1, <1>2, <1>3 DEF LoadsOwned, Loading, RecordOf, At, Loaders
<1>5. (~Faults /\ Recover) => LoadsBacked'
  BY <1>1, <1>2, <1>3, NoneApart DEF Inv, FaultFreeInv, LoadsBacked, LoadsOwned,
     Loading, OutcomesBacked, RecoveredInIndex
<1> QED BY <1>2, <1>3, <1>4, <1>5, LoadOnlyStep

(* Its result is read.                                                     *)
LEMMA LoadResultStep ==
  ASSUME Inv, NEW j \in Jobs, NEW h \in Loaders, LoadResult(j, h)
  PROVE  Inv'
<1>1. TypeOK /\ LoadsOwned
  BY DEF Inv, IInv
<1>2. /\ Loading(j, h) = "result"
      /\ UNCHANGED <<mem, own, pc, thread, record, resultBlob, index, indexLock, acked>>
      /\ UNCHANGED <<cancelAcked, polls, srvCancelled, phase, todo, boots>>
  BY DEF LoadResult, storageVars, processVars
<1>3. /\ load' \in [Jobs -> [Loaders -> Loads]]
      /\ load'[j][h].at = "store" /\ load'[j][h].status = load[j][h].status
      /\ load'[j][h].result = resultBlob[j]
      /\ \A k \in Jobs, g \in Loaders : (k # j \/ g # h) => load'[k][g] = load[k][g]
  <2> DEFINE c == [load[j][h] EXCEPT !.at = "store", !.result = resultBlob[j]]
  <2>1. load[j][h] \in Loads /\ record[j] \in Statuses \cup {None} /\ resultBlob[j] \in BOOLEAN
    BY <1>1 DEF TypeOK
  <2>2. c \in Loads
    BY <2>1 DEF Loads, NoLoad
  <2>3. load' = [load EXCEPT ![j][h] = c]
    BY <1>1, <2>1 DEF LoadResult, TypeOK, Loads
  <2>4. load'[j][h] = c
    BY <1>1, <2>2, <2>3, LoadReplaced
  <2>5. /\ c.at = "store" /\ c.status = load[j][h].status
        /\ c.result = resultBlob[j]
    BY <2>1 DEF Loads
  <2> HIDE DEF c
  <2>6. /\ load' \in [Jobs -> [Loaders -> Loads]]
        /\ \A k \in Jobs, g \in Loaders : (k # j \/ g # h) => load'[k][g] = load[k][g]
    BY <1>1, <2>2, <2>3, LoadReplaced
  <2> QED BY <2>4, <2>5, <2>6
<1>4. LoadsOwned'
  BY NoneApart, <1>1, <1>2, <1>3 DEF LoadsOwned, Loading, RecordOf, At, Loaders
<1>5. (~Faults /\ Recover) => LoadsBacked'
  BY <1>1, <1>2, <1>3, NoneApart DEF Inv, FaultFreeInv, LoadsBacked, LoadsOwned,
     Loading, OutcomesBacked, RecoveredInIndex
<1> QED BY <1>2, <1>3, <1>4, <1>5, LoadOnlyStep

(* The load fails.                                                         *)
LEMMA LoadFailsStep ==
  ASSUME Inv, NEW j \in Jobs, NEW h \in Loaders, LoadFails(j, h)
  PROVE  Inv'
<1>1. TypeOK /\ LoadsOwned
  BY DEF Inv, IInv
<1>2. /\ Loading(j, h) \in {"record", "result"}
      /\ UNCHANGED <<mem, own, pc, thread, record, resultBlob, index, indexLock, acked>>
      /\ UNCHANGED <<cancelAcked, polls, srvCancelled, phase, todo, boots>>
  BY DEF LoadFails, storageVars, processVars
<1>3. /\ load' \in [Jobs -> [Loaders -> Loads]]
      /\ load'[j][h] = NoLoad
      /\ \A k \in Jobs, g \in Loaders : (k # j \/ g # h) => load'[k][g] = load[k][g]
  BY <1>1 DEF LoadFails, TypeOK, Loads, NoLoad
<1>4. LoadsOwned'
  BY NoneApart, <1>1, <1>2, <1>3 DEF LoadsOwned, Loading, NoLoad, RecordOf, At,
     Loaders
<1>5. (~Faults /\ Recover) => LoadsBacked'
  BY <1>1, <1>2, <1>3, NoneApart DEF Inv, FaultFreeInv, LoadsBacked, LoadsOwned,
     Loading, NoLoad, OutcomesBacked, RecoveredInIndex
<1> QED BY <1>2, <1>3, <1>4, <1>5, LoadOnlyStep

(* What was read is put in memory.                                         *)
LEMMA LoadStoreStep ==
  ASSUME Inv, NEW j \in Jobs, NEW h \in Loaders, LoadStore(j, h)
  PROVE  Inv'
<1>1. TypeOK
  BY DEF Inv, IInv
<1>2. Memory(j, load[j][h].status, load[j][h].result)
  <2>1. load[j][h].status \in Statuses /\ load[j][h].result \in BOOLEAN
    BY <1>1 DEF Inv, IInv, TypeOK, LoadsOwned, LoadStore, Loads, Loading
  <2> QED BY <1>1, <2>1, RecordEntered DEF LoadStore
<1>3. /\ phase = "up" /\ pc[j] = "none" /\ record[j] # None /\ load[j][h].status # None
      /\ Loading(j, h) = "store"
      /\ h = "cancel" => At(j, "cancel") = "off"
      /\ UNCHANGED <<pc, record, resultBlob, index, indexLock, acked>>
      /\ UNCHANGED <<cancelAcked, polls, srvCancelled, phase, todo, boots>>
  BY DEF LoadStore, Inv, IInv, LoadsOwned, Loading, storageVars, processVars
<1>4. /\ load' \in [Jobs -> [Loaders -> Loads]] /\ load'[j][h] = NoLoad
      /\ \A k \in Jobs, g \in Loaders : (k # j \/ g # h) => load'[k][g] = load[k][g]
  BY <1>1 DEF LoadStore, TypeOK, NoLoad, Loads
<1>5. /\ own' \in [Jobs -> Records \cup {None}]
      /\ own'[j] = IF At(j, "cancel") # "off" /\ own[j] = None THEN mem[j] ELSE own[j]
      /\ \A k \in Jobs \ {j} : own'[k] = own[k]
  BY <1>1 DEF LoadStore, TypeOK
<1>6. /\ thread' \in Cells
      /\ \A k \in Jobs, t \in Savers : (k # j \/ t # "cancel") => thread'[k][t] = thread[k][t]
      /\ \/ thread'[j]["cancel"] = thread[j]["cancel"] /\ h # "cancel"
         \/ /\ thread'[j]["cancel"].at = "asked" /\ h = "cancel"
            /\ thread'[j]["cancel"].status = thread[j]["cancel"].status
  <2>1. CASE h = "cancel"
    <3>1. CellAs(j, "cancel", "asked", thread[j]["cancel"].status,
                 thread[j]["cancel"].result, thread[j]["cancel"].index)
      BY <1>1, <2>1, CellMoved DEF LoadStore, Steps, Savers
    <3> QED BY <2>1, <3>1 DEF CellAs
  <2>2. CASE h # "cancel"
    BY <1>1, <2>2 DEF LoadStore, TypeOK, Cells
  <2> QED BY <2>1, <2>2
<1>7. /\ mem[j] # None => mem[j] \in Records
      /\ At(j, "cancel") # "off" => mem[j] # None
      /\ \A t \in {"run", "final", "progress", "boot"} : At(j, t) = "off"
  BY <1>1, <1>3 DEF Inv, IInv, TypeOK, SavesOwned
<1>8. \A k \in Jobs, t \in Savers :
        \/ thread'[k][t] = thread[k][t]
        \/ /\ k = j /\ t = "cancel" /\ h = "cancel" /\ thread[k][t].at = "off"
           /\ thread'[k][t].at = "asked" /\ thread'[k][t].status = thread[k][t].status
  BY <1>3, <1>6 DEF At
<1>9. \A k \in Jobs, t \in Savers : (At(k, t) = "write" <=> indexLock = <<k, t>>)'
  BY <1>1, <1>2, <1>3, <1>7, <1>8 DEF TypeOK, At
<1>10. TypeOK'
  BY <1>1, <1>2, <1>3, <1>4, <1>5, <1>6, <1>9 DEF Inv, IInv, TypeOK, Memory, Cells
<1>11. SavesOwned'
  BY <1>2, <1>3, <1>8 DEF Inv, IInv, At, SavesOwned, Memory, Savers
<1>12. LoadsOwned'
  BY <1>1, <1>2, <1>3, <1>4, <1>5, <1>7, <1>8, CellValues, NoneApart DEF Inv, IInv,
     LoadsOwned, RecordOf, Loading, NoLoad, At, Savers, Loaders, Carrying, Memory
<1>13. (~Faults /\ Recover) => LoadsBacked'
  BY <1>1, <1>3, <1>4, NoneApart DEF Inv, FaultFreeInv, LoadsBacked, Loading, NoLoad
<1>14. PhasesOrdered' /\ RecordInMemory'
  BY <1>1, <1>2, <1>3, <1>7, <1>8 DEF Inv, IInv, At, PhasesOrdered, RecordInMemory,
     Memory
<1>15. SavesOrdered'
  BY <1>3, <1>8 DEF Inv, IInv, At, SavesOrdered, Carrying
<1>16. ResultsFirst'
  <2>1. ResultsFirst /\ RecordInMemory
    BY DEF Inv, IInv
  <2>2. \A t \in Savers : thread[j][t].status # "completed"
    BY <1>3, <1>7, NoneApart DEF Inv, IInv, LoadsOwned, SavesOrdered, Carrying, At,
       Savers
  <2> QED BY <1>2, <1>3, <1>8, <2>1, <2>2 DEF ResultsFirst, Memory, At
<1>17. AcknowledgedSurvives' /\ IndexPointsToBlobs'
  BY <1>1, <1>3, <1>7, <1>8 DEF Inv, IInv, AcknowledgedSurvives, IndexPointsToBlobs,
     At
<1>18. ~Faults => OneOutcome'
  BY <1>1, <1>2, <1>3, <1>7, <1>8 DEF LoadsOwned, Inv, IInv, FaultFreeInv,
     OneOutcome, RecordInMemory, SavesOwned, SavesOrdered, Carrying, At, Memory,
     Savers
<1>19. ~Faults => OutcomesBacked'
  BY <1>1, <1>2, <1>3, <1>7, <1>8 DEF Inv, IInv, FaultFreeInv, OutcomesBacked, At,
     Memory
<1>20. (~Faults /\ Recover) => RecoveryOnTrack' /\ RecoveredInIndex' /\ CompletedHasResult'
  BY <1>2, <1>3 DEF Inv, FaultFreeInv, RecoveryOnTrack, RecoveredInIndex,
     CompletedHasResult, LoadsBacked, Memory
<1>21. (~Faults /\ MaxPolls = 0) => SettleInv'
  <2>1. SUFFICES ASSUME ~Faults, MaxPolls = 0 PROVE SettleInv'
    OBVIOUS
  <2>2. SettleInv
    BY <2>1 DEF Inv
  <2>3. \A k \in Jobs : pc[k] # "none" => k # j /\ \A t \in Savers : thread'[k][t] = thread[k][t]
    BY <1>3, <1>8
  <2> QED BY <1>2, <1>3, <1>8, <2>2, <2>3 DEF SettleInv, LeftTo, At, Memory, Savers
<1> QED BY <1>9, <1>10, <1>11, <1>12, <1>13, <1>14, <1>15, <1>16, <1>17, <1>18,
   <1>19, <1>20, <1>21 DEF Inv, IInv, FaultFreeInv

(* The server is asked for the progress.                                   *)
LEMMA PollProgressStep ==
  ASSUME Inv, NEW j \in Jobs, PollProgress(j)
  PROVE  Inv'
<1>1. TypeOK
  BY DEF Inv, IInv
<1>2. CellAs(j, "progress", "asked", thread[j]["progress"].status,
             thread[j]["progress"].result, thread[j]["progress"].index)
  BY <1>1, CellMoved DEF PollProgress, Steps, Savers
<1>3. /\ phase = "up" /\ mem[j] # None /\ pc[j] # "none"
      /\ At(j, "progress") = "off"
      /\ polls < MaxPolls /\ polls' = polls + 1
      /\ UNCHANGED <<mem, pc, record, resultBlob, index, indexLock, acked>>
      /\ UNCHANGED <<cancelAcked, srvCancelled, phase, todo, boots>>
      /\ UNCHANGED <<load, own>>
  BY DEF PollProgress, Known, storageVars, clientVars, loadVars, processVars
<1>4. \A k \in Jobs, t \in Savers : (At(k, t) = "write" <=> indexLock = <<k, t>>)'
  <2>1. \A k \in Jobs, t \in Savers : At(k, t) = "write" <=> indexLock = <<k, t>>
    BY <1>1 DEF TypeOK
  <2> QED BY <1>2, <1>3, <2>1 DEF At, CellAs
<1>5. TypeOK'
  BY <1>1, <1>2, <1>3, <1>4, LifecycleAssumption DEF Inv, IInv, TypeOK, CellAs, Cells
<1>6. SavesOwned'
  BY <1>1, <1>2, <1>3 DEF Inv, IInv, At, SavesOwned, CellAs, Savers
<1>7. LoadsOwned'
  BY <1>1, <1>2, <1>3, CellValues, NoneApart DEF Inv, IInv, LoadsOwned, RecordOf,
     Loading, At, Savers, Loaders, Carrying, CellAs
<1>8. (~Faults /\ Recover) => LoadsBacked'
  BY <1>1, <1>2, <1>3 DEF Inv, IInv, FaultFreeInv, LoadsBacked, Loading
<1>9. PhasesOrdered' /\ RecordInMemory'
  BY <1>1, <1>2, <1>3 DEF Inv, IInv, At, PhasesOrdered, RecordInMemory, CellAs
<1>10. SavesOrdered'
  BY <1>1, <1>2, <1>3 DEF Inv, IInv, At, SavesOrdered, Carrying, CellAs
<1>11. ResultsFirst'
  BY <1>1, <1>2, <1>3 DEF Inv, IInv, At, ResultsFirst, CellAs
<1>12. AcknowledgedSurvives' /\ IndexPointsToBlobs'
  BY <1>1, <1>3 DEF Inv, IInv, AcknowledgedSurvives, IndexPointsToBlobs, At
<1>13. ~Faults => OneOutcome'
  BY <1>1, <1>2, <1>3 DEF LoadsOwned, Carrying, Inv, IInv, FaultFreeInv, OneOutcome,
     At, CellAs, Savers
<1>14. ~Faults => OutcomesBacked'
  BY <1>1, <1>2, <1>3, CellValues DEF Inv, IInv, FaultFreeInv, OutcomesBacked, At,
     CellAs
<1>15. (~Faults /\ Recover) => RecoveryOnTrack' /\ RecoveredInIndex' /\ CompletedHasResult'
  BY <1>1, <1>3 DEF Inv, IInv, FaultFreeInv, RecoveryOnTrack, RecoveredInIndex,
     CompletedHasResult, At, CellAs
<1>16. (~Faults /\ MaxPolls = 0) => SettleInv'
  BY <1>1, <1>3 DEF Inv, IInv, Carrying, At, CellAs, Active, Terminal, TypeOK
<1> QED BY <1>4, <1>5, <1>6, <1>7, <1>8, <1>9, <1>10, <1>11, <1>12, <1>13, <1>14,
   <1>15, <1>16 DEF Inv, IInv, FaultFreeInv

(* Progress that has changed is saved.                                     *)
LEMMA ApplyProgressStep ==
  ASSUME Inv, NEW j \in Jobs, ApplyProgress(j), thread' = Saving(j, "progress")
  PROVE  Inv'
<1>1. TypeOK
  BY DEF Inv, IInv
<1>2. Cell(j, "progress", Fresh)
  BY <1>1, CellSaving DEF Savers
<1>3. /\ At(j, "progress") = "asked"
      /\ UNCHANGED <<mem, pc, record, resultBlob, index, indexLock, acked>>
      /\ UNCHANGED <<cancelAcked, polls, srvCancelled, phase, todo, boots>>
      /\ UNCHANGED <<load, own>>
  BY DEF ApplyProgress, storageVars, clientVars, loadVars, processVars
<1>4. \A k \in Jobs, t \in Savers : (At(k, t) = "write" <=> indexLock = <<k, t>>)'
  BY <1>1, <1>2, <1>3, CellValues DEF TypeOK, At, Cell
<1>5. TypeOK'
  BY <1>1, <1>2, <1>3, <1>4 DEF Inv, IInv, TypeOK, Cell, Cells
<1>6. SavesOwned'
  BY <1>1, <1>2, <1>3 DEF Inv, IInv, At, SavesOwned, Cell, Savers
<1>7. LoadsOwned'
  BY <1>1, <1>2, <1>3, CellValues, NoneApart DEF Inv, IInv, LoadsOwned, RecordOf,
     Loading, At, Savers, Loaders, Carrying, Cell
<1>8. (~Faults /\ Recover) => LoadsBacked'
  BY <1>1, <1>2, <1>3 DEF Inv, IInv, FaultFreeInv, LoadsBacked, Loading
<1>9. PhasesOrdered' /\ RecordInMemory'
  BY <1>1, <1>2, <1>3 DEF Inv, IInv, At, PhasesOrdered, RecordInMemory, Cell
<1>10. SavesOrdered'
  BY <1>1, <1>2, <1>3, CellValues DEF Inv, IInv, At, SavesOrdered, Carrying, Cell
<1>11. ResultsFirst'
  BY <1>1, <1>2, <1>3, CellValues DEF Inv, IInv, At, ResultsFirst, Cell
<1>12. AcknowledgedSurvives' /\ IndexPointsToBlobs'
  BY <1>1, <1>3 DEF Inv, IInv, AcknowledgedSurvives, IndexPointsToBlobs, At
<1>13. ~Faults => OneOutcome'
  BY <1>1, <1>2, <1>3, CellValues DEF LoadsOwned, Carrying, Inv, IInv, FaultFreeInv,
     OneOutcome, At, Cell, Savers
<1>14. ~Faults => OutcomesBacked'
  BY <1>1, <1>2, <1>3, CellValues DEF Inv, IInv, FaultFreeInv, OutcomesBacked, At,
     Cell, Savers
<1>15. (~Faults /\ Recover) => RecoveryOnTrack' /\ RecoveredInIndex' /\ CompletedHasResult'
  BY <1>1, <1>2, <1>3 DEF Inv, IInv, FaultFreeInv, RecoveryOnTrack, RecoveredInIndex,
     CompletedHasResult, At, Cell, Savers
<1>16. (~Faults /\ MaxPolls = 0) => SettleInv'
  BY <1>1, <1>3 DEF LoadsOwned, Carrying, Inv, IInv, SettleInv, At, Cell
<1> QED BY <1>4, <1>5, <1>6, <1>7, <1>8, <1>9, <1>10, <1>11, <1>12, <1>13, <1>14,
   <1>15, <1>16 DEF Inv, IInv, FaultFreeInv

(* Progress that has not changed is not saved.                             *)
LEMMA SameProgressStep ==
  ASSUME Inv, NEW j \in Jobs, ApplyProgress(j), thread' = Ended(j, "progress")
  PROVE  Inv'
<1>1. TypeOK
  BY DEF Inv, IInv
<1>2. Cell(j, "progress", Idle)
  BY <1>1, CellEnded DEF ApplyProgress, Savers
<1>3. /\ At(j, "progress") = "asked"
      /\ UNCHANGED <<mem, pc, record, resultBlob, index, indexLock, acked>>
      /\ UNCHANGED <<cancelAcked, polls, srvCancelled, phase, todo, boots>>
      /\ UNCHANGED <<load, own>>
  BY DEF ApplyProgress, storageVars, clientVars, loadVars, processVars
<1>4. \A k \in Jobs, t \in Savers : (At(k, t) = "write" <=> indexLock = <<k, t>>)'
  BY <1>1, <1>2, <1>3, CellValues DEF TypeOK, At, Cell
<1>5. TypeOK'
  BY <1>1, <1>2, <1>3, <1>4 DEF Inv, IInv, TypeOK, Cell, Cells
<1>6. SavesOwned'
  BY <1>1, <1>2, <1>3 DEF Inv, IInv, At, SavesOwned, Cell, Savers
<1>7. LoadsOwned'
  BY <1>1, <1>2, <1>3, CellValues, NoneApart DEF Inv, IInv, LoadsOwned, RecordOf,
     Loading, At, Savers, Loaders, Carrying, Cell
<1>8. (~Faults /\ Recover) => LoadsBacked'
  BY <1>1, <1>2, <1>3 DEF Inv, IInv, FaultFreeInv, LoadsBacked, Loading
<1>9. PhasesOrdered' /\ RecordInMemory'
  BY <1>1, <1>2, <1>3 DEF Inv, IInv, At, PhasesOrdered, RecordInMemory, Cell
<1>10. SavesOrdered'
  BY <1>1, <1>2, <1>3, CellValues DEF Inv, IInv, At, SavesOrdered, Carrying, Cell
<1>11. ResultsFirst'
  BY <1>1, <1>2, <1>3, CellValues DEF Inv, IInv, At, ResultsFirst, Cell
<1>12. AcknowledgedSurvives' /\ IndexPointsToBlobs'
  BY <1>1, <1>3 DEF Inv, IInv, AcknowledgedSurvives, IndexPointsToBlobs, At
<1>13. ~Faults => OneOutcome'
  BY <1>1, <1>2, <1>3, CellValues DEF LoadsOwned, Carrying, Inv, IInv, FaultFreeInv,
     OneOutcome, At, Cell, Savers
<1>14. ~Faults => OutcomesBacked'
  BY <1>1, <1>2, <1>3, CellValues DEF Inv, IInv, FaultFreeInv, OutcomesBacked, At,
     Cell, Savers
<1>15. (~Faults /\ Recover) => RecoveryOnTrack' /\ RecoveredInIndex' /\ CompletedHasResult'
  BY <1>1, <1>2, <1>3 DEF Inv, IInv, FaultFreeInv, RecoveryOnTrack, RecoveredInIndex,
     CompletedHasResult, At, Cell, Savers
<1>16. (~Faults /\ MaxPolls = 0) => SettleInv'
  BY <1>1, <1>3 DEF LoadsOwned, Carrying, Inv, IInv, SettleInv, At, Cell, Active
<1> QED BY <1>4, <1>5, <1>6, <1>7, <1>8, <1>9, <1>10, <1>11, <1>12, <1>13, <1>14,
   <1>15, <1>16 DEF Inv, IInv, FaultFreeInv

(* execute returns.                                                        *)
LEMMA ExecuteReturnsStep ==
  ASSUME Inv, NEW j \in Jobs, ExecuteReturns(j)
  PROVE  Inv'
<1>1. TypeOK
  BY DEF Inv, IInv
<1>2. Task(j, "storing")
  BY <1>1, TaskMoved DEF ExecuteReturns, Places
<1>3. /\ phase = "up" /\ pc[j] = "executing"
      /\ UNCHANGED <<mem, thread, record, resultBlob, index, indexLock, acked>>
      /\ UNCHANGED <<cancelAcked, polls, srvCancelled, phase, todo, boots>>
      /\ UNCHANGED <<load, own>>
  BY DEF ExecuteReturns, Up, storageVars, clientVars, loadVars, processVars
<1>4. \A k \in Jobs, t \in Savers : (At(k, t) = "write" <=> indexLock = <<k, t>>)'
  BY <1>1, <1>2, <1>3 DEF TypeOK, At
<1>5. TypeOK'
  BY <1>1, <1>2, <1>3, <1>4 DEF Inv, IInv, TypeOK, Task
<1>6. SavesOwned'
  BY <1>1, <1>2, <1>3 DEF Inv, IInv, At, SavesOwned, Task
<1>7. LoadsOwned'
  BY <1>1, <1>2, <1>3, CellValues, NoneApart DEF Inv, IInv, LoadsOwned, RecordOf,
     Loading, At, Savers, Loaders, Carrying, Task
<1>8. (~Faults /\ Recover) => LoadsBacked'
  BY <1>1, <1>2, <1>3 DEF Inv, IInv, FaultFreeInv, LoadsBacked, Loading
<1>9. PhasesOrdered' /\ RecordInMemory'
  BY <1>1, <1>2, <1>3 DEF Inv, IInv, At, PhasesOrdered, RecordInMemory, Task
<1>10. SavesOrdered'
  BY <1>1, <1>3 DEF Inv, IInv, At, SavesOrdered
<1>11. ResultsFirst'
  BY <1>1, <1>2, <1>3 DEF Inv, IInv, At, ResultsFirst, Task
<1>12. AcknowledgedSurvives' /\ IndexPointsToBlobs'
  BY <1>1, <1>3 DEF Inv, IInv, AcknowledgedSurvives, IndexPointsToBlobs, At
<1>13. ~Faults => OneOutcome'
  BY <1>1, <1>2, <1>3 DEF LoadsOwned, Carrying, Inv, IInv, FaultFreeInv, OneOutcome,
     At, Task
<1>14. ~Faults => OutcomesBacked'
  BY <1>1, <1>2, <1>3 DEF Inv, IInv, FaultFreeInv, OutcomesBacked, At, Task
<1>15. (~Faults /\ Recover) => RecoveryOnTrack' /\ RecoveredInIndex' /\ CompletedHasResult'
  BY <1>1, <1>2, <1>3 DEF Inv, IInv, FaultFreeInv, RecoveryOnTrack, RecoveredInIndex,
     CompletedHasResult, At, Task
<1>16. (~Faults /\ MaxPolls = 0) => SettleInv'
  BY <1>1, <1>2, <1>3 DEF LoadsOwned, Carrying, Inv, IInv, SettleInv, LeftTo, At,
     Task, Active
<1> QED BY <1>4, <1>5, <1>6, <1>7, <1>8, <1>9, <1>10, <1>11, <1>12, <1>13, <1>14,
   <1>15, <1>16 DEF Inv, IInv, FaultFreeInv

(* execute reports the cancellation.                                       *)
LEMMA ExecuteCancelledStep ==
  ASSUME Inv, NEW j \in Jobs, ExecuteCancelled(j)
  PROVE  Inv'
<1>1. TypeOK
  BY DEF Inv, IInv
<1>2. At(j, "final") = "off" /\ Cell(j, "final", Fresh)
  BY <1>1, CellSaving DEF ExecuteCancelled, Finally, Inv, IInv, SavesOwned, Up, At,
     Savers
<1>3. Task(j, "final")
  BY <1>1, TaskMoved DEF ExecuteCancelled, Finally, Places
<1>4. /\ phase = "up" /\ pc[j] = "executing" /\ j \in srvCancelled
      /\ UNCHANGED <<mem, record, resultBlob, index, indexLock, acked>>
      /\ UNCHANGED <<cancelAcked, polls, srvCancelled, phase, todo, boots>>
      /\ UNCHANGED <<load, own>>
  BY DEF ExecuteCancelled, Up, storageVars, clientVars, loadVars, processVars
<1>5. \A k \in Jobs, t \in Savers : (At(k, t) = "write" <=> indexLock = <<k, t>>)'
  BY <1>1, <1>2, <1>3, <1>4, CellValues DEF TypeOK, At, Cell
<1>6. TypeOK'
  BY <1>1, <1>2, <1>3, <1>4, <1>5 DEF Inv, IInv, TypeOK, Cell, Cells, Task
<1>7. SavesOwned'
  BY <1>1, <1>2, <1>3, <1>4 DEF Inv, IInv, At, SavesOwned, Cell, Task, Savers
<1>8. LoadsOwned'
  BY <1>1, <1>2, <1>3, <1>4, CellValues, NoneApart DEF Inv, IInv, LoadsOwned,
     RecordOf, Loading, At, Savers, Loaders, Carrying, Cell, Task
<1>9. (~Faults /\ Recover) => LoadsBacked'
  BY <1>1, <1>2, <1>3, <1>4 DEF Inv, IInv, FaultFreeInv, LoadsBacked, Loading
<1>10. PhasesOrdered' /\ RecordInMemory'
  BY <1>1, <1>2, <1>3, <1>4 DEF Inv, IInv, At, PhasesOrdered, RecordInMemory, Cell,
     Task
<1>11. SavesOrdered'
  BY <1>1, <1>2, <1>4, CellValues DEF Inv, IInv, At, SavesOrdered, Carrying, Cell
<1>12. ResultsFirst'
  BY <1>1, <1>2, <1>3, <1>4, CellValues DEF Inv, IInv, At, ResultsFirst, Cell, Task
<1>13. AcknowledgedSurvives' /\ IndexPointsToBlobs'
  BY <1>1, <1>4 DEF Inv, IInv, AcknowledgedSurvives, IndexPointsToBlobs, At
<1>14. ~Faults => OneOutcome'
  BY <1>1, <1>2, <1>3, <1>4, CellValues DEF LoadsOwned, Carrying, Inv, IInv,
     FaultFreeInv, OneOutcome, At, Cell, Task, Savers
<1>15. ~Faults => OutcomesBacked'
  BY <1>1, <1>2, <1>3, <1>4, CellValues DEF Inv, IInv, FaultFreeInv, OutcomesBacked,
     At, Cell, Task
<1>16. (~Faults /\ Recover) => RecoveryOnTrack' /\ RecoveredInIndex' /\ CompletedHasResult'
  BY <1>1, <1>3, <1>4 DEF Inv, IInv, FaultFreeInv, RecoveryOnTrack, RecoveredInIndex,
     CompletedHasResult, At, Cell, Task
<1>17. (~Faults /\ MaxPolls = 0) => SettleInv'
  BY <1>1, <1>2, <1>3, <1>4, CellValues DEF LoadsOwned, Carrying, Inv, IInv,
     FaultFreeInv, SettleInv, LeftTo, OneOutcome, SavesOwned, SavesOrdered, At,
     Cell, Task, Savers, Active, Terminal
<1> QED BY <1>5, <1>6, <1>7, <1>8, <1>9, <1>10, <1>11, <1>12, <1>13, <1>14, <1>15,
   <1>16, <1>17 DEF Inv, IInv, FaultFreeInv

(* The outcome has been saved.                                             *)
LEMMA FinishReturnsStep ==
  ASSUME Inv, NEW j \in Jobs, FinishReturns(j)
  PROVE  Inv'
<1>1. TypeOK
  BY DEF Inv, IInv
<1>2. Cell(j, "run", Idle)
  BY <1>1, CellEnded DEF FinishReturns, Savers
<1>3. Task(j, "registering")
  BY <1>1, TaskMoved DEF FinishReturns, Places
<1>4. /\ phase = "up" /\ pc[j] = "finishing" /\ At(j, "run") = "saved"
      /\ UNCHANGED <<mem, record, resultBlob, index, indexLock, acked>>
      /\ UNCHANGED <<cancelAcked, polls, srvCancelled, phase, todo, boots>>
      /\ UNCHANGED <<load, own>>
  BY DEF FinishReturns, Up, storageVars, clientVars, loadVars, processVars
<1>5. \A k \in Jobs, t \in Savers : (At(k, t) = "write" <=> indexLock = <<k, t>>)'
  BY <1>1, <1>2, <1>4, CellValues DEF TypeOK, At, Cell
<1>6. TypeOK'
  BY <1>1, <1>2, <1>3, <1>4, <1>5 DEF Inv, IInv, TypeOK, Cell, Cells, Task
<1>7. SavesOwned'
  BY <1>1, <1>2, <1>3, <1>4, CellValues DEF Inv, IInv, At, SavesOwned, Cell, Task,
     Savers
<1>8. LoadsOwned'
  BY <1>1, <1>2, <1>3, <1>4, CellValues, NoneApart DEF Inv, IInv, LoadsOwned,
     RecordOf, Loading, At, Savers, Loaders, Carrying, Cell, Task
<1>9. (~Faults /\ Recover) => LoadsBacked'
  BY <1>1, <1>2, <1>3, <1>4 DEF Inv, IInv, FaultFreeInv, LoadsBacked, Loading
<1>10. PhasesOrdered' /\ RecordInMemory'
  BY <1>1, <1>2, <1>3, <1>4 DEF Inv, IInv, At, PhasesOrdered, RecordInMemory, Cell,
     Task
<1>11. SavesOrdered'
  BY <1>1, <1>2, <1>4, CellValues DEF Inv, IInv, At, SavesOrdered, Carrying, Cell
<1>12. ResultsFirst'
  BY <1>1, <1>2, <1>3, <1>4, CellValues DEF Inv, IInv, At, ResultsFirst, Cell, Task
<1>13. AcknowledgedSurvives' /\ IndexPointsToBlobs'
  BY <1>1, <1>4 DEF Inv, IInv, AcknowledgedSurvives, IndexPointsToBlobs, At
<1>14. ~Faults => OneOutcome'
  BY <1>1, <1>2, <1>3, <1>4, CellValues DEF LoadsOwned, Carrying, Inv, IInv,
     FaultFreeInv, OneOutcome, At, Cell, Task, Savers
<1>15. ~Faults => OutcomesBacked'
  BY <1>1, <1>2, <1>3, <1>4, CellValues DEF Inv, IInv, FaultFreeInv, OutcomesBacked,
     At, Cell, Task
<1>16. (~Faults /\ Recover) => RecoveryOnTrack' /\ RecoveredInIndex' /\ CompletedHasResult'
  BY <1>1, <1>3, <1>4 DEF Inv, IInv, FaultFreeInv, RecoveryOnTrack, RecoveredInIndex,
     CompletedHasResult, At, Cell, Task
<1>17. (~Faults /\ MaxPolls = 0) => SettleInv'
  BY <1>1, <1>2, <1>3, <1>4 DEF LoadsOwned, Inv, IInv, SettleInv, LeftTo,
     SavesOwned, SavesOrdered, Carrying, At, Cell, Task, Savers
<1> QED BY <1>5, <1>6, <1>7, <1>8, <1>9, <1>10, <1>11, <1>12, <1>13, <1>14, <1>15,
   <1>16, <1>17 DEF Inv, IInv, FaultFreeInv

(* The save of the outcome fails, and with it the task.                    *)
LEMMA FinishFailsStep ==
  ASSUME Inv, NEW j \in Jobs, FinishFails(j)
  PROVE  Inv'
<1>1. TypeOK
  BY DEF Inv, IInv
<1>2. /\ At(j, "run") = "failed" /\ At(j, "final") = "off" /\ mem[j] # None
      /\ phase = "up" /\ pc[j] = "finishing"
  BY DEF FinishFails, Up, Inv, IInv, SavesOwned, RecordInMemory
<1>3. /\ thread' \in Cells
      /\ thread'[j]["run"] = Idle /\ thread'[j]["final"] = Fresh
      /\ \A k \in Jobs, t \in Savers :
           (k # j \/ t \notin {"run", "final"}) => thread'[k][t] = thread[k][t]
  BY <1>1, CellValues DEF FinishFails, TypeOK, Cells, Savers, Fresh
<1>4. Task(j, "final")
  BY <1>1, TaskMoved DEF FinishFails, Places
<1>5. Memory(j, IF mem[j].status = "cancelled" THEN "cancelled" ELSE "failed", mem[j].result)
  BY <1>1, <1>2, StatusChanged DEF FinishFails, Statuses, Terminal
<1>6. /\ UNCHANGED <<record, resultBlob, index, indexLock, acked, cancelAcked>>
      /\ UNCHANGED <<polls, srvCancelled, phase, todo, boots>>
      /\ UNCHANGED <<load, own>>
  BY DEF FinishFails, storageVars, clientVars, loadVars, processVars
<1>7. \A k \in Jobs, t \in Savers : (At(k, t) = "write" <=> indexLock = <<k, t>>)'
  BY <1>1, <1>2, <1>3, <1>4, <1>5, <1>6, CellValues DEF TypeOK, At
<1>8. TypeOK'
  BY <1>1, <1>3, <1>4, <1>5, <1>6, <1>7 DEF Inv, IInv, TypeOK, Cells, Task, Memory
<1>9. SavesOwned'
  BY <1>1, <1>2, <1>3, <1>4, <1>5, CellValues DEF Inv, IInv, At, SavesOwned, Task,
     Memory, Savers
<1>10. LoadsOwned'
  BY <1>1, <1>2, <1>3, <1>4, <1>5, <1>6, CellValues, NoneApart DEF Inv, IInv,
     LoadsOwned, RecordOf, Loading, At, Savers, Loaders, Carrying, Memory, Task
<1>11. (~Faults /\ Recover) => LoadsBacked'
  BY <1>1, <1>6 DEF Inv, IInv, FaultFreeInv, LoadsBacked, Loading
<1>12. PhasesOrdered' /\ RecordInMemory'
  BY <1>1, <1>2, <1>3, <1>4, <1>5, <1>6 DEF Inv, IInv, At, PhasesOrdered,
     RecordInMemory, Task, Memory
<1>13. SavesOrdered'
  BY <1>1, <1>3, <1>6, CellValues DEF Inv, IInv, At, SavesOrdered, Carrying
<1>14. ResultsFirst'
  BY <1>1, <1>3, <1>4, <1>5, <1>6, CellValues DEF Inv, IInv, At, ResultsFirst, Task,
     Memory
<1>15. AcknowledgedSurvives' /\ IndexPointsToBlobs'
  BY <1>1, <1>6 DEF Inv, IInv, AcknowledgedSurvives, IndexPointsToBlobs, At
<1>16. ~Faults => OneOutcome'
  BY <1>1, <1>2 DEF LoadsOwned, Carrying, Inv, IInv, FaultFreeInv, OneOutcome, At,
     Savers
<1>17. ~Faults => OutcomesBacked'
  BY <1>2 DEF Inv, FaultFreeInv, OneOutcome, Savers
<1>18. (~Faults /\ Recover) => RecoveryOnTrack' /\ RecoveredInIndex' /\ CompletedHasResult'
  BY <1>1, <1>2, <1>4, <1>5, <1>6 DEF Inv, IInv, FaultFreeInv, RecoveryOnTrack,
     RecoveredInIndex, CompletedHasResult, At, Task, Memory
<1>19. (~Faults /\ MaxPolls = 0) => SettleInv'
  BY <1>1, <1>2 DEF LoadsOwned, Carrying, Inv, IInv, FaultFreeInv, OneOutcome, At,
     Task, Memory, Savers, Active
<1> QED BY <1>7, <1>8, <1>9, <1>10, <1>11, <1>12, <1>13, <1>14, <1>15, <1>16, <1>17,
   <1>18, <1>19 DEF Inv, IInv, FaultFreeInv

(* Resources are registered, and the finally block begins.                 *)
LEMMA RegisterDoneStep ==
  ASSUME Inv, NEW j \in Jobs, RegisterDone(j)
  PROVE  Inv'
<1>1. TypeOK
  BY DEF Inv, IInv
<1>2. At(j, "final") = "off" /\ Cell(j, "final", Fresh)
  BY <1>1, CellSaving DEF RegisterDone, Finally, Inv, IInv, SavesOwned, Up, At, Savers
<1>3. Task(j, "final")
  BY <1>1, TaskMoved DEF RegisterDone, Finally, Places
<1>4. /\ phase = "up" /\ pc[j] = "registering"
      /\ UNCHANGED <<mem, record, resultBlob, index, indexLock, acked>>
      /\ UNCHANGED <<cancelAcked, polls, srvCancelled, phase, todo, boots>>
      /\ UNCHANGED <<load, own>>
  BY DEF RegisterDone, Up, storageVars, clientVars, loadVars, processVars
<1>5. \A k \in Jobs, t \in Savers : (At(k, t) = "write" <=> indexLock = <<k, t>>)'
  BY <1>1, <1>2, <1>4, CellValues DEF TypeOK, At, Cell
<1>6. TypeOK'
  BY <1>1, <1>2, <1>3, <1>4, <1>5 DEF Inv, IInv, TypeOK, Cell, Cells, Task
<1>7. SavesOwned'
  BY <1>1, <1>2, <1>3, <1>4 DEF Inv, IInv, At, SavesOwned, Cell, Task, Savers
<1>8. LoadsOwned'
  BY <1>1, <1>2, <1>3, <1>4, CellValues, NoneApart DEF Inv, IInv, LoadsOwned,
     RecordOf, Loading, At, Savers, Loaders, Carrying, Cell, Task
<1>9. (~Faults /\ Recover) => LoadsBacked'
  BY <1>1, <1>2, <1>3, <1>4 DEF Inv, IInv, FaultFreeInv, LoadsBacked, Loading
<1>10. PhasesOrdered' /\ RecordInMemory'
  BY <1>1, <1>2, <1>3, <1>4 DEF Inv, IInv, At, PhasesOrdered, RecordInMemory, Cell,
     Task
<1>11. SavesOrdered'
  BY <1>1, <1>2, <1>4, CellValues DEF Inv, IInv, At, SavesOrdered, Carrying, Cell
<1>12. ResultsFirst'
  BY <1>1, <1>2, <1>3, <1>4, CellValues DEF Inv, IInv, At, ResultsFirst, Cell, Task
<1>13. AcknowledgedSurvives' /\ IndexPointsToBlobs'
  BY <1>1, <1>4 DEF Inv, IInv, AcknowledgedSurvives, IndexPointsToBlobs, At
<1>14. ~Faults => OneOutcome'
  BY <1>1, <1>2, <1>3, <1>4, CellValues DEF LoadsOwned, Carrying, Inv, IInv,
     FaultFreeInv, OneOutcome, At, Cell, Task, Savers
<1>15. ~Faults => OutcomesBacked'
  BY <1>1, <1>2, <1>3, <1>4, CellValues DEF Inv, IInv, FaultFreeInv, OutcomesBacked,
     At, Cell, Task
<1>16. (~Faults /\ Recover) => RecoveryOnTrack' /\ RecoveredInIndex' /\ CompletedHasResult'
  BY <1>1, <1>3, <1>4 DEF Inv, IInv, FaultFreeInv, RecoveryOnTrack, RecoveredInIndex,
     CompletedHasResult, At, Cell, Task
<1>17. (~Faults /\ MaxPolls = 0) => SettleInv'
  <2>1. SUFFICES ASSUME ~Faults, MaxPolls = 0 PROVE SettleInv'
    OBVIOUS
  <2>2. SettleInv /\ OneOutcome /\ SavesOwned /\ SavesOrdered /\ LoadsOwned
    BY <2>1 DEF Inv, IInv, FaultFreeInv
  <2>3. \A t \in Savers \ {"cancel", "final"} : thread[j][t].status = None
    BY <1>4, <2>2 DEF SettleInv, SavesOwned, SavesOrdered, Carrying, At, Savers
  <2>4. thread[j]["cancel"].status # None =>
          mem[j].status = "cancelled" /\ thread[j]["cancel"].status = "cancelled"
    BY <1>4, <2>2 DEF LoadsOwned, RecordOf, SavesOrdered, Carrying, At, Savers
  <2>5. LeftTo(j, "final")'
    BY <1>2, <1>3, <1>4, <2>2, <2>3, <2>4, CellValues DEF LeftTo, Cell, At, OneOutcome
  <2> QED BY <1>2, <1>3, <1>4, <2>2, <2>5, CellValues DEF SettleInv, LeftTo, Cell,
     Task, At, Savers, Terminal
<1> QED BY <1>5, <1>6, <1>7, <1>8, <1>9, <1>10, <1>11, <1>12, <1>13, <1>14, <1>15,
   <1>16, <1>17 DEF Inv, IInv, FaultFreeInv

(* The last save of a task is over.                                        *)
LEMMA FinalReturnsStep ==
  ASSUME Inv, NEW j \in Jobs, FinalReturns(j)
  PROVE  Inv'
<1>1. TypeOK
  BY DEF Inv, IInv
<1>2. Cell(j, "final", Idle)
  BY <1>1, CellEnded DEF FinalReturns, Savers
<1>3. Task(j, "done")
  BY <1>1, TaskMoved DEF FinalReturns, Places
<1>4. /\ pc[j] = "final" /\ phase \in {"up", "draining"}
      /\ At(j, "final") \in {"saved", "failed"}
      /\ UNCHANGED <<mem, record, resultBlob, index, indexLock, acked>>
      /\ UNCHANGED <<cancelAcked, polls, srvCancelled, phase, todo, boots>>
      /\ UNCHANGED <<load, own>>
  BY DEF FinalReturns, storageVars, clientVars, loadVars, processVars
<1>5. \A k \in Jobs, t \in Savers : (At(k, t) = "write" <=> indexLock = <<k, t>>)'
  BY <1>1, <1>2, <1>4, CellValues DEF TypeOK, At, Cell
<1>6. TypeOK'
  BY <1>1, <1>2, <1>3, <1>4, <1>5 DEF Inv, IInv, TypeOK, Cell, Cells, Task
<1>7. SavesOwned'
  BY <1>1, <1>2, <1>3, <1>4, CellValues DEF Inv, IInv, At, SavesOwned, Cell, Task,
     Savers
<1>8. LoadsOwned'
  BY <1>1, <1>2, <1>3, <1>4, CellValues, NoneApart DEF Inv, IInv, LoadsOwned,
     RecordOf, Loading, At, Savers, Loaders, Carrying, Cell, Task
<1>9. (~Faults /\ Recover) => LoadsBacked'
  BY <1>1, <1>2, <1>3, <1>4 DEF Inv, IInv, FaultFreeInv, LoadsBacked, Loading
<1>10. PhasesOrdered' /\ RecordInMemory'
  BY <1>1, <1>2, <1>3, <1>4 DEF Inv, IInv, At, PhasesOrdered, RecordInMemory, Cell,
     Task
<1>11. SavesOrdered'
  BY <1>1, <1>2, <1>4, CellValues DEF Inv, IInv, At, SavesOrdered, Carrying, Cell
<1>12. ResultsFirst'
  BY <1>1, <1>2, <1>3, <1>4, CellValues DEF Inv, IInv, At, ResultsFirst, Cell, Task
<1>13. AcknowledgedSurvives' /\ IndexPointsToBlobs'
  BY <1>1, <1>4 DEF Inv, IInv, AcknowledgedSurvives, IndexPointsToBlobs, At
<1>14. ~Faults => OneOutcome'
  BY <1>1, <1>2, <1>3, <1>4, CellValues DEF LoadsOwned, Carrying, Inv, IInv,
     FaultFreeInv, OneOutcome, At, Cell, Task, Savers
<1>15. ~Faults => OutcomesBacked'
  BY <1>1, <1>2, <1>3, <1>4, CellValues DEF Inv, IInv, FaultFreeInv, OutcomesBacked,
     At, Cell, Task
<1>16. (~Faults /\ Recover) => RecoveryOnTrack' /\ RecoveredInIndex' /\ CompletedHasResult'
  BY <1>1, <1>3, <1>4 DEF Inv, IInv, FaultFreeInv, RecoveryOnTrack, RecoveredInIndex,
     CompletedHasResult, At, Cell, Task
<1>17. (~Faults /\ MaxPolls = 0) => SettleInv'
  BY <1>1, <1>2, <1>3, <1>4, CellValues DEF LoadsOwned, Inv, IInv, SettleInv,
     LeftTo, Carrying, At, Cell, Task, Savers, Active
<1> QED BY <1>5, <1>6, <1>7, <1>8, <1>9, <1>10, <1>11, <1>12, <1>13, <1>14, <1>15,
   <1>16, <1>17 DEF Inv, IInv, FaultFreeInv

-----------------------------------------------------------------------------
(* The other handlers.                                                     *)

(* The cancellation is answered.                                           *)
LEMMA CancelReturnsStep ==
  ASSUME Inv, NEW j \in Jobs, CancelReturns(j)
  PROVE  Inv'
<1>1. TypeOK
  BY DEF Inv, IInv
<1>2. Cell(j, "cancel", Idle)
  BY <1>1, CellEnded DEF CancelReturns, Savers
<1>3. /\ At(j, "cancel") = "saved"
      /\ srvCancelled' = srvCancelled \cup {j} /\ cancelAcked' = cancelAcked \cup {j}
      /\ UNCHANGED <<mem, pc, record, resultBlob, index, indexLock, acked, polls>>
      /\ UNCHANGED <<phase, todo, boots, load>>
      /\ own' \in [Jobs -> Records \cup {None}] /\ own'[j] = None
      /\ \A k \in Jobs \ {j} : own'[k] = own[k]
  BY <1>1 DEF TypeOK, CancelReturns, storageVars, clientVars, loadVars, processVars
<1>4. \A k \in Jobs, t \in Savers : (At(k, t) = "write" <=> indexLock = <<k, t>>)'
  BY <1>1, <1>2, <1>3, CellValues DEF TypeOK, At, Cell
<1>5. TypeOK'
  BY <1>1, <1>2, <1>3, <1>4 DEF Inv, IInv, TypeOK, Cell, Cells
<1>6. SavesOwned'
  BY <1>1, <1>2, <1>3 DEF Inv, IInv, At, SavesOwned, Cell, Savers
<1>7. LoadsOwned'
  BY <1>1, <1>2, <1>3, CellValues, NoneApart DEF Inv, IInv, LoadsOwned, RecordOf,
     Loading, At, Savers, Loaders, Carrying, Cell
<1>8. (~Faults /\ Recover) => LoadsBacked'
  BY <1>1, <1>2, <1>3 DEF Inv, IInv, FaultFreeInv, LoadsBacked, Loading
<1>9. PhasesOrdered' /\ RecordInMemory'
  BY <1>1, <1>2, <1>3, CellValues DEF Inv, IInv, At, PhasesOrdered, RecordInMemory,
     Cell
<1>10. SavesOrdered'
  BY <1>1, <1>2, <1>3, CellValues DEF Inv, IInv, At, SavesOrdered, Carrying, Cell
<1>11. ResultsFirst'
  BY <1>1, <1>2, <1>3, CellValues DEF Inv, IInv, At, ResultsFirst, Cell
<1>12. AcknowledgedSurvives' /\ IndexPointsToBlobs'
  BY <1>1, <1>3 DEF Inv, IInv, AcknowledgedSurvives, IndexPointsToBlobs, At
<1>13. ~Faults => OneOutcome'
  BY <1>1, <1>2, <1>3, CellValues DEF LoadsOwned, Inv, IInv, FaultFreeInv,
     OneOutcome, Carrying, At, Cell, Savers
<1>14. ~Faults => OutcomesBacked'
  BY <1>1, <1>2, <1>3, CellValues DEF Inv, IInv, FaultFreeInv, OutcomesBacked, At,
     Cell, Savers
<1>15. (~Faults /\ Recover) => RecoveryOnTrack' /\ RecoveredInIndex' /\ CompletedHasResult'
  BY <1>1, <1>2, <1>3 DEF Inv, IInv, FaultFreeInv, RecoveryOnTrack, RecoveredInIndex,
     CompletedHasResult, At, Cell, Savers
<1>16. (~Faults /\ MaxPolls = 0) => SettleInv'
  <2>1. SUFFICES ASSUME ~Faults, MaxPolls = 0 PROVE SettleInv'
    OBVIOUS
  <2>2. SettleInv /\ SavesOwned /\ LoadsOwned /\ SavesOrdered /\ IndexPointsToBlobs
    BY <2>1 DEF Inv, IInv, FaultFreeInv
  <2> QED BY <1>1, <1>2, <1>3, CellValues, <2>2 DEF SettleInv, LeftTo, SavesOwned,
     LoadsOwned, RecordOf, SavesOrdered, IndexPointsToBlobs, Carrying, At, Cell,
     Savers, Active
<1> QED BY <1>4, <1>5, <1>6, <1>7, <1>8, <1>9, <1>10, <1>11, <1>12, <1>13, <1>14,
   <1>15, <1>16 DEF Inv, IInv, FaultFreeInv

(* The save of a cancellation fails.                                       *)
LEMMA CancelFailsStep ==
  ASSUME Inv, NEW j \in Jobs, CancelFails(j)
  PROVE  Inv'
<1>1. TypeOK
  BY DEF Inv, IInv
<1>2. Cell(j, "cancel", Idle)
  BY <1>1, CellEnded DEF CancelFails, Savers
<1>3. /\ At(j, "cancel") = "failed"
      /\ UNCHANGED <<mem, pc, record, resultBlob, index, indexLock, acked>>
      /\ UNCHANGED <<cancelAcked, polls, srvCancelled, phase, todo, boots, load>>
      /\ own' \in [Jobs -> Records \cup {None}] /\ own'[j] = None
      /\ \A k \in Jobs \ {j} : own'[k] = own[k]
  BY <1>1 DEF TypeOK, CancelFails, storageVars, clientVars, loadVars, processVars
<1>4. \A k \in Jobs, t \in Savers : (At(k, t) = "write" <=> indexLock = <<k, t>>)'
  BY <1>1, <1>2, <1>3, CellValues DEF TypeOK, At, Cell
<1>5. TypeOK'
  BY <1>1, <1>2, <1>3, <1>4 DEF Inv, IInv, TypeOK, Cell, Cells
<1>6. SavesOwned'
  BY <1>1, <1>2, <1>3 DEF Inv, IInv, At, SavesOwned, Cell, Savers
<1>7. LoadsOwned'
  BY <1>1, <1>2, <1>3, CellValues, NoneApart DEF Inv, IInv, LoadsOwned, RecordOf,
     Loading, At, Savers, Loaders, Carrying, Cell
<1>8. (~Faults /\ Recover) => LoadsBacked'
  BY <1>1, <1>2, <1>3 DEF Inv, IInv, FaultFreeInv, LoadsBacked, Loading
<1>9. PhasesOrdered' /\ RecordInMemory'
  BY <1>1, <1>2, <1>3, CellValues DEF Inv, IInv, At, PhasesOrdered, RecordInMemory,
     Cell
<1>10. SavesOrdered'
  BY <1>1, <1>2, <1>3, CellValues DEF Inv, IInv, At, SavesOrdered, Carrying, Cell
<1>11. ResultsFirst'
  BY <1>1, <1>2, <1>3, CellValues DEF Inv, IInv, At, ResultsFirst, Cell
<1>12. AcknowledgedSurvives' /\ IndexPointsToBlobs'
  BY <1>1, <1>3 DEF Inv, IInv, AcknowledgedSurvives, IndexPointsToBlobs, At
<1>13. ~Faults => OneOutcome'
  BY <1>1, <1>3 DEF LoadsOwned, Carrying, Inv, IInv, FaultFreeInv, OneOutcome, At,
     Cell, Savers
<1>14. ~Faults => OutcomesBacked'
  BY <1>1, <1>3 DEF Inv, IInv, FaultFreeInv, OneOutcome, At, Cell, Savers
<1>15. (~Faults /\ Recover) => RecoveryOnTrack' /\ RecoveredInIndex' /\ CompletedHasResult'
  BY <1>1, <1>2, <1>3 DEF Inv, IInv, FaultFreeInv, RecoveryOnTrack, RecoveredInIndex,
     CompletedHasResult, At, Cell, Savers
<1>16. (~Faults /\ MaxPolls = 0) => SettleInv'
  BY <1>1, <1>2, <1>3, CellValues DEF LoadsOwned, Carrying, Inv, IInv, SettleInv,
     LeftTo, At, Cell, Savers, Active
<1> QED BY <1>4, <1>5, <1>6, <1>7, <1>8, <1>9, <1>10, <1>11, <1>12, <1>13, <1>14,
   <1>15, <1>16 DEF Inv, IInv, FaultFreeInv

(* cancel_job has its record.                                              *)
LEMMA CancelAskedStep ==
  ASSUME Inv, NEW j \in Jobs, CancelAsked(j)
  PROVE  Inv'
<1>1. TypeOK
  BY DEF Inv, IInv
<1>2. CellAs(j, "cancel", "asked", thread[j]["cancel"].status,
             thread[j]["cancel"].result, thread[j]["cancel"].index)
  BY <1>1, CellMoved DEF CancelAsked, Steps, Savers
<1>3. /\ phase = "up" /\ mem[j] # None /\ pc[j] = "none"
      /\ At(j, "cancel") = "off" /\ Loading(j, "cancel") = "off"
      /\ UNCHANGED <<mem, pc, record, resultBlob, index, indexLock, acked>>
      /\ UNCHANGED <<cancelAcked, polls, srvCancelled, phase, todo, boots>>
      /\ UNCHANGED <<load, own>>
  BY DEF CancelAsked, storageVars, clientVars, loadVars, processVars
<1>4. \A k \in Jobs, t \in Savers : (At(k, t) = "write" <=> indexLock = <<k, t>>)'
  <2>1. \A k \in Jobs, t \in Savers : At(k, t) = "write" <=> indexLock = <<k, t>>
    BY <1>1 DEF TypeOK
  <2> QED BY <1>2, <1>3, <2>1 DEF At, CellAs
<1>5. TypeOK'
  BY <1>1, <1>2, <1>3, <1>4 DEF Inv, IInv, TypeOK, CellAs, Cells
<1>6. SavesOwned'
  BY <1>1, <1>2, <1>3 DEF Inv, IInv, At, SavesOwned, CellAs, Savers
<1>7. LoadsOwned'
  BY <1>1, <1>2, <1>3, CellValues, NoneApart DEF Inv, IInv, LoadsOwned, RecordOf,
     Loading, At, Savers, Loaders, Carrying, CellAs
<1>8. (~Faults /\ Recover) => LoadsBacked'
  BY <1>1, <1>2, <1>3 DEF Inv, IInv, FaultFreeInv, LoadsBacked, Loading
<1>9. PhasesOrdered' /\ RecordInMemory'
  BY <1>1, <1>2, <1>3 DEF Inv, IInv, At, PhasesOrdered, RecordInMemory, CellAs
<1>10. SavesOrdered'
  BY <1>1, <1>2, <1>3 DEF Inv, IInv, At, SavesOrdered, Carrying, CellAs
<1>11. ResultsFirst'
  BY <1>1, <1>2, <1>3 DEF Inv, IInv, At, ResultsFirst, CellAs
<1>12. AcknowledgedSurvives' /\ IndexPointsToBlobs'
  BY <1>1, <1>3 DEF Inv, IInv, AcknowledgedSurvives, IndexPointsToBlobs, At
<1>13. ~Faults => OneOutcome'
  BY <1>1, <1>2, <1>3 DEF LoadsOwned, Carrying, Inv, IInv, FaultFreeInv, OneOutcome,
     At, CellAs, Savers
<1>14. ~Faults => OutcomesBacked'
  BY <1>1, <1>2, <1>3, CellValues DEF Inv, IInv, FaultFreeInv, OutcomesBacked, At,
     CellAs
<1>15. (~Faults /\ Recover) => RecoveryOnTrack' /\ RecoveredInIndex' /\ CompletedHasResult'
  BY <1>1, <1>3 DEF Inv, IInv, FaultFreeInv, RecoveryOnTrack, RecoveredInIndex,
     CompletedHasResult, At, CellAs
<1>16. (~Faults /\ MaxPolls = 0) => SettleInv'
  BY <1>1, <1>2, <1>3 DEF LoadsOwned, Inv, IInv, SettleInv, LeftTo, Carrying, At,
     CellAs, Savers
<1> QED BY <1>4, <1>5, <1>6, <1>7, <1>8, <1>9, <1>10, <1>11, <1>12, <1>13, <1>14,
   <1>15, <1>16 DEF Inv, IInv, FaultFreeInv

(* cancel_job finds that the job has ended.                                *)
LEMMA CancelRefusedStep ==
  ASSUME Inv, NEW j \in Jobs, CancelRefused(j)
  PROVE  Inv'
<1>1. TypeOK
  BY DEF Inv, IInv
<1>2. Cell(j, "cancel", Idle)
  BY <1>1, CellEnded DEF CancelRefused, Savers
<1>3. /\ At(j, "cancel") = "asked"
      /\ UNCHANGED <<mem, pc, record, resultBlob, index, indexLock, acked>>
      /\ UNCHANGED <<cancelAcked, polls, srvCancelled, phase, todo, boots, load>>
      /\ own' \in [Jobs -> Records \cup {None}] /\ own'[j] = None
      /\ \A k \in Jobs \ {j} : own'[k] = own[k]
  BY <1>1 DEF TypeOK, CancelRefused, storageVars, clientVars, loadVars, processVars
<1>4. \A k \in Jobs, t \in Savers : (At(k, t) = "write" <=> indexLock = <<k, t>>)'
  BY <1>1, <1>2, <1>3, CellValues DEF TypeOK, At, Cell
<1>5. TypeOK'
  BY <1>1, <1>2, <1>3, <1>4 DEF Inv, IInv, TypeOK, Cell, Cells
<1>6. SavesOwned'
  BY <1>1, <1>2, <1>3 DEF Inv, IInv, At, SavesOwned, Cell, Savers
<1>7. LoadsOwned'
  BY <1>1, <1>2, <1>3, CellValues, NoneApart DEF Inv, IInv, LoadsOwned, RecordOf,
     Loading, At, Savers, Loaders, Carrying, Cell
<1>8. (~Faults /\ Recover) => LoadsBacked'
  BY <1>1, <1>2, <1>3 DEF Inv, IInv, FaultFreeInv, LoadsBacked, Loading
<1>9. PhasesOrdered' /\ RecordInMemory'
  BY <1>1, <1>2, <1>3, CellValues DEF Inv, IInv, At, PhasesOrdered, RecordInMemory,
     Cell
<1>10. SavesOrdered'
  BY <1>1, <1>2, <1>3, CellValues DEF Inv, IInv, At, SavesOrdered, Carrying, Cell
<1>11. ResultsFirst'
  BY <1>1, <1>2, <1>3, CellValues DEF Inv, IInv, At, ResultsFirst, Cell
<1>12. AcknowledgedSurvives' /\ IndexPointsToBlobs'
  BY <1>1, <1>3 DEF Inv, IInv, AcknowledgedSurvives, IndexPointsToBlobs, At
<1>13. ~Faults => OneOutcome'
  BY <1>1, <1>2, <1>3, CellValues DEF OutcomesBacked, LoadsOwned, Carrying, Inv,
     IInv, FaultFreeInv, OneOutcome, At, Cell, Savers
<1>14. ~Faults => OutcomesBacked'
  BY <1>1, <1>2, <1>3, CellValues DEF OutcomesBacked, Inv, IInv, FaultFreeInv,
     OneOutcome, At, Cell, Savers
<1>15. (~Faults /\ Recover) => RecoveryOnTrack' /\ RecoveredInIndex' /\ CompletedHasResult'
  BY <1>1, <1>2, <1>3 DEF Inv, IInv, FaultFreeInv, RecoveryOnTrack, RecoveredInIndex,
     CompletedHasResult, At, Cell, Savers
<1>16. (~Faults /\ MaxPolls = 0) => SettleInv'
  BY <1>1, <1>2, <1>3, CellValues DEF LoadsOwned, Carrying, Inv, IInv, SettleInv,
     LeftTo, At, Cell, Savers, Active
<1> QED BY <1>4, <1>5, <1>6, <1>7, <1>8, <1>9, <1>10, <1>11, <1>12, <1>13, <1>14,
   <1>15, <1>16 DEF Inv, IInv, FaultFreeInv

(* cancel_job enters the cancellation in the record in jobs and saves it.  *)
LEMMA CancelTableStep ==
  ASSUME Inv, NEW j \in Jobs, CancelJob(j), own[j] = None
  PROVE  Inv'
<1>1. TypeOK
  BY DEF Inv, IInv
<1>2. At(j, "cancel") \in {"off", "asked"} /\ Cell(j, "cancel", Fresh)
  BY <1>1, CellSaving DEF CancelJob, At, Savers
<1>3. mem[j] # None
  BY DEF CancelJob, Inv, IInv, RecordInMemory, SavesOwned
<1>4. Memory(j, "cancelled", mem[j].result)
  BY <1>1, <1>3, StatusChanged DEF CancelJob, Statuses, Terminal
<1>5. /\ phase = "up" /\ mem[j] # None /\ mem[j].status \in Active /\ own[j] = None
      /\ UNCHANGED <<load, own>> /\ Loading(j, "cancel") = "off"
      /\ UNCHANGED <<pc, record, resultBlob, index, indexLock, acked>>
      /\ UNCHANGED <<cancelAcked, polls, srvCancelled, phase, todo, boots>>
  <2>1. phase = "up" /\ Loading(j, "cancel") = "off"
    <3>1. CASE At(j, "cancel") = "asked"
      BY <3>1 DEF Inv, IInv, LoadsOwned, Loaders
    <3>2. CASE pc[j] # "none"
      BY <3>2 DEF CancelJob, Inv, IInv, LoadsOwned, Loaders
    <3> QED BY <3>1, <3>2 DEF CancelJob
  <2> QED BY <1>3, <2>1 DEF CancelJob, RecordOf, storageVars, processVars
<1>6. \A k \in Jobs, t \in Savers : (At(k, t) = "write" <=> indexLock = <<k, t>>)'
  BY <1>1, <1>2, <1>4, <1>5, CellValues DEF TypeOK, At, Cell
<1>7. TypeOK'
  BY <1>1, <1>2, <1>4, <1>5, <1>6 DEF Inv, IInv, TypeOK, Cell, Cells, Memory
<1>8. SavesOwned'
  BY <1>1, <1>2, <1>4, <1>5 DEF Inv, IInv, At, SavesOwned, Cell, Memory, Savers
<1>9. LoadsOwned'
  BY <1>1, <1>2, <1>4, <1>5, CellValues, NoneApart DEF Inv, IInv, LoadsOwned,
     RecordOf, Loading, At, Savers, Loaders, Carrying, Cell, Memory
<1>10. (~Faults /\ Recover) => LoadsBacked'
  BY <1>1, <1>2, <1>4, <1>5 DEF Inv, IInv, FaultFreeInv, LoadsBacked, Loading
<1>11. PhasesOrdered' /\ RecordInMemory'
  BY <1>1, <1>2, <1>4, <1>5 DEF Inv, IInv, At, PhasesOrdered, RecordInMemory, Cell,
     Memory
<1>12. SavesOrdered'
  BY <1>1, <1>2, <1>5, CellValues DEF Inv, IInv, At, SavesOrdered, Carrying, Cell
<1>13. ResultsFirst'
  BY <1>1, <1>2, <1>4, <1>5, CellValues DEF Inv, IInv, At, ResultsFirst, Cell, Memory
<1>14. AcknowledgedSurvives' /\ IndexPointsToBlobs'
  BY <1>1, <1>5 DEF Inv, IInv, AcknowledgedSurvives, IndexPointsToBlobs, At
<1>15. ~Faults => OneOutcome'
  BY <1>1, <1>2, <1>4, <1>5, CellValues DEF LoadsOwned, Inv, IInv, FaultFreeInv,
     OneOutcome, Carrying, At, Cell, Memory, Savers
<1>16. ~Faults => OutcomesBacked'
  BY <1>1, <1>2, <1>4, <1>5, CellValues DEF Inv, IInv, FaultFreeInv, OutcomesBacked,
     At, Cell, Memory
<1>17. (~Faults /\ Recover) => RecoveryOnTrack' /\ RecoveredInIndex' /\ CompletedHasResult'
  BY <1>1, <1>4, <1>5 DEF Inv, IInv, FaultFreeInv, RecoveryOnTrack, RecoveredInIndex,
     CompletedHasResult, At, Cell, Memory
<1>18. (~Faults /\ MaxPolls = 0) => SettleInv'
  BY <1>1, <1>2, <1>4, <1>5 DEF LoadsOwned, Inv, IInv, SettleInv, LeftTo,
     OneOutcome, SavesOwned, SavesOrdered, Carrying, At, Cell, Memory, Savers,
     Active, Terminal
<1> QED BY <1>6, <1>7, <1>8, <1>9, <1>10, <1>11, <1>12, <1>13, <1>14, <1>15, <1>16,
   <1>17, <1>18 DEF Inv, IInv, FaultFreeInv

(* It enters it in a record that a load has displaced.                     *)
LEMMA CancelOwnStep ==
  ASSUME Inv, NEW j \in Jobs, CancelJob(j), own[j] # None
  PROVE  Inv'
<1>1. TypeOK
  BY DEF Inv, IInv
<1>2. Cell(j, "cancel", Fresh)
  BY <1>1, CellSaving DEF CancelJob, Savers
<1>3. /\ At(j, "cancel") = "asked" /\ phase = "up" /\ pc[j] = "none" /\ mem[j] # None
      /\ Loading(j, "cancel") = "off"
      /\ UNCHANGED <<mem, pc, record, resultBlob, index, indexLock, acked>>
      /\ UNCHANGED <<cancelAcked, polls, srvCancelled, phase, todo, boots, load>>
      /\ own' \in [Jobs -> Records \cup {None}] /\ own'[j] # None
      /\ own'[j].status = "cancelled"
      /\ \A k \in Jobs \ {j} : own'[k] = own[k]
  <2>1. own[j] \in Records /\ At(j, "cancel") # "off" /\ pc[j] = "none"
    BY <1>1 DEF TypeOK, Inv, IInv, LoadsOwned
  <2>2. [own[j] EXCEPT !.status = "cancelled"] \in Records
        /\ [own[j] EXCEPT !.status = "cancelled"].status = "cancelled"
    BY <2>1 DEF Records, Statuses, Terminal
  <2>3. own' = [own EXCEPT ![j] = [own[j] EXCEPT !.status = "cancelled"]]
    BY DEF CancelJob
  <2>4. At(j, "cancel") = "asked" /\ phase = "up" /\ mem[j] # None
        /\ Loading(j, "cancel") = "off"
    BY <2>1 DEF CancelJob, Inv, IInv, LoadsOwned, SavesOwned, Loaders
  <2>5. /\ own' \in [Jobs -> Records \cup {None}] /\ own'[j] # None
        /\ own'[j].status = "cancelled"
        /\ \A k \in Jobs \ {j} : own'[k] = own[k]
    BY <1>1, <2>1, <2>2, <2>3, NoneApart DEF TypeOK
  <2> QED BY <2>1, <2>4, <2>5 DEF CancelJob, storageVars, processVars
<1>4. \A k \in Jobs, t \in Savers : (At(k, t) = "write" <=> indexLock = <<k, t>>)'
  BY <1>1, <1>2, <1>3, CellValues DEF TypeOK, At, Cell
<1>5. TypeOK'
  BY <1>1, <1>2, <1>3, <1>4 DEF Inv, IInv, TypeOK, Cell, Cells
<1>6. SavesOwned'
  BY <1>1, <1>2, <1>3 DEF Inv, IInv, At, SavesOwned, Cell, Savers
<1>7. LoadsOwned'
  BY <1>1, <1>2, <1>3, CellValues, NoneApart DEF Inv, IInv, LoadsOwned, RecordOf,
     Loading, At, Savers, Loaders, Carrying, Cell
<1>8. (~Faults /\ Recover) => LoadsBacked'
  BY <1>1, <1>2, <1>3 DEF Inv, IInv, FaultFreeInv, LoadsBacked, Loading
<1>9. PhasesOrdered' /\ RecordInMemory'
  BY <1>1, <1>2, <1>3, CellValues DEF Inv, IInv, At, PhasesOrdered, RecordInMemory,
     Cell
<1>10. SavesOrdered'
  BY <1>1, <1>2, <1>3, CellValues DEF Inv, IInv, At, SavesOrdered, Carrying, Cell
<1>11. ResultsFirst'
  BY <1>1, <1>2, <1>3, CellValues DEF Inv, IInv, At, ResultsFirst, Cell
<1>12. AcknowledgedSurvives' /\ IndexPointsToBlobs'
  BY <1>1, <1>3 DEF Inv, IInv, AcknowledgedSurvives, IndexPointsToBlobs, At
<1>13. ~Faults => OneOutcome'
  BY <1>1, <1>2, <1>3, CellValues DEF OutcomesBacked, LoadsOwned, Carrying, Inv,
     IInv, FaultFreeInv, OneOutcome, At, Cell, Savers
<1>14. ~Faults => OutcomesBacked'
  BY <1>1, <1>2, <1>3, CellValues DEF OutcomesBacked, Inv, IInv, FaultFreeInv,
     OneOutcome, At, Cell, Savers
<1>15. (~Faults /\ Recover) => RecoveryOnTrack' /\ RecoveredInIndex' /\ CompletedHasResult'
  BY <1>1, <1>2, <1>3 DEF Inv, IInv, FaultFreeInv, RecoveryOnTrack, RecoveredInIndex,
     CompletedHasResult, At, Cell, Savers
<1>16. (~Faults /\ MaxPolls = 0) => SettleInv'
  BY <1>1, <1>2, <1>3, CellValues DEF LoadsOwned, Carrying, Inv, IInv, SettleInv,
     LeftTo, At, Cell, Savers, Active
<1> QED BY <1>4, <1>5, <1>6, <1>7, <1>8, <1>9, <1>10, <1>11, <1>12, <1>13, <1>14,
   <1>15, <1>16 DEF Inv, IInv, FaultFreeInv

(* The save of a progress request is over.                                 *)
LEMMA ProgressReturnsStep ==
  ASSUME Inv, NEW j \in Jobs, ProgressReturns(j)
  PROVE  Inv'
<1>1. TypeOK
  BY DEF Inv, IInv
<1>2. Cell(j, "progress", Idle)
  BY <1>1, CellEnded DEF ProgressReturns, Savers
<1>3. /\ At(j, "progress") \in {"saved", "failed"}
      /\ UNCHANGED <<mem, pc, record, resultBlob, index, indexLock, acked>>
      /\ UNCHANGED <<cancelAcked, polls, srvCancelled, phase, todo, boots>>
      /\ UNCHANGED <<load, own>>
  BY DEF ProgressReturns, storageVars, clientVars, loadVars, processVars
<1>4. \A k \in Jobs, t \in Savers : (At(k, t) = "write" <=> indexLock = <<k, t>>)'
  BY <1>1, <1>2, <1>3, CellValues DEF TypeOK, At, Cell
<1>5. TypeOK'
  BY <1>1, <1>2, <1>3, <1>4 DEF Inv, IInv, TypeOK, Cell, Cells
<1>6. SavesOwned'
  BY <1>1, <1>2, <1>3 DEF Inv, IInv, At, SavesOwned, Cell, Savers
<1>7. LoadsOwned'
  BY <1>1, <1>2, <1>3, CellValues, NoneApart DEF Inv, IInv, LoadsOwned, RecordOf,
     Loading, At, Savers, Loaders, Carrying, Cell
<1>8. (~Faults /\ Recover) => LoadsBacked'
  BY <1>1, <1>2, <1>3 DEF Inv, IInv, FaultFreeInv, LoadsBacked, Loading
<1>9. PhasesOrdered' /\ RecordInMemory'
  BY <1>1, <1>2, <1>3, CellValues DEF Inv, IInv, At, PhasesOrdered, RecordInMemory,
     Cell
<1>10. SavesOrdered'
  BY <1>1, <1>2, <1>3, CellValues DEF Inv, IInv, At, SavesOrdered, Carrying, Cell
<1>11. ResultsFirst'
  BY <1>1, <1>2, <1>3, CellValues DEF Inv, IInv, At, ResultsFirst, Cell
<1>12. AcknowledgedSurvives' /\ IndexPointsToBlobs'
  BY <1>1, <1>3 DEF Inv, IInv, AcknowledgedSurvives, IndexPointsToBlobs, At
<1>13. ~Faults => OneOutcome'
  BY <1>1, <1>2, <1>3, CellValues DEF LoadsOwned, Carrying, Inv, IInv, FaultFreeInv,
     OneOutcome, At, Cell, Savers
<1>14. ~Faults => OutcomesBacked'
  BY <1>1, <1>2, <1>3, CellValues DEF Inv, IInv, FaultFreeInv, OutcomesBacked, At,
     Cell, Savers
<1>15. (~Faults /\ Recover) => RecoveryOnTrack' /\ RecoveredInIndex' /\ CompletedHasResult'
  BY <1>1, <1>2, <1>3 DEF Inv, IInv, FaultFreeInv, RecoveryOnTrack, RecoveredInIndex,
     CompletedHasResult, At, Cell, Savers
<1>16. (~Faults /\ MaxPolls = 0) => SettleInv'
  BY <1>1, <1>3 DEF LoadsOwned, Carrying, Inv, IInv, SettleInv, At, Cell, Active
<1> QED BY <1>4, <1>5, <1>6, <1>7, <1>8, <1>9, <1>10, <1>11, <1>12, <1>13, <1>14,
   <1>15, <1>16 DEF Inv, IInv, FaultFreeInv

(* The shutdown saves a job.                                               *)
LEMMA ShutdownSaveStep ==
  ASSUME Inv, NEW j \in Jobs, ShutdownSave(j)
  PROVE  Inv'
<1>1. TypeOK
  BY DEF Inv, IInv
<1>2. At(j, "boot") = "off" /\ Cell(j, "boot", Fresh)
  BY <1>1, CellSaving DEF ShutdownSave, Inv, IInv, NobodyBooting, At, Savers
<1>3. /\ phase = "marking" /\ j \in todo
      /\ \A k \in Jobs : At(k, "boot") = "off"
      /\ UNCHANGED <<mem, pc, record, resultBlob, index, indexLock, acked>>
      /\ UNCHANGED <<cancelAcked, polls, srvCancelled, phase, todo, boots>>
      /\ UNCHANGED <<load, own>>
  BY DEF ShutdownSave, NobodyBooting, storageVars, clientVars, loadVars, processVars
<1>4. \A k \in Jobs, t \in Savers : (At(k, t) = "write" <=> indexLock = <<k, t>>)'
  BY <1>1, <1>2, <1>3, CellValues DEF TypeOK, At, Cell
<1>5. TypeOK'
  BY <1>1, <1>2, <1>3, <1>4 DEF Inv, IInv, TypeOK, Cell, Cells
<1>6. SavesOwned'
  BY <1>1, <1>2, <1>3 DEF Inv, IInv, At, SavesOwned, Cell, Savers
<1>7. LoadsOwned'
  BY <1>1, <1>2, <1>3, CellValues, NoneApart DEF Inv, IInv, LoadsOwned, RecordOf,
     Loading, At, Savers, Loaders, Carrying, Cell
<1>8. (~Faults /\ Recover) => LoadsBacked'
  BY <1>1, <1>2, <1>3 DEF Inv, IInv, FaultFreeInv, LoadsBacked, Loading
<1>9. PhasesOrdered' /\ RecordInMemory'
  BY <1>1, <1>2, <1>3 DEF Inv, IInv, At, PhasesOrdered, RecordInMemory, Cell
<1>10. SavesOrdered'
  BY <1>1, <1>2, <1>3, CellValues DEF Inv, IInv, At, SavesOrdered, Carrying, Cell
<1>11. ResultsFirst'
  BY <1>1, <1>2, <1>3, CellValues DEF Inv, IInv, At, ResultsFirst, Cell
<1>12. AcknowledgedSurvives' /\ IndexPointsToBlobs'
  BY <1>1, <1>3 DEF Inv, IInv, AcknowledgedSurvives, IndexPointsToBlobs, At
<1>13. ~Faults => OneOutcome'
  BY <1>1, <1>2, <1>3, CellValues DEF LoadsOwned, Inv, IInv, FaultFreeInv,
     OneOutcome, Carrying, At, Cell, Savers
<1>14. ~Faults => OutcomesBacked'
  BY <1>1, <1>2, <1>3, CellValues DEF Inv, IInv, FaultFreeInv, OutcomesBacked, At,
     Cell
<1>15. (~Faults /\ Recover) => RecoveryOnTrack' /\ RecoveredInIndex' /\ CompletedHasResult'
  BY <1>1, <1>3 DEF Inv, IInv, FaultFreeInv, RecoveryOnTrack, RecoveredInIndex,
     CompletedHasResult, At, Cell
<1>16. (~Faults /\ MaxPolls = 0) => SettleInv'
  BY <1>1, <1>2, <1>3 DEF LoadsOwned, Carrying, Inv, IInv, SettleInv, At, Cell, Savers
<1> QED BY <1>4, <1>5, <1>6, <1>7, <1>8, <1>9, <1>10, <1>11, <1>12, <1>13, <1>14,
   <1>15, <1>16 DEF Inv, IInv, FaultFreeInv

(* The save of a job by the shutdown is over.                              *)
LEMMA ShutdownSavedStep ==
  ASSUME Inv, NEW j \in Jobs, ShutdownSaved(j)
  PROVE  Inv'
<1>1. TypeOK
  BY DEF Inv, IInv
<1>2. Cell(j, "boot", Idle)
  BY <1>1, CellEnded DEF ShutdownSaved, Savers
<1>3. /\ todo' \subseteq todo
      /\ \A k \in todo : At(k, "boot") # "off" /\ k \in Jobs => k = j \/ k \in todo'
  BY DEF ShutdownSaved, Inv, IInv, SavesOwned
<1>4. /\ phase = "marking" /\ At(j, "boot") \in {"saved", "failed"}
      /\ UNCHANGED <<mem, pc, record, resultBlob, index, indexLock, acked>>
      /\ UNCHANGED <<cancelAcked, polls, srvCancelled, phase, boots>>
      /\ UNCHANGED <<load, own>>
  BY DEF ShutdownSaved, storageVars, clientVars, loadVars, processVars
<1>5. \A k \in Jobs, t \in Savers : (At(k, t) = "write" <=> indexLock = <<k, t>>)'
  BY <1>1, <1>2, <1>4, CellValues DEF TypeOK, At, Cell
<1>6. TypeOK'
  BY <1>1, <1>2, <1>3, <1>4, <1>5 DEF Inv, IInv, TypeOK, Cell, Cells
<1>7. SavesOwned'
  BY <1>1, <1>2, <1>4, CellValues DEF Inv, IInv, At, SavesOwned, Cell, Savers
<1>8. LoadsOwned'
  BY <1>1, <1>2, <1>4, CellValues, NoneApart DEF Inv, IInv, LoadsOwned, RecordOf,
     Loading, At, Savers, Loaders, Carrying, Cell
<1>9. (~Faults /\ Recover) => LoadsBacked'
  BY <1>1, <1>2, <1>4 DEF Inv, IInv, FaultFreeInv, LoadsBacked, Loading
<1>10. PhasesOrdered' /\ RecordInMemory'
  BY <1>1, <1>2, <1>3, <1>4, CellValues DEF Inv, IInv, At, PhasesOrdered,
     RecordInMemory, Cell
<1>11. SavesOrdered'
  BY <1>1, <1>2, <1>4, CellValues DEF Inv, IInv, At, SavesOrdered, Carrying, Cell
<1>12. ResultsFirst'
  BY <1>1, <1>2, <1>4, CellValues DEF Inv, IInv, At, ResultsFirst, Cell
<1>13. AcknowledgedSurvives' /\ IndexPointsToBlobs'
  BY <1>1, <1>4 DEF Inv, IInv, AcknowledgedSurvives, IndexPointsToBlobs, At
<1>14. ~Faults => OneOutcome'
  BY <1>1, <1>2, <1>4, CellValues DEF LoadsOwned, Inv, IInv, FaultFreeInv,
     OneOutcome, Carrying, At, Cell, Savers
<1>15. ~Faults => OutcomesBacked'
  BY <1>1, <1>2, <1>4, CellValues DEF Inv, IInv, FaultFreeInv, OutcomesBacked, At,
     Cell
<1>16. (~Faults /\ Recover) => RecoveryOnTrack' /\ RecoveredInIndex' /\ CompletedHasResult'
  BY <1>1, <1>4 DEF Inv, IInv, FaultFreeInv, RecoveryOnTrack, RecoveredInIndex,
     CompletedHasResult, At, Cell
<1>17. (~Faults /\ MaxPolls = 0) => SettleInv'
  BY <1>1, <1>2, <1>4 DEF LoadsOwned, Carrying, Inv, IInv, SettleInv, At, Cell, Savers
<1> QED BY <1>5, <1>6, <1>7, <1>8, <1>9, <1>10, <1>11, <1>12, <1>13, <1>14, <1>15,
   <1>16, <1>17 DEF Inv, IInv, FaultFreeInv

(* A job is loaded, made a failure, and saved.                             *)
LEMMA RecoverJobStep ==
  ASSUME Inv, NEW j \in Jobs, RecoverJob(j), record[j] # None, thread' # thread
  PROVE  Inv'
<1>1. TypeOK
  BY DEF Inv, IInv
<1>2. record[j] # None /\ resultBlob[j] \in BOOLEAN /\ At(j, "boot") = "off"
  BY <1>1 DEF TypeOK, RecoverJob, NobodyBooting
<1>3. CellAs(j, "boot", "record", "failed", resultBlob[j], None)
  <2> DEFINE c == [at |-> "record", status |-> "failed", result |-> resultBlob[j],
                   index |-> None]
  <2>1. c \in Threads
    BY <1>2 DEF Threads, Steps, Statuses, Terminal
  <2> QED BY <1>1, <2>1, CellChanged DEF RecoverJob, Savers
<1>4. /\ phase = "recovering" /\ j \in todo
      /\ \A k \in Jobs : At(k, "boot") = "off"
      /\ UNCHANGED <<mem, pc, record, resultBlob, index, indexLock, acked>>
      /\ UNCHANGED <<cancelAcked, polls, srvCancelled, phase, todo, boots>>
      /\ UNCHANGED <<load, own>>
  BY DEF RecoverJob, NobodyBooting, storageVars, clientVars, loadVars, processVars
<1>5. \A k \in Jobs, t \in Savers : (At(k, t) = "write" <=> indexLock = <<k, t>>)'
  BY <1>1, <1>2, <1>3, <1>4 DEF TypeOK, At, CellAs
<1>6. TypeOK'
  BY <1>1, <1>3, <1>4, <1>5 DEF Inv, IInv, TypeOK, CellAs, Cells
<1>7. SavesOwned'
  BY <1>1, <1>3, <1>4 DEF Inv, IInv, At, SavesOwned, CellAs, Savers
<1>8. LoadsOwned'
  BY <1>1, <1>3, <1>4, CellValues, NoneApart DEF Inv, IInv, LoadsOwned, RecordOf,
     Loading, At, Savers, Loaders, Carrying, CellAs
<1>9. (~Faults /\ Recover) => LoadsBacked'
  BY <1>1, <1>3, <1>4 DEF Inv, IInv, FaultFreeInv, LoadsBacked, Loading
<1>10. PhasesOrdered' /\ RecordInMemory'
  BY <1>1, <1>3, <1>4 DEF Inv, IInv, At, PhasesOrdered, RecordInMemory, CellAs
<1>11. SavesOrdered'
  BY <1>1, <1>3, <1>4, NoneApart DEF Inv, IInv, At, SavesOrdered, Carrying, CellAs
<1>12. ResultsFirst'
  BY <1>1, <1>3, <1>4 DEF Inv, IInv, At, ResultsFirst, CellAs
<1>13. AcknowledgedSurvives' /\ IndexPointsToBlobs'
  BY <1>1, <1>4 DEF Inv, IInv, AcknowledgedSurvives, IndexPointsToBlobs, At
<1>14. ~Faults => OneOutcome'
  BY <1>1, <1>3, <1>4 DEF Inv, IInv, FaultFreeInv, OneOutcome, PhasesOrdered,
     RecordInMemory, Carrying, At, CellAs, Savers
<1>15. ~Faults => OutcomesBacked'
  BY <1>1, <1>3, <1>4 DEF Inv, IInv, FaultFreeInv, OutcomesBacked, At, CellAs, Savers
<1>16. (~Faults /\ Recover) => RecoveryOnTrack' /\ RecoveredInIndex' /\ CompletedHasResult'
  BY <1>1, <1>3, <1>4 DEF Inv, IInv, FaultFreeInv, RecoveryOnTrack, RecoveredInIndex,
     CompletedHasResult, At, CellAs, Savers
<1>17. (~Faults /\ MaxPolls = 0) => SettleInv'
  BY <1>1, <1>3, <1>4 DEF LoadsOwned, Carrying, Inv, IInv, SettleInv, At, CellAs,
     Savers
<1> QED BY <1>5, <1>6, <1>7, <1>8, <1>9, <1>10, <1>11, <1>12, <1>13, <1>14, <1>15,
   <1>16, <1>17 DEF Inv, IInv, FaultFreeInv

(* A job whose record cannot be read is skipped.                           *)
LEMMA SkipJobStep ==
  ASSUME Inv, NEW j \in Jobs, RecoverJob(j), todo' = todo \ {j}, thread' = thread
  PROVE  Inv'
<1>1. TypeOK
  BY DEF Inv, IInv
<1>2. /\ phase = "recovering" /\ todo' = todo \ {j}
      /\ record[j] = None \/ Faults
      /\ \A k \in Jobs : thread[k]["boot"].at = "off"
      /\ UNCHANGED <<mem, pc, thread, record, resultBlob, index, indexLock>>
      /\ UNCHANGED <<acked, cancelAcked, polls, srvCancelled, phase, boots>>
      /\ UNCHANGED <<load, own>>
  BY DEF RecoverJob, NobodyBooting, At, storageVars, clientVars, loadVars, processVars
<1>3. \A k \in Jobs, t \in Savers : (At(k, t) = "write" <=> indexLock = <<k, t>>)'
  BY <1>1, <1>2 DEF TypeOK, At
<1>4. TypeOK'
  BY <1>1, <1>2, <1>3 DEF Inv, IInv, TypeOK
<1>5. SavesOwned'
  <2>1. SavesOwned
    BY DEF Inv, IInv
  <2> QED BY <1>2, <2>1 DEF SavesOwned, At
<1>6. LoadsOwned'
  BY <1>2, CellValues, NoneApart DEF Inv, IInv, LoadsOwned, RecordOf, Loading, At,
     Savers, Loaders, Carrying
<1>7. (~Faults /\ Recover) => LoadsBacked'
  BY <1>2 DEF Inv, IInv, FaultFreeInv, LoadsBacked, Loading
<1>8. PhasesOrdered' /\ RecordInMemory'
  BY <1>1, <1>2 DEF Inv, IInv, At, PhasesOrdered, RecordInMemory
<1>9. SavesOrdered'
  BY <1>1, <1>2 DEF Inv, IInv, At, SavesOrdered
<1>10. ResultsFirst'
  BY <1>1, <1>2 DEF Inv, IInv, At, ResultsFirst
<1>11. AcknowledgedSurvives' /\ IndexPointsToBlobs'
  BY <1>1, <1>2 DEF Inv, IInv, AcknowledgedSurvives, IndexPointsToBlobs, At
<1>12. ~Faults => OneOutcome'
  BY <1>1, <1>2 DEF LoadsOwned, Carrying, Inv, IInv, FaultFreeInv, OneOutcome, At
<1>13. ~Faults => OutcomesBacked'
  BY <1>1, <1>2 DEF Inv, IInv, FaultFreeInv, OutcomesBacked, At
<1>14. (~Faults /\ Recover) => RecoveryOnTrack' /\ RecoveredInIndex' /\ CompletedHasResult'
  BY <1>1, <1>2, NoneApart DEF Inv, IInv, FaultFreeInv, RecoveryOnTrack,
     RecoveredInIndex, CompletedHasResult, At, IndexPointsToBlobs
<1>15. (~Faults /\ MaxPolls = 0) => SettleInv'
  BY <1>1, <1>2 DEF LoadsOwned, Carrying, Inv, IInv, SettleInv, At
<1> QED BY <1>3, <1>4, <1>5, <1>6, <1>7, <1>8, <1>9, <1>10, <1>11, <1>12, <1>13,
   <1>14, <1>15 DEF Inv, IInv, FaultFreeInv

(* The save of a job by the recovery is over.                              *)
LEMMA RecoverSavedStep ==
  ASSUME Inv, NEW j \in Jobs, RecoverSaved(j)
  PROVE  Inv'
<1>1. TypeOK
  BY DEF Inv, IInv
<1>2. Cell(j, "boot", Idle)
  BY <1>1, CellEnded DEF RecoverSaved, Savers
<1>3. /\ phase = "recovering" /\ At(j, "boot") \in {"saved", "failed"}
      /\ todo' = todo \ {j}
      /\ UNCHANGED <<mem, pc, record, resultBlob, index, indexLock, acked>>
      /\ UNCHANGED <<cancelAcked, polls, srvCancelled, phase, boots>>
      /\ UNCHANGED <<load, own>>
  BY DEF RecoverSaved, storageVars, clientVars, loadVars, processVars
<1>4. \A k \in Jobs, t \in Savers : (At(k, t) = "write" <=> indexLock = <<k, t>>)'
  BY <1>1, <1>2, <1>3, CellValues DEF TypeOK, At, Cell
<1>5. TypeOK'
  BY <1>1, <1>2, <1>3, <1>4 DEF Inv, IInv, TypeOK, Cell, Cells
<1>6. SavesOwned'
  BY <1>1, <1>2, <1>3, CellValues DEF Inv, IInv, At, SavesOwned, Cell, Savers
<1>7. LoadsOwned'
  BY <1>1, <1>2, <1>3, CellValues, NoneApart DEF Inv, IInv, LoadsOwned, RecordOf,
     Loading, At, Savers, Loaders, Carrying, Cell
<1>8. (~Faults /\ Recover) => LoadsBacked'
  BY <1>1, <1>2, <1>3 DEF Inv, IInv, FaultFreeInv, LoadsBacked, Loading
<1>9. PhasesOrdered' /\ RecordInMemory'
  BY <1>1, <1>2, <1>3, CellValues DEF Inv, IInv, At, PhasesOrdered, RecordInMemory,
     Cell
<1>10. SavesOrdered'
  BY <1>1, <1>2, <1>3, CellValues DEF Inv, IInv, At, SavesOrdered, Carrying, Cell
<1>11. ResultsFirst'
  BY <1>1, <1>2, <1>3, CellValues DEF Inv, IInv, At, ResultsFirst, Cell
<1>12. AcknowledgedSurvives' /\ IndexPointsToBlobs'
  BY <1>1, <1>3 DEF Inv, IInv, AcknowledgedSurvives, IndexPointsToBlobs, At
<1>13. ~Faults => OneOutcome'
  BY <1>1, <1>2, <1>3, CellValues DEF LoadsOwned, Inv, IInv, FaultFreeInv,
     OneOutcome, Carrying, At, Cell, Savers
<1>14. ~Faults => OutcomesBacked'
  BY <1>1, <1>2, <1>3, CellValues DEF Inv, IInv, FaultFreeInv, OutcomesBacked, At,
     Cell, Savers
<1>15. (~Faults /\ Recover) => RecoveryOnTrack' /\ RecoveredInIndex' /\ CompletedHasResult'
  BY <1>1, <1>2, <1>3 DEF Inv, IInv, FaultFreeInv, RecoveryOnTrack, RecoveredInIndex,
     CompletedHasResult, At, Cell, Savers, OneOutcome
<1>16. (~Faults /\ MaxPolls = 0) => SettleInv'
  BY <1>1, <1>2, <1>3 DEF LoadsOwned, Carrying, Inv, IInv, SettleInv, At, Cell, Savers
<1> QED BY <1>4, <1>5, <1>6, <1>7, <1>8, <1>9, <1>10, <1>11, <1>12, <1>13, <1>14,
   <1>15, <1>16 DEF Inv, IInv, FaultFreeInv

(* The recovery is over.                                                   *)
LEMMA RecoverDoneStep ==
  ASSUME Inv, RecoverDone
  PROVE  Inv'
<1>1. TypeOK
  BY DEF Inv, IInv
<1>2. /\ phase = "recovering" /\ (\A k \in Jobs : k \notin todo) /\ phase' = "up"
      /\ UNCHANGED <<mem, pc, thread, record, resultBlob, index, indexLock>>
      /\ UNCHANGED <<acked, cancelAcked, polls, srvCancelled, todo, boots>>
      /\ UNCHANGED <<load, own>>
  BY DEF RecoverDone, storageVars, clientVars, loadVars, processVars
<1>3. \A k \in Jobs, t \in Savers : (At(k, t) = "write" <=> indexLock = <<k, t>>)'
  BY <1>1, <1>2 DEF TypeOK, At
<1>4. TypeOK'
  BY <1>1, <1>2, <1>3 DEF Inv, IInv, TypeOK
<1>5. SavesOwned'
  BY <1>1, <1>2 DEF Inv, IInv, At, SavesOwned, PhasesOrdered, RecordInMemory
<1>6. LoadsOwned'
  BY <1>1, <1>2, CellValues, NoneApart DEF Inv, IInv, LoadsOwned, RecordOf, Loading,
     At, Savers, Loaders, Carrying
<1>7. (~Faults /\ Recover) => LoadsBacked'
  BY <1>1, <1>2 DEF Inv, IInv, FaultFreeInv, LoadsBacked, Loading
<1>8. PhasesOrdered' /\ RecordInMemory'
  BY <1>1, <1>2 DEF Inv, IInv, At, PhasesOrdered, RecordInMemory
<1>9. SavesOrdered'
  BY <1>1, <1>2 DEF Inv, IInv, At, SavesOrdered
<1>10. ResultsFirst'
  BY <1>1, <1>2 DEF Inv, IInv, At, ResultsFirst
<1>11. AcknowledgedSurvives' /\ IndexPointsToBlobs'
  BY <1>1, <1>2 DEF Inv, IInv, AcknowledgedSurvives, IndexPointsToBlobs, At
<1>12. ~Faults => OneOutcome'
  BY <1>1, <1>2 DEF LoadsOwned, Carrying, Inv, IInv, FaultFreeInv, OneOutcome,
     RecordInMemory, PhasesOrdered, At
<1>13. ~Faults => OutcomesBacked'
  BY <1>1, <1>2 DEF Inv, IInv, FaultFreeInv, OutcomesBacked, At
<1>14. (~Faults /\ Recover) => RecoveryOnTrack' /\ RecoveredInIndex' /\ CompletedHasResult'
  BY <1>1, <1>2 DEF Inv, IInv, FaultFreeInv, RecoveryOnTrack, RecoveredInIndex,
     CompletedHasResult, At
<1>15. (~Faults /\ MaxPolls = 0) => SettleInv'
  BY <1>1, <1>2 DEF LoadsOwned, Carrying, Inv, IInv, SettleInv, At, RecordInMemory,
     PhasesOrdered
<1> QED BY <1>3, <1>4, <1>5, <1>6, <1>7, <1>8, <1>9, <1>10, <1>11, <1>12, <1>13,
   <1>14, <1>15 DEF Inv, IInv, FaultFreeInv

-----------------------------------------------------------------------------
(* The process as a whole.                                                 *)

(* The shutdown fails every job that is active.                            *)
LEMMA BeginShutdownStep ==
  ASSUME Inv, BeginShutdown
  PROVE  Inv'
<1>1. TypeOK
  BY DEF Inv, IInv
<1>2. /\ mem' \in [Jobs -> Records \cup {None}]
      /\ \A k \in Jobs : k \in todo' <=> mem[k] # None /\ mem[k].status \in Active
      /\ \A k \in Jobs : k \notin todo' => mem'[k] = mem[k]
      /\ \A k \in todo' : /\ mem'[k] # None /\ mem'[k].status = "failed"
                          /\ mem'[k].result = mem[k].result
  <2>1. ASSUME NEW k \in Jobs, mem[k] # None
        PROVE  /\ [mem[k] EXCEPT !.status = "failed"] \in Records
               /\ [mem[k] EXCEPT !.status = "failed"].status = "failed"
               /\ [mem[k] EXCEPT !.status = "failed"].result = mem[k].result
    BY <1>1, <2>1 DEF TypeOK, Records, Statuses, Terminal
  <2> QED BY <1>1, <2>1, NoneApart DEF BeginShutdown, TypeOK
<1>3. /\ phase = "up" /\ phase' = "marking" /\ boots < MaxBoots /\ todo' \subseteq Jobs
      /\ \A k \in Jobs : /\ pc[k] # "submitting" /\ At(k, "cancel") = "off"
                         /\ At(k, "progress") = "off"
                         /\ \A h \in Loaders : Loading(k, h) = "off"
      /\ UNCHANGED <<pc, thread, record, resultBlob, index, indexLock, acked>>
      /\ UNCHANGED <<cancelAcked, polls, srvCancelled, boots>>
      /\ UNCHANGED <<load, own>>
  BY DEF BeginShutdown, storageVars, clientVars, loadVars, processVars
<1>4. \A k \in Jobs, t \in Savers : (At(k, t) = "write" <=> indexLock = <<k, t>>)'
  BY <1>1, <1>2, <1>3 DEF TypeOK, At
<1>5. TypeOK'
  BY <1>1, <1>2, <1>3, <1>4 DEF Inv, IInv, TypeOK
<1>6. SavesOwned'
  BY <1>1, <1>3 DEF Inv, IInv, At, SavesOwned
<1>7. LoadsOwned'
  BY <1>1, <1>2, <1>3, CellValues, NoneApart DEF Inv, IInv, LoadsOwned, RecordOf,
     Loading, At, Savers, Loaders, Carrying
<1>8. (~Faults /\ Recover) => LoadsBacked'
  BY <1>1, <1>3 DEF Inv, IInv, FaultFreeInv, LoadsBacked, Loading
<1>9. PhasesOrdered' /\ RecordInMemory'
  BY <1>1, <1>2, <1>3 DEF Inv, IInv, At, PhasesOrdered, RecordInMemory
<1>10. SavesOrdered'
  BY <1>1, <1>3 DEF Inv, IInv, At, SavesOrdered
<1>11. ResultsFirst'
  BY <1>1, <1>2, <1>3 DEF Inv, IInv, At, ResultsFirst
<1>12. AcknowledgedSurvives' /\ IndexPointsToBlobs'
  BY <1>1, <1>3 DEF Inv, IInv, AcknowledgedSurvives, IndexPointsToBlobs, At
<1>13. ~Faults => OneOutcome'
  BY <1>1, <1>2, <1>3 DEF LoadsOwned, Carrying, Inv, IInv, FaultFreeInv, OneOutcome,
     At
<1>14. ~Faults => OutcomesBacked'
  BY <1>1, <1>2, <1>3 DEF Inv, IInv, FaultFreeInv, OutcomesBacked, At
<1>15. (~Faults /\ Recover) => RecoveryOnTrack' /\ RecoveredInIndex' /\ CompletedHasResult'
  BY <1>1, <1>2, <1>3 DEF Inv, IInv, FaultFreeInv, RecoveryOnTrack, RecoveredInIndex,
     CompletedHasResult, At
<1>16. (~Faults /\ MaxPolls = 0) => SettleInv'
  BY <1>1, <1>2, <1>3 DEF LoadsOwned, Carrying, Inv, IInv, SettleInv, At, Active
<1> QED BY <1>4, <1>5, <1>6, <1>7, <1>8, <1>9, <1>10, <1>11, <1>12, <1>13, <1>14,
   <1>15, <1>16 DEF Inv, IInv, FaultFreeInv

(* The tasks are cancelled.                                                *)
LEMMA CancelTasksStep ==
  ASSUME Inv, CancelTasks
  PROVE  Inv'
<1>1. TypeOK
  BY DEF Inv, IInv
<1>2. /\ phase = "marking" /\ phase' = "draining" 
      /\ UNCHANGED todo /\ (\A k \in Jobs : k \notin todo)
      /\ \A k \in Jobs : thread[k]["boot"].at = "off" /\ pc[k] # "submitting"
      /\ \A k \in Jobs : pc[k] # "none" => mem[k] # None
  BY DEF CancelTasks, Inv, IInv, SavesOwned, PhasesOrdered, RecordInMemory, At
<1>3. /\ thread' \in Cells
      /\ \A k \in Jobs, t \in Savers : t # "final" => thread'[k][t] = thread[k][t]
      /\ \A k \in Jobs : \/ thread'[k]["final"] = thread[k]["final"]
                         \/ /\ pc[k] # "none" /\ thread[k]["final"].at = "off"
                            /\ thread'[k]["final"] = Fresh
  BY <1>1, CellValues DEF CancelTasks, Cells, TypeOK, Inv, IInv, SavesOwned, Fresh,
     At, Savers
<1>4. /\ pc' \in [Jobs -> Places]
      /\ \A k \in Jobs : /\ pc'[k] # "submitting" /\ (pc'[k] = "none" <=> pc[k] = "none")
                         /\ pc'[k] \notin {"none", "dead"} => pc[k] \notin {"none", "dead"}
  BY <1>1, <1>2 DEF CancelTasks, TypeOK, Places
<1>5. /\ UNCHANGED <<mem, record, resultBlob, index, indexLock, acked>>
      /\ UNCHANGED <<cancelAcked, polls, srvCancelled, boots>>
      /\ UNCHANGED <<load, own>>
  BY DEF CancelTasks, storageVars, clientVars, loadVars, processVars
<1>6. \A k \in Jobs, t \in Savers : (At(k, t) = "write" <=> indexLock = <<k, t>>)'
  <2>1. \A k \in Jobs, t \in Savers : At(k, t) = "write" <=> indexLock = <<k, t>>
    BY <1>1 DEF TypeOK
  <2> QED BY <1>3, <1>5, <2>1, CellValues DEF At
<1>7. TypeOK'
  BY <1>1, <1>2, <1>3, <1>4, <1>5, <1>6 DEF Inv, IInv, TypeOK, Cells
<1>8. SavesOwned'
  <2>1. SavesOwned
    BY DEF Inv, IInv
  <2> QED BY <1>2, <1>3, <1>4, <1>5, <2>1, CellValues DEF SavesOwned, At, Savers
<1>9. LoadsOwned'
  BY <1>2, <1>3, <1>4, <1>5, CellValues, NoneApart DEF Inv, IInv, LoadsOwned,
     RecordOf, Loading, At, Savers, Loaders, Carrying
<1>10. (~Faults /\ Recover) => LoadsBacked'
  BY <1>2, <1>3, <1>4, <1>5 DEF Inv, IInv, FaultFreeInv, LoadsBacked, Loading
<1>11. PhasesOrdered' /\ RecordInMemory'
  <2>1. PhasesOrdered /\ RecordInMemory
    BY DEF Inv, IInv
  <2>2. PhasesOrdered'
    BY <1>2, <1>4, <1>5, <2>1 DEF PhasesOrdered
  <2>3. RecordInMemory'
    BY <1>3, <1>4, <1>5, <2>1 DEF RecordInMemory, At
  <2> QED BY <2>2, <2>3
<1>12. SavesOrdered'
  BY <1>1, <1>3, <1>5, CellValues DEF Inv, IInv, At, SavesOrdered, Carrying
<1>13. ResultsFirst'
  <2>1. ResultsFirst
    BY DEF Inv, IInv
  <2> QED BY <1>2, <1>3, <1>4, <1>5, <2>1, CellValues, NoneApart DEF ResultsFirst, At
<1>14. AcknowledgedSurvives' /\ IndexPointsToBlobs'
  BY <1>1, <1>5 DEF Inv, IInv, AcknowledgedSurvives, IndexPointsToBlobs, At
<1>15. ~Faults => OneOutcome'
  <2>1. SUFFICES ASSUME ~Faults PROVE OneOutcome'
    OBVIOUS
  <2>2. OneOutcome
    BY <2>1 DEF LoadsOwned, Inv, FaultFreeInv
  <2>3. \A k \in Jobs, t \in Savers :
          \/ thread'[k][t] = thread[k][t]
          \/ thread'[k][t].status = None /\ thread'[k][t].at = "status" /\ t = "final"
    BY <1>3, CellValues DEF Savers
  <2> QED BY <1>2, <1>4, <1>5, <2>2, <2>3 DEF OneOutcome, At, Savers, Carrying
<1>16. ~Faults => OutcomesBacked'
  <2>1. SUFFICES ASSUME ~Faults PROVE OutcomesBacked'
    OBVIOUS
  <2>2. OutcomesBacked
    BY <2>1 DEF Inv, FaultFreeInv
  <2>3. \A k \in Jobs, t \in Savers :
          \/ thread'[k][t] = thread[k][t]
          \/ pc'[k] # "none" /\ t = "final"
    BY <1>3, <1>4
  <2> QED BY <1>4, <1>5, <2>2, <2>3 DEF OutcomesBacked, At
<1>17. (~Faults /\ Recover) => RecoveryOnTrack' /\ RecoveredInIndex' /\ CompletedHasResult'
  BY <1>1, <1>2, <1>5 DEF Inv, IInv, FaultFreeInv, RecoveryOnTrack, RecoveredInIndex,
     CompletedHasResult, At
<1>18. (~Faults /\ MaxPolls = 0) => SettleInv'
  <2>1. SUFFICES ASSUME ~Faults, MaxPolls = 0 PROVE SettleInv'
    OBVIOUS
  <2>2. SettleInv
    BY <2>1 DEF Inv, IInv, FaultFreeInv
  <2> QED BY <1>1, <1>2, <1>3, <1>4, <1>5, <2>2 DEF SettleInv, At, Savers
<1> QED BY <1>6, <1>7, <1>8, <1>9, <1>10, <1>11, <1>12, <1>13, <1>14, <1>15, <1>16,
   <1>17, <1>18 DEF Inv, IInv, FaultFreeInv

(* What is in memory is lost.                                              *)
LEMMA ForgetStep ==
  ASSUME Inv, Forget, boots < MaxBoots
  PROVE  Inv'
<1>1. TypeOK
  BY DEF Inv, IInv
<1>2. /\ mem' = [k \in Jobs |-> None] /\ pc' = [k \in Jobs |-> "none"]
      /\ thread' = [k \in Jobs |-> [t \in Savers |-> Idle]]
      /\ load' = [k \in Jobs |-> [h \in Loaders |-> NoLoad]] /\ own' = [k \in Jobs |-> None]
  BY DEF Forget
<1>3. /\ load' \in [Jobs -> [Loaders -> Loads]] /\ own' \in [Jobs -> Records \cup {None}]
      /\ mem' \in [Jobs -> Records \cup {None}] /\ pc' \in [Jobs -> Places] /\ thread' \in Cells
      /\ \A k \in Jobs : /\ mem'[k] = None /\ pc'[k] = "none"
                         /\ \A t \in Savers : thread'[k][t] = Idle
  BY <1>2, CellValues DEF Places, Cells, Loads, NoLoad
<1>4. /\ phase' = "down" /\ indexLock' = None /\ srvCancelled' = {} /\ todo' = {}
      /\ UNCHANGED <<record, resultBlob, index, acked, cancelAcked, polls, boots>>
  BY DEF Forget, storageVars, clientVars, loadVars, processVars
<1>5. \A k \in Jobs, t \in Savers : (At(k, t) = "write" <=> indexLock = <<k, t>>)'
  BY <1>1, <1>2, <1>4, CellValues, LockApart DEF At
<1>6. TypeOK'
  BY <1>1, <1>3, <1>4, <1>5 DEF Inv, IInv, TypeOK, Cells
<1>7. SavesOwned'
  BY <1>1, <1>2, CellValues DEF Inv, IInv, At, SavesOwned, Savers
<1>8. LoadsOwned'
  BY <1>1, <1>2, CellValues, NoneApart DEF Inv, IInv, LoadsOwned, RecordOf, Loading,
     NoLoad, At, Savers, Loaders, Carrying
<1>9. (~Faults /\ Recover) => LoadsBacked'
  BY <1>1, <1>2, NoneApart DEF LoadsBacked, NoLoad
<1>10. PhasesOrdered' /\ RecordInMemory'
  BY <1>1, <1>2, <1>4, CellValues DEF Inv, IInv, At, PhasesOrdered, RecordInMemory
<1>11. SavesOrdered'
  BY <1>1, <1>2, CellValues DEF Inv, IInv, At, SavesOrdered, Carrying
<1>12. ResultsFirst'
  BY <1>1, <1>2, CellValues DEF Inv, IInv, At, ResultsFirst
<1>13. AcknowledgedSurvives' /\ IndexPointsToBlobs'
  BY <1>1, <1>4 DEF Inv, IInv, AcknowledgedSurvives, IndexPointsToBlobs, At
<1>14. ~Faults => OneOutcome'
  BY <1>1, <1>2, CellValues DEF LoadsOwned, Inv, IInv, OneOutcome, Carrying, At,
     Savers
<1>15. ~Faults => OutcomesBacked'
  BY <1>1, <1>2, <1>4, CellValues DEF Inv, IInv, FaultFreeInv, OutcomesBacked, At
<1>16. (~Faults /\ Recover) => RecoveryOnTrack' /\ RecoveredInIndex' /\ CompletedHasResult'
  BY <1>1, <1>2, <1>4 DEF Inv, IInv, RecoveryOnTrack, RecoveredInIndex,
     CompletedHasResult, At
<1>17. (~Faults /\ MaxPolls = 0) => SettleInv'
  BY <1>1, <1>2, <1>4, CellValues DEF LoadsOwned, Inv, IInv, SettleInv, Carrying,
     At, Savers
<1> QED BY <1>5, <1>6, <1>7, <1>8, <1>9, <1>10, <1>11, <1>12, <1>13, <1>14, <1>15,
   <1>16, <1>17 DEF Inv, IInv, FaultFreeInv

(* The process starts again.                                               *)
LEMMA RestartStep ==
  ASSUME Inv, Restart
  PROVE  Inv'
<1>1. TypeOK
  BY DEF Inv, IInv
<1>2. /\ todo' \subseteq Jobs /\ \A k \in Jobs : (Recover /\ index[k] \in Active) => k \in todo'
  BY DEF Restart, ToRecover
<1>3. /\ phase = "down" /\ phase' = IF Recover THEN "recovering" ELSE "up"
      /\ boots' = boots + 1 /\ boots < MaxBoots
      /\ UNCHANGED <<mem, pc, thread, record, resultBlob, index, indexLock>>
      /\ UNCHANGED <<acked, cancelAcked, polls, srvCancelled>>
      /\ UNCHANGED <<load, own>>
  BY DEF Restart, Inv, IInv, PhasesOrdered, storageVars, clientVars, loadVars
<1>4. \A k \in Jobs, t \in Savers : (At(k, t) = "write" <=> indexLock = <<k, t>>)'
  BY <1>1, <1>2, <1>3 DEF TypeOK, At
<1>5. TypeOK'
  BY <1>1, <1>2, <1>3, <1>4, LifecycleAssumption DEF Inv, IInv, TypeOK
<1>6. SavesOwned'
  BY <1>1, <1>3 DEF Inv, IInv, At, SavesOwned, PhasesOrdered, RecordInMemory
<1>7. LoadsOwned'
  BY <1>1, <1>3, CellValues, NoneApart DEF Inv, IInv, LoadsOwned, RecordOf, Loading,
     At, Savers, Loaders, Carrying
<1>8. (~Faults /\ Recover) => LoadsBacked'
  BY <1>1, <1>3 DEF Inv, IInv, FaultFreeInv, LoadsBacked, Loading
<1>9. PhasesOrdered' /\ RecordInMemory'
  BY <1>1, <1>3 DEF Inv, IInv, At, PhasesOrdered, RecordInMemory
<1>10. SavesOrdered'
  BY <1>1, <1>3 DEF Inv, IInv, At, SavesOrdered
<1>11. ResultsFirst'
  BY <1>1, <1>3 DEF Inv, IInv, At, ResultsFirst
<1>12. AcknowledgedSurvives' /\ IndexPointsToBlobs'
  BY <1>1, <1>3 DEF Inv, IInv, AcknowledgedSurvives, IndexPointsToBlobs, At
<1>13. ~Faults => OneOutcome'
  BY <1>1, <1>3 DEF LoadsOwned, Carrying, Inv, IInv, FaultFreeInv, OneOutcome,
     RecordInMemory, PhasesOrdered, At
<1>14. ~Faults => OutcomesBacked'
  BY <1>1, <1>3 DEF Inv, IInv, FaultFreeInv, OutcomesBacked, At, SavesOwned
<1>15. (~Faults /\ Recover) => RecoveryOnTrack' /\ RecoveredInIndex' /\ CompletedHasResult'
  BY <1>1, <1>2, <1>3 DEF Inv, IInv, FaultFreeInv, RecoveryOnTrack, RecoveredInIndex,
     CompletedHasResult, At, SavesOwned
<1>16. (~Faults /\ MaxPolls = 0) => SettleInv'
  BY <1>1, <1>3 DEF LoadsOwned, Carrying, Inv, IInv, SettleInv, At, PhasesOrdered,
     RecordInMemory
<1> QED BY <1>4, <1>5, <1>6, <1>7, <1>8, <1>9, <1>10, <1>11, <1>12, <1>13, <1>14,
   <1>15, <1>16 DEF Inv, IInv, FaultFreeInv

(* A step that changes nothing.                                            *)
LEMMA StutterStep ==
  ASSUME Inv, UNCHANGED vars
  PROVE  Inv'
<1>1. TypeOK
  BY DEF Inv, IInv
<1>2. UNCHANGED <<mem, pc, thread, record, resultBlob, index, indexLock, acked>> 
      /\ UNCHANGED <<cancelAcked, polls, srvCancelled, phase, todo, boots>>
      /\ UNCHANGED <<load, own>>
  BY DEF vars, storageVars, clientVars, loadVars, processVars
<1>3. \A k \in Jobs, t \in Savers : (At(k, t) = "write" <=> indexLock = <<k, t>>)'
  BY <1>1, <1>2 DEF TypeOK, At
<1>4. TypeOK'
  BY <1>1, <1>2, <1>3 DEF Inv, IInv, TypeOK
<1>5. SavesOwned'
  BY <1>1, <1>2 DEF Inv, IInv, At, SavesOwned
<1>6. LoadsOwned'
  BY <1>1, <1>2, CellValues, NoneApart DEF Inv, IInv, LoadsOwned, RecordOf, Loading,
     At, Savers, Loaders, Carrying
<1>7. (~Faults /\ Recover) => LoadsBacked'
  BY <1>1, <1>2 DEF Inv, IInv, FaultFreeInv, LoadsBacked, Loading
<1>8. PhasesOrdered' /\ RecordInMemory'
  BY <1>1, <1>2 DEF Inv, IInv, At, PhasesOrdered, RecordInMemory
<1>9. SavesOrdered'
  BY <1>1, <1>2 DEF Inv, IInv, At, SavesOrdered
<1>10. ResultsFirst'
  BY <1>1, <1>2 DEF Inv, IInv, At, ResultsFirst
<1>11. AcknowledgedSurvives' /\ IndexPointsToBlobs'
  BY <1>1, <1>2 DEF Inv, IInv, AcknowledgedSurvives, IndexPointsToBlobs, At
<1>12. ~Faults => OneOutcome'
  BY <1>1, <1>2 DEF LoadsOwned, Carrying, Inv, IInv, FaultFreeInv, OneOutcome, At
<1>13. ~Faults => OutcomesBacked'
  BY <1>1, <1>2 DEF Inv, IInv, FaultFreeInv, OutcomesBacked, At
<1>14. (~Faults /\ Recover) => RecoveryOnTrack' /\ RecoveredInIndex' /\ CompletedHasResult'
  BY <1>1, <1>2 DEF Inv, IInv, FaultFreeInv, RecoveryOnTrack, RecoveredInIndex,
     CompletedHasResult, At
<1>15. (~Faults /\ MaxPolls = 0) => SettleInv'
  BY <1>1, <1>2 DEF LoadsOwned, Carrying, Inv, IInv, SettleInv, LeftTo, At, Active
<1> QED BY <1>3, <1>4, <1>5, <1>6, <1>7, <1>8, <1>9, <1>10, <1>11, <1>12, <1>13,
   <1>14, <1>15 DEF Inv, IInv, FaultFreeInv

-----------------------------------------------------------------------------
(* Nothing has been submitted, saved or asked for.                         *)
LEMMA InitInv == Init => Inv
<1> SUFFICES ASSUME Init PROVE Inv
  OBVIOUS
<1>1. \A j \in Jobs : /\ mem[j] = None /\ pc[j] = "none" /\ record[j] = None
                      /\ index[j] = None /\ ~resultBlob[j]
                      /\ own[j] = None
                      /\ \A s \in Savers : thread[j][s] = Idle
                      /\ \A h \in Loaders : load[j][h] = NoLoad
  BY DEF Init
<1>2. /\ indexLock = None /\ acked = {} /\ cancelAcked = {} /\ srvCancelled = {}
      /\ polls = 0 /\ phase = "up" /\ todo = {} /\ boots = 0
  BY DEF Init
<1>3. TypeOK
  <2>1. \A j \in Jobs, s \in Savers : At(j, s) = "write" <=> indexLock = <<j, s>>
    BY <1>1, <1>2, CellValues, LockApart DEF At
  <2>2. thread \in [Jobs -> [Savers -> Threads]]
    BY CellValues DEF Init
  <2>3. /\ mem \in [Jobs -> Records \cup {None}] /\ pc \in [Jobs -> Places]
        /\ record \in [Jobs -> Statuses \cup {None}] /\ resultBlob \in [Jobs -> BOOLEAN]
        /\ index \in [Jobs -> Statuses \cup {None}]
        /\ load \in [Jobs -> [Loaders -> Loads]] /\ own \in [Jobs -> Records \cup {None}]
    BY DEF Init, Places, Loads, NoLoad
  <2> QED BY <1>2, <2>1, <2>2, <2>3, LifecycleAssumption DEF TypeOK
<1>4. SavesOwned /\ PhasesOrdered /\ RecordInMemory /\ LoadsOwned
  BY <1>1, <1>2, CellValues DEF SavesOwned, LoadsOwned, Loading, NoLoad, Carrying,
     PhasesOrdered, RecordInMemory, At, Savers
<1>5. SavesOrdered /\ ResultsFirst
  BY <1>1, CellValues DEF SavesOrdered, ResultsFirst, Carrying, At
<1>6. AcknowledgedSurvives /\ IndexPointsToBlobs
  BY <1>1, <1>2, NoneApart DEF AcknowledgedSurvives, IndexPointsToBlobs
<1>7. FaultFreeInv
  BY <1>1, <1>2, CellValues, NoneApart
     DEF FaultFreeInv, OneOutcome, OutcomesBacked, RecoveryOnTrack, RecoveredInIndex,
         CompletedHasResult, LoadsBacked, NoLoad, Carrying, At, Savers
<1>8. SettleInv
  BY <1>1, <1>2, CellValues DEF SettleInv, At, Savers
<1> QED BY <1>3, <1>4, <1>5, <1>6, <1>7, <1>8 DEF Inv, IInv

(* The steps of a save, each with its lemma above.                         *)
LEMMA SaveStepInv ==
  ASSUME Inv, NEW j \in Jobs, NEW s \in Savers, SaveStep(j, s)
  PROVE  Inv'
BY ReadStatusStep, ReadResultStep, PutRecordStep, PutResultStep, ReadIndexStep,
   PutIndexStep, StorageErrorStep DEF SaveStep

(* The steps of _run_job.                                                  *)
LEMMA RunStepInv ==
  ASSUME Inv, NEW j \in Jobs, RunStep(j)
  PROVE  Inv'
<1>1. CASE StartRun(j)
  BY <1>1, StartRunStep, SkipRunStep
<1>2. CASE FinalizeJob(j)
  BY <1>2, FinalizeJobStep, DropOutcomeStep
<1> QED
  BY <1>1, <1>2, StartReturnsStep, ExecuteReturnsStep, ExecuteCancelledStep,
     RunRaisesStep, FinishReturnsStep, FinishFailsStep, RegisterDoneStep,
     FinalReturnsStep
     DEF RunStep

(* The steps of the routes a client calls.                                 *)
LEMMA ClientStepInv ==
  ASSUME Inv, NEW j \in Jobs, ClientStep(j)
  PROVE  Inv'
<1>1. CASE ApplyProgress(j)
  <2>1. thread' = Saving(j, "progress") \/ thread' = Ended(j, "progress")
    BY <1>1 DEF ApplyProgress
  <2> QED BY <1>1, <2>1, ApplyProgressStep, SameProgressStep
<1>2. ASSUME NEW h \in Loaders, LoadStep(j, h) PROVE Inv'
  BY <1>2, LoadBeginStep, LoadRecordStep, LoadResultStep, LoadFailsStep, LoadStoreStep
     DEF LoadStep
<1> QED
  BY <1>1, <1>2, SubmitJobStep, SubmitReturnsStep, SubmitFailsStep, CancelTableStep,
     CancelOwnStep, CancelAskedStep, CancelRefusedStep,
     CancelReturnsStep, CancelFailsStep, PollProgressStep, ProgressReturnsStep
     DEF ClientStep

(* The steps of shutdown, restart and recovery.                            *)
LEMMA ProcessStepInv ==
  ASSUME Inv, ProcessStep
  PROVE  Inv'
<1>1. CASE ProcessExit
  <2>1. Forget /\ boots < MaxBoots
    BY <1>1 DEF ProcessExit, Inv, IInv, PhasesOrdered
  <2> QED BY <2>1, ForgetStep
<1>2. ASSUME NEW j \in Jobs, RecoverJob(j) PROVE Inv'
  <2>1. CASE thread' = thread
    <3>1. todo' = todo \ {j} \/ UNCHANGED vars
      BY <1>2, <2>1 DEF RecoverJob, vars, processVars
    <3> QED BY <1>2, <2>1, <3>1, SkipJobStep, StutterStep
  <2>2. CASE thread' # thread
    BY <1>2, <2>2, RecoverJobStep DEF RecoverJob
  <2> QED BY <2>1, <2>2
<1> QED
  BY <1>1, <1>2, CancelTasksStep, RestartStep, RecoverDoneStep, ShutdownSaveStep,
     ShutdownSavedStep, RecoverSavedStep DEF ProcessStep

(* Every step preserves the invariant, a crash included.                   *)
LEMMA StepInv == Inv /\ [Next]_vars => Inv'
<1> SUFFICES ASSUME Inv, [Next]_vars PROVE Inv'
  OBVIOUS
<1>1. CASE Crash
  BY <1>1, ForgetStep DEF Crash
<1> QED
  BY <1>1, SaveStepInv, RunStepInv, ClientStepInv, ProcessStepInv, BeginShutdownStep,
     StutterStep DEF Next

(* The invariant holds in every reachable state.                           *)
LEMMA Invariance == Spec => []Inv
BY InitInv, StepInv, PTL DEF Spec

-----------------------------------------------------------------------------
(* Memory, archive and the lock of the index have their types: _index_lock *)
(* is held exactly by the one save that has read the index and not yet     *)
(* written it.                                                             *)
THEOREM TypeCorrect == Spec => []TypeOK
<1>1. Inv => TypeOK
  BY DEF Inv, IInv
<1> QED BY <1>1, Invariance, PTL

(* A job whose submission was answered stays in the archive, record and    *)
(* index entry, through crashes, failing calls and the saves of others.    *)
THEOREM NothingAcknowledgedIsLost == Spec => []AcknowledgedSurvives
<1>1. Inv => AcknowledgedSurvives
  BY DEF Inv, IInv
<1> QED BY <1>1, Invariance, PTL

(* The index never lists a job without a record, or one as completed       *)
(* without a result, although several saves of a job write the blobs and   *)
(* the index in any order.                                                 *)
THEOREM IndexBacked == Spec => []IndexPointsToBlobs
<1>1. Inv => IndexPointsToBlobs
  BY DEF Inv, IInv
<1> QED BY <1>1, Invariance, PTL

(* No outcome, exception or shutdown replaces a cancelled record in jobs:  *)
(* the only step that can is the end of a load that began when the record  *)
(* of a job of an earlier process was not there yet.                       *)
THEOREM CancellationStands == Spec => CancelIsFinal
<1> DEFINE Stands ==
      \A j \in Jobs : (mem[j] # None /\ mem[j].status = "cancelled" /\ mem'[j] # None)
         => mem'[j].status = "cancelled" \/ StaleLoad(j)
<1>1. ASSUME Inv, Next PROVE Stands
  <2> SUFFICES ASSUME NEW j \in Jobs, mem[j] # None, mem[j].status = "cancelled",
                      mem'[j] # None, ~StaleLoad(j)
               PROVE  mem'[j].status = "cancelled"
    OBVIOUS
  <2>1. TypeOK /\ mem[j] \in Records
    BY <1>1 DEF Inv, IInv, TypeOK
  <2>2. ASSUME NEW k \in Jobs, RunStep(k) PROVE mem'[j].status = "cancelled"
    BY <2>1, <2>2 DEF TypeOK, Records, RunStep, StartRun, StartReturns,
       ExecuteReturns, ExecuteCancelled, RunRaises, FinalizeJob, FinishReturns,
       FinishFails, RegisterDone, FinalReturns
  <2>3. ASSUME NEW k \in Jobs, NEW h \in Loaders, LoadStep(k, h)
        PROVE  mem'[j].status = "cancelled"
    <3>1. CASE LoadStore(k, h)
      <4>1. pc[k] = "none"
        BY <1>1, <3>1 DEF Inv, IInv, LoadsOwned, LoadStore
      <4>2. k # j
        BY <3>1, <4>1 DEF StaleLoad
      <4> QED BY <2>1, <3>1, <4>2 DEF LoadStore, TypeOK
    <3> QED BY <2>3, <3>1 DEF LoadStep, LoadBegin, LoadRecord, LoadResult, LoadFails
  <2>4. ASSUME NEW k \in Jobs, ClientStep(k) PROVE mem'[j].status = "cancelled"
    <3>1. CASE SubmitJob(k)
      BY <2>1, <3>1 DEF SubmitJob, TypeOK
    <3>2. CASE CancelJob(k)
      <4>1. mem' = mem \/ mem' = [mem EXCEPT ![k].status = "cancelled"]
        BY <3>2 DEF CancelJob
      <4>2. CASE k = j
        BY <2>1, <4>1, <4>2 DEF TypeOK, Records
      <4>3. CASE k # j
        BY <2>1, <4>1, <4>3 DEF TypeOK
      <4> QED BY <4>2, <4>3
    <3>3. CASE \E h \in Loaders : LoadStep(k, h)
      BY <2>3, <3>3
    <3>4. CASE \/ SubmitReturns(k) \/ SubmitFails(k) \/ CancelAsked(k)
               \/ CancelRefused(k) \/ CancelReturns(k) \/ CancelFails(k)
               \/ PollProgress(k) \/ ApplyProgress(k) \/ ProgressReturns(k)
      BY <3>4 DEF SubmitReturns, SubmitFails, CancelAsked, CancelRefused,
         CancelReturns, CancelFails, PollProgress, ApplyProgress, ProgressReturns
    <3> QED BY <2>4, <3>1, <3>2, <3>3, <3>4 DEF ClientStep
  <2>5. ASSUME NEW k \in Jobs, NEW s \in Savers, SaveStep(k, s)
        PROVE  mem'[j].status = "cancelled"
    BY <2>5 DEF SaveStep, ReadStatus, ReadResult, PutRecord, PutResult, ReadIndex,
       PutIndex, StorageError
  <2>6. CASE ProcessStep
    BY <2>6 DEF ProcessStep, CancelTasks, ProcessExit, Forget, Restart, RecoverDone,
       ShutdownSave, ShutdownSaved, RecoverJob, RecoverSaved
  <2>7. CASE BeginShutdown
    BY <2>7 DEF BeginShutdown, Active
  <2>8. CASE Crash
    BY <2>8 DEF Crash, Forget
  <2> QED BY <1>1, <2>2, <2>4, <2>5, <2>6, <2>7, <2>8 DEF Next
<1>2. Inv /\ [Next]_vars => [Stands]_vars
  BY <1>1 DEF StaleLoad
<1> QED BY <1>2, Invariance, PTL DEF Spec, CancelIsFinal

(* While no call to the archive fails and nobody asks for the progress of  *)
(* a job, the archive shows what the record says once the task has ended   *)
(* and no save is under way, whatever the order in which the saves of the  *)
(* task and of a cancellation have run.                                    *)
THEOREM SavesSettle ==
  ASSUME ~Faults, MaxPolls = 0
  PROVE  Spec => []StorageSettles
<1>1. Inv => StorageSettles
  BY DEF Inv, SettleInv, LeftTo, StorageSettles, Carrying, Savers
<1> QED BY <1>1, Invariance, PTL

(* While no call to the archive fails, recovery leaves no job of an        *)
(* earlier process active in the index.                                    *)
THEOREM RecoveryReachesIndex ==
  ASSUME ~Faults
  PROVE  Spec => []RecoveredInIndex
<1>1. Inv => RecoveredInIndex
  BY DEF Inv, FaultFreeInv, RecoveredInIndex
<1> QED BY <1>1, Invariance, PTL

(* While no call to the archive fails, a job reported as completed has its *)
(* result at hand, also when a later process loads it from the archive.    *)
THEOREM CompletedServed ==
  ASSUME ~Faults, Recover
  PROVE  Spec => []CompletedHasResult
<1>1. Inv => CompletedHasResult
  BY DEF Inv, FaultFreeInv
<1> QED BY <1>1, Invariance, PTL
=============================================================================
