----------------------------- MODULE MCJobQueue -----------------------------
(***************************************************************************)
(* Instances of JobQueue for TLC.  The workflows of job j are numbered     *)
(* 10j, 10j + 1, ...                                                       *)
(***************************************************************************)
EXTENDS JobQueue, TLC

(***************************************************************************)
(* Two users share partition P at one priority, one of them with more      *)
(* workflows than fit in a batch; partition Q has work of two priorities.  *)
(* Job 2 comes back after it has finished; a quantum of one is the least   *)
(* that lets work by.                                                      *)
(***************************************************************************)
MCUsers == {"ua", "ub"}
MCPartitions == {"P", "Q"}
MCJobs == 1..4
MCItemsOf == <<<<10, 11, 12>>, <<20>>, <<30>>, <<40>>>>
MCUserOf == <<"ua", "ub", "ua", "ub">>
MCPriorityOf == <<2, 2, 2, 1>>
MCPartOf == <<"P", "P", "Q", "Q">>
MCWorkflows == UNION {Range(MCItemsOf[j]) : j \in MCJobs}
MCRecurring == {2}
MCQuantum == <<1, 3, 1>>
=============================================================================
