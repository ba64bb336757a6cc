--------------------------- MODULE JobListSerial ---------------------------
(***************************************************************************)
(* The job list of JobList.tla used by one process at a time: the way the  *)
(* program is meant to be used, since nothing locks the list.  It then     *)
(* implements the queue of JobQueue.tla, and a user who keeps asking gets  *)
(* every job that can be done.                                             *)
(***************************************************************************)
EXTENDS JobList

ASSUME SerialAssumption == \E p \in Proc : Proc = {p}
ASSUME SparedAssumption == MayFail \intersect Destructive = {}

(* The one process. *)
Solo == CHOOSE p \in Proc : TRUE

-----------------------------------------------------------------------------
(* The refinement mapping.                                                  *)

(* While the list is being replaced the queue is in the temporary file. *)
QueueOf == IF pc[Solo] = "rename" THEN tmp[Solo].jobs ELSE list.jobs

(* Jobs that have been carried out and not yet taken out of the list: the   *)
(* first ones for -d alone, the one with the given name otherwise.          *)
RanOf ==
  IF ~doing[Solo] \/ pc[Solo] \notin {"run", "save", "write", "unlink"} THEN {}
  ELSE IF req[Solo].name = NULL THEN 1..(Len(list.jobs) - Len(ctx[Solo]))
  ELSE IF pc[Solo] = "run" THEN {}
  ELSE {JobIndex(list.jobs, req[Solo].name)}

Queue == INSTANCE JobQueue WITH queue <- QueueOf, ran <- RanOf,
                               deaths <- crashes

(* None of the Destructive failures happening, whatever else fails and      *)
(* wherever: -a appends one job at the end and moves no other; a job leaves *)
(* the list only after backup_file or restore_file has succeeded on it in   *)
(* the same invocation, and all others stay in their order; nothing else    *)
(* changes the list, but for a kill in the middle of replacing it, which    *)
(* may leave none (backup and restore with all they call).                  *)
ImplementsQueue == Queue!Spec

-----------------------------------------------------------------------------
(* A user who does not give up.                                             *)

(* -d alone, again and again. *)
AskForAll == SF_vars(Invoke(Solo, FALSE, TRUE, NULL))

ForAllSpec == FairSpec /\ AskForAll

(* main.c:29 of the usage text: "-d --do-job : do job which in config json".*)
(* Every job in the list whose file can be copied is done in the end, if no *)
(* kill loses the list.  -d with a name gets there although saves may fail  *)
(* for ever and other names be hopeless, because demo_del_job_from_ctx      *)
(* finds the job wherever it is in the list; -d alone does not get past a   *)
(* job that fails.                                                          *)
JobsGetDone ==
  \A n \in Name \ (Broken \union Flaky) :
    n \in owed ~> n \notin owed \/ crashes > 0
=============================================================================
