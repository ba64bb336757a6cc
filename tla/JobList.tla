------------------------------- MODULE JobList -------------------------------
(***************************************************************************)
(* One job list of the program, /etc/restore/backup.json or                *)
(* /etc/restore/restore.json, and the invocations that read, extend, work  *)
(* off and replace it.  Translated from backup() and restore() with their  *)
(* init, add and do helpers (src/src/file_backup.c, file_restore.c), the   *)
(* job context (src/lib/job_proxy.c) and the file helpers that create and  *)
(* replace the list (src/lib/file_utils.c).                                *)
(*                                                                         *)
(* Each process is one invocation after another of the command.  Its       *)
(* system calls on the list are separate steps, nothing locks the list, a  *)
(* call named in MayFail may fail, and a process may be killed between     *)
(* any two steps.  What a job does to its file (backup_file, restore_file) *)
(* is modelled in FileCopy.tla; here a job succeeds or fails.              *)
(***************************************************************************)
EXTENDS Naturals, Sequences, SequencesExt

CONSTANTS
  Proc,        (* processes that may run the command at the same time       *)
  Name,        (* file names given on the command line                      *)
  NULL,        (* no file name: -d without a path                           *)
  Broken,      (* names the command accepts and can never copy, such as a   *)
               (* directory: access() finds it, reading it does not work    *)
  Flaky,       (* names whose file may be missing when it is looked for     *)
  Backup,      (* TRUE for backup.json, FALSE for restore.json              *)
  MayFail,     (* the calls that may fail                                   *)
  MaxAdds,     (* bound on the number of -a invocations                     *)
  MaxCrashes   (* bound on the number of kills                              *)

Calls == {"creat", "mkdir", "read", "print", "mkstemp", "write",
          "unlink", "rename", "chdir"}

(* Failures after which a list that was fine is gone: the old file is       *)
(* removed and the new one not put in place, a list that cannot be read is  *)
(* taken for an empty one, a list that cannot be printed is not stored.     *)
Destructive == {"read", "print", "rename"}

ASSUME NameAssumption == NULL \notin Name
ASSUME JobAssumption == Broken \subseteq Name /\ Flaky \subseteq Name
ASSUME FaultAssumption == MayFail \subseteq Calls /\ Backup \in BOOLEAN
ASSUME BoundAssumption == MaxAdds \in Nat /\ MaxCrashes \in Nat

VARIABLES
  (* Files. *)
  list,        (* what the name of the job list stands for                  *)
  dirOk,       (* its directory /etc/restore exists                         *)
  tmp,         (* the temporary file of each process: of its save, or one   *)
               (* its last invocation has left behind                       *)
  orphans,     (* temporary files of killed processes                       *)
  (* Processes. *)
  pc,          (* the next step of each process, "idle" between invocations *)
  req,         (* the command line it works on                              *)
  doing,       (* it has got past -a and is carrying out -d                 *)
  ctx,         (* the names in FJOB_CTX.array                               *)
  rc,          (* result so far, and of the last invocation when idle       *)
  (* Bookkeeping of the model. *)
  owed,        (* names acknowledged with success and not carried out since *)
  clobbered,   (* an -a ran while another invocation did, or creat() has    *)
               (* cut a list that held jobs                                 *)
  fatal,       (* the Destructive failures that have happened               *)
  unremoved,   (* processes whose last invocation could not remove its      *)
               (* temporary file                                            *)
  adds,        (* number of -a invocations                                  *)
  crashes      (* number of kills                                           *)

fileVars == <<list, dirOk, tmp, orphans>>
procVars == <<pc, req, doing, ctx, rc>>
bookVars == <<owed, clobbered, fatal, unremoved, adds, crashes>>
vars == <<fileVars, procVars, bookVars>>

-----------------------------------------------------------------------------
(* A file is absent, of length zero (as creat leaves it), a whole JSON      *)
(* array, or the beginning of one.                                          *)
Whole(s) == [kind |-> "whole", jobs |-> s]
Absent == [kind |-> "absent", jobs |-> <<>>]
Zero == [kind |-> "zero", jobs |-> <<>>]
Torn == [kind |-> "torn", jobs |-> <<>>]
File == [kind : {"whole"}, jobs : Seq(Name)] \union {Absent, Zero, Torn}

(* The path of an invocation with the effect its flags have on the list:    *)
(* -a comes with a path (main.c refuses it without), and -l, whatever other *)
(* flags it is given with, only initialises.                                *)
Request == [add : BOOLEAN, do : BOOLEAN, name : Name \union {NULL}]
NoRequest == [add |-> FALSE, do |-> FALSE, name |-> NULL]

PC == {"idle", "init", "make", "creat", "recreat", "add", "save", "write",
       "unlink", "rename", "out", "do", "run"}

NamesOf(f) == ToSet(f.jobs)

Active(p) == pc[p] # "idle"

(* Every name some complete list on the disk still holds, be it under the   *)
(* temporary name of a running or of a killed process.  What a failed save  *)
(* should have removed does not count.                                      *)
Recorded ==
  UNION {NamesOf(f) : f \in {list} \union {tmp[p] : p \in {q \in Proc : Active(q)}}
                              \union orphans}

Goto(p, l) == pc' = [pc EXCEPT ![p] = l]

(* The invocation ends with a result and its memory is released. *)
Return(p, result) ==
  /\ Goto(p, "idle")
  /\ req' = [req EXCEPT ![p] = NoRequest]
  /\ doing' = [doing EXCEPT ![p] = FALSE]
  /\ ctx' = [ctx EXCEPT ![p] = <<>>]
  /\ rc' = [rc EXCEPT ![p] = result]

-----------------------------------------------------------------------------
Init ==
  /\ list = Absent
  /\ dirOk \in BOOLEAN
  /\ tmp = [p \in Proc |-> Absent]
  /\ orphans = {}
  /\ pc = [p \in Proc |-> "idle"]
  /\ req = [p \in Proc |-> NoRequest]
  /\ doing = [p \in Proc |-> FALSE]
  /\ ctx = [p \in Proc |-> <<>>]
  /\ rc = [p \in Proc |-> "SUCCESS"]
  /\ owed = {}
  /\ clobbered = FALSE
  /\ fatal = {}
  /\ unremoved = {}
  /\ adds = 0
  /\ crashes = 0

(* main: one path of the command line, or -d alone.  A temporary file that  *)
(* the last invocation has left has a name nobody uses; it is followed no   *)
(* further.                                                                 *)
Invoke(p, a, d, n) ==
  /\ pc[p] = "idle"
  /\ n = NULL => ~a
  /\ a => adds < MaxAdds
  /\ Goto(p, "init")
  /\ req' = [req EXCEPT ![p] = [add |-> a, do |-> d, name |-> n]]
  /\ clobbered' = (clobbered \/ \E q \in Proc \ {p} :
                                 Active(q) /\ (a \/ req[q].add))
  /\ adds' = IF a THEN adds + 1 ELSE adds
  /\ rc' = [rc EXCEPT ![p] = "SUCCESS"]
  /\ tmp' = [tmp EXCEPT ![p] = Absent]
  /\ unremoved' = unremoved \ {p}
  /\ UNCHANGED <<list, dirOk, orphans, doing, ctx, owed, fatal, crashes>>

-----------------------------------------------------------------------------
(* init_backup and init_restore.                                            *)

(* The list is there: init_backup also makes the directory of the backups,  *)
(* which may fail; then the flags select what follows.                      *)
Initialised(p) ==
  \/ /\ req[p].add
     /\ Goto(p, "add")
     /\ UNCHANGED <<req, doing, ctx, rc>>
  \/ /\ ~req[p].add /\ req[p].do
     /\ Goto(p, "do")
     /\ doing' = [doing EXCEPT ![p] = TRUE]
     /\ UNCHANGED <<req, ctx, rc>>
  \/ /\ ~req[p].add /\ ~req[p].do
     /\ Return(p, "SUCCESS")
  \/ /\ Backup /\ "mkdir" \in MayFail
     /\ Return(p, "ERROR")

(* The first access() of init_backup and init_restore. *)
InitAccess(p) ==
  /\ pc[p] = "init"
  /\ IF list = Absent
       THEN Goto(p, "make") /\ UNCHANGED <<req, doing, ctx, rc>>
       ELSE Initialised(p)
  /\ UNCHANGED <<fileVars, bookVars>>

(* demo_make_file looks again and refuses a file that exists by now. *)
MakeAccess(p) ==
  /\ pc[p] = "make"
  /\ IF list = Absent
       THEN Goto(p, "creat") /\ UNCHANGED <<req, doing, ctx, rc>>
       ELSE Return(p, "ERROR")
  /\ UNCHANGED <<fileVars, bookVars>>

(* creat(): a new file, or one that somebody else has made since access()   *)
(* looked, cut to length zero.                                              *)
MakeZero ==
  /\ list' = Zero
  /\ clobbered' = (clobbered \/ list.jobs # <<>>)

(* Without the directory creat() fails, and demo_make_dir is called. *)
Creat(p) ==
  /\ pc[p] = "creat"
  /\ \/ /\ dirOk
        /\ MakeZero
        /\ Initialised(p)
        /\ UNCHANGED dirOk
     \/ /\ dirOk /\ "creat" \in MayFail
        /\ Return(p, "ERROR")
        /\ UNCHANGED <<list, dirOk, clobbered>>
     \/ /\ ~dirOk
        /\ dirOk' \in {TRUE} \union (IF "mkdir" \in MayFail THEN {FALSE} ELSE {})
        /\ Goto(p, "recreat")
        /\ UNCHANGED <<list, clobbered, req, doing, ctx, rc>>
  /\ UNCHANGED <<tmp, orphans, owed, fatal, unremoved, adds, crashes>>

(* The second creat(), whose result is dropped: demo_make_file reports an   *)
(* error even when the file is there now.                                   *)
Recreat(p) ==
  /\ pc[p] = "recreat"
  /\ \/ dirOk /\ MakeZero
     \/ (~dirOk \/ "creat" \in MayFail) /\ UNCHANGED <<list, clobbered>>
  /\ Return(p, "ERROR")
  /\ UNCHANGED <<dirOk, tmp, orphans, owed, fatal, unremoved, adds, crashes>>

-----------------------------------------------------------------------------
(* add_backup_job and add_restore_job.                                      *)

(* What demo_get_ctx_from_file makes of the list for an add: a list that is *)
(* missing, empty or unreadable is an empty array.                          *)
LoadedForAdd == {list.jobs} \union (IF "read" \in MayFail THEN {<<>>} ELSE {})

(* The list is loaded, the file (the backup of it, for a restore) looked    *)
(* for, and the job appended in memory.                                     *)
AddJob(p) ==
  /\ pc[p] = "add"
  /\ \/ \E s \in LoadedForAdd :
          /\ ctx' = [ctx EXCEPT ![p] = Append(s, req[p].name)]
          /\ fatal' = IF s = list.jobs THEN fatal ELSE fatal \union {"read"}
          /\ Goto(p, "save")
          /\ UNCHANGED <<req, doing, rc>>
     \/ /\ req[p].name \in Flaky
        /\ Return(p, "ERROR")
        /\ UNCHANGED fatal
  /\ UNCHANGED <<fileVars, owed, clobbered, unremoved, adds, crashes>>

-----------------------------------------------------------------------------
(* demo_add_ctx_to_file and demo_file_data_cover.                           *)

(* The two results of a save and where the invocation goes with them. *)
Saved(p) ==
  /\ owed' = IF doing[p] THEN owed ELSE owed \union {req[p].name}
  /\ IF ~doing[p] /\ req[p].do
       THEN /\ Goto(p, "do")
            /\ doing' = [doing EXCEPT ![p] = TRUE]
            /\ ctx' = [ctx EXCEPT ![p] = <<>>]
            /\ UNCHANGED <<req, rc>>
       ELSE Return(p, "SUCCESS")

(* Faulty variant: the result of demo_file_data_cover is dropped. *)
NotSavedUnreported(p) ==
  /\ Return(p, "SUCCESS")
  /\ UNCHANGED owed

NotSaved(p) ==
  /\ Return(p, "ERROR")
  /\ UNCHANGED owed

(* The list must exist; a temporary file is made next to it.  A list that   *)
(* cannot be printed is not written, and that counts as success.            *)
CoverOpen(p) ==
  /\ pc[p] = "save"
  /\ \/ /\ "print" \in MayFail
        /\ fatal' = fatal \union {"print"}
        /\ Saved(p)
        /\ UNCHANGED tmp
     \/ /\ list = Absent \/ "mkstemp" \in MayFail
        /\ NotSaved(p)
        /\ UNCHANGED <<tmp, fatal>>
     \/ /\ list # Absent
        /\ tmp' = [tmp EXCEPT ![p] = Zero]
        /\ Goto(p, "write")
        /\ UNCHANGED <<req, doing, ctx, rc, owed, fatal>>
  /\ UNCHANGED <<list, dirOk, orphans, clobbered, unremoved, adds, crashes>>

(* A failing step of demo_file_data_cover: on to its out label. *)
CoverFails(p) ==
  /\ Goto(p, "out")
  /\ rc' = [rc EXCEPT ![p] = "ERROR"]

(* Faulty variant: the result of write() is not looked at. *)
CoverWriteUnchecked(p) ==
  /\ pc[p] = "write"
  /\ tmp' \in {[tmp EXCEPT ![p] = f] :
                f \in {Whole(ctx[p])} \union IF "write" \in MayFail THEN {Torn} ELSE {}}
  /\ Goto(p, "unlink")
  /\ UNCHANGED <<list, dirOk, orphans, req, doing, ctx, rc, bookVars>>

CoverWrite(p) ==
  /\ pc[p] = "write"
  /\ \/ /\ tmp' = [tmp EXCEPT ![p] = Whole(ctx[p])]
        /\ Goto(p, "unlink")
        /\ UNCHANGED rc
     \/ /\ "write" \in MayFail
        /\ tmp' = [tmp EXCEPT ![p] = Torn]
        /\ CoverFails(p)
  /\ UNCHANGED <<list, dirOk, orphans, req, doing, ctx, bookVars>>

CoverUnlink(p) ==
  /\ pc[p] = "unlink"
  /\ \/ /\ list # Absent
        /\ list' = Absent
        /\ Goto(p, "rename")
        /\ UNCHANGED rc
     \/ /\ list = Absent \/ "unlink" \in MayFail
        /\ CoverFails(p)
        /\ UNCHANGED list
  /\ UNCHANGED <<dirOk, tmp, orphans, req, doing, ctx, bookVars>>

(* Faulty variant: the target of rename() is not the name of the list. *)
CoverRenameElsewhere(p) ==
  /\ pc[p] = "rename"
  /\ tmp' = [tmp EXCEPT ![p] = Absent]
  /\ Goto(p, "out")
  /\ UNCHANGED <<list, dirOk, orphans, req, doing, ctx, rc, bookVars>>

(* rename() replaces whatever the name stands for by now. *)
CoverRename(p) ==
  /\ pc[p] = "rename"
  /\ \/ /\ list' = tmp[p]
        /\ tmp' = [tmp EXCEPT ![p] = Absent]
        /\ Goto(p, "out")
        /\ UNCHANGED <<rc, fatal>>
     \/ /\ "rename" \in MayFail
        /\ fatal' = fatal \union {"rename"}
        /\ CoverFails(p)
        /\ UNCHANGED <<list, tmp>>
  /\ UNCHANGED <<dirOk, orphans, req, doing, ctx, owed, clobbered, unremoved, adds,
                 crashes>>

(* Faulty variant: a failed save leaves its temporary file. *)
CoverOutLeavesTmp(p) ==
  /\ pc[p] = "out"
  /\ IF rc[p] = "SUCCESS" THEN Saved(p) ELSE NotSaved(p)
  /\ UNCHANGED <<list, dirOk, tmp, orphans, clobbered, fatal, unremoved, adds, crashes>>

(* The out label: a temporary file still there goes, unless its unlink()    *)
(* fails, whose result is dropped.  The old working directory is restored,  *)
(* and an error there is an error of the save.                              *)
CoverOut(p) ==
  /\ pc[p] = "out"
  /\ \/ /\ tmp' = [tmp EXCEPT ![p] = Absent]
        /\ UNCHANGED unremoved
     \/ /\ tmp[p] # Absent /\ "unlink" \in MayFail
        /\ unremoved' = unremoved \union {p}
        /\ UNCHANGED tmp
  /\ \/ rc[p] = "SUCCESS" /\ Saved(p)
     \/ (rc[p] = "ERROR" \/ "chdir" \in MayFail) /\ NotSaved(p)
  /\ UNCHANGED <<list, dirOk, orphans, clobbered, fatal, adds, crashes>>

-----------------------------------------------------------------------------
(* do_backup_job and do_restore_job, with demo_del_job_from_ctx.            *)

(* Faulty variant: the name is not looked for. *)
JobIndexHead(s, n) == 1

(* The first entry with the wanted name, or simply the first one. *)
JobIndex(s, n) == IF n = NULL THEN 1 ELSE SelectInSeq(s, LAMBDA m : m = n)

(* The list is loaded; a list without an array, or without the wanted name, *)
(* is an error, and an empty array has nothing to run but is saved.         *)
DoLoad(p) ==
  /\ pc[p] = "do"
  /\ \/ /\ list.kind = "whole"
        /\ req[p].name \in {NULL} \union NamesOf(list)
        /\ ctx' = [ctx EXCEPT ![p] = list.jobs]
        /\ Goto(p, IF list.jobs = <<>> THEN "save" ELSE "run")
        /\ UNCHANGED <<req, doing, rc>>
     \/ /\ \/ list.kind # "whole"
           \/ req[p].name \notin {NULL} \union NamesOf(list)
           \/ "read" \in MayFail
        /\ Return(p, "ERROR")
  /\ UNCHANGED <<fileVars, bookVars>>

(* Faulty variant: the job stays in the array. *)
RunJobKeeps(p) ==
  /\ pc[p] = "run"
  /\ owed' = owed \ {ctx[p][JobIndex(ctx[p], req[p].name)]}
  /\ Goto(p, IF req[p].name = NULL THEN "run" ELSE "save")
  /\ UNCHANGED <<fileVars, req, doing, ctx, rc, clobbered, fatal, unremoved, adds, crashes>>

(* Faulty variant: a job that fails is taken out like one that succeeds. *)
RunJobDropsFailed(p) ==
  /\ pc[p] = "run"
  /\ ctx' = [ctx EXCEPT ![p] = RemoveAt(ctx[p], JobIndex(ctx[p], req[p].name))]
  /\ Goto(p, IF req[p].name = NULL /\ Len(ctx[p]) > 1 THEN "run" ELSE "save")
  /\ UNCHANGED <<fileVars, req, doing, rc, bookVars>>

(* One call of backup_file or restore_file.  Success removes the job from   *)
(* the array, in memory only; -d alone goes on until the array is empty.    *)
(* A failure ends the invocation and nothing is saved.                      *)
RunJob(p) ==
  /\ pc[p] = "run"
  /\ LET i == JobIndex(ctx[p], req[p].name)
         n == ctx[p][i]
         rest == RemoveAt(ctx[p], i)
     IN \/ /\ n \notin Broken
           /\ ctx' = [ctx EXCEPT ![p] = rest]
           /\ owed' = owed \ {n}
           /\ Goto(p, IF req[p].name = NULL /\ rest # <<>> THEN "run" ELSE "save")
           /\ UNCHANGED <<req, doing, rc>>
        \/ /\ n \in Broken \union Flaky
           /\ Return(p, "ERROR")
           /\ UNCHANGED owed
  /\ UNCHANGED <<fileVars, clobbered, fatal, unremoved, adds, crashes>>

-----------------------------------------------------------------------------
(* The process is killed: its memory is gone, its temporary file stays. *)
Crash(p) ==
  /\ Active(p)
  /\ crashes < MaxCrashes
  /\ crashes' = crashes + 1
  /\ orphans' = orphans \union ({tmp[p]} \ {Absent})
  /\ tmp' = [tmp EXCEPT ![p] = Absent]
  /\ Return(p, "ERROR")
  /\ UNCHANGED <<list, dirOk, owed, clobbered, fatal, unremoved, adds>>

Step(p) ==
  \/ InitAccess(p) \/ MakeAccess(p) \/ Creat(p) \/ Recreat(p)
  \/ AddJob(p)
  \/ CoverOpen(p) \/ CoverWrite(p) \/ CoverUnlink(p) \/ CoverRename(p)
  \/ CoverOut(p)
  \/ DoLoad(p) \/ RunJob(p)

Next ==
  \E p \in Proc :
    \/ \E a, d \in BOOLEAN, n \in Name \union {NULL} : Invoke(p, a, d, n)
    \/ Step(p)
    \/ Crash(p)

Spec == Init /\ [][Next]_vars

(* A process that has been started gets on; nobody has to start one. *)
FairSpec == Spec /\ \A p \in Proc : WF_vars(Step(p))

-----------------------------------------------------------------------------
(* Properties.                                                              *)

(* Every variable has its type.  The list itself is never the beginning of  *)
(* an array: the temporary file takes its name only when all of it is       *)
(* written (demo_file_data_cover).                                          *)
TypeOK ==
  /\ list \in File \ {Torn}
  /\ dirOk \in BOOLEAN
  /\ tmp \in [Proc -> File]
  /\ orphans \subseteq File
  /\ pc \in [Proc -> PC]
  /\ req \in [Proc -> Request]
  /\ doing \in [Proc -> BOOLEAN]
  /\ ctx \in [Proc -> Seq(Name)]
  /\ rc \in [Proc -> {"SUCCESS", "ERROR"}]
  /\ owed \subseteq Name
  /\ clobbered \in BOOLEAN
  /\ fatal \subseteq Destructive
  /\ unremoved \subseteq Proc
  /\ adds \in 0..MaxAdds
  /\ crashes \in 0..MaxCrashes

(* A file whose -a was answered with success, and that has not been copied  *)
(* since, is named by a complete list on the disk: through failing calls,   *)
(* through kills at any step (it may then take the temporary file to find   *)
(* it), and however many -d run at the same time.  The conditions say where *)
(* the code does lose jobs: an -a beside another invocation, a creat() that *)
(* cuts a list made since access() looked, and the Destructive failures.    *)
NoLoss ==
  ~clobbered /\ fatal = {} => owed \subseteq Recorded

(* Any number of invocations side by side: once a job has been accepted the *)
(* list is missing only while one of them is between the unlink() and the   *)
(* rename() of demo_file_data_cover.                                        *)
MissingOnlyMidSave ==
  owed # {} /\ list = Absent /\ crashes = 0 /\ "rename" \notin fatal
    => \E p \in Proc : pc[p] = "rename"

(* At whatever step a save fails, demo_file_data_cover leaves no temporary  *)
(* file in /etc/restore behind, unless the unlink() of that very file fails *)
(* too, whose result it drops.                                              *)
NoStrayTmp ==
  \A p \in Proc :
    tmp[p] # Absent => pc[p] \in {"write", "unlink", "rename", "out"} \/ p \in unremoved
=============================================================================
