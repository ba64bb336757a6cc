----------------------------- MODULE CommandLine -----------------------------
(***************************************************************************)
(* main() of src/src/main.c on top of the job list of JobListSerial.tla:   *)
(* the options of a command, its paths one after the other whatever became *)
(* of the earlier ones, its exit status, and the working directory, which  *)
(* demo_file_data_cover and demo_file_data_copy leave and go back to while *)
(* the next path waits to be looked up in it.                              *)
(*                                                                         *)
(* Commands for the other list are commands of another instance.  A name   *)
(* that is not Flaky stands for an absolute path: a relative one is not    *)
(* found from another directory.                                           *)
(***************************************************************************)
EXTENDS JobListSerial

CONSTANTS
  OptionLists,   (* sequences of options, "?" for one that is not known     *)
  MaxPaths       (* bound on the paths of one command                       *)

ASSUME PathsAssumption == MaxPaths \in Nat

VARIABLES
  phase,         (* "shell", or "run" while a command runs                  *)
  effect,        (* what its options do to the list: [add, do]              *)
  paths,         (* the paths it has not come to                            *)
  name,          (* the one it is at; NULL for -d alone                     *)
  status,        (* exit status of the last command                         *)
  cwd, old,      (* the working directory and the one to go back to         *)
  done,          (* names carried out by the command                        *)
  failed         (* a path of the command was reported to fail              *)

mainVars == <<phase, effect, paths, name, status>>
placeVars == <<cwd, old>>
historyVars == <<done, failed>>
cmdVars == <<vars, mainVars, placeVars, historyVars>>

Own == IF Backup THEN "b" ELSE "r"
NoEffect == [add |-> FALSE, do |-> FALSE]

(* Where the commands are started, where the lists are, where copies go. *)
Home == "home"
ListDir == "/etc/restore"
CopyDir == "dest"

CmdInit ==
  /\ Init
  /\ phase = "shell" /\ effect = NoEffect /\ paths = <<>> /\ name = NULL
  /\ status = "SUCCESS"
  /\ cwd = Home /\ old = Home
  /\ done = {} /\ failed = FALSE

-----------------------------------------------------------------------------
(* The loop over getopt_long: the last type counts, -h and what is not      *)
(* known end it.                                                            *)
ParseOption(seen, o) ==
  IF seen.exit # "none" THEN seen
  ELSE CASE o = "h" -> [seen EXCEPT !.exit = "SUCCESS"]
         [] o = "?" -> [seen EXCEPT !.exit = "FAILURE"]
         [] o \in {"b", "r"} -> [seen EXCEPT !.type = o]
         [] OTHER -> [seen EXCEPT !.flags = @ \union {o}]
Parse(options) ==
  FoldLeft(ParseOption, [exit |-> "none", type |-> "none", flags |-> {}], options)
Parsed == {Parse(options) : options \in OptionLists}

(* What the flags ask of the list: with -l, nothing but that it exists. *)
Effect(flags) == [add |-> "a" \in flags /\ "l" \notin flags,
                  do  |-> "d" \in flags /\ "l" \notin flags]

PathLists == UNION {[1..k -> Name] : k \in 0..MaxPaths}

(* A command that ends before it comes to the list.  No path where one is   *)
(* needed is an error in words only: rc is SUCCESS still.                   *)
Refuse(c, ps) ==
  /\ phase = "shell"
  /\ \/ c.exit # "none" /\ status' = c.exit
     \/ c.exit = "none" /\ (c.type = "none" \/ c.flags = {}) /\ status' = "FAILURE"
     \/ /\ c.exit = "none" /\ c.type = Own /\ c.flags # {}
        /\ ps = <<>> /\ ("a" \in c.flags \/ "d" \notin c.flags)
        /\ status' = "SUCCESS"
  /\ UNCHANGED <<vars, phase, effect, paths, name, placeVars, historyVars>>

(* A command that has something to do. *)
Start(c, ps) ==
  /\ phase = "shell"
  /\ c.exit = "none" /\ c.type = Own /\ c.flags # {}
  /\ ps # <<>> \/ ("d" \in c.flags /\ "a" \notin c.flags)
  /\ Effect(c.flags).add => adds + Len(ps) <= MaxAdds
  /\ phase' = "run"
  /\ effect' = Effect(c.flags)
  /\ paths' = IF ps = <<>> THEN <<NULL>> ELSE ps
  /\ UNCHANGED <<vars, name, status, placeVars, historyVars>>

Command == \E c \in Parsed, ps \in PathLists : Refuse(c, ps) \/ Start(c, ps)

(* Faulty variant: a failure ends the loop. *)
NextPathIfFine ==
  /\ phase = "run" /\ paths # <<>> /\ ~Active(Solo)
  /\ \/ /\ ~failed
        /\ Invoke(Solo, effect.add, effect.do, Head(paths))
        /\ name' = Head(paths)
        /\ paths' = Tail(paths)
     \/ failed /\ paths' = <<>> /\ UNCHANGED <<vars, name>>
  /\ UNCHANGED <<phase, effect, status, placeVars, historyVars>>

(* The loop of main over the paths. *)
NextPath ==
  /\ phase = "run" /\ paths # <<>>
  /\ Invoke(Solo, effect.add, effect.do, Head(paths))
  /\ name' = Head(paths)
  /\ paths' = Tail(paths)
  /\ UNCHANGED <<phase, effect, status, placeVars, historyVars>>

(* Faulty variant: chdir() back is not looked at. *)
BackUnchecked == {old} \union IF "chdir" \in MayFail THEN {cwd} ELSE {}

(* The directory in which demo_file_data_cover ends: the old one, or, when  *)
(* chdir() back fails, which makes the result an error, its own.            *)
Back ==
  (IF rc[Solo] = "SUCCESS" /\ rc'[Solo] = "ERROR" THEN {} ELSE {old})
    \union (IF rc'[Solo] = "ERROR" /\ "chdir" \in MayFail THEN {cwd} ELSE {})

(* The directory after a step of backup or restore.  mkstemp() may have     *)
(* failed where the list is; RunJob goes to the place of the copy and back. *)
Move ==
  CASE pc[Solo] = "save" /\ pc'[Solo] = "write" -> cwd' = ListDir /\ old' = cwd
    [] pc[Solo] = "save" /\ rc'[Solo] = "ERROR" ->
         cwd' \in {cwd} \union (IF "chdir" \in MayFail THEN {ListDir} ELSE {}) /\ UNCHANGED old
    [] pc[Solo] = "out" -> cwd' \in Back /\ old' = Home
    [] pc[Solo] = "run" /\ rc'[Solo] = "ERROR" ->
         cwd' \in {cwd} \union (IF "chdir" \in MayFail THEN {CopyDir} ELSE {}) /\ UNCHANGED old
    [] OTHER -> UNCHANGED placeVars

Work ==
  /\ phase = "run"
  /\ Step(Solo)
  /\ Move
  /\ done' = IF pc[Solo] = "run" /\ pc'[Solo] # "idle"
               THEN done \union {ctx[Solo][JobIndex(ctx[Solo], req[Solo].name)]} ELSE done
  /\ failed' = (failed \/ (pc'[Solo] = "idle" /\ rc'[Solo] = "ERROR"))
  /\ UNCHANGED mainVars

(* The process is gone, and with it all but the status. *)
Gone ==
  /\ phase' = "shell" /\ effect' = NoEffect /\ paths' = <<>> /\ name' = NULL
  /\ cwd' = Home /\ old' = Home
  /\ done' = {} /\ failed' = FALSE

(* The exit status is the result of the last path. *)
Exit ==
  /\ phase = "run" /\ paths = <<>> /\ ~Active(Solo)
  /\ status' = IF rc[Solo] = "SUCCESS" THEN "SUCCESS" ELSE "FAILURE"
  /\ Gone
  /\ UNCHANGED vars

Kill ==
  /\ phase = "run"
  /\ Crash(Solo)
  /\ status' = "KILLED"
  /\ Gone

CmdNext == Command \/ NextPath \/ Work \/ Exit \/ Kill

(* A command gets on.  Its user gives the names of all files to -d again    *)
(* and again, in any order.                                                 *)
DoAll ==
  \E ps \in PathLists :
    ToSet(ps) = Name /\ Start([exit |-> "none", type |-> Own, flags |-> {"d"}], ps)

CmdSpec == CmdInit /\ [][CmdNext]_cmdVars
CmdFairSpec ==
  CmdSpec /\ WF_cmdVars(NextPath \/ Work \/ Exit) /\ SF_cmdVars(DoAll)

-----------------------------------------------------------------------------
(* Properties.                                                              *)

(* When a path, or the file of a job, is looked up in another directory     *)
(* than the one the command was started in, because a chdir() back from     *)
(* /etc/restore or from the place of a copy failed, an earlier path of the  *)
(* command has been reported to fail (demo_file_data_cover makes it an      *)
(* error although the list is in place by then).                            *)
WrongPlaceIsReported == pc[Solo] \in {"add", "run"} /\ cwd # Home => failed

(* The exit status is that of the last path alone, and if it says success   *)
(* that path has been dealt with: it is in the list after -a, it has been   *)
(* copied by this very command after -d, and after -d alone the list is     *)
(* empty, whatever failed on the way.                                       *)
SuccessIsReal ==
  [][phase = "run" /\ phase' = "shell" /\ status' = "SUCCESS" =>
       /\ effect.add /\ ~effect.do => name \in NamesOf(list)
       /\ effect.do => IF name = NULL THEN list = Whole(<<>>) ELSE name \in done]_cmdVars

(* A command ends, whatever fails under it: its loop over the paths, and    *)
(* the loop over all jobs of demo_del_job_from_ctx.                         *)
CommandsEnd == phase = "run" ~> phase = "shell"
=============================================================================
