------------------------------ MODULE MakePath ------------------------------
(***************************************************************************)
(* demo_make_dir and demo_make_file (src/lib/file_utils.c): the            *)
(* directories on the way to a file are made one by one, by processes      *)
(* which make the same ones side by side, and somebody may remove a        *)
(* directory that is still empty.                                          *)
(***************************************************************************)
EXTENDS Integers, Sequences, SequencesExt

CONSTANTS
  Proc,         (* processes                                                *)
  Goal,         (* paths of files, as sequences of names                    *)
  MayFail,      (* the calls that may fail for reasons of their own         *)
  MaxRemovals   (* bound on the number of directories removed               *)

ASSUME GoalAssumption == Goal # {} /\ \A g \in Goal : g \in Seq(Range(g)) /\ g # <<>>
ASSUME FaultAssumption == MayFail \subseteq {"creat", "mkdir"} /\ MaxRemovals \in Nat

VARIABLES
  dirs,         (* the directories there are, <<>> being "/" or "."         *)
  files,        (* the files                                                *)
  pc,           (* the next step of each process, "idle" between calls      *)
  goal,         (* the path it has been given                               *)
  caller,       (* "file": demo_make_file, "copy": demo_file_data_copy,     *)
                (* which wants the directory only                           *)
  depth,        (* length of the path demo_make_dir has been called with    *)
  rc,           (* the result of the last call                              *)
  hurt,         (* a call has failed for reasons of its own since the start *)
  removals      (* directories removed                                      *)

vars == <<dirs, files, pc, goal, caller, depth, rc, hurt, removals>>

-----------------------------------------------------------------------------
Dir(p) == Front(goal[p])
Path(p) == SubSeq(goal[p], 1, depth[p])

Set(f, p, v) == [f EXCEPT ![p] = v]
Goto(p, l) == pc' = Set(pc, p, l)
Return(p, r) == Goto(p, "idle") /\ rc' = Set(rc, p, r)

Init ==
  /\ dirs = {<<>>}
  /\ files = {}
  /\ pc = [p \in Proc |-> "idle"]
  /\ goal \in [Proc -> Goal]
  /\ caller \in [Proc -> {"file", "copy"}]
  /\ depth = [p \in Proc |-> 0]
  /\ rc = [p \in Proc |-> "NONE"]
  /\ hurt = [p \in Proc |-> FALSE]
  /\ removals = 0

Start(p, c, g) ==
  /\ pc[p] = "idle"
  /\ caller' = Set(caller, p, c)
  /\ goal' = Set(goal, p, g)
  /\ depth' = Set(depth, p, Len(g) - 1)
  /\ hurt' = Set(hurt, p, FALSE)
  /\ rc' = Set(rc, p, "NONE")
  /\ Goto(p, IF c = "file" THEN "access" ELSE "look")
  /\ UNCHANGED <<dirs, files, removals>>

(* A file that is there is an error. *)
Access(p) ==
  /\ pc[p] = "access"
  /\ IF goal[p] \in files THEN Return(p, "ERROR")
     ELSE Goto(p, "creat") /\ UNCHANGED rc
  /\ UNCHANGED <<dirs, files, goal, caller, depth, hurt, removals>>

(* The first creat(); without the directory, that is made first. *)
Creat(p) ==
  /\ pc[p] = "creat"
  /\ \/ /\ Dir(p) \in dirs
        /\ files' = files \union {goal[p]}
        /\ Return(p, "SUCCESS")
        /\ UNCHANGED hurt
     \/ Dir(p) \notin dirs /\ Goto(p, "look") /\ UNCHANGED <<files, rc, hurt>>
     \/ /\ "creat" \in MayFail
        /\ Return(p, "ERROR")
        /\ hurt' = Set(hurt, p, TRUE)
        /\ UNCHANGED files
  /\ UNCHANGED <<dirs, goal, caller, depth, removals>>

(* Faulty: does not know the root. *)
LookNoRoot(p) ==
  /\ pc[p] = "look"
  /\ IF depth[p] > 0 /\ Path(p) \in dirs
       THEN Goto(p, "made") /\ UNCHANGED depth
       ELSE depth' = Set(depth, p, depth[p] - 1) /\ UNCHANGED pc
  /\ UNCHANGED <<dirs, files, goal, caller, rc, hurt, removals>>

(* demo_make_dir calls itself, down to a directory that is there. *)
Look(p) ==
  /\ pc[p] = "look"
  /\ IF depth[p] = 0 \/ Path(p) \in dirs
       THEN Goto(p, "made") /\ UNCHANGED depth
       ELSE depth' = Set(depth, p, depth[p] - 1) /\ UNCHANGED pc
  /\ UNCHANGED <<dirs, files, goal, caller, rc, hurt, removals>>

(* And returns, level by level. *)
Made(p) ==
  /\ pc[p] = "made"
  /\ IF depth[p] < Len(goal[p]) - 1
       THEN Goto(p, "mkdir") /\ depth' = Set(depth, p, depth[p] + 1)
       ELSE Goto(p, IF caller[p] = "file" THEN "recreat" ELSE "chdir") /\ UNCHANGED depth
  /\ UNCHANGED <<dirs, files, goal, caller, rc, hurt, removals>>

(* Faulty: a mkdir() that fails ends it all. *)
MkdirGivesUp(p) ==
  /\ pc[p] = "mkdir"
  /\ \/ /\ Front(Path(p)) \in dirs /\ Path(p) \notin dirs
        /\ dirs' = dirs \union {Path(p)}
        /\ Goto(p, "made")
        /\ UNCHANGED rc
     \/ /\ Front(Path(p)) \notin dirs \/ Path(p) \in dirs
        /\ Return(p, "ERROR")
        /\ UNCHANGED dirs
  /\ UNCHANGED <<files, goal, caller, depth, hurt, removals>>

(* Faulty: tries again. *)
MkdirRetries(p) ==
  /\ pc[p] = "mkdir"
  /\ IF Front(Path(p)) \in dirs /\ Path(p) \notin dirs
       THEN dirs' = dirs \union {Path(p)} /\ Goto(p, "made")
       ELSE UNCHANGED <<dirs, pc>>
  /\ UNCHANGED <<files, goal, caller, depth, rc, hurt, removals>>

(* mkdir(), whose failure is reported and forgotten: another process may    *)
(* have made the directory since the access().                              *)
Mkdir(p) ==
  /\ pc[p] = "mkdir"
  /\ Goto(p, "made")
  /\ \/ /\ Front(Path(p)) \in dirs /\ Path(p) \notin dirs
        /\ dirs' = dirs \union {Path(p)}
        /\ UNCHANGED hurt
     \/ /\ Front(Path(p)) \notin dirs \/ Path(p) \in dirs
        /\ UNCHANGED <<dirs, hurt>>
     \/ /\ "mkdir" \in MayFail
        /\ hurt' = Set(hurt, p, TRUE)
        /\ UNCHANGED dirs
  /\ UNCHANGED <<files, goal, caller, depth, rc, removals>>

(* The second creat(): whatever comes of it, the answer is an error. *)
Recreat(p) ==
  /\ pc[p] = "recreat"
  /\ \/ /\ Dir(p) \in dirs
        /\ files' = files \union {goal[p]}
        /\ UNCHANGED hurt
     \/ Dir(p) \notin dirs /\ UNCHANGED <<files, hurt>>
     \/ "creat" \in MayFail /\ hurt' = Set(hurt, p, TRUE) /\ UNCHANGED files
  /\ Return(p, "ERROR")
  /\ UNCHANGED <<dirs, goal, caller, depth, removals>>

(* demo_file_data_copy goes to the directory. *)
Chdir(p) ==
  /\ pc[p] = "chdir"
  /\ Return(p, IF Dir(p) \in dirs THEN "SUCCESS" ELSE "ERROR")
  /\ UNCHANGED <<dirs, files, goal, caller, depth, hurt, removals>>

(* Somebody removes an empty directory. *)
Rmdir(d) ==
  /\ removals < MaxRemovals
  /\ d \in dirs \ {<<>>}
  /\ \A e \in dirs \union files : Len(e) > Len(d) => SubSeq(e, 1, Len(d)) # d
  /\ dirs' = dirs \ {d}
  /\ removals' = removals + 1
  /\ UNCHANGED <<files, pc, goal, caller, depth, rc, hurt>>

Step(p) ==
  \/ Access(p) \/ Creat(p) \/ Look(p) \/ Made(p) \/ Mkdir(p)
  \/ Recreat(p) \/ Chdir(p)

Next ==
  \/ \E p \in Proc : Step(p) \/ \E c \in {"file", "copy"}, g \in Goal : Start(p, c, g)
  \/ \E d \in dirs : Rmdir(d)

Spec == Init /\ [][Next]_vars

FairSpec == Spec /\ \A p \in Proc : WF_vars(Step(p))

-----------------------------------------------------------------------------
(* Properties.                                                              *)

(* Every variable has its type, and demo_make_dir stays on its path.        *)
TypeOK ==
  /\ \A d \in dirs \union files : \E g \in Goal : IsPrefix(d, g)
  /\ pc \in [Proc -> {"idle", "access", "creat", "look", "made", "mkdir",
                      "recreat", "chdir"}]
  /\ goal \in [Proc -> Goal]
  /\ caller \in [Proc -> {"file", "copy"}]
  /\ \A p \in Proc : depth[p] \in 0..Len(goal[p])
  /\ rc \in [Proc -> {"NONE", "SUCCESS", "ERROR"}]
  /\ hurt \in [Proc -> BOOLEAN]
  /\ removals \in 0..MaxRemovals

(* Side by side, a call that has met no failure but those of the others'    *)
(* making has what it wanted: demo_make_file its file, though it may answer *)
(* with an error, demo_file_data_copy its directory.                        *)
EndMeansMade ==
  \A p \in Proc :
    pc[p] = "idle" /\ rc[p] # "NONE" /\ ~hurt[p] /\ removals = 0 =>
      IF caller[p] = "file" THEN goal[p] \in files
      ELSE Dir(p) \in dirs /\ rc[p] = "SUCCESS"

(* Whatever others make and remove, a call comes to its end.                *)
CallsEnd == \A p \in Proc : pc[p] # "idle" ~> pc[p] = "idle"
=============================================================================
