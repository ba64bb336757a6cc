------------------------------ MODULE FileCopy ------------------------------
(***************************************************************************)
(* What a job does to its file: backup_file (src/src/file_backup.c) and    *)
(* restore_file (src/src/file_restore.c), with demo_file_data_copy         *)
(* (src/lib/file_data_sync.c) and demo_check_hash (src/lib/file_utils.c).  *)
(*                                                                         *)
(* One file, "orig", its backup, "back", and the processes that copy one   *)
(* onto the other while its owner edits, replaces or deletes it.  A name   *)
(* stands for an inode and open files keep their inode, because a copy is  *)
(* renamed into place while its last blocks are still in a stdio buffer:   *)
(* they reach the inode in the fclose() after the rename().                *)
(*                                                                         *)
(* The owner may write any blocks, those the file has held before as well. *)
(* MD5 is taken to tell any two contents apart.  Synchronising the         *)
(* attributes only succeeds or fails here.                                 *)
(***************************************************************************)
EXTENDS Naturals, Sequences, Stdio

CONSTANTS
  Proc,         (* processes that may carry out jobs at the same time       *)
  Inode,        (* inodes of the file system                                *)
  NoFile,       (* no inode: a name that does not exist, a file not open    *)
  Block,        (* what a block of a file can hold                          *)
  Zeros,        (* the block in front of one that has been written, if it   *)
                (* has not been written itself                              *)
  Content,      (* what the owner may give the file: sequences of blocks    *)
  MayFail,      (* the calls that may fail                                  *)
  OwnerDeletes, (* TRUE if the owner may delete the file                    *)
  MaxEdits,     (* bound on what the owner does to it                       *)
  MaxCrashes    (* bound on the number of kills                             *)

Calls == {"open", "mkstemp", "read", "write", "unlink", "rename", "flush",
          "chdir", "attrs", "remove"}

ASSUME InodeAssumption == NoFile \notin Inode
ASSUME BlockAssumption == Zeros \in Block /\ Content \subseteq Seq(Block)
ASSUME FaultAssumption == MayFail \subseteq Calls /\ OwnerDeletes \in BOOLEAN
ASSUME BoundAssumption == MaxEdits \in Nat /\ MaxCrashes \in Nat

VARIABLES
  (* The file system. *)
  dir,          (* the inodes of "orig" and "back"                          *)
  tmp,          (* the inode of each process's temporary file: of its copy, *)
                (* or one its last job has left behind                      *)
  data,         (* the blocks of each inode                                 *)
  (* A job. *)
  pc,           (* the next step of each process, "idle" between jobs       *)
  job,          (* "backup" or "restore"                                    *)
  destExit,     (* what access() said of the destination                    *)
  in, out,      (* the files open for reading and for writing               *)
  buf,          (* blocks written and still in the stdio buffer             *)
  pos,          (* blocks read from in                                      *)
  md,           (* what has been read of each file to compute its MD5       *)
  rc,           (* the result, of the last job when idle                    *)
  (* Bookkeeping of the model. *)
  may,          (* the calls that may still fail                            *)
  edits,        (* number of what the owner has done                        *)
  held,         (* every content the owner has given the file               *)
  since,        (* those it has had since each process's backup began       *)
  undone,       (* the owner has brought back a block during a backup       *)
  silent,       (* failures nobody noticed that have happened               *)
  unremoved,    (* processes whose last job could not remove its temporary  *)
                (* file                                                     *)
  crashes       (* number of kills                                          *)

fsVars == <<dir, tmp, data>>
jobVars == <<pc, job, destExit, in, out, buf, pos, md, rc>>
bookVars == <<edits, held, since, undone, silent, unremoved, crashes>>
vars == <<fsVars, jobVars, may, bookVars>>

-----------------------------------------------------------------------------
PC == {"idle", "access", "open", "mkstemp", "read", "unlink", "rename",
       "close", "tidy", "md5", "sum", "md5dest", "sumdest", "attrs", "failed"}

Src(p) == IF job[p] = "backup" THEN "orig" ELSE "back"
Dst(p) == IF job[p] = "backup" THEN "back" ELSE "orig"

InUse == {dir["orig"], dir["back"]} \union {tmp[p] : p \in Proc}
           \union {in[p] : p \in Proc} \union {out[p] : p \in Proc}

Free == Inode \ InUse
NewInode == CHOOSE i \in Inode : i \in Free

Active(p) == pc[p] # "idle"
Goto(p, l) == pc' = [pc EXCEPT ![p] = l]
Set(f, p, v) == [f EXCEPT ![p] = v]

(* What demo_check_hash has read of its two files. *)
NoDigests == [src |-> <<>>, dst |-> <<>>]

(* The job ends, and its local variables are gone. *)
Return(p) ==
  /\ Goto(p, "idle")
  /\ destExit' = Set(destExit, p, FALSE)
  /\ pos' = Set(pos, p, 0)
  /\ md' = Set(md, p, NoDigests)

(* The error path of demo_file_data_copy: on to its out label. *)
CopyFails(p) ==
  /\ Goto(p, "close")
  /\ rc' = Set(rc, p, "ERROR")

(* A failing step of backup_file or restore_file. *)
JobFails(p) ==
  /\ Goto(p, "failed")
  /\ rc' = Set(rc, p, "ERROR")

-----------------------------------------------------------------------------
Init ==
  /\ \E i \in Inode, c \in Content :
       /\ dir = [orig |-> i, back |-> NoFile]
       /\ data = [j \in Inode |-> IF j = i THEN c ELSE <<>>]
       /\ held = {c}
  /\ tmp = [p \in Proc |-> NoFile]
  /\ pc = [p \in Proc |-> "idle"]
  /\ job = [p \in Proc |-> "backup"]
  /\ destExit = [p \in Proc |-> FALSE]
  /\ in = [p \in Proc |-> NoFile]
  /\ out = [p \in Proc |-> NoFile]
  /\ buf = [p \in Proc |-> <<>>]
  /\ pos = [p \in Proc |-> 0]
  /\ md = [p \in Proc |-> NoDigests]
  /\ rc = [p \in Proc |-> "NONE"]
  /\ may = MayFail
  /\ edits = 0
  /\ since = [p \in Proc |-> {}]
  /\ undone = FALSE
  /\ silent = {}
  /\ unremoved = {}
  /\ crashes = 0

(* The job is called.  A restore looks for the backup and drops the answer  *)
(* (its rc is overwritten); a backup whose file is missing ends at once.  A *)
(* temporary file that the last job has left has a name nobody uses; it is  *)
(* followed no further.                                                     *)
Start(p, j) ==
  /\ pc[p] = "idle"
  /\ job' = Set(job, p, j)
  /\ IF j = "backup" /\ dir["orig"] = NoFile
       THEN rc' = Set(rc, p, "ERROR") /\ UNCHANGED pc
       ELSE rc' = Set(rc, p, "SUCCESS") /\ Goto(p, "access")
  /\ since' = Set(since, p, IF j = "restore" \/ dir["orig"] = NoFile THEN {}
                            ELSE {data[dir["orig"]]})
  /\ tmp' = Set(tmp, p, NoFile)
  /\ unremoved' = unremoved \ {p}
  /\ UNCHANGED <<dir, data, destExit, in, out, buf, pos, md, edits, held, undone, silent,
                 crashes>>

-----------------------------------------------------------------------------
(* demo_file_data_copy.                                                     *)

AccessDest(p) ==
  /\ pc[p] = "access"
  /\ destExit' = Set(destExit, p, dir[Dst(p)] # NoFile)
  /\ Goto(p, "open")
  /\ UNCHANGED <<fsVars, job, in, out, buf, pos, md, rc, bookVars>>

(* The result is looked at only after the temporary file is there. *)
OpenOrig(p) ==
  /\ pc[p] = "open"
  /\ \/ in' = Set(in, p, dir[Src(p)])
     \/ "open" \in may /\ UNCHANGED in
  /\ pos' = Set(pos, p, 0)
  /\ Goto(p, "mkstemp")
  /\ UNCHANGED <<fsVars, job, destExit, out, buf, md, rc, bookVars>>

(* Faulty: goes on without the source. *)
MakeTmpUnchecked(p) ==
  /\ pc[p] = "mkstemp"
  /\ Free # {}
  /\ tmp' = Set(tmp, p, NewInode)
  /\ data' = Set(data, NewInode, <<>>)
  /\ out' = Set(out, p, NewInode)
  /\ Goto(p, "read")
  /\ UNCHANGED <<dir, job, destExit, in, buf, pos, md, rc, bookVars>>

(* chdir() to the directory and mkstemp() in it, then fopen() of the new    *)
(* file; any of them may fail.                                              *)
MakeTmp(p) ==
  /\ pc[p] = "mkstemp"
  /\ \/ /\ Free # {}
        /\ tmp' = Set(tmp, p, NewInode)
        /\ data' = Set(data, NewInode, <<>>)
        /\ out' = Set(out, p, NewInode)
        /\ IF in[p] = NoFile THEN CopyFails(p)
           ELSE Goto(p, "read") /\ UNCHANGED rc
     \/ /\ "open" \in may /\ Free # {}
        /\ tmp' = Set(tmp, p, NewInode)
        /\ data' = Set(data, NewInode, <<>>)
        /\ CopyFails(p)
        /\ UNCHANGED out
     \/ /\ "mkstemp" \in may
        /\ CopyFails(p)
        /\ UNCHANGED <<tmp, data, out>>
  /\ UNCHANGED <<dir, job, destExit, in, buf, pos, md, bookVars>>

(* One round of the loop: a block goes into the stdio buffer, which is      *)
(* written out when it is full.                                             *)
CopyBlock(p) ==
  /\ pc[p] = "read"
  /\ pos[p] < Len(data[in[p]])
  /\ LET b == Append(buf[p], data[in[p]][pos[p] + 1]) IN
     \/ /\ pos' = Set(pos, p, pos[p] + 1)
        /\ \/ buf' = Set(buf, p, b) /\ UNCHANGED data
           \/ /\ buf' = Set(buf, p, <<>>)
              /\ data' = [data EXCEPT ![out[p]] = Written(@, pos[p] + 1 - Len(b), b, Zeros)]
        /\ UNCHANGED <<pc, rc>>
     \/ /\ "write" \in may
        /\ CopyFails(p)
        /\ UNCHANGED <<pos, buf, data>>
  /\ UNCHANGED <<dir, tmp, job, destExit, in, out, md, bookVars>>

(* fread() gives nothing: the end of the file, or an error, which nobody    *)
(* asks about.                                                              *)
AtEnd(p) ==
  \/ pos[p] >= Len(data[in[p]]) /\ UNCHANGED silent
  \/ "read" \in may /\ silent' = silent \union {"read"}

CopyEnd(p) ==
  /\ pc[p] = "read"
  /\ AtEnd(p)
  /\ Goto(p, IF destExit[p] THEN "unlink" ELSE "rename")
  /\ UNCHANGED <<fsVars, job, destExit, in, out, buf, pos, md, rc, edits, held, since, undone,
                 unremoved, crashes>>

UnlinkDest(p) ==
  /\ pc[p] = "unlink"
  /\ \/ /\ dir[Dst(p)] # NoFile
        /\ dir' = Set(dir, Dst(p), NoFile)
        /\ Goto(p, "rename")
        /\ UNCHANGED rc
     \/ /\ dir[Dst(p)] = NoFile \/ "unlink" \in may
        /\ CopyFails(p)
        /\ UNCHANGED dir
  /\ UNCHANGED <<tmp, data, job, destExit, in, out, buf, pos, md, bookVars>>

RenameTmp(p) ==
  /\ pc[p] = "rename"
  /\ \/ /\ dir' = Set(dir, Dst(p), tmp[p])
        /\ tmp' = Set(tmp, p, NoFile)
        /\ Goto(p, "close")
        /\ UNCHANGED rc
     \/ /\ "rename" \in may
        /\ CopyFails(p)
        /\ UNCHANGED <<dir, tmp>>
  /\ UNCHANGED <<data, job, destExit, in, out, buf, pos, md, bookVars>>

(* The out label.  fclose() writes what is left in the buffer behind what   *)
(* has been written, though the owner may have edited the file since the    *)
(* rename(), and nobody asks whether it could.                              *)
CloseFiles(p) ==
  /\ pc[p] = "close"
  /\ \/ /\ data' = IF out[p] = NoFile THEN data
                   ELSE [data EXCEPT ![out[p]] = Written(@, pos[p] - Len(buf[p]), buf[p], Zeros)]
        /\ UNCHANGED silent
     \/ /\ "flush" \in may /\ buf[p] # <<>>
        /\ silent' = silent \union {"flush"}
        /\ UNCHANGED data
  /\ in' = Set(in, p, NoFile)
  /\ out' = Set(out, p, NoFile)
  /\ buf' = Set(buf, p, <<>>)
  /\ Goto(p, "tidy")
  /\ UNCHANGED <<dir, tmp, job, destExit, pos, md, rc, edits, held, since, undone, unremoved,
                 crashes>>

(* Faulty: the temporary file stays. *)
RemoveTmpNot(p) ==
  /\ pc[p] = "tidy"
  /\ \/ rc[p] = "SUCCESS" /\ Goto(p, "md5") /\ UNCHANGED rc
     \/ (rc[p] = "ERROR" \/ "chdir" \in may) /\ JobFails(p)
  /\ UNCHANGED <<fsVars, job, destExit, in, out, buf, pos, md, bookVars>>

(* Faulty: takes the result of chdir() the wrong way round. *)
RemoveTmpInverted(p) ==
  /\ pc[p] = "tidy"
  /\ tmp' = Set(tmp, p, NoFile)
  /\ JobFails(p)
  /\ UNCHANGED <<dir, data, job, destExit, in, out, buf, pos, md, bookVars>>

(* The temporary file, if it is still there, goes, unless its unlink()      *)
(* fails, whose result is dropped; then chdir() back.                       *)
RemoveTmp(p) ==
  /\ pc[p] = "tidy"
  /\ \/ /\ tmp' = Set(tmp, p, NoFile)
        /\ UNCHANGED unremoved
     \/ /\ tmp[p] # NoFile /\ "unlink" \in may
        /\ unremoved' = unremoved \union {p}
        /\ UNCHANGED tmp
  /\ \/ rc[p] = "SUCCESS" /\ Goto(p, "md5") /\ UNCHANGED rc
     \/ (rc[p] = "ERROR" \/ "chdir" \in may) /\ JobFails(p)
  /\ UNCHANGED <<dir, data, job, destExit, in, out, buf, pos, md, edits, held, since, undone,
                 silent, crashes>>

-----------------------------------------------------------------------------
(* demo_check_hash: the source is read again from its name, then the copy.  *)

Side(p) == IF pc[p] \in {"md5", "sum"} THEN "src" ELSE "dst"

OpenForMd5(p) ==
  /\ pc[p] \in {"md5", "md5dest"}
  /\ LET i == dir[IF Side(p) = "src" THEN Src(p) ELSE Dst(p)] IN
     \/ /\ i # NoFile
        /\ in' = Set(in, p, i)
        /\ pos' = Set(pos, p, 0)
        /\ md' = IF Side(p) = "src" THEN Set(md, p, NoDigests) ELSE md
        /\ Goto(p, IF Side(p) = "src" THEN "sum" ELSE "sumdest")
        /\ UNCHANGED rc
     \/ /\ i = NoFile \/ "open" \in may
        /\ JobFails(p)
        /\ UNCHANGED <<in, pos, md>>
  /\ UNCHANGED <<fsVars, job, destExit, out, buf, bookVars>>

ReadForMd5(p) ==
  /\ pc[p] \in {"sum", "sumdest"}
  /\ pos[p] < Len(data[in[p]])
  /\ md' = [md EXCEPT ![p][Side(p)] = Append(@, data[in[p]][pos[p] + 1])]
  /\ pos' = Set(pos, p, pos[p] + 1)
  /\ UNCHANGED <<fsVars, pc, job, destExit, in, out, buf, rc, bookVars>>

(* Faulty: the two digests are not compared. *)
EndOfMd5Unchecked(p) ==
  /\ pc[p] \in {"sum", "sumdest"}
  /\ AtEnd(p)
  /\ in' = Set(in, p, NoFile)
  /\ Goto(p, IF pc[p] = "sum" THEN "md5dest" ELSE "attrs")
  /\ UNCHANGED <<fsVars, job, destExit, out, buf, pos, md, rc, edits, held, since, undone,
                 unremoved, crashes>>

EndOfMd5(p) ==
  /\ pc[p] \in {"sum", "sumdest"}
  /\ AtEnd(p)
  /\ in' = Set(in, p, NoFile)
  /\ IF pc[p] = "sum" THEN Goto(p, "md5dest") /\ UNCHANGED rc
     ELSE IF md[p].src = md[p].dst THEN Goto(p, "attrs") /\ UNCHANGED rc
     ELSE JobFails(p)
  /\ UNCHANGED <<fsVars, job, destExit, out, buf, pos, md, edits, held, since, undone, unremoved,
                 crashes>>

(* demo_file_attrs_sync, which works on the two names. *)
SyncAttrs(p) ==
  /\ pc[p] = "attrs"
  /\ \/ /\ dir["orig"] # NoFile /\ dir["back"] # NoFile
        /\ Return(p)
        /\ UNCHANGED rc
     \/ /\ dir["orig"] = NoFile \/ dir["back"] = NoFile \/ "attrs" \in may
        /\ JobFails(p)
        /\ UNCHANGED <<destExit, pos, md>>
  /\ UNCHANGED <<fsVars, job, in, out, buf, bookVars>>

(* Faulty: what could not be verified stays. *)
CleanUpNot(p) ==
  /\ pc[p] = "failed"
  /\ held' = IF job[p] = "backup" THEN held
             ELSE held \union {data[i] : i \in {dir["orig"]} \ {NoFile}}
  /\ Return(p)
  /\ UNCHANGED <<fsVars, job, in, out, buf, rc, edits, since, undone, silent, unremoved, crashes>>

(* Faulty: a restore removes its destination, too. *)
CleanUpAny(p) ==
  /\ pc[p] = "failed"
  /\ dir' = Set(dir, Dst(p), NoFile)
  /\ Return(p)
  /\ UNCHANGED <<tmp, data, job, in, out, buf, rc, bookVars>>

(* The end of a job that failed: backup_file removes what the name of the   *)
(* backup stands for, be it the new file or the old one.  restore_file      *)
(* leaves the file as it is by now, and that is what its owner has.         *)
CleanUp(p) ==
  /\ pc[p] = "failed"
  /\ \/ /\ job[p] = "backup"
        /\ \/ dir' = Set(dir, "back", NoFile) /\ UNCHANGED silent
           \/ /\ "remove" \in may
              /\ silent' = silent \union {"remove"}
              /\ UNCHANGED dir
        /\ UNCHANGED held
     \/ /\ job[p] = "restore"
        /\ held' = held \union {data[i] : i \in {dir["orig"]} \ {NoFile}}
        /\ UNCHANGED <<dir, silent>>
  /\ Return(p)
  /\ UNCHANGED <<tmp, data, job, in, out, buf, rc, edits, since, undone, unremoved, crashes>>

-----------------------------------------------------------------------------
(* The rest of the world.                                                   *)

BackingUp(p) == Active(p) /\ job[p] = "backup"

(* The block the file has at place k, if it has one. *)
BlockAt(k) ==
  IF dir["orig"] # NoFile /\ k \in DOMAIN data[dir["orig"]]
    THEN {data[dir["orig"]][k]} ELSE {}

(* Content c has a block that the file has had at the same place since a    *)
(* backup under way began, and has not at the moment.                       *)
BringsBack(c) ==
  \E p \in {q \in Proc : BackingUp(q)} : \E s \in since[p] :
    \E k \in DOMAIN s \intersect DOMAIN c : s[k] = c[k] /\ c[k] \notin BlockAt(k)

(* The owner gives the file new content, in place or in a new inode. *)
Edit ==
  /\ edits < MaxEdits
  /\ edits' = edits + 1
  /\ \E c \in Content :
       /\ \/ /\ Free # {}
             /\ dir' = Set(dir, "orig", NewInode)
             /\ data' = Set(data, NewInode, c)
          \/ /\ dir["orig"] # NoFile
             /\ data' = Set(data, dir["orig"], c)
             /\ UNCHANGED dir
       /\ held' = held \union {c}
       /\ since' = [p \in Proc |-> IF BackingUp(p) THEN since[p] \union {c} ELSE since[p]]
       /\ undone' = (undone \/ BringsBack(c))
  /\ UNCHANGED <<tmp, jobVars, silent, unremoved, crashes>>

Delete ==
  /\ OwnerDeletes
  /\ edits < MaxEdits
  /\ edits' = edits + 1
  /\ dir' = Set(dir, "orig", NoFile)
  /\ UNCHANGED <<tmp, data, jobVars, held, since, undone, silent, unremoved, crashes>>

(* The process is killed.  What is in its stdio buffer is gone, and its     *)
(* temporary file stays behind under a name nobody uses.                    *)
Crash(p) ==
  /\ Active(p)
  /\ crashes < MaxCrashes
  /\ crashes' = crashes + 1
  /\ tmp' = Set(tmp, p, NoFile)
  /\ in' = Set(in, p, NoFile)
  /\ out' = Set(out, p, NoFile)
  /\ buf' = Set(buf, p, <<>>)
  /\ Return(p)
  /\ rc' = Set(rc, p, "NONE")
  /\ unremoved' = unremoved \ {p}
  /\ UNCHANGED <<dir, data, job, edits, held, since, undone, silent>>

Step(p) ==
  \/ AccessDest(p) \/ OpenOrig(p) \/ MakeTmp(p)
  \/ CopyBlock(p) \/ CopyEnd(p)
  \/ UnlinkDest(p) \/ RenameTmp(p) \/ CloseFiles(p) \/ RemoveTmp(p)
  \/ OpenForMd5(p) \/ ReadForMd5(p) \/ EndOfMd5(p)
  \/ SyncAttrs(p) \/ CleanUp(p)

Next ==
  /\ \/ \E p \in Proc :
          \/ \E j \in {"backup", "restore"} : Start(p, j)
          \/ Step(p)
          \/ Crash(p)
     \/ Edit
     \/ Delete
  /\ UNCHANGED may

Spec == Init /\ [][Next]_vars

(* From some moment on nothing fails any more. *)
Recover ==
  /\ may # {} /\ may' = {}
  /\ UNCHANGED <<fsVars, jobVars, bookVars>>

(* A job that has been started gets on, somebody keeps backing the file up, *)
(* and failures come to an end.                                             *)
RetrySpec ==
  /\ Init /\ [][Next \/ Recover]_vars
  /\ \A p \in Proc :
       WF_vars(Step(p) /\ UNCHANGED may) /\ SF_vars(Start(p, "backup") /\ UNCHANGED may)
  /\ WF_vars(Recover)

-----------------------------------------------------------------------------
(* Properties.                                                              *)

(* Every variable has its type, and a file is open only while it is used.   *)
TypeOK ==
  /\ dir \in [{"orig", "back"} -> Inode \union {NoFile}]
  /\ tmp \in [Proc -> Inode \union {NoFile}]
  /\ data \in [Inode -> Seq(Block)]
  /\ pc \in [Proc -> PC]
  /\ job \in [Proc -> {"backup", "restore"}]
  /\ destExit \in [Proc -> BOOLEAN]
  /\ in \in [Proc -> Inode \union {NoFile}]
  /\ out \in [Proc -> Inode \union {NoFile}]
  /\ \A p \in Proc :
       /\ pc[p] \in {"read", "sum", "sumdest"} => in[p] # NoFile
       /\ pc[p] \in {"read", "unlink", "rename"} => out[p] # NoFile
  /\ buf \in [Proc -> Seq(Block)]
  /\ pos \in [Proc -> Nat]
  /\ md \in [Proc -> [src : Seq(Block), dst : Seq(Block)]]
  /\ rc \in [Proc -> {"NONE", "SUCCESS", "ERROR"}]
  /\ edits \in 0..MaxEdits
  /\ held \subseteq Seq(Block)
  /\ since \in [Proc -> SUBSET Seq(Block)]
  /\ may \subseteq MayFail
  /\ undone \in BOOLEAN
  /\ silent \subseteq {"read", "flush", "remove"}
  /\ unremoved \subseteq Proc
  /\ crashes \in 0..MaxCrashes

(* demo_check_hash may be deceived.  A read error passes for the end of the *)
(* file, when it is copied and when it is summed up.  And an fclose() that  *)
(* loses the end of the copy goes unnoticed if the owner cuts the file at   *)
(* the same place while it is summed up.  And the copy is compared with     *)
(* what a second reading finds, not with the file at one moment: if the     *)
(* owner goes from AB to CD, back and forth again, both may read AD.        *)
Deceived == "read" \in silent \/ ("flush" \in silent /\ edits > 0) \/ undone

(* One job at a time.  A backup that reports success has made a copy of     *)
(* what the file held, as a whole, at some time while it ran: no            *)
(* truncation, nothing older, and no mixture of edits as long as none of    *)
(* them has brought back what an earlier one took out (backup_file).        *)
BackupIsSnapshot ==
  ~Deceived =>
    \A p \in Proc : pc[p] = "idle" /\ job[p] = "backup" /\ rc[p] = "SUCCESS" =>
      dir["back"] # NoFile /\ data[dir["back"]] \in since[p]

(* One job at a time.  Between jobs there is either no backup or one of     *)
(* something the file has held, whatever else has failed (backup_file       *)
(* removes what it could not verify); only a kill can leave another.        *)
NoBadBackup ==
  /\ crashes = 0 /\ ~Deceived /\ "remove" \notin silent
  /\ \A p \in Proc : ~Active(p)
  => dir["back"] = NoFile \/ data[dir["back"]] \in held

(* One job at a time.  After a restore that reports success the file holds  *)
(* again something it has held before (restore_file).                       *)
RestoreIsReal ==
  crashes = 0 /\ ~Deceived /\ "remove" \notin silent =>
    \A p \in Proc : pc[p] = "idle" /\ job[p] = "restore" /\ rc[p] = "SUCCESS" =>
      dir["orig"] = NoFile \/ data[dir["orig"]] \in held

(* Any number of jobs side by side.  A file its owner has not deleted is    *)
(* missing only while a restore is between its unlink() and its rename().   *)
OrigMissingOnlyMidRestore ==
  dir["orig"] = NoFile /\ ~OwnerDeletes /\ crashes = 0 /\ "rename" \notin MayFail
    => \E p \in Proc : job[p] = "restore" /\ pc[p] = "rename"

(* At whatever step a job fails, once it is past demo_file_data_copy it has *)
(* no temporary file beside its destination, unless the unlink() of that    *)
(* very file fails too, whose result is dropped.                            *)
NoStrayTmp ==
  \A p \in Proc : tmp[p] # NoFile =>
    pc[p] \in {"read", "unlink", "rename", "close", "tidy"} \/ p \in unremoved

(* One job at a time.  Once calls of the system have stopped failing,       *)
(* backups again and again leave a backup that equals the file, whatever    *)
(* remains of jobs that failed or were killed at any step (backup_file).    *)
BackedUp ==
  /\ \A p \in Proc : ~Active(p)
  /\ dir["back"] # NoFile /\ data[dir["back"]] = data[dir["orig"]]

RetryHeals == []<>(dir["orig"] = NoFile \/ BackedUp)
=============================================================================
