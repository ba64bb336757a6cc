------------------------------ MODULE DataSync ------------------------------
(***************************************************************************)
(* demo_file_data_sync (src/lib/file_data_sync.c): "dest" is brought up to *)
(* date with "orig" by librsync.  A signature of dest is made, a delta of  *)
(* orig against it, and from dest and the delta a new file, which takes    *)
(* the place of dest.  Processes do this side by side, calls fail, and the *)
(* owner of orig edits it meanwhile.                                       *)
(*                                                                         *)
(* As in FileCopy.tla a name stands for an inode, and what is written      *)
(* stays in a stdio buffer until it is full or closed.  librsync is taken  *)
(* from how it is used: a signature tells any two blocks apart, and a      *)
(* block of orig that has one like it in dest is copied from there.        *)
(***************************************************************************)
EXTENDS Naturals, Sequences, SequencesExt, Stdio

CONSTANTS
  Proc,         (* processes that synchronise                               *)
  Inode,        (* inodes of the file system                                *)
  NoFile,       (* no inode: a name that does not exist, a file not open    *)
  Block,        (* what a block of orig may hold                            *)
  Zeros,        (* a block nobody has written, in front of one somebody has *)
  MayFail,      (* the calls that may fail                                  *)
  MaxBlocks,    (* bound on the length of orig                              *)
  MaxEdits,     (* bound on the number of edits                             *)
  MaxCrashes    (* bound on the number of kills                             *)

Calls == {"creat", "open", "mkstemp", "rsync", "unlink", "rename", "flush", "chdir"}

ASSUME ValueAssumption == NoFile \notin Inode /\ Zeros \notin Block
ASSUME InodeAssumption == \E i, j \in Inode : i # j
ASSUME FaultAssumption == MayFail \subseteq Calls
ASSUME BoundAssumption ==
  MaxBlocks \in Nat /\ MaxEdits \in Nat /\ MaxCrashes \in Nat

VARIABLES
  (* The file system. *)
  dirOk,        (* the directory of dest exists                             *)
  dir,          (* the inodes of "orig" and "dest"                          *)
  tmp,          (* that of each process's new file, while it has its name   *)
  temps,        (* which of its signature and delta files are there, and    *)
                (* afterwards what has not been removed, "new" for tmp      *)
  data,         (* the blocks of each inode                                 *)
  (* A call of demo_file_data_sync. *)
  pc,           (* the next step, "idle" between calls                      *)
  fpDest, fpOrig, fpTmpDest,   (* the files open                            *)
  sig,          (* the signature                                            *)
  delta,        (* the delta                                                *)
  pos,          (* blocks read, or parts of the delta applied               *)
  buf,          (* blocks of the new file still in the stdio buffer         *)
  rc,           (* the result                                               *)
  (* Bookkeeping of the model. *)
  may,          (* the calls that may still fail                            *)
  edits, crashes,
  late,         (* which calls have failed from the rename() on             *)
  since,        (* what orig has held since each call began                 *)
  before        (* what dest held when each call began; a missing dest      *)
                (* counts as an empty one                                   *)

fsVars == <<dirOk, dir, tmp, temps, data>>
callVars == <<pc, fpDest, fpOrig, fpTmpDest, sig, delta, pos, buf, rc>>
bookVars == <<edits, crashes, late, since, before>>
vars == <<fsVars, callVars, may, bookVars>>

-----------------------------------------------------------------------------
Content == BoundedSeq(Block, MaxBlocks)

(* A part of a delta: copy block number from, or take the block given. *)
Copy(n) == [from |-> n, block |-> Zeros]
Literal(b) == [from |-> 0, block |-> b]

(* The parts of a delta that stand for block b, with signature s. *)
Parts(s, b) ==
  IF b \in ToSet(s) THEN {Copy(n) : n \in {m \in DOMAIN s : s[m] = b}}
  ELSE {Literal(b)}

(* What a part of a delta makes of the basis; a copy from behind its end is *)
(* an error.                                                                *)
Applicable(part, basis) == part.from <= Len(basis)
Applied(part, basis) == IF part.from = 0 THEN part.block ELSE basis[part.from]

Holds(name) == IF dir[name] = NoFile THEN <<>> ELSE data[dir[name]]

Free == Inode \ ({dir["orig"], dir["dest"]} \union
                 UNION {{tmp[p], fpDest[p], fpOrig[p], fpTmpDest[p]} : p \in Proc})
(* What becomes of the contents of inodes that are free again. *)
Scrubbed == [i \in Inode |-> IF i \in Free' THEN <<>> ELSE data[i]]
NewInode == CHOOSE i \in Inode : i \in Free

Active(p) == pc[p] # "idle"
Goto(p, l) == pc' = [pc EXCEPT ![p] = l]
Set(f, p, v) == [f EXCEPT ![p] = v]

Late(p, call) == late' = Set(late, p, late[p] \union {call})

(* rc = ERROR; goto out. *)
Fails(p) == Goto(p, "close") /\ rc' = Set(rc, p, "ERROR")

-----------------------------------------------------------------------------
Init ==
  /\ LET i == CHOOSE i \in Inode : TRUE
         j == CHOOSE j \in Inode \ {i} : TRUE
     IN \E c, d \in Content, there \in BOOLEAN :
          /\ dir = [orig |-> i, dest |-> IF there THEN j ELSE NoFile]
          /\ data = [k \in Inode |-> IF k = i THEN c ELSE IF k = j /\ there THEN d ELSE <<>>]
          /\ dirOk \in {TRUE, there}
  /\ tmp = [p \in Proc |-> NoFile]
  /\ temps = [p \in Proc |-> {}]
  /\ pc = [p \in Proc |-> "idle"]
  /\ fpDest = [p \in Proc |-> NoFile]
  /\ fpOrig = [p \in Proc |-> NoFile]
  /\ fpTmpDest = [p \in Proc |-> NoFile]
  /\ sig = [p \in Proc |-> <<>>]
  /\ delta = [p \in Proc |-> <<>>]
  /\ pos = [p \in Proc |-> 0]
  /\ buf = [p \in Proc |-> <<>>]
  /\ rc = [p \in Proc |-> "NONE"]
  /\ may = MayFail
  /\ edits = 0
  /\ crashes = 0
  /\ late = [p \in Proc |-> {}]
  /\ since = [p \in Proc |-> {}]
  /\ before = [p \in Proc |-> <<>>]

(* The call, with access() of orig.  Temporary files that the last one has   *)
(* left have names nobody uses; they are followed no further.               *)
Start(p) ==
  /\ pc[p] = "idle"
  /\ IF dir["orig"] = NoFile THEN Fails(p)
     ELSE Goto(p, "access") /\ rc' = Set(rc, p, "SUCCESS")
  /\ since' = Set(since, p, {Holds("orig")})
  /\ before' = Set(before, p, Holds("dest"))
  /\ late' = Set(late, p, {})
  /\ temps' = Set(temps, p, {})
  /\ UNCHANGED <<dirOk, dir, tmp, data, fpDest, fpOrig, fpTmpDest, sig, delta, pos, buf,
                 edits, crashes>>

AccessDest(p) ==
  /\ pc[p] = "access"
  /\ Goto(p, IF dir["dest"] = NoFile THEN "make" ELSE "open")
  /\ UNCHANGED <<fsVars, fpDest, fpOrig, fpTmpDest, sig, delta, pos, buf, rc, bookVars>>

-----------------------------------------------------------------------------
(* demo_make_file.                                                          *)

(* It looks again, and a file that is there by now is an error. *)
MakeDest(p) ==
  /\ pc[p] = "make"
  /\ IF dir["dest"] # NoFile THEN Fails(p) ELSE Goto(p, "creat") /\ UNCHANGED rc
  /\ UNCHANGED <<fsVars, fpDest, fpOrig, fpTmpDest, sig, delta, pos, buf, bookVars>>

(* creat(): a new file of length zero, or an old one cut to it. *)
Creat ==
  IF dir["dest"] # NoFile
    THEN data' = Set(data, dir["dest"], <<>>) /\ UNCHANGED dir
    ELSE /\ Free # {}
         /\ dir' = Set(dir, "dest", NewInode)
         /\ data' = Set(data, NewInode, <<>>)

(* Faulty: does not make the directory. *)
CreatDestNoDir(p) ==
  /\ pc[p] = "creat"
  /\ \/ dirOk /\ Creat /\ Goto(p, "open") /\ UNCHANGED rc
     \/ ~dirOk /\ Fails(p) /\ UNCHANGED <<dir, data>>
  /\ UNCHANGED <<dirOk, tmp, temps, fpDest, fpOrig, fpTmpDest, sig, delta, pos, buf, bookVars>>

(* Without its directory both are made, but the answer is an error. *)
CreatDest(p) ==
  /\ pc[p] = "creat"
  /\ \/ dirOk /\ Creat /\ Goto(p, "open") /\ UNCHANGED <<dirOk, rc>>
     \/ ~dirOk /\ dirOk' = TRUE /\ Creat /\ Fails(p)
     \/ /\ "creat" \in may
        /\ dirOk' \in {dirOk, TRUE}
        /\ Fails(p)
        /\ UNCHANGED <<dir, data>>
  /\ UNCHANGED <<tmp, temps, fpDest, fpOrig, fpTmpDest, sig, delta, pos, buf, bookVars>>

-----------------------------------------------------------------------------
(* Whether the two files could be opened is found out when they are used. *)
OpenDest(p) ==
  /\ pc[p] = "open"
  /\ fpDest' \in {Set(fpDest, p, dir["dest"])} \union
                   (IF "open" \in may THEN {fpDest} ELSE {})
  /\ Goto(p, "openorig")
  /\ UNCHANGED <<fsVars, fpOrig, fpTmpDest, sig, delta, pos, buf, rc, bookVars>>

OpenOrig(p) ==
  /\ pc[p] = "openorig"
  /\ fpOrig' \in {Set(fpOrig, p, dir["orig"])} \union
                   (IF "open" \in may THEN {fpOrig} ELSE {})
  /\ Goto(p, "mkstemp")
  /\ UNCHANGED <<fsVars, fpDest, fpTmpDest, sig, delta, pos, buf, rc, bookVars>>

(* chdir() and mkstemp() three times, each of which may fail. *)
MakeTemps(p) ==
  /\ pc[p] = "mkstemp"
  /\ \/ /\ Free # {}
        /\ tmp' = Set(tmp, p, NewInode)
        /\ data' = Set(data, NewInode, <<>>)
        /\ temps' = Set(temps, p, {"sig", "delta"})
        /\ Goto(p, "sig")
        /\ UNCHANGED rc
     \/ /\ "mkstemp" \in may
        /\ \E t \in {{}, {"sig"}, {"sig", "delta"}} : temps' = Set(temps, p, t)
        /\ Fails(p)
        /\ UNCHANGED <<tmp, data>>
  /\ UNCHANGED <<dirOk, dir, fpDest, fpOrig, fpTmpDest, sig, delta, pos, buf, bookVars>>

-----------------------------------------------------------------------------
(* demo_rs_sig_fp, demo_rs_delta_fp, demo_rs_patch_fp.                      *)

(* Faulty: without a signature it goes on to the delta. *)
RsyncFailsLate(p) ==
  /\ pc[p] = "sig" /\ fpDest[p] = NoFile
  /\ Goto(p, "delta")
  /\ UNCHANGED <<fsVars, fpDest, fpOrig, fpTmpDest, sig, delta, pos, buf, rc, bookVars>>

RsyncFails(p) ==
  /\ "rsync" \in may \/ (pc[p] = "sig" /\ fpDest[p] = NoFile)
                         \/ (pc[p] = "delta" /\ fpOrig[p] = NoFile)
  /\ pc[p] \in {"sig", "delta", "patch"}
  /\ Fails(p)
  /\ UNCHANGED <<fsVars, fpDest, fpOrig, fpTmpDest, sig, delta, pos, buf, bookVars>>

(* rs_sig_file, a block at a time; with the last one the signature is read  *)
(* back by rs_loadsig_file.                                                 *)
Signature(p) ==
  /\ pc[p] = "sig" /\ fpDest[p] # NoFile
  /\ LET d == data[fpDest[p]] IN
     IF pos[p] < Len(d)
       THEN /\ sig' = Set(sig, p, Append(sig[p], d[pos[p] + 1]))
            /\ pos' = Set(pos, p, pos[p] + 1)
            /\ UNCHANGED pc
       ELSE Goto(p, "delta") /\ pos' = Set(pos, p, 0) /\ UNCHANGED sig
  /\ UNCHANGED <<fsVars, fpDest, fpOrig, fpTmpDest, delta, buf, rc, bookVars>>

(* rs_delta_file, and then fopen() of the new file. *)
Delta(p) ==
  /\ pc[p] = "delta" /\ fpOrig[p] # NoFile
  /\ LET o == data[fpOrig[p]] IN
     \/ /\ pos[p] < Len(o)
        /\ \E part \in Parts(sig[p], o[pos[p] + 1]) :
             delta' = Set(delta, p, Append(delta[p], part))
        /\ pos' = Set(pos, p, pos[p] + 1)
        /\ UNCHANGED <<pc, fpTmpDest>>
     \/ /\ pos[p] >= Len(o)
        /\ fpTmpDest' = Set(fpTmpDest, p, tmp[p])
        /\ Goto(p, "patch")
        /\ pos' = Set(pos, p, 0)
        /\ UNCHANGED delta
  /\ UNCHANGED <<fsVars, fpDest, fpOrig, sig, buf, rc, bookVars>>

(* rs_patch_file: reads dest again, as it is by now. *)
Patch(p) ==
  /\ pc[p] = "patch"
  /\ LET d == data[fpDest[p]] IN
     \/ /\ pos[p] < Len(delta[p]) /\ Applicable(delta[p][pos[p] + 1], d)
        /\ LET b == Append(buf[p], Applied(delta[p][pos[p] + 1], d)) IN
           \/ buf' = Set(buf, p, b) /\ UNCHANGED data
           \/ /\ buf' = Set(buf, p, <<>>)
              /\ data' = [data EXCEPT ![fpTmpDest[p]] = Written(@, pos[p] + 1 - Len(b), b, Zeros)]
        /\ pos' = Set(pos, p, pos[p] + 1)
        /\ UNCHANGED <<pc, rc>>
     \/ /\ pos[p] < Len(delta[p]) /\ ~Applicable(delta[p][pos[p] + 1], d)
        /\ Fails(p)
        /\ UNCHANGED <<data, pos, buf>>
     \/ /\ pos[p] = Len(delta[p])
        /\ Goto(p, "unlink")
        /\ UNCHANGED <<data, pos, buf, rc>>
  /\ UNCHANGED <<dirOk, dir, tmp, temps, fpDest, fpOrig, fpTmpDest, sig, delta, bookVars>>

-----------------------------------------------------------------------------
UnlinkDest(p) ==
  /\ pc[p] = "unlink"
  /\ \/ /\ dir["dest"] # NoFile
        /\ dir' = Set(dir, "dest", NoFile)
        /\ Goto(p, "rename")
        /\ UNCHANGED rc
     \/ /\ dir["dest"] = NoFile \/ "unlink" \in may
        /\ Fails(p)
        /\ UNCHANGED dir
  /\ UNCHANGED <<dirOk, tmp, temps, data, fpDest, fpOrig, fpTmpDest, sig, delta, pos, buf, bookVars>>

(* Faulty: the result of rename() is dropped, as that of fclose() is. *)
RenameTmpUnchecked(p) ==
  /\ pc[p] = "rename"
  /\ \/ dir' = Set(dir, "dest", tmp[p]) /\ tmp' = Set(tmp, p, NoFile)
     \/ UNCHANGED <<dir, tmp>>
  /\ Goto(p, "close")
  /\ UNCHANGED <<dirOk, temps, data, fpDest, fpOrig, fpTmpDest, sig, delta, pos, buf, rc, bookVars>>

RenameTmp(p) ==
  /\ pc[p] = "rename"
  /\ \/ /\ dir' = Set(dir, "dest", tmp[p])
        /\ tmp' = Set(tmp, p, NoFile)
        /\ Goto(p, "close")
        /\ UNCHANGED <<rc, late>>
     \/ /\ "rename" \in may
        /\ Late(p, "rename")
        /\ Fails(p)
        /\ UNCHANGED <<dir, tmp>>
  /\ UNCHANGED <<dirOk, temps, data, fpDest, fpOrig, fpTmpDest, sig, delta, pos, buf,
                 edits, crashes, since, before>>

(* The out label: fclose(), which writes what is left in the buffer.        *)
CloseFiles(p) ==
  /\ pc[p] = "close"
  /\ \/ /\ data' = IF fpTmpDest[p] = NoFile THEN data
                   ELSE [data EXCEPT ![fpTmpDest[p]] = Written(@, pos[p] - Len(buf[p]), buf[p], Zeros)]
        /\ UNCHANGED late
     \/ "flush" \in may /\ Late(p, "flush") /\ UNCHANGED data
  /\ fpDest' = Set(fpDest, p, NoFile)
  /\ fpOrig' = Set(fpOrig, p, NoFile)
  /\ fpTmpDest' = Set(fpTmpDest, p, NoFile)
  /\ Goto(p, "tidy")
  /\ UNCHANGED <<dirOk, dir, tmp, temps, sig, delta, pos, buf, rc, edits, crashes, since, before>>

(* The call is over, and its local variables are gone. *)
Return(p) ==
  /\ Goto(p, "idle")
  /\ sig' = Set(sig, p, <<>>)
  /\ delta' = Set(delta, p, <<>>)
  /\ pos' = Set(pos, p, 0)
  /\ buf' = Set(buf, p, <<>>)

(* Faulty: forgets the delta file. *)
TidyTwoOnly(p) ==
  /\ pc[p] = "tidy"
  /\ tmp' = Set(tmp, p, NoFile)
  /\ temps' = Set(temps, p, temps[p] \ {"sig"})
  /\ Return(p)
  /\ UNCHANGED <<dirOk, dir, data, fpDest, fpOrig, fpTmpDest, rc, bookVars>>

(* Faulty: removes the file instead of the one that should have become it. *)
TidyWrongName(p) ==
  /\ pc[p] = "tidy"
  /\ dir' = IF tmp[p] = NoFile THEN dir ELSE Set(dir, "dest", NoFile)
  /\ tmp' = Set(tmp, p, NoFile)
  /\ temps' = Set(temps, p, {})
  /\ Return(p)
  /\ UNCHANGED <<dirOk, data, fpDest, fpOrig, fpTmpDest, rc, bookVars>>

(* The temporary files that are still there go, but for those whose         *)
(* unlink() fails, whose result is dropped; then chdir() back.              *)
Tidy(p) ==
  /\ pc[p] = "tidy"
  /\ tmp' = Set(tmp, p, NoFile)
  /\ \E left \in SUBSET (temps[p] \union (IF tmp[p] = NoFile THEN {} ELSE {"new"})) :
       temps' = Set(temps, p, left)
  /\ \E failed \in SUBSET (may \intersect {"unlink", "chdir"}) :
       /\ "unlink" \in failed <=> temps'[p] # {}
       /\ late' = Set(late, p, late[p] \union failed)
       /\ rc' = IF "chdir" \in failed THEN Set(rc, p, "ERROR") ELSE rc
  /\ Return(p)
  /\ UNCHANGED <<dirOk, dir, fpDest, fpOrig, fpTmpDest, edits, crashes, since, before>>
  /\ data' = Scrubbed

-----------------------------------------------------------------------------
(* The owner of orig gives it new content, in place or in a new inode. *)
Edit ==
  /\ edits < MaxEdits
  /\ edits' = edits + 1
  /\ \E c \in Content :
       /\ \/ /\ Free # {}
             /\ dir' = Set(dir, "orig", NewInode)
             /\ data' = Set(data, NewInode, c)
          \/ data' = Set(data, dir["orig"], c) /\ UNCHANGED dir
       /\ since' = [p \in Proc |-> IF Active(p) THEN since[p] \union {c} ELSE since[p]]
  /\ UNCHANGED <<dirOk, tmp, temps, callVars, crashes, late, before>>

(* SIGKILL: the buffer is lost, and the temporary files stay under names    *)
(* nobody uses.                                                             *)
Crash(p) ==
  /\ Active(p)
  /\ crashes < MaxCrashes
  /\ crashes' = crashes + 1
  /\ tmp' = Set(tmp, p, NoFile)
  /\ temps' = Set(temps, p, {})
  /\ fpDest' = Set(fpDest, p, NoFile)
  /\ fpOrig' = Set(fpOrig, p, NoFile)
  /\ fpTmpDest' = Set(fpTmpDest, p, NoFile)
  /\ rc' = Set(rc, p, "NONE")
  /\ Return(p)
  /\ UNCHANGED <<dirOk, dir, edits, late, since, before>>
  /\ data' = Scrubbed

Step(p) ==
  \/ AccessDest(p) \/ MakeDest(p) \/ CreatDest(p)
  \/ OpenDest(p) \/ OpenOrig(p) \/ MakeTemps(p)
  \/ RsyncFails(p) \/ Signature(p) \/ Delta(p) \/ Patch(p)
  \/ UnlinkDest(p) \/ RenameTmp(p) \/ CloseFiles(p) \/ Tidy(p)

(* From some moment on nothing fails any more. *)
Recover ==
  /\ may # {} /\ may' = {}
  /\ UNCHANGED <<fsVars, callVars, bookVars>>

Next ==
  \/ ((\E p \in Proc : Start(p) \/ Step(p) \/ Crash(p)) \/ Edit) /\ UNCHANGED may
  \/ Recover

Spec == Init /\ [][Next]_vars

(* A call gets on, somebody keeps on calling, and failures come to an end. *)
RetrySpec ==
  /\ Spec
  /\ \A p \in Proc : WF_vars(Step(p) /\ UNCHANGED may) /\ SF_vars(Start(p) /\ UNCHANGED may)
  /\ WF_vars(Recover)

-----------------------------------------------------------------------------
(* Properties.                                                              *)

(* Every variable has its type, and a file is open when it is used.         *)
TypeOK ==
  /\ dirOk \in BOOLEAN
  /\ dir \in [{"orig", "dest"} -> Inode \union {NoFile}]
  /\ dir["orig"] # NoFile
  /\ dir["dest"] # NoFile => dirOk
  /\ tmp \in [Proc -> Inode \union {NoFile}]
  /\ temps \in [Proc -> SUBSET {"sig", "delta", "new"}]
  /\ data \in [Inode -> Seq(Block \union {Zeros})]
  /\ pc \in [Proc -> {"idle", "access", "make", "creat", "open", "openorig", "mkstemp",
                      "sig", "delta", "patch", "unlink", "rename", "close", "tidy"}]
  /\ \A f \in {fpDest, fpOrig, fpTmpDest} : f \in [Proc -> Inode \union {NoFile}]
  /\ \A p \in Proc :
       /\ pc[p] \in {"delta", "patch"} => fpDest[p] # NoFile
       /\ pc[p] = "patch" => fpTmpDest[p] # NoFile
       /\ pc[p] \in {"unlink", "rename"} => tmp[p] # NoFile
  /\ sig \in [Proc -> Seq(Block \union {Zeros})]
  /\ delta \in [Proc -> Seq([from : Nat, block : Block \union {Zeros}])]
  /\ pos \in [Proc -> Nat]
  /\ buf \in [Proc -> Seq(Block \union {Zeros})]
  /\ rc \in [Proc -> {"NONE", "SUCCESS", "ERROR"}]
  /\ edits \in 0..MaxEdits /\ crashes \in 0..MaxCrashes
  /\ late \in [Proc -> SUBSET {"rename", "flush", "unlink", "chdir"}]
  /\ since \in [Proc -> SUBSET Content]
  /\ before \in [Proc -> Seq(Block \union {Zeros})]

(* One process.  Whatever dest held before, a success means that it holds   *)
(* what orig held; if that was edited meanwhile, each of its blocks is one  *)
(* orig had in that place (demo_file_data_sync).  Only the fclose() nobody  *)
(* checks can take some away again.                                         *)
SyncedIsRead ==
  \A p \in Proc : pc[p] = "idle" /\ rc[p] = "SUCCESS" /\ "flush" \notin late[p] =>
    /\ dir["dest"] # NoFile
    /\ \A c \in since[p] : since[p] = {c} => Holds("dest") = c
    /\ \A k \in DOMAIN Holds("dest") :
         \E c \in since[p] : k <= Len(c) /\ Holds("dest")[k] = c[k]

(* One process.  A call that fails has left dest as it was, if need be as   *)
(* an empty file, unless the rename() failed, with dest removed already, or *)
(* the chdir() back, with dest replaced.                                    *)
FailureKeepsDest ==
  \A p \in Proc : pc[p] = "idle" /\ rc[p] = "ERROR" =>
    \/ Holds("dest") = before[p]
    \/ "rename" \in late[p] /\ dir["dest"] = NoFile
    \/ "chdir" \in late[p] /\ dir["dest"] # NoFile

(* At whatever step a call fails, once it is over it has left none of its   *)
(* three temporary files behind, unless the unlink() of one of them fails,  *)
(* whose result is dropped (demo_file_data_sync).                           *)
NoStrayTmp ==
  \A p \in Proc : pc[p] = "idle" =>
    tmp[p] = NoFile /\ (temps[p] = {} \/ "unlink" \in late[p])

(* Two processes side by side, though one may cut, remove or replace the    *)
(* dest the other is working on: once both have come to their end, one      *)
(* success is enough for dest to equal orig.  It does not hold of three: p  *)
(* renames its new file before it has flushed it, q, which has found no     *)
(* dest before, cuts that file with creat(), and r, which has its delta     *)
(* already, applies it to what p flushes behind the cut.                    *)
OneSuccessIsEnough ==
  /\ may = {} /\ edits = 0 /\ crashes = 0
  /\ \A p \in Proc : ~Active(p)
  /\ \E p \in Proc : rc[p] = "SUCCESS"
  => Holds("dest") = Holds("orig") /\ dir["dest"] # NoFile

(* Once calls of the system have stopped failing, somebody who calls again  *)
(* and again gets dest up to date: whatever they have left behind, after    *)
(* kills at any step, and from a directory that is not there.               *)
InSync ==
  /\ \A p \in Proc : ~Active(p)
  /\ dir["dest"] # NoFile /\ Holds("dest") = Holds("orig")

RetryHeals == []<>InSync
=============================================================================
