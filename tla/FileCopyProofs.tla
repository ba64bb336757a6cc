--------------------------- MODULE FileCopyProofs ---------------------------
(***************************************************************************)
(* Proofs about FileCopy.tla, for any inodes, any failures and any bounds. *)
(*                                                                         *)
(* For any number of jobs side by side: every variable keeps its type, no  *)
(* temporary file stays behind that could be removed, and the file is      *)
(* missing only in the middle of a restore.                                *)
(*                                                                         *)
(* For one job at a time, the case the properties are about, unless what   *)
(* Deceived names has happened: a backup that reports success is a         *)
(* snapshot of the file, there is no bad backup between jobs, and a        *)
(* restore brings back what the owner has had.  The argument of the first  *)
(* goes place by place: as long as the owner brings no block back, one     *)
(* that is gone from its place in the file stays away, and a copy that     *)
(* mixes two edits has such a block, which the second reading for the MD5  *)
(* cannot find.                                                            *)
(***************************************************************************)
EXTENDS FileCopy, SeqLemmas

LEMMA NewInodeIsFree == Free # {} => NewInode \in Inode /\ NewInode \in Free
BY DEF Free, NewInode

-----------------------------------------------------------------------------
(* What a step of a job may do to each variable.                            *)

(* What p reads next. *)
Next1(p) == data[in[p]][pos[p] + 1]
Readable(p, labels) == pc[p] \in labels /\ pos[p] < Len(data[in[p]])

DirStep(p) ==
  \/ UNCHANGED dir
  \/ dir' = Set(dir, Dst(p), NoFile)
  \/ dir' = Set(dir, Dst(p), tmp[p])

TmpStep(p) ==
  \/ UNCHANGED tmp
  \/ tmp' = Set(tmp, p, NoFile)
  \/ Free # {} /\ tmp' = Set(tmp, p, NewInode)

DataStep(p) ==
  \/ UNCHANGED data
  \/ Free # {} /\ data' = Set(data, NewInode, <<>>)
  \/ /\ Readable(p, {"read"})
     /\ LET b == Append(buf[p], Next1(p)) IN
        data' = [data EXCEPT ![out[p]] = Written(@, pos[p] + 1 - Len(b), b, Zeros)]
  \/ /\ pc[p] = "close" /\ out[p] # NoFile
     /\ data' = [data EXCEPT ![out[p]] = Written(@, pos[p] - Len(buf[p]), buf[p], Zeros)]

InStep(p) ==
  \/ UNCHANGED in
  \/ in' = Set(in, p, NoFile)
  \/ in' = Set(in, p, dir[Src(p)])
  \/ in' = Set(in, p, dir[Dst(p)])

OutStep(p) ==
  \/ UNCHANGED out
  \/ out' = Set(out, p, NoFile)
  \/ Free # {} /\ out' = Set(out, p, NewInode)

BufStep(p) ==
  \/ UNCHANGED buf
  \/ buf' = Set(buf, p, <<>>)
  \/ Readable(p, {"read"}) /\ buf' = Set(buf, p, Append(buf[p], Next1(p)))

MdStep(p) ==
  \/ UNCHANGED md
  \/ md' = Set(md, p, NoDigests)
  \/ Readable(p, {"sum", "sumdest"}) /\ md' = [md EXCEPT ![p][Side(p)] = Append(@, Next1(p))]

PosStep(p) == UNCHANGED pos \/ pos' = Set(pos, p, 0) \/ pos' = Set(pos, p, pos[p] + 1)

DestExitStep(p) ==
  \/ UNCHANGED destExit
  \/ destExit' = Set(destExit, p, FALSE)
  \/ destExit' = Set(destExit, p, dir[Dst(p)] # NoFile)

RcStep(p) == UNCHANGED rc \/ rc' = Set(rc, p, "ERROR")

HeldStep ==
  UNCHANGED held \/ held' = held \union {data[i] : i \in {dir["orig"]} \ {NoFile}}

SilentStep ==
  UNCHANGED silent \/ \E f \in {"read", "flush", "remove"} : silent' = silent \union {f}

UnremovedStep(p) == UNCHANGED unremoved \/ unremoved' = unremoved \union {p}

LEMMA StepChanges ==
  ASSUME NEW p \in Proc, Step(p)
  PROVE  /\ UNCHANGED <<job, edits, since, undone, crashes>>
         /\ DirStep(p) /\ TmpStep(p) /\ DataStep(p)
         /\ InStep(p) /\ OutStep(p) /\ BufStep(p) /\ MdStep(p) /\ PosStep(p)
         /\ DestExitStep(p) /\ RcStep(p) /\ HeldStep /\ SilentStep /\ UnremovedStep(p)
<1> USE DEF Goto, fsVars, bookVars, CopyFails, JobFails, Return, Next1, Readable,
            DirStep, TmpStep, DataStep, InStep, OutStep, BufStep, MdStep, PosStep,
            DestExitStep, RcStep, HeldStep, SilentStep, UnremovedStep
<1>1. CASE AccessDest(p)
  BY <1>1 DEF AccessDest
<1>2. CASE OpenOrig(p)
  BY <1>2 DEF OpenOrig
<1>3. CASE MakeTmp(p)
  BY <1>3 DEF MakeTmp
<1>4. CASE CopyBlock(p)
  BY <1>4 DEF CopyBlock
<1>5. CASE CopyEnd(p)
  BY <1>5 DEF CopyEnd, AtEnd
<1>6. CASE UnlinkDest(p)
  BY <1>6 DEF UnlinkDest
<1>7. CASE RenameTmp(p)
  BY <1>7 DEF RenameTmp
<1>8. CASE CloseFiles(p)
  BY <1>8 DEF CloseFiles
<1>9. CASE RemoveTmp(p)
  BY <1>9 DEF RemoveTmp
<1>10. CASE OpenForMd5(p)
  BY <1>10 DEF OpenForMd5
<1>11. CASE ReadForMd5(p)
  BY <1>11 DEF ReadForMd5
<1>12. CASE EndOfMd5(p)
  BY <1>12 DEF EndOfMd5, AtEnd
<1>13. CASE SyncAttrs(p)
  BY <1>13 DEF SyncAttrs
<1>14. CASE CleanUp(p)
  BY <1>14 DEF CleanUp, Dst
<1> QED BY <1>1, <1>2, <1>3, <1>4, <1>5, <1>6, <1>7, <1>8, <1>9, <1>10, <1>11,
          <1>12, <1>13, <1>14 DEF Step

(* A step leads to another step. *)
LEMMA StepPC ==
  ASSUME pc \in [Proc -> PC], NEW p \in Proc, Step(p)
  PROVE  pc' \in [Proc -> PC]
<1> USE DEF Goto, Set, PC, CopyFails, JobFails, Return
<1>1. CASE AccessDest(p)
  BY <1>1 DEF AccessDest
<1>2. CASE OpenOrig(p)
  BY <1>2 DEF OpenOrig
<1>3. CASE MakeTmp(p)
  BY <1>3 DEF MakeTmp
<1>4. CASE CopyBlock(p)
  BY <1>4 DEF CopyBlock
<1>5. CASE CopyEnd(p)
  BY <1>5 DEF CopyEnd
<1>6. CASE UnlinkDest(p)
  BY <1>6 DEF UnlinkDest
<1>7. CASE RenameTmp(p)
  BY <1>7 DEF RenameTmp
<1>8. CASE CloseFiles(p)
  BY <1>8 DEF CloseFiles
<1>9. CASE RemoveTmp(p)
  BY <1>9 DEF RemoveTmp
<1>10. CASE OpenForMd5(p)
  BY <1>10 DEF OpenForMd5
<1>11. CASE ReadForMd5(p)
  BY <1>11 DEF ReadForMd5
<1>12. CASE EndOfMd5(p)
  BY <1>12 DEF EndOfMd5
<1>13. CASE SyncAttrs(p)
  BY <1>13 DEF SyncAttrs
<1>14. CASE CleanUp(p)
  BY <1>14 DEF CleanUp
<1> QED BY <1>1, <1>2, <1>3, <1>4, <1>5, <1>6, <1>7, <1>8, <1>9, <1>10, <1>11,
          <1>12, <1>13, <1>14 DEF Step

(* A file is open while it is used. *)
Opened ==
  \A p \in Proc :
    /\ pc[p] \in {"read", "sum", "sumdest"} => in[p] # NoFile
    /\ pc[p] \in {"read", "unlink", "rename"} => out[p] # NoFile

LEMMA StepOpened ==
  ASSUME pc \in [Proc -> PC], in \in [Proc -> Inode \union {NoFile}],
         out \in [Proc -> Inode \union {NoFile}],
         Opened, NEW p \in Proc, Step(p)
  PROVE  Opened'
<1> USE InodeAssumption, NewInodeIsFree DEF Opened, Goto, Set, CopyFails, JobFails, Return
<1>1. CASE AccessDest(p)
  BY <1>1 DEF AccessDest
<1>2. CASE OpenOrig(p)
  BY <1>2 DEF OpenOrig
<1>3. CASE MakeTmp(p)
  BY <1>3 DEF MakeTmp
<1>4. CASE CopyBlock(p)
  BY <1>4 DEF CopyBlock
<1>5. CASE CopyEnd(p)
  BY <1>5 DEF CopyEnd
<1>6. CASE UnlinkDest(p)
  BY <1>6 DEF UnlinkDest
<1>7. CASE RenameTmp(p)
  BY <1>7 DEF RenameTmp
<1>8. CASE CloseFiles(p)
  BY <1>8 DEF CloseFiles
<1>9. CASE RemoveTmp(p)
  BY <1>9 DEF RemoveTmp
<1>10. CASE OpenForMd5(p)
  BY <1>10 DEF OpenForMd5
<1>11. CASE ReadForMd5(p)
  BY <1>11 DEF ReadForMd5
<1>12. CASE EndOfMd5(p)
  BY <1>12 DEF EndOfMd5
<1>13. CASE SyncAttrs(p)
  BY <1>13 DEF SyncAttrs
<1>14. CASE CleanUp(p)
  BY <1>14 DEF CleanUp
<1> QED BY <1>1, <1>2, <1>3, <1>4, <1>5, <1>6, <1>7, <1>8, <1>9, <1>10, <1>11,
          <1>12, <1>13, <1>14 DEF Step

-----------------------------------------------------------------------------
(* Type correctness.                                                        *)

LEMMA InitTypes == Init => TypeOK
<1> SUFFICES ASSUME Init PROVE TypeOK
  OBVIOUS
<1>1. PICK i \in Inode, c \in Content :
        /\ dir = [orig |-> i, back |-> NoFile]
        /\ data = [j \in Inode |-> IF j = i THEN c ELSE <<>>]
        /\ held = {c}
  BY DEF Init
<1>2. c \in Seq(Block) /\ <<>> \in Seq(Block)
  BY BlockAssumption, EmptySeq
<1>3. dir \in [{"orig", "back"} -> Inode \union {NoFile}]
  BY <1>1
<1>4. data \in [Inode -> Seq(Block)] /\ held \subseteq Seq(Block)
  <2>1. data = [j \in Inode |-> IF j = i THEN c ELSE <<>>] /\ held = {c}
    BY <1>1
  <2> QED BY <1>2, <2>1
<1>5. pc \in [Proc -> PC] /\ pos \in [Proc -> Nat]
  BY DEF Init, PC
<1>6. /\ tmp \in [Proc -> Inode \union {NoFile}]
      /\ in \in [Proc -> Inode \union {NoFile}]
      /\ out \in [Proc -> Inode \union {NoFile}]
  BY DEF Init
<1>7. /\ buf \in [Proc -> Seq(Block)]
      /\ md \in [Proc -> [src : Seq(Block), dst : Seq(Block)]]
  BY <1>2 DEF Init, NoDigests
<1>8. /\ job \in [Proc -> {"backup", "restore"}]
      /\ destExit \in [Proc -> BOOLEAN]
      /\ rc \in [Proc -> {"NONE", "SUCCESS", "ERROR"}]
      /\ since \in [Proc -> SUBSET Seq(Block)]
  BY DEF Init
<1>9. /\ edits \in 0..MaxEdits /\ crashes \in 0..MaxCrashes
      /\ may \subseteq MayFail /\ silent = {} /\ unremoved = {}
  BY BoundAssumption DEF Init
<1>10. undone \in BOOLEAN
  BY DEF Init
<1>11. \A p \in Proc : pc[p] = "idle"
  BY DEF Init
<1> QED BY <1>3, <1>4, <1>5, <1>6, <1>7, <1>8, <1>9, <1>10, <1>11 DEF TypeOK

(* TypeOK without the contents. *)
Typed ==
  /\ pc \in [Proc -> PC]
  /\ job \in [Proc -> {"backup", "restore"}]
  /\ dir \in [{"orig", "back"} -> Inode \union {NoFile}]
  /\ tmp \in [Proc -> Inode \union {NoFile}]
  /\ in \in [Proc -> Inode \union {NoFile}]
  /\ out \in [Proc -> Inode \union {NoFile}]
  /\ pos \in [Proc -> Nat]
  /\ rc \in [Proc -> {"NONE", "SUCCESS", "ERROR"}]

LEMMA TypeOKTyped == TypeOK => Typed
BY DEF TypeOK, Typed

(* What is read is one of the blocks there are. *)
LEMMA NextBlock ==
  ASSUME NEW S, data \in [Inode -> Seq(S)], Typed, Opened,
         NEW p \in Proc, Readable(p, {"read", "sum", "sumdest"})
  PROVE  /\ in[p] \in Inode
         /\ pos[p] + 1 \in 1..Len(data[in[p]])
         /\ Next1(p) \in S
<1>1. in[p] \in Inode /\ pos[p] \in Nat
  BY DEF Typed, Opened, Readable
<1>2. data[in[p]] \in Seq(S)
  BY <1>1
<1>3. pos[p] + 1 \in 1..Len(data[in[p]])
  BY <1>1, <1>2, LenProperties DEF Readable
<1> QED BY <1>1, <1>2, <1>3, ElementOfSeq DEF Next1

(* A step writes no blocks but those there are, and zeros. *)
LEMMA StepContents ==
  ASSUME NEW S, Zeros \in S, data \in [Inode -> Seq(S)], buf \in [Proc -> Seq(S)],
         Typed, Opened, NEW p \in Proc, Step(p)
  PROVE  data' \in [Inode -> Seq(S)] /\ buf' \in [Proc -> Seq(S)]
<1>1. ASSUME Readable(p, {"read"}) PROVE Append(buf[p], Next1(p)) \in Seq(S)
  <2>1. Next1(p) \in S
    BY <1>1, NextBlock DEF Readable
  <2> QED BY <2>1, AppendProperties
<1>2. \A i \in Inode, b \in Seq(S), n \in Int : Written(data[i], n, b, Zeros) \in Seq(S)
  BY WrittenType
<1>3. (out[p] # NoFile => out[p] \in Inode) /\ (pc[p] = "read" => out[p] # NoFile)
  BY DEF Typed, Opened
<1>4. pos[p] \in Nat /\ \A b \in Seq(S) : Len(b) \in Nat
  BY LenProperties DEF Typed
<1>5. ASSUME NEW i \in Inode, NEW b \in Seq(S), NEW n \in Int,
             data' = [data EXCEPT ![i] = Written(@, n, b, Zeros)]
      PROVE  data' \in [Inode -> Seq(S)]
  BY <1>2, <1>5
<1>6. ASSUME Readable(p, {"read"}),
             data' = [data EXCEPT ![out[p]] =
               Written(@, pos[p] + 1 - Len(Append(buf[p], Next1(p))),
                       Append(buf[p], Next1(p)), Zeros)]
      PROVE  data' \in [Inode -> Seq(S)]
  <2>1. out[p] \in Inode
    BY <1>3, <1>6 DEF Readable
  <2>2. pos[p] + 1 - Len(Append(buf[p], Next1(p))) \in Int
    BY <1>1, <1>4, <1>6
  <2> QED BY <1>1, <1>5, <1>6, <2>1, <2>2
<1>7. ASSUME out[p] # NoFile,
             data' = [data EXCEPT ![out[p]] =
               Written(@, pos[p] - Len(buf[p]), buf[p], Zeros)]
      PROVE  data' \in [Inode -> Seq(S)]
  <2>1. pos[p] - Len(buf[p]) \in Int
    BY <1>4
  <2> QED BY <1>3, <1>5, <1>7, <2>1
<1>8. Free # {} => Set(data, NewInode, <<>>) \in [Inode -> Seq(S)]
  BY NewInodeIsFree, EmptySeq DEF Set
<1>9. data' \in [Inode -> Seq(S)]
  BY <1>6, <1>7, <1>8, StepChanges DEF DataStep
<1>10. buf' \in [Proc -> Seq(S)]
  BY <1>1, EmptySeq, StepChanges, ZenonT(40) DEF BufStep, Set
<1> QED BY <1>9, <1>10

LEMMA StepTypes ==
  ASSUME TypeOK, UNCHANGED may, NEW p \in Proc, Step(p)
  PROVE  TypeOK'
<1>0. /\ dir \in [{"orig", "back"} -> Inode \union {NoFile}]
      /\ tmp \in [Proc -> Inode \union {NoFile}]
      /\ in \in [Proc -> Inode \union {NoFile}]
      /\ out \in [Proc -> Inode \union {NoFile}]
  BY DEF TypeOK
<1>1. dir' \in [{"orig", "back"} -> Inode \union {NoFile}]
  BY <1>0, StepChanges DEF DirStep, Set
<1>2. tmp' \in [Proc -> Inode \union {NoFile}]
  BY <1>0, StepChanges, NewInodeIsFree DEF TmpStep, Set
<1>3. in' \in [Proc -> Inode \union {NoFile}]
  BY <1>0, StepChanges DEF InStep, Set, Src, Dst
<1>4. out' \in [Proc -> Inode \union {NoFile}]
  BY <1>0, StepChanges, NewInodeIsFree DEF OutStep, Set
<1>5. destExit' \in [Proc -> BOOLEAN]
  <2>1. destExit \in [Proc -> BOOLEAN]
    BY DEF TypeOK
  <2> QED BY <2>1, StepChanges DEF DestExitStep, Set
<1>6. pos' \in [Proc -> Nat]
  <2>1. pos \in [Proc -> Nat]
    BY DEF TypeOK
  <2> QED BY <2>1, StepChanges DEF PosStep, Set
<1>7. rc' \in [Proc -> {"NONE", "SUCCESS", "ERROR"}]
  <2>1. rc \in [Proc -> {"NONE", "SUCCESS", "ERROR"}]
    BY DEF TypeOK
  <2> QED BY <2>1, StepChanges DEF RcStep, Set
<1>8. silent' \subseteq {"read", "flush", "remove"}
  <2>1. silent \subseteq {"read", "flush", "remove"}
    BY DEF TypeOK
  <2> QED BY <2>1, StepChanges DEF SilentStep
<1>9. held' \subseteq Seq(Block)
  <2>1. held \subseteq Seq(Block) /\ data \in [Inode -> Seq(Block)]
    BY DEF TypeOK
  <2>2. dir["orig"] \in Inode \union {NoFile}
    BY <1>0
  <2> QED BY <2>1, <2>2, StepChanges DEF HeldStep
<1>10. buf' \in [Proc -> Seq(Block)] /\ data' \in [Inode -> Seq(Block)]
  BY BlockAssumption, StepContents, TypeOKTyped DEF TypeOK, Opened
<1>11. md' \in [Proc -> [src : Seq(Block), dst : Seq(Block)]]
  <2>1. md \in [Proc -> [src : Seq(Block), dst : Seq(Block)]]
    BY DEF TypeOK
  <2>2. NoDigests \in [src : Seq(Block), dst : Seq(Block)]
    BY EmptySeq DEF NoDigests
  <2>3. Side(p) \in {"src", "dst"}
    BY DEF Side
  <2>4. ASSUME Readable(p, {"sum", "sumdest"})
        PROVE  Append(md[p][Side(p)], Next1(p)) \in Seq(Block)
    <3>1. md[p][Side(p)] \in Seq(Block)
      BY <2>1, <2>3
    <3>2. Next1(p) \in Block
      BY <2>4, NextBlock, TypeOKTyped DEF Readable, TypeOK, Opened
    <3> QED BY <3>1, <3>2, AppendProperties
  <2>5. ASSUME NEW s \in Seq(Block)
        PROVE  [md EXCEPT ![p][Side(p)] = s] \in [Proc -> [src : Seq(Block), dst : Seq(Block)]]
    BY <2>1, <2>3
  <2> QED BY <2>1, <2>2, <2>4, <2>5, StepChanges, ZenonT(40) DEF MdStep, Set
<1>12. Opened'
  BY StepOpened DEF TypeOK, Opened
<1>13. pc' \in [Proc -> PC]
  BY StepPC DEF TypeOK
<1>14. UNCHANGED <<job, edits, since, undone, crashes, may>>
  BY StepChanges
<1>15. unremoved' \subseteq Proc
  <2>1. unremoved \subseteq Proc
    BY DEF TypeOK
  <2> QED BY <2>1, StepChanges DEF UnremovedStep
<1> QED BY <1>1, <1>2, <1>3, <1>4, <1>5, <1>6, <1>7, <1>8, <1>9, <1>10, <1>11,
          <1>12, <1>13, <1>14, <1>15 DEF TypeOK, Opened

LEMMA NextTypes == TypeOK /\ [Next]_vars => TypeOK'
<1> SUFFICES ASSUME TypeOK, [Next]_vars PROVE TypeOK'
  OBVIOUS
<1>1. ASSUME NEW p \in Proc, NEW j \in {"backup", "restore"}, Start(p, j), UNCHANGED may
      PROVE  TypeOK'
  <2>1. job \in [Proc -> {"backup", "restore"}] /\ rc \in [Proc -> {"NONE", "SUCCESS", "ERROR"}]
        /\ pc \in [Proc -> PC] /\ since \in [Proc -> SUBSET Seq(Block)]
        /\ data \in [Inode -> Seq(Block)] /\ dir["orig"] \in Inode \union {NoFile}
    BY DEF TypeOK
  <2>2. job' \in [Proc -> {"backup", "restore"}]
    BY <1>1, <2>1 DEF Start, Set
  <2>3. rc' \in [Proc -> {"NONE", "SUCCESS", "ERROR"}]
    BY <1>1, <2>1 DEF Start, Set
  <2>4. pc' \in [Proc -> PC] /\ \A q \in Proc : pc'[q] = pc[q] \/ pc'[q] = "access"
    BY <1>1, <2>1 DEF Start, Goto, PC
  <2>5. since' \in [Proc -> SUBSET Seq(Block)]
    BY <1>1, <2>1 DEF Start, Set
  <2>6. UNCHANGED <<dir, data, destExit, in, out, buf, pos, md, edits, held, undone, silent,
                    crashes>>
    BY <1>1 DEF Start
  <2>7. tmp' \in [Proc -> Inode \union {NoFile}] /\ unremoved' \subseteq Proc
    BY <1>1 DEF Start, Set, TypeOK
  <2> QED BY <1>1, <2>2, <2>3, <2>4, <2>5, <2>6, <2>7 DEF TypeOK
<1>2. ASSUME NEW p \in Proc, Step(p), UNCHANGED may PROVE TypeOK'
  BY <1>2, StepTypes
<1>3. ASSUME NEW p \in Proc, Crash(p), UNCHANGED may PROVE TypeOK'
  <2>1. /\ tmp' \in [Proc -> Inode \union {NoFile}]
        /\ in' \in [Proc -> Inode \union {NoFile}]
        /\ out' \in [Proc -> Inode \union {NoFile}]
        /\ \A q \in Proc \ {p} : in'[q] = in[q] /\ out'[q] = out[q]
    BY <1>3 DEF Crash, Set, TypeOK
  <2>2. buf' \in [Proc -> Seq(Block)]
    BY <1>3, EmptySeq DEF Crash, Set, TypeOK
  <2>3. pc' \in [Proc -> PC] /\ pc'[p] = "idle" /\ \A q \in Proc \ {p} : pc'[q] = pc[q]
    BY <1>3 DEF Crash, Return, Goto, TypeOK, PC
  <2>4. destExit' \in [Proc -> BOOLEAN] /\ pos' \in [Proc -> Nat]
    BY <1>3 DEF Crash, Return, Set, TypeOK
  <2>5. md' \in [Proc -> [src : Seq(Block), dst : Seq(Block)]]
    <3>1. md \in [Proc -> [src : Seq(Block), dst : Seq(Block)]]
      BY DEF TypeOK
    <3>2. NoDigests \in [src : Seq(Block), dst : Seq(Block)]
      BY EmptySeq DEF NoDigests
    <3> QED BY <1>3, <3>1, <3>2 DEF Crash, Return, Set
  <2>6. rc' \in [Proc -> {"NONE", "SUCCESS", "ERROR"}]
    BY <1>3 DEF Crash, Set, TypeOK
  <2>7. crashes' \in 0..MaxCrashes
    BY <1>3, BoundAssumption DEF Crash, TypeOK
  <2>8. /\ UNCHANGED <<dir, data, job, edits, held, since, undone, silent>>
        /\ unremoved' \subseteq Proc
    BY <1>3 DEF Crash, TypeOK
  <2>9. Opened'
    BY <2>1, <2>3, ZenonT(40) DEF TypeOK, Opened
  <2> QED BY <1>3, <2>1, <2>2, <2>3, <2>4, <2>5, <2>6, <2>7, <2>8, <2>9 DEF TypeOK, Opened
<1>4. CASE Edit /\ UNCHANGED may
  <2>1. edits \in 0..MaxEdits /\ edits' = edits + 1 /\ edits' \in 0..MaxEdits
    BY <1>4, BoundAssumption DEF Edit, TypeOK
  <2>2. PICK c \in Content :
          /\ \/ Free # {} /\ dir' = Set(dir, "orig", NewInode) /\ data' = Set(data, NewInode, c)
             \/ dir["orig"] # NoFile /\ data' = Set(data, dir["orig"], c) /\ UNCHANGED dir
          /\ held' = held \union {c}
          /\ since' = [p \in Proc |-> IF BackingUp(p) THEN since[p] \union {c} ELSE since[p]]
          /\ undone' = (undone \/ BringsBack(c))
    BY <1>4 DEF Edit
  <2>3. c \in Seq(Block) /\ undone' \in BOOLEAN
    BY <2>2, BlockAssumption DEF TypeOK
  <2>4. /\ dir' \in [{"orig", "back"} -> Inode \union {NoFile}]
        /\ data' \in [Inode -> Seq(Block)]
    <3>1. dir \in [{"orig", "back"} -> Inode \union {NoFile}] /\ data \in [Inode -> Seq(Block)]
      BY DEF TypeOK
    <3> QED BY <2>2, <2>3, <3>1, NewInodeIsFree DEF Set
  <2>5. since' \in [Proc -> SUBSET Seq(Block)] /\ held' \subseteq Seq(Block)
    BY <2>2, <2>3 DEF TypeOK
  <2>6. UNCHANGED <<tmp, jobVars, silent, unremoved, crashes, may>>
    BY <1>4 DEF Edit
  <2> QED BY <2>1, <2>3, <2>4, <2>5, <2>6 DEF TypeOK, jobVars
<1>5. CASE Delete /\ UNCHANGED may
  <2>1. edits' \in 0..MaxEdits
    BY <1>5, BoundAssumption DEF Delete, TypeOK
  <2>2. dir' \in [{"orig", "back"} -> Inode \union {NoFile}]
    BY <1>5 DEF Delete, Set, TypeOK
  <2> QED BY <1>5, <2>1, <2>2 DEF Delete, TypeOK, jobVars
<1>6. CASE UNCHANGED vars
  BY <1>6 DEF vars, fsVars, jobVars, bookVars, TypeOK
<1> QED BY <1>1, <1>2, <1>3, <1>4, <1>5, <1>6 DEF Next

(* Any number of jobs, inodes and blocks, whatever fails: every variable    *)
(* keeps its type, and no step reads or writes a file that is not open      *)
(* (TypeOK).                                                                *)
THEOREM TypeCorrect == Spec => []TypeOK
BY InitTypes, NextTypes, PTL DEF Spec

-----------------------------------------------------------------------------
(* Temporary files.                                                         *)

(* NoStrayTmp, and that the temporary file is there as long as it is needed. *)
TmpInv ==
  /\ NoStrayTmp
  /\ \A p \in Proc : pc[p] \in {"read", "unlink", "rename"} => tmp[p] # NoFile

LEMMA StepTmp ==
  ASSUME pc \in [Proc -> PC], tmp \in [Proc -> Inode \union {NoFile}],
         TmpInv, NEW p \in Proc, Step(p)
  PROVE  TmpInv'
<1> USE InodeAssumption, NewInodeIsFree
    DEF TmpInv, NoStrayTmp, Goto, Set, CopyFails, JobFails, Return, fsVars, bookVars
<1>1. CASE AccessDest(p)
  BY <1>1 DEF AccessDest
<1>2. CASE OpenOrig(p)
  BY <1>2 DEF OpenOrig
<1>3. CASE MakeTmp(p)
  BY <1>3 DEF MakeTmp
<1>4. CASE CopyBlock(p)
  BY <1>4 DEF CopyBlock
<1>5. CASE CopyEnd(p)
  BY <1>5 DEF CopyEnd
<1>6. CASE UnlinkDest(p)
  BY <1>6 DEF UnlinkDest
<1>7. CASE RenameTmp(p)
  BY <1>7 DEF RenameTmp
<1>8. CASE CloseFiles(p)
  BY <1>8 DEF CloseFiles
<1>9. CASE RemoveTmp(p)
  BY <1>9 DEF RemoveTmp
<1>10. CASE OpenForMd5(p)
  BY <1>10 DEF OpenForMd5
<1>11. CASE ReadForMd5(p)
  BY <1>11 DEF ReadForMd5
<1>12. CASE EndOfMd5(p)
  BY <1>12 DEF EndOfMd5
<1>13. CASE SyncAttrs(p)
  BY <1>13 DEF SyncAttrs
<1>14. CASE CleanUp(p)
  BY <1>14 DEF CleanUp
<1> QED BY <1>1, <1>2, <1>3, <1>4, <1>5, <1>6, <1>7, <1>8, <1>9, <1>10, <1>11,
          <1>12, <1>13, <1>14 DEF Step

LEMMA TmpInvariant == Spec => [](TypeOK /\ TmpInv)
<1>1. Init => TypeOK /\ TmpInv
  BY InitTypes DEF Init, TmpInv, NoStrayTmp
<1>2. TypeOK /\ TmpInv /\ [Next]_vars => (TypeOK /\ TmpInv)'
  <2> SUFFICES ASSUME TypeOK, TmpInv, [Next]_vars PROVE TmpInv'
    BY NextTypes
  <2>0. pc \in [Proc -> PC] /\ tmp \in [Proc -> Inode \union {NoFile}]
    BY DEF TypeOK
  <2>1. ASSUME NEW p \in Proc, NEW j \in {"backup", "restore"}, Start(p, j) PROVE TmpInv'
    BY <2>0, <2>1 DEF Start, Goto, Set, TmpInv, NoStrayTmp
  <2>2. ASSUME NEW p \in Proc, Step(p) PROVE TmpInv'
    BY <2>0, <2>2, StepTmp
  <2>3. ASSUME NEW p \in Proc, Crash(p) PROVE TmpInv'
    BY <2>0, <2>3 DEF Crash, Return, Goto, Set, TmpInv, NoStrayTmp
  <2>4. CASE Edit \/ Delete \/ UNCHANGED vars
    BY <2>4 DEF Edit, Delete, vars, fsVars, jobVars, bookVars, TmpInv, NoStrayTmp
  <2> QED BY <2>1, <2>2, <2>3, <2>4 DEF Next
<1> QED BY <1>1, <1>2, PTL DEF Spec

(* Any number of jobs side by side, with any failures and kills at every    *)
(* step: by the time demo_file_data_copy is over it has removed its         *)
(* temporary file or given it the name of its destination, or the unlink()  *)
(* of that file is one of the calls that failed (NoStrayTmp).               *)
THEOREM CopyTidiesUp == Spec => []NoStrayTmp
<1>1. TmpInv => NoStrayTmp
  BY DEF TmpInv
<1> QED BY <1>1, TmpInvariant, PTL

-----------------------------------------------------------------------------
(* The file itself.                                                         *)

MidRestore == \E p \in Proc : job[p] = "restore" /\ pc[p] = "rename"

(* A step after which the file is missing has removed it and is about to    *)
(* rename the copy, or leaves it as it was; then a restore that was about   *)
(* to rename has not come to it.                                            *)
LEMMA StepMissing ==
  ASSUME pc \in [Proc -> PC], job \in [Proc -> {"backup", "restore"}],
         dir \in [{"orig", "back"} -> Inode \union {NoFile}],
         tmp \in [Proc -> Inode \union {NoFile}], "rename" \notin may,
         TmpInv, NEW p \in Proc, Step(p), dir'["orig"] = NoFile
  PROVE  \/ job[p] = "restore" /\ pc'[p] = "rename"
         \/ dir["orig"] = NoFile /\ ~(job[p] = "restore" /\ pc[p] = "rename")
<1> USE DEF TmpInv, Goto, Set, CopyFails, JobFails, Return, fsVars, Dst
<1>1. CASE AccessDest(p)
  BY <1>1 DEF AccessDest
<1>2. CASE OpenOrig(p)
  BY <1>2 DEF OpenOrig
<1>3. CASE MakeTmp(p)
  BY <1>3 DEF MakeTmp
<1>4. CASE CopyBlock(p)
  BY <1>4 DEF CopyBlock
<1>5. CASE CopyEnd(p)
  BY <1>5 DEF CopyEnd
<1>6. CASE UnlinkDest(p)
  BY <1>6 DEF UnlinkDest
<1>7. CASE RenameTmp(p)
  BY <1>7 DEF RenameTmp
<1>8. CASE CloseFiles(p)
  BY <1>8 DEF CloseFiles
<1>9. CASE RemoveTmp(p)
  BY <1>9 DEF RemoveTmp
<1>10. CASE OpenForMd5(p)
  BY <1>10 DEF OpenForMd5
<1>11. CASE ReadForMd5(p)
  BY <1>11 DEF ReadForMd5
<1>12. CASE EndOfMd5(p)
  BY <1>12 DEF EndOfMd5
<1>13. CASE SyncAttrs(p)
  BY <1>13 DEF SyncAttrs
<1>14. CASE CleanUp(p)
  BY <1>14 DEF CleanUp
<1> QED BY <1>1, <1>2, <1>3, <1>4, <1>5, <1>6, <1>7, <1>8, <1>9, <1>10, <1>11,
          <1>12, <1>13, <1>14 DEF Step

LEMMA StepFrame ==
  ASSUME pc \in [Proc -> PC], NEW p \in Proc, Step(p)
  PROVE  \A q \in Proc \ {p} : pc'[q] = pc[q]
<1> USE DEF Goto, Set, CopyFails, JobFails, Return
<1>1. CASE AccessDest(p)
  BY <1>1 DEF AccessDest
<1>2. CASE OpenOrig(p)
  BY <1>2 DEF OpenOrig
<1>3. CASE MakeTmp(p)
  BY <1>3 DEF MakeTmp
<1>4. CASE CopyBlock(p)
  BY <1>4 DEF CopyBlock
<1>5. CASE CopyEnd(p)
  BY <1>5 DEF CopyEnd
<1>6. CASE UnlinkDest(p)
  BY <1>6 DEF UnlinkDest
<1>7. CASE RenameTmp(p)
  BY <1>7 DEF RenameTmp
<1>8. CASE CloseFiles(p)
  BY <1>8 DEF CloseFiles
<1>9. CASE RemoveTmp(p)
  BY <1>9 DEF RemoveTmp
<1>10. CASE OpenForMd5(p)
  BY <1>10 DEF OpenForMd5
<1>11. CASE ReadForMd5(p)
  BY <1>11 DEF ReadForMd5
<1>12. CASE EndOfMd5(p)
  BY <1>12 DEF EndOfMd5
<1>13. CASE SyncAttrs(p)
  BY <1>13 DEF SyncAttrs
<1>14. CASE CleanUp(p)
  BY <1>14 DEF CleanUp
<1> QED BY <1>1, <1>2, <1>3, <1>4, <1>5, <1>6, <1>7, <1>8, <1>9, <1>10, <1>11,
          <1>12, <1>13, <1>14 DEF Step

(* Any number of jobs side by side, without failing rename() and kills: a   *)
(* file its owner has not deleted is missing only between the unlink() and  *)
(* the rename() of a restore (OrigMissingOnlyMidRestore).                   *)
THEOREM FileIsOnlyBrieflyMissing == Spec => []OrigMissingOnlyMidRestore
<1>1. Init => OrigMissingOnlyMidRestore
  BY InodeAssumption DEF Init, OrigMissingOnlyMidRestore
<1>2. TypeOK /\ TmpInv /\ OrigMissingOnlyMidRestore /\ [Next]_vars => OrigMissingOnlyMidRestore'
  <2> SUFFICES ASSUME TypeOK, TmpInv, OrigMissingOnlyMidRestore, [Next]_vars,
                      dir'["orig"] = NoFile, ~OwnerDeletes, crashes' = 0,
                      "rename" \notin MayFail
               PROVE  MidRestore'
    BY DEF OrigMissingOnlyMidRestore, MidRestore
  <2>0. /\ pc \in [Proc -> PC] /\ job \in [Proc -> {"backup", "restore"}]
        /\ dir \in [{"orig", "back"} -> Inode \union {NoFile}]
        /\ tmp \in [Proc -> Inode \union {NoFile}]
        /\ "rename" \notin may /\ crashes \in Nat
    BY BoundAssumption DEF TypeOK
  <2>1. ASSUME NEW p \in Proc, NEW j \in {"backup", "restore"}, Start(p, j) PROVE MidRestore'
    BY <2>0, <2>1 DEF Start, Goto, Set, OrigMissingOnlyMidRestore, MidRestore
  <2>2. ASSUME NEW p \in Proc, Step(p) PROVE MidRestore'
    <3>1. UNCHANGED <<job, crashes>>
      BY <2>2, StepChanges
    <3>2. CASE job[p] = "restore" /\ pc'[p] = "rename"
      BY <3>1, <3>2 DEF MidRestore
    <3>3. CASE dir["orig"] = NoFile /\ ~(job[p] = "restore" /\ pc[p] = "rename")
      <4>1. PICK q \in Proc : job[q] = "restore" /\ pc[q] = "rename"
        BY <3>1, <3>3 DEF OrigMissingOnlyMidRestore
      <4>2. pc'[q] = pc[q]
        BY <2>0, <2>2, <3>3, <4>1, StepFrame
      <4> QED BY <3>1, <4>1, <4>2 DEF MidRestore
    <3> QED BY <2>0, <2>2, <3>2, <3>3, StepMissing
  <2>3. ASSUME NEW p \in Proc, Crash(p) PROVE MidRestore'
    BY <2>0, <2>3 DEF Crash
  <2>4. CASE Edit
    <3>1. dir' = dir
      BY <2>0, <2>4, InodeAssumption, NewInodeIsFree DEF Edit, Set
    <3> QED BY <2>4, <3>1 DEF Edit, jobVars, OrigMissingOnlyMidRestore, MidRestore
  <2>5. CASE UNCHANGED vars
    BY <2>5 DEF vars, fsVars, jobVars, bookVars, OrigMissingOnlyMidRestore, MidRestore
  <2> QED BY <2>1, <2>2, <2>3, <2>4, <2>5 DEF Next, Delete
<1> QED BY <1>1, <1>2, TmpInvariant, PTL DEF Spec

-----------------------------------------------------------------------------
(* One job at a time: what is needed about the contents of the two files.   *)

(* The inodes and files of a job do not get into each other's way. *)
Apart(p) ==
  /\ dir["orig"] = dir["back"] => dir["orig"] = NoFile
  /\ in[p] # NoFile =>
       pc[p] \in {"mkstemp", "read", "unlink", "rename", "close", "sum", "sumdest"}
  /\ out[p] # NoFile =>
       pc[p] \in {"read", "unlink", "rename", "close"} /\ out[p] # dir[Src(p)]
  /\ buf[p] # <<>> => pc[p] \in {"read", "unlink", "rename", "close"}
  /\ pc[p] \in {"read", "unlink", "rename"} => tmp[p] = out[p] /\ out[p] # dir[Dst(p)]
  /\ pc[p] = "read" => in[p] # out[p]
  /\ pc[p] = "mkstemp" => pos[p] = 0
  /\ pc[p] \in {"sum", "md5dest"} => md[p].dst = <<>>
  /\ pc[p] = "failed" => rc[p] = "ERROR"

(* A copy that has been renamed is what its name stands for. *)
Renamed(p) ==
  pc[p] = "close" /\ rc[p] = "SUCCESS" /\ job[p] = "backup" =>
    out[p] # NoFile /\ out[p] = dir["back"]

(* The blocks the file has had at place k since p began, and has not now. *)
Gone(p, k) == {s[k] : s \in {t \in since[p] : k \in DOMAIN t}} \ BlockAt(k)

(* Content c has been in the file since p began, or has a block that is     *)
(* gone, which the second reading for the MD5 finds out.                    *)
Genuine(p, c) == c \in since[p] \/ \E k \in DOMAIN c : c[k] \in Gone(p, k)

(* m is what has been read of c after n blocks. *)
ReadSoFar(m, c, n) ==
  /\ Len(m) = n /\ n <= Len(c)
  /\ \A k \in 1..n : m[k] = c[k]

(* What the copy holds once it is closed. *)
Result(p) == data[out[p]] \o buf[p]

(* What the MD5 can tell. *)
Trusted == "flush" \notin silent \/ edits = 0

(* How far a backup has got that has been deceived neither by a read error  *)
(* nor by its owner.                                                        *)
Backup(p) == job[p] = "backup" /\ "read" \notin silent /\ ~undone

SourceSeen(p) ==
  Backup(p) =>
    /\ Active(p) /\ dir["orig"] # NoFile => data[dir["orig"]] \in since[p]
    /\ pc[p] \in {"mkstemp", "read"} /\ in[p] # NoFile => data[in[p]] \in since[p]

Copying(p) ==
  Backup(p) /\ pc[p] = "read" =>
    /\ Len(data[out[p]]) + Len(buf[p]) = pos[p]
    /\ \A k \in 1..pos[p] :
         \/ Result(p)[k] \in Gone(p, k)
         \/ k \in DOMAIN data[in[p]] /\ Result(p)[k] = data[in[p]][k]

Copied(p) ==
  Backup(p) /\ (pc[p] \in {"unlink", "rename"} \/ (pc[p] = "close" /\ rc[p] = "SUCCESS")) =>
    /\ Len(data[out[p]]) + Len(buf[p]) = pos[p]
    /\ Genuine(p, Result(p))

Closed(p) ==
  Backup(p) /\ (pc[p] = "md5" \/ (pc[p] = "tidy" /\ rc[p] = "SUCCESS")) =>
    /\ dir["back"] # NoFile
    /\ "flush" \notin silent => Genuine(p, data[dir["back"]])

(* Content c has been in the file since p began, or has a block that is     *)
(* gone, and is not at its place in what is read for the MD5.               *)
Compared(p, c) ==
  \/ c \in since[p]
  \/ \E k \in DOMAIN c :
       /\ c[k] \in Gone(p, k)
       /\ k \in DOMAIN data[in[p]] => data[in[p]][k] # c[k]
       /\ k \in DOMAIN md[p].src => md[p].src[k] # c[k]

Summing(p) ==
  Backup(p) /\ pc[p] = "sum" =>
    /\ dir["back"] # NoFile /\ Len(md[p].src) = pos[p]
    /\ "flush" \notin silent => Compared(p, data[dir["back"]])
    /\ edits = 0 => in[p] = dir["orig"] /\ ReadSoFar(md[p].src, data[in[p]], pos[p])

Summed(p) ==
  Backup(p) /\ pc[p] \in {"md5dest", "sumdest", "attrs"} =>
    /\ dir["back"] # NoFile
    /\ Trusted /\ md[p].src = data[dir["back"]] => data[dir["back"]] \in since[p]

SummingDest(p) ==
  Backup(p) =>
    /\ pc[p] = "sumdest" => in[p] = dir["back"] /\ ReadSoFar(md[p].dst, data[in[p]], pos[p])
    /\ pc[p] = "attrs" => md[p].src = data[dir["back"]]

Reported(p) ==
  Backup(p) /\ pc[p] = "idle" /\ rc[p] = "SUCCESS" =>
    /\ dir["back"] # NoFile
    /\ Trusted => data[dir["back"]] \in since[p]

BackupInv(p) ==
  /\ SourceSeen(p) /\ Copying(p) /\ Copied(p) /\ Closed(p)
  /\ Summing(p) /\ Summed(p) /\ SummingDest(p) /\ Reported(p)

Clean == crashes = 0 /\ ~Deceived /\ "remove" \notin silent

OrigHeld == dir["orig"] = NoFile \/ data[dir["orig"]] \in held
BackHeld == dir["back"] = NoFile \/ data[dir["back"]] \in held

(* What is in the two files is or has been the owner's, but for the one     *)
(* that a job is about to replace.                                          *)
FilesHeld(p) ==
  Clean =>
    /\ ~Active(p) \/ job[p] = "backup" => OrigHeld
    /\ job[p] = "backup" => since[p] \subseteq held
    /\ ~Active(p) \/ job[p] = "restore" => BackHeld

(* How far a restore has got: what it has read of the backup is the         *)
(* owner's, and what it reads of the file is, too, or still there.          *)
RestoreInv(p) ==
  Clean /\ job[p] = "restore" =>
    /\ pc[p] = "sum" => in[p] = dir["back"] /\ ReadSoFar(md[p].src, data[in[p]], pos[p])
    /\ pc[p] \in {"md5dest", "sumdest", "attrs"} => md[p].src \in held
    /\ pc[p] = "sumdest" =>
         OrigHeld \/ (in[p] = dir["orig"] /\ ReadSoFar(md[p].dst, data[in[p]], pos[p]))
    /\ pc[p] = "attrs" => OrigHeld

SoloInv(p) ==
  TypeOK /\ Apart(p) /\ Renamed(p) /\ BackupInv(p) /\ FilesHeld(p) /\ RestoreInv(p)

LEMMA NewInodeIsApart ==
  ASSUME Free # {}, NEW p \in Proc
  PROVE  NewInode \notin {dir["orig"], dir["back"], tmp[p], in[p], out[p]}
BY NewInodeIsFree DEF Free, InUse

LEMMA StepApart ==
  ASSUME Typed, buf \in [Proc -> Seq(Block)], md \in [Proc -> [src : Seq(Block), dst : Seq(Block)]],
         Opened, NEW p \in Proc, Apart(p), Step(p)
  PROVE  Apart(p)'
<1> USE InodeAssumption, NewInodeIsFree, NewInodeIsApart
    DEF Typed, Opened, Apart, Goto, Set, CopyFails, JobFails, Return, fsVars, bookVars,
        Src, Dst, NoDigests
<1>1. CASE AccessDest(p)
  BY <1>1 DEF AccessDest
<1>2. CASE OpenOrig(p)
  BY <1>2 DEF OpenOrig
<1>3. CASE MakeTmp(p)
  BY <1>3 DEF MakeTmp
<1>4. CASE CopyBlock(p)
  BY <1>4 DEF CopyBlock
<1>5. CASE CopyEnd(p)
  BY <1>5 DEF CopyEnd
<1>6. CASE UnlinkDest(p)
  BY <1>6 DEF UnlinkDest
<1>7. CASE RenameTmp(p)
  BY <1>7 DEF RenameTmp
<1>8. CASE CloseFiles(p)
  BY <1>8 DEF CloseFiles
<1>9. CASE RemoveTmp(p)
  BY <1>9 DEF RemoveTmp
<1>10. CASE OpenForMd5(p)
  BY <1>10 DEF OpenForMd5, Side
<1>11. CASE ReadForMd5(p)
  BY <1>11 DEF ReadForMd5, Side
<1>12. CASE EndOfMd5(p)
  BY <1>12 DEF EndOfMd5
<1>13. CASE SyncAttrs(p)
  BY <1>13 DEF SyncAttrs
<1>14. CASE CleanUp(p)
  BY <1>14 DEF CleanUp
<1> QED BY <1>1, <1>2, <1>3, <1>4, <1>5, <1>6, <1>7, <1>8, <1>9, <1>10, <1>11,
          <1>12, <1>13, <1>14 DEF Step

LEMMA StepRenamed ==
  ASSUME Typed, Opened, NEW p \in Proc, Apart(p), Renamed(p), Step(p)
  PROVE  Renamed(p)'
<1> USE InodeAssumption
    DEF Typed, Opened, Apart, Renamed, Goto, Set, CopyFails, JobFails, Return, fsVars, bookVars, Dst
<1>1. CASE AccessDest(p)
  BY <1>1 DEF AccessDest
<1>2. CASE OpenOrig(p)
  BY <1>2 DEF OpenOrig
<1>3. CASE MakeTmp(p)
  BY <1>3 DEF MakeTmp
<1>4. CASE CopyBlock(p)
  BY <1>4 DEF CopyBlock
<1>5. CASE CopyEnd(p)
  BY <1>5 DEF CopyEnd
<1>6. CASE UnlinkDest(p)
  BY <1>6 DEF UnlinkDest
<1>7. CASE RenameTmp(p)
  BY <1>7 DEF RenameTmp
<1>8. CASE CloseFiles(p)
  BY <1>8 DEF CloseFiles
<1>9. CASE RemoveTmp(p)
  BY <1>9 DEF RemoveTmp
<1>10. CASE OpenForMd5(p)
  BY <1>10 DEF OpenForMd5
<1>11. CASE ReadForMd5(p)
  BY <1>11 DEF ReadForMd5
<1>12. CASE EndOfMd5(p)
  BY <1>12 DEF EndOfMd5
<1>13. CASE SyncAttrs(p)
  BY <1>13 DEF SyncAttrs
<1>14. CASE CleanUp(p)
  BY <1>14 DEF CleanUp
<1> QED BY <1>1, <1>2, <1>3, <1>4, <1>5, <1>6, <1>7, <1>8, <1>9, <1>10, <1>11,
          <1>12, <1>13, <1>14 DEF Step

-----------------------------------------------------------------------------
(* What a step of the one job leaves alone.                                 *)

(* Only the file that is written to changes. *)
LEMMA StepKeeps ==
  ASSUME data \in [Inode -> Seq(Block)], NEW p \in Proc, Step(p),
         NEW i \in Inode, i # out[p], i \notin Free
  PROVE  data'[i] = data[i]
BY StepChanges, NewInodeIsFree DEF DataStep, Set

LEMMA StepKeepsIn ==
  ASSUME data \in [Inode -> Seq(Block)], Typed, NEW p \in Proc, Step(p),
         in[p] # NoFile, in[p] # out[p]
  PROVE  data'[in[p]] = data[in[p]]
BY StepKeeps DEF Typed, Free, InUse

(* What a job reads from stays as it is. *)
LEMMA StepKeepsSrc ==
  ASSUME data \in [Inode -> Seq(Block)], Typed, Opened, NEW p \in Proc, Apart(p), Step(p)
  PROVE  /\ dir'[Src(p)] = dir[Src(p)]
         /\ dir[Src(p)] # NoFile => data'[dir[Src(p)]] = data[dir[Src(p)]]
<1>1. dir'[Src(p)] = dir[Src(p)]
  BY StepChanges DEF DirStep, Set, Src, Dst, Typed
<1>2. ASSUME dir[Src(p)] # NoFile PROVE data'[dir[Src(p)]] = data[dir[Src(p)]]
  <2>1. dir[Src(p)] \in Inode /\ dir[Src(p)] \notin Free
    BY <1>2 DEF Typed, Src, Free, InUse
  <2>2. out[p] # dir[Src(p)]
    BY <1>2 DEF Apart
  <2> QED BY <2>1, <2>2, StepKeeps
<1> QED BY <1>1, <1>2

(* So does its destination, but for its renaming and closing. *)
LEMMA StepKeepsDst ==
  ASSUME data \in [Inode -> Seq(Block)], Typed, Opened, NEW p \in Proc, Apart(p), Step(p),
         pc[p] \notin {"unlink", "rename", "close", "failed"}
  PROVE  /\ dir'[Dst(p)] = dir[Dst(p)]
         /\ dir[Dst(p)] # NoFile => data'[dir[Dst(p)]] = data[dir[Dst(p)]]
<1>1. dir'[Dst(p)] = dir[Dst(p)]
  BY DEF Step, AccessDest, OpenOrig, MakeTmp, CopyBlock, CopyEnd, UnlinkDest, RenameTmp,
         CloseFiles, RemoveTmp, OpenForMd5, ReadForMd5, EndOfMd5, SyncAttrs, CleanUp, fsVars
<1>2. ASSUME dir[Dst(p)] # NoFile PROVE data'[dir[Dst(p)]] = data[dir[Dst(p)]]
  <2>1. dir[Dst(p)] \in Inode /\ dir[Dst(p)] \notin Free
    BY <1>2 DEF Typed, Dst, Free, InUse
  <2>2. out[p] # dir[Dst(p)]
    BY <1>2 DEF Apart, Typed, PC
  <2> QED BY <2>1, <2>2, StepKeeps
<1> QED BY <1>1, <1>2

LEMMA StepKeepsGone ==
  ASSUME data \in [Inode -> Seq(Block)], Typed, Opened, NEW p \in Proc, Apart(p), Step(p),
         job[p] = "backup"
  PROVE  \A k : Gone(p, k)' = Gone(p, k)
<1>1. \A k : BlockAt(k)' = BlockAt(k)
  BY StepKeepsSrc DEF BlockAt, Src
<1>2. since' = since
  BY StepChanges
<1> QED BY <1>1, <1>2 DEF Gone

(* A read error is for good. *)
LEMMA StepBackup ==
  ASSUME NEW p \in Proc, Step(p), Backup(p)'
  PROVE  Backup(p) /\ job'[p] = job[p] /\ since' = since /\ edits' = edits
BY StepChanges DEF Backup, SilentStep

LEMMA StepSourceSeen ==
  ASSUME data \in [Inode -> Seq(Block)], Typed, Opened, NEW p \in Proc, Apart(p),
         SourceSeen(p), Step(p)
  PROVE  SourceSeen(p)'
<1> SUFFICES ASSUME Backup(p)' PROVE SourceSeen(p)'
  BY DEF SourceSeen
<1>0. Backup(p) /\ job'[p] = "backup" /\ since' = since /\ Src(p) = "orig"
  BY StepBackup DEF Backup, Src
<1>1. ASSUME Active(p)', dir'["orig"] # NoFile PROVE data'[dir'["orig"]] \in since'[p]
  <2>1. Active(p)
    BY DEF Step, Active, AccessDest, OpenOrig, MakeTmp, CopyBlock, CopyEnd, UnlinkDest, RenameTmp,
         CloseFiles, RemoveTmp, OpenForMd5, ReadForMd5, EndOfMd5, SyncAttrs, CleanUp
  <2> QED BY <1>0, <1>1, <2>1, StepKeepsSrc DEF SourceSeen
<1>2. ASSUME pc'[p] \in {"mkstemp", "read"}, in'[p] # NoFile PROVE data'[in'[p]] \in since'[p]
  <2>1. \/ OpenOrig(p)
        \/ pc[p] \in {"mkstemp", "read"} /\ in'[p] = in[p] /\ in[p] # out[p]
    <3> USE DEF Typed, Goto, Set, CopyFails, JobFails, Return, Apart
    <3> QED
    BY <1>2 DEF Step, Active, AccessDest, MakeTmp, CopyBlock, CopyEnd, UnlinkDest, RenameTmp,
         CloseFiles, RemoveTmp, OpenForMd5, ReadForMd5, EndOfMd5, SyncAttrs, CleanUp
  <2>2. CASE OpenOrig(p)
    <3>1. in'[p] = dir["orig"] /\ dir' = dir /\ data' = data /\ pc[p] = "open"
      BY <1>0, <1>2, <2>2 DEF OpenOrig, Set, Typed, fsVars, Apart
    <3> QED BY <1>0, <1>2, <3>1 DEF SourceSeen, Active
  <2>3. CASE pc[p] \in {"mkstemp", "read"} /\ in'[p] = in[p] /\ in[p] # out[p]
    BY <1>0, <1>2, <2>3, StepKeepsIn DEF SourceSeen
  <2> QED BY <2>1, <2>2, <2>3
<1> QED BY <1>1, <1>2 DEF SourceSeen

-----------------------------------------------------------------------------
(* A backup.                                                                *)

LEMMA CopyBlockGoesOn ==
  ASSUME NEW p \in Proc, CopyBlock(p), ~CopyFails(p)
  PROVE  LET b == Append(buf[p], data[in[p]][pos[p] + 1]) IN
         /\ pos' = Set(pos, p, pos[p] + 1)
         /\ \/ data' = data /\ buf' = Set(buf, p, b)
            \/ /\ data' = Set(data, out[p], Written(data[out[p]], pos[p] + 1 - Len(b), b, Zeros))
               /\ buf' = Set(buf, p, <<>>)
<1>1. PICK b : b = Append(buf[p], data[in[p]][pos[p] + 1])
  OBVIOUS
<1>2. /\ pos' = Set(pos, p, pos[p] + 1)
      /\ \/ data' = data /\ buf' = Set(buf, p, b)
         \/ /\ data' = Set(data, out[p], Written(data[out[p]], pos[p] + 1 - Len(b), b, Zeros))
            /\ buf' = Set(buf, p, <<>>)
  BY <1>1 DEF CopyBlock, Set
<1> QED BY <1>1, <1>2

(* Adding to the copy of a backup the block that has just been read. *)
LEMMA CopyingOn ==
  ASSUME data \in [Inode -> Seq(Block)], buf \in [Proc -> Seq(Block)], Typed, Opened,
         NEW p \in Proc, Apart(p), Copying(p), CopyBlock(p), Backup(p), pc'[p] = "read",
         NEW x, x = data[in[p]][pos[p] + 1],
         NEW b, b = Append(buf[p], x), NEW r, r = data[out[p]] \o b
  PROVE  Copying(p)'
<1>1. /\ pc[p] = "read" /\ in[p] \in Inode /\ out[p] \in Inode /\ in[p] # out[p]
      /\ pos[p] \in Nat /\ UNCHANGED <<in, out, dir>>
      /\ data[out[p]] \in Seq(Block) /\ buf[p] \in Seq(Block) /\ data[in[p]] \in Seq(Block)
  BY DEF CopyBlock, Typed, Opened, Apart
<1>2. x \in Block /\ pos[p] + 1 \in 1..Len(data[in[p]])
  BY <1>1, NextBlock DEF CopyBlock, Readable, Next1
<1>3. Len(data[out[p]]) + Len(buf[p]) = pos[p]
  BY <1>1 DEF Copying
<1>4. /\ b \in Seq(Block) /\ Len(b) = Len(buf[p]) + 1
      /\ r \in Seq(Block) /\ r = Append(Result(p), x)
      /\ Result(p) \in Seq(Block) /\ Len(Result(p)) = pos[p]
  <2>1. b \in Seq(Block) /\ Len(b) = Len(buf[p]) + 1
    BY <1>1, <1>2, AppendProperties
  <2>2. Result(p) \in Seq(Block) /\ Len(Result(p)) = pos[p]
    BY <1>1, <1>3, ConcatProperties DEF Result
  <2>3. r = Append(Result(p), x)
    <3>1. \A s, t \in Seq(Block), v \in Block : s \o Append(t, v) = Append(s \o t, v)
      BY ConcatAppend
    <3>2. data[out[p]] \o Append(buf[p], x) = Append(data[out[p]] \o buf[p], x)
      BY <1>1, <1>2, <3>1
    <3> QED BY <3>2 DEF Result
  <2> QED BY <1>2, <2>1, <2>2, <2>3, AppendProperties
<1>5. Written(data[out[p]], pos[p] + 1 - Len(b), b, Zeros) = r
  <2>1. Written(data[out[p]], Len(data[out[p]]), b, Zeros) = data[out[p]] \o b
    BY <1>1, <1>4, WrittenAppends
  <2>2. \A i, j \in Nat : i + j + 1 - (j + 1) = i
    OBVIOUS
  <2>3. pos[p] + 1 - Len(b) = Len(data[out[p]])
    BY <1>1, <1>3, <1>4, <2>2, LenProperties
  <2> QED BY <2>1, <2>3
<1>6. /\ pos'[p] = pos[p] + 1 /\ data'[in[p]] = data[in[p]]
      /\ \/ data'[out[p]] = data[out[p]] /\ buf'[p] = b
         \/ data'[out[p]] = r /\ buf'[p] = <<>>
  <2>1. ~CopyFails(p)
    BY DEF CopyFails, Goto, Typed
  <2>2. /\ pos' = Set(pos, p, pos[p] + 1)
        /\ \/ data' = data /\ buf' = Set(buf, p, b)
           \/ data' = Set(data, out[p], r) /\ buf' = Set(buf, p, <<>>)
    BY <1>5, <2>1, CopyBlockGoesOn, Zenon
  <2> QED BY <1>1, <2>2 DEF Set, Typed
<1>7. Result(p)' = r /\ Len(data'[out[p]]) + Len(buf'[p]) = pos'[p]
  <2>1. CASE data'[out[p]] = data[out[p]] /\ buf'[p] = b
    <3>1. \A i, j \in Nat : i + (j + 1) = i + j + 1
      OBVIOUS
    <3>2. Len(data[out[p]]) + Len(b) = pos[p] + 1
      <4>1. Len(data[out[p]]) \in Nat /\ Len(buf[p]) \in Nat
        BY <1>1, LenProperties
      <4> QED BY <1>3, <1>4, <3>1, <4>1
    <3> QED BY <1>1, <1>6, <2>1, <3>2 DEF Result
  <2>2. CASE data'[out[p]] = r /\ buf'[p] = <<>>
    <3>1. r \o <<>> = r /\ Len(r) = pos[p] + 1
      BY <1>2, <1>4, ConcatEmptySeq, AppendProperties
    <3>2. Len(<<>>) = 0 /\ Len(r) + 0 = Len(r)
      BY <1>1, <3>1
    <3> QED BY <1>1, <1>6, <2>2, <3>1, <3>2 DEF Result
  <2> QED BY <1>6, <2>1, <2>2
<1>8. \A k : Gone(p, k)' = Gone(p, k)
  BY StepKeepsGone DEF Step, Backup
<1>9. /\ r[pos[p] + 1] = x
      /\ \A k \in 1..pos[p] : r[k] = Result(p)[k]
  BY <1>2, <1>4, AppendProperties
<1>10. ASSUME NEW k \in 1..(pos[p] + 1)
      PROVE  r[k] \in Gone(p, k) \/ (k \in DOMAIN data[in[p]] /\ r[k] = data[in[p]][k])
  <2>1. CASE k = pos[p] + 1
    <3>1. k \in DOMAIN data[in[p]]
      BY <1>1, <1>2, <2>1, LenProperties
    <3> QED BY <1>9, <2>1, <3>1
  <2>2. CASE k \in 1..pos[p]
    BY <1>1, <1>9, <2>2 DEF Copying
  <2>3. k = pos[p] + 1 \/ k \in 1..pos[p]
    BY <1>1
  <2> QED BY <2>1, <2>2, <2>3
<1> QED BY <1>1, <1>6, <1>7, <1>8, <1>10 DEF Copying

LEMMA StepCopying ==
  ASSUME data \in [Inode -> Seq(Block)], buf \in [Proc -> Seq(Block)], Typed, Opened,
         NEW p \in Proc, Apart(p), Copying(p), Step(p)
  PROVE  Copying(p)'
<1> SUFFICES ASSUME Backup(p)', pc'[p] = "read" PROVE Copying(p)'
  BY DEF Copying
<1>0. Backup(p)
  BY StepBackup
<1>1. CopyBlock(p) \/ MakeTmp(p)
  BY DEF Step, AccessDest, OpenOrig, CopyEnd, UnlinkDest, RenameTmp,
         CloseFiles, RemoveTmp, OpenForMd5, ReadForMd5, EndOfMd5, SyncAttrs, CleanUp,
         Goto, CopyFails, JobFails, Return, Typed, PC
<1>2. CASE MakeTmp(p)
  <2>1. /\ pos'[p] = 0 /\ buf'[p] = <<>> /\ out'[p] = NewInode
        /\ data' = [data EXCEPT ![NewInode] = <<>>] /\ Free # {}
    BY <1>2 DEF MakeTmp, Set, Goto, CopyFails, Apart, Typed
  <2>2. data'[out'[p]] = <<>>
    BY <2>1, NewInodeIsFree
  <2> QED BY <2>1, <2>2 DEF Copying
<1> QED BY <1>0, <1>1, <1>2, CopyingOn

(* Once all blocks have been read, the copy is what the file has held or    *)
(* has a block that is gone.                                                *)
LEMMA WholeCopy ==
  ASSUME data \in [Inode -> Seq(Block)], buf \in [Proc -> Seq(Block)], Typed, Opened,
         NEW p \in Proc, Apart(p), Backup(p), SourceSeen(p), Copying(p),
         pc[p] = "read", pos[p] >= Len(data[in[p]])
  PROVE  /\ Len(data[out[p]]) + Len(buf[p]) = pos[p]
         /\ Genuine(p, Result(p))
<1>1. /\ in[p] \in Inode /\ data[in[p]] \in Seq(Block) /\ data[in[p]] \in since[p]
      /\ data[out[p]] \in Seq(Block) /\ buf[p] \in Seq(Block) /\ pos[p] \in Nat
  BY DEF Typed, Opened, SourceSeen
<1>2. /\ Len(data[out[p]]) + Len(buf[p]) = pos[p]
      /\ \A k \in 1..pos[p] :
           \/ Result(p)[k] \in Gone(p, k)
           \/ k \in DOMAIN data[in[p]] /\ Result(p)[k] = data[in[p]][k]
  BY DEF Copying
<1>3. Result(p) \in Seq(Block) /\ Len(Result(p)) = pos[p] /\ DOMAIN Result(p) = 1..pos[p]
  BY <1>1, <1>2, ConcatProperties, LenProperties DEF Result
<1>4. CASE \A k \in 1..pos[p] : Result(p)[k] \notin Gone(p, k)
  <2>1. \A k \in 1..pos[p] : k \in DOMAIN data[in[p]] /\ Result(p)[k] = data[in[p]][k]
    BY <1>2, <1>4
  <2>2. Len(data[in[p]]) \in Nat /\ DOMAIN data[in[p]] = 1..Len(data[in[p]])
    BY <1>1, LenProperties
  <2>3. pos[p] = Len(data[in[p]])
    <3>1. CASE pos[p] = 0
      BY <2>2, <3>1
    <3>2. CASE pos[p] # 0
      <4>1. pos[p] \in 1..pos[p]
        BY <1>1, <3>2
      <4> QED BY <1>1, <2>1, <2>2, <4>1
    <3> QED BY <3>1, <3>2
  <2>4. Result(p) = data[in[p]]
    BY <1>1, <1>3, <2>1, <2>3, SeqEqual
  <2> QED BY <1>1, <1>2, <2>4 DEF Genuine
<1>5. CASE \E k \in 1..pos[p] : Result(p)[k] \in Gone(p, k)
  BY <1>2, <1>3, <1>5 DEF Genuine
<1> QED BY <1>4, <1>5

LEMMA StepCopied ==
  ASSUME data \in [Inode -> Seq(Block)], buf \in [Proc -> Seq(Block)], Typed, Opened,
         NEW p \in Proc, Apart(p), SourceSeen(p), Copying(p), Copied(p), Step(p)
  PROVE  Copied(p)'
<1> SUFFICES ASSUME Backup(p)',
                    pc'[p] \in {"unlink", "rename"} \/ (pc'[p] = "close" /\ rc'[p] = "SUCCESS")
             PROVE  /\ Len(data'[out'[p]]) + Len(buf'[p]) = pos'[p]
                    /\ Genuine(p, Result(p))'
  BY DEF Copied
<1>1. Backup(p) /\ since' = since
  BY StepBackup
<1>2. \A k : Gone(p, k)' = Gone(p, k)
  BY <1>1, StepKeepsGone DEF Backup
<1>3. CopyEnd(p) \/ UnlinkDest(p) \/ RenameTmp(p)
  BY DEF Step, AccessDest, OpenOrig, MakeTmp, CopyBlock, CloseFiles,
         RemoveTmp, OpenForMd5, ReadForMd5, EndOfMd5, SyncAttrs, CleanUp,
         Goto, Set, CopyFails, JobFails, Return, Typed, PC
<1>4. /\ Len(data[out[p]]) + Len(buf[p]) = pos[p]
      /\ Genuine(p, Result(p))
  <2>1. CASE CopyEnd(p)
    <3>1. pc[p] = "read" /\ pos[p] >= Len(data[in[p]])
      BY <2>1 DEF CopyEnd, AtEnd, Backup
    <3> QED BY <1>1, <3>1, WholeCopy
  <2>2. CASE UnlinkDest(p) \/ RenameTmp(p)
    BY <1>1, <2>2 DEF UnlinkDest, RenameTmp, Copied
  <2> QED BY <1>3, <2>1, <2>2
<1>5. UNCHANGED <<data, out, buf, pos>>
  BY <1>3 DEF CopyEnd, UnlinkDest, RenameTmp, fsVars
<1> QED BY <1>1, <1>2, <1>4, <1>5 DEF Genuine, Result

LEMMA StepClosed ==
  ASSUME data \in [Inode -> Seq(Block)], buf \in [Proc -> Seq(Block)], Typed, Opened,
         NEW p \in Proc, Apart(p), Renamed(p), Copied(p), Closed(p), Step(p)
  PROVE  Closed(p)'
<1> SUFFICES ASSUME Backup(p)',
                    pc'[p] = "md5" \/ (pc'[p] = "tidy" /\ rc'[p] = "SUCCESS")
             PROVE  /\ dir'["back"] # NoFile
                    /\ "flush" \notin silent' => Genuine(p, data[dir["back"]])'
  BY DEF Closed
<1>1. Backup(p) /\ since' = since
  BY StepBackup
<1>2. \A k : Gone(p, k)' = Gone(p, k)
  BY <1>1, StepKeepsGone DEF Backup
<1>3. CloseFiles(p) \/ RemoveTmp(p)
  BY DEF Step, AccessDest, OpenOrig, MakeTmp, CopyBlock, CopyEnd,
         UnlinkDest, RenameTmp, OpenForMd5, ReadForMd5, EndOfMd5, SyncAttrs,
         CleanUp,          Goto, Set, CopyFails, JobFails, Return, Typed, PC
<1>4. CASE CloseFiles(p)
  <2>1. /\ pc[p] = "close" /\ rc[p] = "SUCCESS" /\ dir' = dir
        /\ out[p] # NoFile /\ out[p] = dir["back"]
    BY <1>1, <1>4 DEF CloseFiles, Goto, Typed, Backup, Renamed
  <2>2. ASSUME "flush" \notin silent' PROVE data'[out[p]] = Result(p)
    <3>1. /\ data[out[p]] \in Seq(Block) /\ buf[p] \in Seq(Block) /\ out[p] \in Inode
          /\ Len(data[out[p]]) + Len(buf[p]) = pos[p]
      BY <1>1, <2>1 DEF Typed, Copied
    <3>2. data'[out[p]] = Written(data[out[p]], pos[p] - Len(buf[p]), buf[p], Zeros)
      BY <1>4, <2>1, <2>2, <3>1 DEF CloseFiles
    <3>3. pos[p] - Len(buf[p]) = Len(data[out[p]])
      BY <3>1, LenProperties
    <3>4. Written(data[out[p]], Len(data[out[p]]), buf[p], Zeros) = data[out[p]] \o buf[p]
      BY <3>1, WrittenAppends
    <3> QED BY <3>2, <3>3, <3>4 DEF Result
  <2>3. Genuine(p, Result(p))
    BY <1>1, <2>1 DEF Copied
  <2> QED BY <1>1, <1>2, <2>1, <2>2, <2>3 DEF Genuine
<1>5. CASE RemoveTmp(p)
  <2>1. UNCHANGED <<dir, data, silent>> /\ pc[p] = "tidy" /\ rc[p] = "SUCCESS"
    BY <1>5 DEF RemoveTmp, Goto, JobFails, Typed, bookVars
  <2> QED BY <1>1, <1>2, <2>1 DEF Closed, Genuine
<1> QED BY <1>3, <1>4, <1>5

-----------------------------------------------------------------------------
(* Reading a file to the end for its MD5.                                   *)

LEMMA ReadNothing ==
  ASSUME NEW c \in Seq(Block)
  PROVE  ReadSoFar(<<>>, c, 0)
BY LenProperties DEF ReadSoFar

LEMMA ReadOn ==
  ASSUME NEW m \in Seq(Block), NEW c \in Seq(Block), NEW n \in Nat,
         ReadSoFar(m, c, n), n < Len(c)
  PROVE  ReadSoFar(Append(m, c[n + 1]), c, n + 1)
<1>1. n + 1 \in 1..Len(c) /\ c[n + 1] \in Block
  <2>1. Len(c) \in Nat /\ n + 1 \in 1..Len(c)
    BY LenProperties
  <2> QED BY <2>1, ElementOfSeq
<1> DEFINE a == Append(m, c[n + 1])
<1>2. /\ Len(a) = Len(m) + 1
      /\ \A k \in 1..Len(m) : a[k] = m[k]
      /\ a[Len(m) + 1] = c[n + 1]
  BY <1>1, AppendProperties
<1>3. Len(m) = n /\ \A k \in 1..n : m[k] = c[k]
  BY DEF ReadSoFar
<1>4. \A k \in 1..(n + 1) : k = n + 1 \/ k \in 1..n
  OBVIOUS
<1> HIDE DEF a
<1>5. \A k \in 1..(n + 1) : a[k] = c[k]
  BY <1>2, <1>3, <1>4
<1>6. Len(a) = n + 1 /\ n + 1 <= Len(c)
  BY <1>1, <1>2, <1>3, LenProperties
<1> QED BY <1>5, <1>6 DEF ReadSoFar, a

LEMMA ReadAll ==
  ASSUME NEW m \in Seq(Block), NEW c \in Seq(Block), NEW n \in Nat,
         ReadSoFar(m, c, n), n >= Len(c)
  PROVE  m = c
<1>1. Len(m) = Len(c) /\ \A k \in 1..Len(m) : m[k] = c[k]
  BY LenProperties DEF ReadSoFar
<1> QED BY <1>1, SeqEqual

(* What a step of the reading does. *)
LEMMA ReadStep ==
  ASSUME data \in [Inode -> Seq(Block)], buf \in [Proc -> Seq(Block)], Typed, Opened,
         NEW p \in Proc, Apart(p),
         md \in [Proc -> [src : Seq(Block), dst : Seq(Block)]], ReadForMd5(p)
  PROVE  /\ in[p] \in Inode /\ data[in[p]] \in Seq(Block) /\ pos[p] \in Nat
         /\ pos[p] < Len(data[in[p]]) /\ pos'[p] = pos[p] + 1
         /\ Next1(p) \in Block
         /\ UNCHANGED <<fsVars, pc, job, in, rc, edits, since, silent>>
         /\ pc[p] = "sum" =>
              md'[p].src = Append(md[p].src, Next1(p)) /\ md'[p].dst = md[p].dst
         /\ pc[p] = "sumdest" =>
              md'[p].dst = Append(md[p].dst, Next1(p)) /\ md'[p].src = md[p].src
<1>1. in[p] \in Inode /\ data[in[p]] \in Seq(Block) /\ pos[p] \in Nat
  BY DEF ReadForMd5, Typed, Opened
<1>2. pos[p] + 1 \in 1..Len(data[in[p]]) /\ Next1(p) \in Block
  BY NextBlock DEF ReadForMd5, Readable
<1>3. pc[p] = "sum" =>
        md'[p].src = Append(md[p].src, Next1(p)) /\ md'[p].dst = md[p].dst
  BY DEF ReadForMd5, Side, Next1
<1>4. pc[p] = "sumdest" =>
        md'[p].dst = Append(md[p].dst, Next1(p)) /\ md'[p].src = md[p].src
  BY DEF ReadForMd5, Side, Next1
<1> QED BY <1>1, <1>2, <1>3, <1>4 DEF ReadForMd5, Set, Typed, bookVars

(* What a step at its beginning does. *)
LEMMA OpenStep ==
  ASSUME data \in [Inode -> Seq(Block)], buf \in [Proc -> Seq(Block)], Typed, Opened,
         NEW p \in Proc, Apart(p),
         md \in [Proc -> [src : Seq(Block), dst : Seq(Block)]], OpenForMd5(p), pc'[p] # "failed"
  PROVE  /\ UNCHANGED <<fsVars, job, rc, edits, since, silent>> /\ pos'[p] = 0
         /\ pc[p] = "md5" =>
              /\ pc'[p] = "sum" /\ dir[Src(p)] # NoFile /\ in'[p] = dir[Src(p)]
              /\ md'[p] = NoDigests
         /\ pc[p] = "md5dest" =>
              /\ pc'[p] = "sumdest" /\ dir[Dst(p)] # NoFile /\ in'[p] = dir[Dst(p)]
              /\ md' = md /\ md[p].dst = <<>>
         /\ pc[p] \in {"md5", "md5dest"}
BY DEF OpenForMd5, Side, Set, Goto, JobFails, Typed, Apart, bookVars

(* What a step at its end does. *)
LEMMA EndStep ==
  ASSUME data \in [Inode -> Seq(Block)], buf \in [Proc -> Seq(Block)], Typed, Opened,
         NEW p \in Proc, Apart(p),
         md \in [Proc -> [src : Seq(Block), dst : Seq(Block)]], EndOfMd5(p), pc'[p] # "failed"
  PROVE  /\ UNCHANGED <<fsVars, job, rc, md, edits, since>>
         /\ in[p] \in Inode /\ data[in[p]] \in Seq(Block)
         /\ "read" \in silent' \/ (silent' = silent /\ pos[p] >= Len(data[in[p]]))
         /\ pc[p] = "sum" => pc'[p] = "md5dest"
         /\ pc[p] = "sumdest" => pc'[p] = "attrs" /\ md[p].src = md[p].dst
         /\ pc[p] \in {"sum", "sumdest"}
<1>1. in[p] \in Inode /\ data[in[p]] \in Seq(Block)
  BY DEF EndOfMd5, Typed, Opened
<1>2. "read" \in silent' \/ (silent' = silent /\ pos[p] >= Len(data[in[p]]))
  BY DEF EndOfMd5, AtEnd
<1>3. /\ UNCHANGED <<fsVars, job, md, edits, since>>
      /\ pc[p] \in {"sum", "sumdest"}
  BY DEF EndOfMd5
<1>4. /\ rc' = rc
      /\ pc[p] = "sum" => pc'[p] = "md5dest"
      /\ pc[p] = "sumdest" => pc'[p] = "attrs" /\ md[p].src = md[p].dst
  BY DEF EndOfMd5, Goto, JobFails, Typed
<1> QED BY <1>1, <1>2, <1>3, <1>4

LEMMA StepSumming ==
  ASSUME data \in [Inode -> Seq(Block)], buf \in [Proc -> Seq(Block)], Typed, Opened,
         NEW p \in Proc, Apart(p),
         md \in [Proc -> [src : Seq(Block), dst : Seq(Block)]], 
         Closed(p), Summing(p), Step(p)
  PROVE  Summing(p)'
<1> SUFFICES ASSUME Backup(p)', pc'[p] = "sum"
             PROVE  /\ dir'["back"] # NoFile /\ Len(md'[p].src) = pos'[p]
                    /\ "flush" \notin silent' => Compared(p, data[dir["back"]])'
                    /\ edits' = 0 =>
                         /\ in'[p] = dir'["orig"]
                         /\ ReadSoFar(md'[p].src, data'[in'[p]], pos'[p])
  BY DEF Summing
<1>1. Backup(p) /\ since' = since /\ Src(p) = "orig" /\ edits' = edits
  BY StepBackup DEF Backup, Src
<1>2. \A k : Gone(p, k)' = Gone(p, k)
  BY <1>1, StepKeepsGone DEF Backup
<1>3. OpenForMd5(p) \/ ReadForMd5(p)
  BY DEF Step, AccessDest, OpenOrig, MakeTmp, CopyBlock, CopyEnd,
         UnlinkDest, RenameTmp, CloseFiles, RemoveTmp, EndOfMd5, SyncAttrs,
         CleanUp,          Goto, Set, CopyFails, JobFails, Return, Typed, PC
<1>4. CASE OpenForMd5(p)
  <2>1. /\ UNCHANGED <<fsVars, silent>> /\ pc[p] = "md5" /\ dir["orig"] # NoFile
        /\ in'[p] = dir["orig"] /\ md'[p].src = <<>> /\ pos'[p] = 0
    BY <1>1, <1>4, OpenStep DEF NoDigests
  <2>2. /\ dir["back"] # NoFile
        /\ "flush" \notin silent => Genuine(p, data[dir["back"]])
    BY <1>1, <2>1 DEF Closed
  <2>3. \A k : \A v \in Gone(p, k) : k \in DOMAIN data[in'[p]] => data[in'[p]][k] # v
    BY <2>1 DEF Gone, BlockAt
  <2>4. data[in'[p]] \in Seq(Block)
    BY <2>1 DEF Typed
  <2>5. \A k : k \notin DOMAIN <<>>
    OBVIOUS
  <2>6. "flush" \notin silent' => Compared(p, data[dir["back"]])'
    BY <1>1, <1>2, <2>1, <2>2, <2>3, <2>5 DEF Genuine, Compared, fsVars
  <2>7. ReadSoFar(md'[p].src, data'[in'[p]], pos'[p])
    BY <2>1, <2>4, ReadNothing DEF fsVars
  <2> QED BY <2>1, <2>2, <2>6, <2>7 DEF fsVars, ReadSoFar
<1>5. CASE ReadForMd5(p)
  <2>1. pc[p] = "sum" /\ md[p].src \in Seq(Block)
    BY <1>5, ReadStep
  <2>2. /\ UNCHANGED <<dir, data, in, silent>> /\ pos[p] \in Nat /\ pos'[p] = pos[p] + 1
        /\ data[in[p]] \in Seq(Block) /\ pos[p] < Len(data[in[p]])
        /\ pos[p] + 1 \in DOMAIN data[in[p]] /\ Next1(p) \in Block
        /\ md'[p].src = Append(md[p].src, Next1(p))
    BY <1>5, <2>1, ReadStep, LenProperties DEF fsVars
  <2>3. /\ dir["back"] # NoFile /\ Len(md[p].src) = pos[p]
        /\ "flush" \notin silent => Compared(p, data[dir["back"]])
        /\ edits = 0 => in[p] = dir["orig"] /\ ReadSoFar(md[p].src, data[in[p]], pos[p])
    BY <1>1, <2>1 DEF Summing
  <2>4. /\ Len(md'[p].src) = pos'[p]
        /\ \A k \in DOMAIN md'[p].src :
             \/ k \in DOMAIN md[p].src /\ md'[p].src[k] = md[p].src[k]
             \/ k \in DOMAIN data[in[p]] /\ md'[p].src[k] = data[in[p]][k]
    <3>1. \A m \in Seq(Block), v \in Block :
            /\ Len(Append(m, v)) = Len(m) + 1
            /\ \A k \in DOMAIN Append(m, v) :
                 \/ k \in DOMAIN m /\ Append(m, v)[k] = m[k]
                 \/ k = Len(m) + 1 /\ Append(m, v)[k] = v
      BY LenProperties, AppendProperties
    <3> QED BY <2>1, <2>2, <2>3, <3>1 DEF Next1
  <2>5. "flush" \notin silent' => Compared(p, data[dir["back"]])'
    <3>1. SUFFICES ASSUME "flush" \notin silent, data[dir["back"]] \notin since[p]
                   PROVE  Compared(p, data[dir["back"]])'
      BY <1>1, <2>2 DEF Compared
    <3>2. PICK k \in DOMAIN data[dir["back"]] :
            /\ data[dir["back"]][k] \in Gone(p, k)
            /\ k \in DOMAIN data[in[p]] => data[in[p]][k] # data[dir["back"]][k]
            /\ k \in DOMAIN md[p].src => md[p].src[k] # data[dir["back"]][k]
      BY <2>3, <3>1 DEF Compared
    <3>3. k \in DOMAIN md'[p].src => md'[p].src[k] # data[dir["back"]][k]
      BY <2>4, <3>2
    <3> QED BY <1>2, <2>2, <3>2, <3>3 DEF Compared
  <2>6. edits' = 0 => ReadSoFar(md'[p].src, data'[in'[p]], pos'[p])
    <3>1. \A m, c \in Seq(Block), n \in Nat :
            ReadSoFar(m, c, n) /\ n < Len(c) => ReadSoFar(Append(m, c[n + 1]), c, n + 1)
      BY ReadOn
    <3> QED BY <1>1, <2>1, <2>2, <2>3, <3>1 DEF Next1
  <2> QED BY <1>1, <2>2, <2>3, <2>4, <2>5, <2>6
<1> QED BY <1>3, <1>4, <1>5

LEMMA StepSummed ==
  ASSUME data \in [Inode -> Seq(Block)], buf \in [Proc -> Seq(Block)], Typed, Opened,
         NEW p \in Proc, Apart(p),
         md \in [Proc -> [src : Seq(Block), dst : Seq(Block)]], 
         SourceSeen(p), Summing(p), Summed(p), Step(p)
  PROVE  Summed(p)'
<1> SUFFICES ASSUME Backup(p)', pc'[p] \in {"md5dest", "sumdest", "attrs"}
             PROVE  /\ dir'["back"] # NoFile
                    /\ Trusted' /\ md'[p].src = data'[dir'["back"]] =>
                         data'[dir'["back"]] \in since'[p]
  BY DEF Summed
<1>1. Backup(p) /\ since' = since /\ edits' = edits
  BY StepBackup
<1>2. OpenForMd5(p) \/ ReadForMd5(p) \/ EndOfMd5(p)
  BY DEF Step, AccessDest, OpenOrig, MakeTmp, CopyBlock, CopyEnd,
         UnlinkDest, RenameTmp, CloseFiles, RemoveTmp, SyncAttrs, CleanUp,
         Goto, Set, CopyFails, JobFails, Return, Typed, PC
<1>3. UNCHANGED <<dir, data>>
  BY <1>2 DEF OpenForMd5, ReadForMd5, EndOfMd5, fsVars
<1>4. Trusted' => Trusted
  BY <1>1, StepChanges DEF Trusted, SilentStep
<1>5. CASE EndOfMd5(p) /\ pc[p] = "sum"
  <2>1. /\ md' = md /\ in[p] \in Inode /\ data[in[p]] \in Seq(Block)
        /\ pos[p] >= Len(data[in[p]])
    BY <1>5, EndStep DEF Backup
  <2>2. /\ dir["back"] # NoFile
        /\ "flush" \notin silent => Compared(p, data[dir["back"]])
        /\ edits = 0 => in[p] = dir["orig"] /\ ReadSoFar(md[p].src, data[in[p]], pos[p])
    BY <1>1, <1>5 DEF Summing
  <2>3. ASSUME Trusted, md[p].src = data[dir["back"]] PROVE data[dir["back"]] \in since[p]
    <3>1. CASE "flush" \notin silent
      BY <2>2, <2>3, <3>1 DEF Compared
    <3>2. CASE edits = 0
      <4>1. md[p].src \in Seq(Block) /\ pos[p] \in Nat
        BY DEF Typed
      <4>2. md[p].src = data[in[p]]
        BY <2>1, <2>2, <3>2, <4>1, ReadAll
      <4>3. data[dir["orig"]] \in since[p]
        BY <1>1, <1>5, <2>1, <2>2, <3>2, InodeAssumption DEF SourceSeen, Active
      <4> QED BY <2>2, <2>3, <3>2, <4>2, <4>3
    <3> QED BY <2>3, <3>1, <3>2 DEF Trusted
  <2> QED BY <1>1, <1>3, <1>4, <2>1, <2>2, <2>3
<1>6. CASE pc[p] # "sum"
  <2>1. pc[p] \in {"md5dest", "sumdest"} /\ md'[p].src = md[p].src
    <3>1. CASE OpenForMd5(p)
      BY <3>1, OpenStep
    <3>2. CASE ReadForMd5(p)
      BY <1>6, <3>2, ReadStep DEF ReadForMd5
    <3>3. CASE EndOfMd5(p)
      BY <1>6, <3>3, EndStep
    <3> QED BY <1>2, <3>1, <3>2, <3>3
  <2> QED BY <1>1, <1>3, <1>4, <2>1 DEF Summed
<1>7. pc[p] # "sum" \/ EndOfMd5(p)
  BY <1>2, ReadStep, OpenStep
<1> QED BY <1>5, <1>6, <1>7

LEMMA StepSummingDest ==
  ASSUME data \in [Inode -> Seq(Block)], buf \in [Proc -> Seq(Block)], Typed, Opened,
         NEW p \in Proc, Apart(p),
         md \in [Proc -> [src : Seq(Block), dst : Seq(Block)]], 
         SummingDest(p), Step(p)
  PROVE  SummingDest(p)'
<1> SUFFICES ASSUME Backup(p)', pc'[p] \in {"sumdest", "attrs"}
             PROVE  /\ pc'[p] = "sumdest" => /\ in'[p] = dir'["back"]
                                             /\ ReadSoFar(md'[p].dst, data'[in'[p]], pos'[p])
                    /\ pc'[p] = "attrs" => md'[p].src = data'[dir'["back"]]
  BY DEF SummingDest
<1>1. Backup(p) /\ Dst(p) = "back"
  BY StepBackup DEF Backup, Dst
<1>2. OpenForMd5(p) \/ ReadForMd5(p) \/ EndOfMd5(p)
  BY DEF Step, AccessDest, OpenOrig, MakeTmp, CopyBlock, CopyEnd,
         UnlinkDest, RenameTmp, CloseFiles, RemoveTmp, SyncAttrs, CleanUp,
         Goto, Set, CopyFails, JobFails, Return, Typed, PC
<1>3. CASE OpenForMd5(p)
  <2>1. /\ UNCHANGED fsVars /\ pc'[p] = "sumdest" /\ dir["back"] # NoFile
        /\ in'[p] = dir["back"] /\ md'[p].dst = <<>> /\ pos'[p] = 0
    BY <1>1, <1>3, OpenStep
  <2>2. data[in'[p]] \in Seq(Block)
    BY <2>1 DEF Typed
  <2> QED BY <2>1, <2>2, ReadNothing DEF fsVars
<1>4. CASE ReadForMd5(p)
  <2>1. /\ pc[p] = "sumdest" /\ pc'[p] = "sumdest" /\ md[p].dst \in Seq(Block)
        /\ UNCHANGED <<dir, data, in>> /\ pos[p] \in Nat /\ pos'[p] = pos[p] + 1
        /\ data[in[p]] \in Seq(Block) /\ pos[p] < Len(data[in[p]])
        /\ md'[p].dst = Append(md[p].dst, Next1(p))
    <3>1. pc[p] = "sumdest" /\ pc'[p] = "sumdest"
      BY <1>4 DEF ReadForMd5
    <3> QED BY <1>4, <3>1, ReadStep DEF fsVars
  <2>2. in[p] = dir["back"] /\ ReadSoFar(md[p].dst, data[in[p]], pos[p])
    BY <1>1, <2>1 DEF SummingDest
  <2>3. \A m, c \in Seq(Block), n \in Nat :
          ReadSoFar(m, c, n) /\ n < Len(c) => ReadSoFar(Append(m, c[n + 1]), c, n + 1)
    BY ReadOn
  <2> QED BY <2>1, <2>2, <2>3 DEF Next1
<1>5. CASE EndOfMd5(p)
  <2>1. /\ pc[p] = "sumdest" /\ pc'[p] = "attrs" /\ md' = md /\ UNCHANGED <<dir, data>>
        /\ md[p].src = md[p].dst /\ data[in[p]] \in Seq(Block) /\ md[p].dst \in Seq(Block)
        /\ pos[p] \in Nat /\ pos[p] >= Len(data[in[p]])
    BY <1>5, EndStep DEF Backup, fsVars, Typed
  <2>2. in[p] = dir["back"] /\ ReadSoFar(md[p].dst, data[in[p]], pos[p])
    BY <1>1, <2>1 DEF SummingDest
  <2>3. md[p].dst = data[in[p]]
    BY <2>1, <2>2, ReadAll
  <2> QED BY <2>1, <2>2, <2>3
<1> QED BY <1>2, <1>3, <1>4, <1>5

LEMMA StepReported ==
  ASSUME data \in [Inode -> Seq(Block)], buf \in [Proc -> Seq(Block)], Typed, Opened,
         NEW p \in Proc, Apart(p), Summed(p), SummingDest(p), Step(p)
  PROVE  Reported(p)'
<1> SUFFICES ASSUME Backup(p)', pc'[p] = "idle", rc'[p] = "SUCCESS"
             PROVE  /\ dir'["back"] # NoFile
                    /\ Trusted' => data'[dir'["back"]] \in since'[p]
  BY DEF Reported
<1>1. Backup(p) /\ since' = since /\ edits' = edits
  BY StepBackup
<1>2. SyncAttrs(p) \/ CleanUp(p)
  BY DEF Step, AccessDest, OpenOrig, MakeTmp, CopyBlock, CopyEnd,
         UnlinkDest, RenameTmp, CloseFiles, RemoveTmp, OpenForMd5,
         ReadForMd5, EndOfMd5,          Goto, Set, CopyFails, JobFails,
         Return, Typed, PC
<1>3. CASE SyncAttrs(p)
  <2>1. pc[p] = "attrs" /\ UNCHANGED <<dir, data>> /\ silent' = silent
    BY <1>3 DEF SyncAttrs, fsVars, bookVars
  <2> QED BY <1>1, <2>1 DEF Summed, SummingDest, Trusted
<1>4. CASE CleanUp(p)
  BY <1>4 DEF CleanUp, Apart
<1> QED BY <1>2, <1>3, <1>4

-----------------------------------------------------------------------------
(* What the owner has had.                                                  *)

LEMMA StepClean ==
  ASSUME edits \in Nat, NEW p \in Proc, Step(p), Clean'
  PROVE  Clean /\ "read" \notin silent' /\ "remove" \notin silent' /\ Trusted
BY StepChanges DEF Clean, Deceived, SilentStep, Trusted

LEMMA StepFilesHeld ==
  ASSUME data \in [Inode -> Seq(Block)], buf \in [Proc -> Seq(Block)], Typed, Opened,
         NEW p \in Proc, Apart(p), edits \in Nat,
         Summed(p), SummingDest(p), FilesHeld(p), RestoreInv(p), Step(p)
  PROVE  FilesHeld(p)'
<1> SUFFICES ASSUME Clean'
             PROVE  /\ ~Active(p)' \/ job'[p] = "backup" => OrigHeld'
                    /\ job'[p] = "backup" => since'[p] \subseteq held'
                    /\ ~Active(p)' \/ job'[p] = "restore" => BackHeld'
  BY DEF FilesHeld
<1>1. Clean /\ "read" \notin silent /\ "remove" \notin silent' /\ Trusted
  BY StepClean DEF Clean, Deceived, Trusted
<1>2. /\ job' = job /\ since' = since /\ held \subseteq held'
      /\ job[p] \in {"backup", "restore"}
  BY StepChanges DEF HeldStep, Typed
<1>3. ~Active(p)' => SyncAttrs(p) \/ CleanUp(p)
  BY DEF Step, AccessDest, OpenOrig, MakeTmp, CopyBlock, CopyEnd,
         UnlinkDest, RenameTmp, CloseFiles, RemoveTmp, OpenForMd5,
         ReadForMd5, EndOfMd5,          Goto, Set, CopyFails, JobFails,
         Return, Typed, PC, Active
<1>4. ASSUME job[p] = "backup" PROVE OrigHeld' /\ since[p] \subseteq held'
  BY <1>1, <1>2, <1>4, StepKeepsSrc DEF FilesHeld, OrigHeld, Src
<1>5. ASSUME job[p] = "restore" PROVE BackHeld'
  BY <1>1, <1>2, <1>5, StepKeepsSrc DEF FilesHeld, BackHeld, Src
<1>6. ASSUME ~Active(p)', job[p] = "restore" PROVE OrigHeld'
  <2>1. CASE SyncAttrs(p)
    BY <1>1, <1>2, <1>6, <2>1 DEF SyncAttrs, RestoreInv, OrigHeld, fsVars
  <2>2. CASE CleanUp(p)
    BY <1>6, <2>2 DEF CleanUp, OrigHeld
  <2> QED BY <1>3, <1>6, <2>1, <2>2
<1>7. ASSUME ~Active(p)', job[p] = "backup" PROVE BackHeld'
  <2>1. CASE SyncAttrs(p) /\ ~JobFails(p)
    <3>1. pc[p] = "attrs" /\ UNCHANGED <<dir, data>>
      BY <2>1 DEF SyncAttrs, fsVars
    <3>2. data[dir["back"]] \in since[p]
      BY <1>1, <1>7, <3>1 DEF Summed, SummingDest, Backup, Clean, Deceived
    <3> QED BY <1>1, <1>2, <1>7, <3>1, <3>2 DEF FilesHeld, BackHeld
  <2>2. CASE CleanUp(p)
    <3>1. dir' = Set(dir, "back", NoFile)
      BY <1>1, <1>7, <2>2 DEF CleanUp
    <3> QED BY <3>1 DEF Set, BackHeld, Typed
  <2>3. ~JobFails(p)
    BY <1>7 DEF JobFails, Goto, Active, Typed
  <2> QED BY <1>3, <1>7, <2>1, <2>2, <2>3
<1> QED BY <1>2, <1>4, <1>5, <1>6, <1>7

LEMMA StepRestoreInv ==
  ASSUME data \in [Inode -> Seq(Block)], buf \in [Proc -> Seq(Block)], Typed, Opened,
         NEW p \in Proc, Apart(p),
         md \in [Proc -> [src : Seq(Block), dst : Seq(Block)]], 
         edits \in Nat, FilesHeld(p), RestoreInv(p), Step(p)
  PROVE  RestoreInv(p)'
<1> SUFFICES ASSUME Clean', job'[p] = "restore", pc'[p] \in {"sum", "md5dest", "sumdest", "attrs"}
    PROVE  /\ pc'[p] = "sum" => /\ in'[p] = dir'["back"]
                                /\ ReadSoFar(md'[p].src, data'[in'[p]], pos'[p])
           /\ pc'[p] \in {"md5dest", "sumdest", "attrs"} => md'[p].src \in held'
           /\ pc'[p] = "sumdest" =>
                \/ OrigHeld'
                \/ /\ in'[p] = dir'["orig"]
                   /\ ReadSoFar(md'[p].dst, data'[in'[p]], pos'[p])
           /\ pc'[p] = "attrs" => OrigHeld'
  BY DEF RestoreInv
<1>1. Clean /\ "read" \notin silent'
  BY StepClean
<1>2. job[p] = "restore" /\ Src(p) = "back" /\ Dst(p) = "orig"
  BY StepChanges DEF Src, Dst
<1>3. OpenForMd5(p) \/ ReadForMd5(p) \/ EndOfMd5(p)
  BY DEF Step, AccessDest, OpenOrig, MakeTmp, CopyBlock, CopyEnd,
         UnlinkDest, RenameTmp, CloseFiles, RemoveTmp, SyncAttrs, CleanUp,
         Goto, Set, CopyFails, JobFails, Return, Typed, PC
<1>4. UNCHANGED <<dir, data, held>>
  BY <1>3 DEF OpenForMd5, ReadForMd5, EndOfMd5, fsVars, bookVars
<1>5. OrigHeld' <=> OrigHeld
  BY <1>4 DEF OrigHeld
<1>6. CASE OpenForMd5(p)
  <2>1. /\ pos'[p] = 0
        /\ \/ /\ pc'[p] = "sum" /\ dir["back"] # NoFile
              /\ in'[p] = dir["back"] /\ md'[p].src = <<>>
           \/ /\ pc[p] = "md5dest" /\ pc'[p] = "sumdest" /\ dir["orig"] # NoFile
              /\ in'[p] = dir["orig"] /\ md'[p].dst = <<>> /\ md' = md
    <3>1. CASE pc[p] = "md5"
      <4>1. /\ pos'[p] = 0 /\ pc'[p] = "sum" /\ dir["back"] # NoFile
            /\ in'[p] = dir["back"] /\ md'[p] = NoDigests
        BY <1>2, <1>6, <3>1, OpenStep
      <4> QED BY <4>1 DEF NoDigests
    <3>2. CASE pc[p] = "md5dest"
      BY <1>2, <1>6, <3>2, OpenStep
    <3> QED BY <1>6, <3>1, <3>2 DEF OpenForMd5
  <2>2. data[in'[p]] \in Seq(Block)
    BY <2>1 DEF Typed
  <2>3. pc[p] = "md5dest" => md[p].src \in held
    BY <1>1, <1>2 DEF RestoreInv
  <2> QED BY <1>4, <2>1, <2>2, <2>3, ReadNothing
<1>7. CASE ReadForMd5(p)
  <2>1. /\ pc' = pc /\ in' = in /\ pos[p] \in Nat /\ pos'[p] = pos[p] + 1
        /\ pc[p] \in {"sum", "sumdest"}
        /\ data[in[p]] \in Seq(Block) /\ pos[p] < Len(data[in[p]])
        /\ md[p].src \in Seq(Block) /\ md[p].dst \in Seq(Block)
    BY <1>7, ReadStep DEF ReadForMd5
  <2>2. /\ pc[p] = "sum" => md'[p].src = Append(md[p].src, Next1(p))
        /\ pc[p] = "sumdest" =>
             md'[p].dst = Append(md[p].dst, Next1(p)) /\ md'[p].src = md[p].src
    BY <1>7, ReadStep
  <2>3. \A m, c \in Seq(Block), n \in Nat :
          ReadSoFar(m, c, n) /\ n < Len(c) => ReadSoFar(Append(m, c[n + 1]), c, n + 1)
    BY ReadOn
  <2>4. CASE pc[p] = "sum"
    <3>1. in[p] = dir["back"] /\ ReadSoFar(md[p].src, data[in[p]], pos[p])
      BY <1>1, <1>2, <2>4 DEF RestoreInv
    <3> QED BY <1>4, <2>1, <2>2, <2>3, <2>4, <3>1 DEF Next1
  <2>5. CASE pc[p] = "sumdest"
    <3>1. /\ md[p].src \in held
          /\ OrigHeld \/ (in[p] = dir["orig"] /\ ReadSoFar(md[p].dst, data[in[p]], pos[p]))
      BY <1>1, <1>2, <2>5 DEF RestoreInv
    <3> QED BY <1>4, <1>5, <2>1, <2>2, <2>3, <2>5, <3>1 DEF Next1
  <2> QED BY <2>1, <2>4, <2>5
<1>8. CASE EndOfMd5(p)
  <2>1. /\ md' = md /\ in[p] \in Inode /\ data[in[p]] \in Seq(Block)
        /\ pos[p] \in Nat /\ pos[p] >= Len(data[in[p]])
        /\ pc[p] = "sum" => pc'[p] = "md5dest"
        /\ pc[p] = "sumdest" => pc'[p] = "attrs" /\ md[p].src = md[p].dst
        /\ pc[p] \in {"sum", "sumdest"}
        /\ md[p].src \in Seq(Block) /\ md[p].dst \in Seq(Block)
    BY <1>1, <1>8, EndStep DEF Typed
  <2>2. CASE pc[p] = "sum"
    <3>1. in[p] = dir["back"] /\ ReadSoFar(md[p].src, data[in[p]], pos[p])
      BY <1>1, <1>2, <2>2 DEF RestoreInv
    <3>2. md[p].src = data[in[p]]
      BY <2>1, <3>1, ReadAll
    <3>3. data[dir["back"]] \in held
      BY <1>1, <1>2, <2>1, <3>1, InodeAssumption DEF FilesHeld, BackHeld
    <3> QED BY <1>4, <2>1, <2>2, <3>1, <3>2, <3>3
  <2>3. CASE pc[p] = "sumdest"
    <3>1. /\ md[p].src \in held
          /\ OrigHeld \/ (in[p] = dir["orig"] /\ ReadSoFar(md[p].dst, data[in[p]], pos[p]))
      BY <1>1, <1>2, <2>3 DEF RestoreInv
    <3>2. OrigHeld
      <4>1. CASE in[p] = dir["orig"] /\ ReadSoFar(md[p].dst, data[in[p]], pos[p])
        <5>1. md[p].dst = data[in[p]]
          BY <2>1, <4>1, ReadAll
        <5> QED BY <2>1, <2>3, <3>1, <4>1, <5>1 DEF OrigHeld
      <4> QED BY <3>1, <4>1
    <3> QED BY <1>4, <1>5, <2>1, <2>3, <3>1, <3>2
  <2> QED BY <2>1, <2>2, <2>3
<1> QED BY <1>3, <1>6, <1>7, <1>8

-----------------------------------------------------------------------------
(* The owner at work while the one job runs.                                *)

(* What is in the file afterwards. *)
Now == data'[dir'["orig"]]

OwnerStep(p) ==
  /\ UNCHANGED <<jobVars, silent, crashes, tmp>>
  /\ edits < MaxEdits /\ edits' = edits + 1
  /\ dir'["back"] = dir["back"]
  /\ \/ dir'["orig"] \in {dir["orig"], NoFile}
     \/ dir'["orig"] \notin {dir["back"], tmp[p], in[p], out[p], NoFile}
  /\ \A i \in Inode \ Free : data'[i] = data[i] \/ (i = dir["orig"] /\ i = dir'["orig"])
  /\ dir'["orig"] # NoFile => Now \in held' /\ (BackingUp(p) => Now \in since'[p])
  /\ held \subseteq held'
  /\ since[p] \subseteq since'[p] /\ since'[p] \subseteq since[p] \union held'
  /\ ~Active(p) => since'[p] = since[p]
  /\ undone => undone'
  /\ BackingUp(p) /\ ~undone' /\ dir'["orig"] # NoFile =>
       \A k \in DOMAIN Now : Now[k] \notin Gone(p, k)

LEMMA OwnerSteps ==
  ASSUME TypeOK, Edit \/ Delete, NEW p \in Proc
  PROVE  OwnerStep(p)
<1>1. /\ dir \in [{"orig", "back"} -> Inode \union {NoFile}]
      /\ data \in [Inode -> Seq(Block)] /\ since \in [Proc -> SUBSET Seq(Block)]
  BY DEF TypeOK
<1>2. CASE Edit
  <2>1. PICK c \in Content :
          /\ \/ /\ Free # {}
                /\ dir' = Set(dir, "orig", NewInode)
                /\ data' = Set(data, NewInode, c)
             \/ /\ dir["orig"] # NoFile
                /\ data' = Set(data, dir["orig"], c)
                /\ UNCHANGED dir
          /\ held' = held \union {c}
          /\ since' = [q \in Proc |-> IF BackingUp(q) THEN since[q] \union {c} ELSE since[q]]
          /\ undone' = (undone \/ BringsBack(c))
    BY <1>2 DEF Edit
  <2>2. /\ dir'["back"] = dir["back"] /\ dir'["orig"] # NoFile /\ Now = c
        /\ \/ dir'["orig"] = dir["orig"]
           \/ dir'["orig"] \notin {dir["back"], tmp[p], in[p], out[p], NoFile}
        /\ \A i \in Inode \ Free : data'[i] = data[i] \/ (i = dir["orig"] /\ i = dir'["orig"])
    <3>1. CASE /\ Free # {}
               /\ dir' = Set(dir, "orig", NewInode)
               /\ data' = Set(data, NewInode, c)
      BY <1>1, <3>1, NewInodeIsFree, NewInodeIsApart, InodeAssumption DEF Set, Now
    <3>2. CASE /\ dir["orig"] # NoFile
               /\ data' = Set(data, dir["orig"], c)
               /\ UNCHANGED dir
      BY <1>1, <3>2 DEF Set, Now
    <3> QED BY <2>1, <3>1, <3>2
  <2>3. /\ held \subseteq held' /\ c \in held'
        /\ since[p] \subseteq since'[p] /\ since'[p] \subseteq since[p] \union held'
        /\ (BackingUp(p) => c \in since'[p]) /\ (~Active(p) => since'[p] = since[p])
    BY <2>1 DEF BackingUp
  <2>4. BackingUp(p) /\ ~undone' => \A k \in DOMAIN c : c[k] \notin Gone(p, k)
    BY <2>1 DEF BringsBack, Gone
  <2>5. undone => undone'
    BY <2>1
  <2>6. UNCHANGED <<jobVars, silent, crashes, tmp>> /\ edits < MaxEdits /\ edits' = edits + 1
    BY <1>2 DEF Edit
  <2> QED BY <2>2, <2>3, <2>4, <2>5, <2>6 DEF OwnerStep
<1>3. CASE Delete
  BY <1>1, <1>3 DEF Delete, Set, OwnerStep
<1> QED BY <1>2, <1>3

(* What the job has to do with stays as it is, but for the file itself. *)
LEMMA OwnerKeeps ==
  ASSUME Typed, Opened, NEW p \in Proc, Apart(p), OwnerStep(p)
  PROVE  /\ dir["back"] # NoFile => data'[dir["back"]] = data[dir["back"]]
         /\ job[p] = "backup" /\ out[p] # NoFile => data'[out[p]] = data[out[p]]
         /\ in[p] # NoFile /\ in[p] # dir["orig"] => data'[in[p]] = data[in[p]]
         /\ in[p] # NoFile =>
              \/ data'[in[p]] = data[in[p]]
              \/ in[p] = dir["orig"] /\ in[p] = dir'["orig"] /\ data'[in[p]] = Now
<1>1. \A i \in {dir["back"], in[p], out[p]} \ {NoFile} : i \in Inode \ Free
  BY DEF Typed, Free, InUse
<1>2. \A i \in Inode \ Free : data'[i] = data[i] \/ (i = dir["orig"] /\ i = dir'["orig"])
  BY DEF OwnerStep
<1> QED BY <1>1, <1>2 DEF Apart, Src, Now

LEMMA OwnerApart ==
  ASSUME Typed, Opened, NEW p \in Proc, Apart(p), Renamed(p), OwnerStep(p)
  PROVE  Apart(p)' /\ Renamed(p)'
BY DEF Typed, Opened, Apart, Renamed, OwnerStep, jobVars, Src, Dst

(* What is gone stays away, and so does what the owner takes out. *)
LEMMA OwnerGone ==
  ASSUME NEW p \in Proc, BackingUp(p), ~undone', OwnerStep(p)
  PROVE  /\ \A k : Gone(p, k) \subseteq Gone(p, k)'
         /\ \A k : \A v \in Gone(p, k)' : dir'["orig"] # NoFile /\ k \in DOMAIN Now => Now[k] # v
         /\ dir["orig"] # NoFile /\ data[dir["orig"]] \in since[p] =>
              \A k \in DOMAIN data[dir["orig"]] :
                \/ data[dir["orig"]][k] \in Gone(p, k)'
                \/ dir'["orig"] # NoFile /\ k \in DOMAIN Now /\ Now[k] = data[dir["orig"]][k]
<1>1. \A k : BlockAt(k)' = IF dir'["orig"] # NoFile /\ k \in DOMAIN Now THEN {Now[k]} ELSE {}
  BY DEF BlockAt, Now
<1>2. \A k : Gone(p, k)' = {s[k] : s \in {t \in since'[p] : k \in DOMAIN t}} \ BlockAt(k)'
  BY DEF Gone
<1>3. since[p] \subseteq since'[p]
  BY DEF OwnerStep
<1>4. ASSUME NEW k, NEW v \in Gone(p, k) PROVE v \in Gone(p, k)'
  <2>1. PICK s \in since[p] : k \in DOMAIN s /\ s[k] = v
    BY <1>4 DEF Gone
  <2>2. v \notin BlockAt(k)'
    BY <1>1, <1>4 DEF OwnerStep
  <2> QED BY <1>2, <1>3, <2>1, <2>2
<1>5. ASSUME dir["orig"] # NoFile, data[dir["orig"]] \in since[p],
             NEW k \in DOMAIN data[dir["orig"]], data[dir["orig"]][k] \notin BlockAt(k)'
      PROVE  data[dir["orig"]][k] \in Gone(p, k)'
  BY <1>2, <1>3, <1>5
<1>6. \A k : \A v \in Gone(p, k)' : v \notin BlockAt(k)'
  BY <1>2
<1> QED BY <1>1, <1>4, <1>5, <1>6

LEMMA OwnerBackup ==
  ASSUME TypeOK, NEW p \in Proc, Apart(p), Renamed(p), BackupInv(p), OwnerStep(p)
  PROVE  BackupInv(p)'
<1>0. Typed /\ Opened /\ edits \in 0..MaxEdits /\ edits \in Nat
  BY TypeOKTyped, BoundAssumption DEF TypeOK, Opened
<1>1. SUFFICES ASSUME job[p] = "backup", "read" \notin silent, ~undone' PROVE BackupInv(p)'
  BY DEF BackupInv, SourceSeen, Copying, Copied, Closed, Summing, Summed, SummingDest,
         Reported, Backup, OwnerStep, jobVars
<1>2. /\ UNCHANGED jobVars /\ UNCHANGED silent /\ edits' # 0 /\ Backup(p)
      /\ dir'["back"] = dir["back"] /\ since[p] \subseteq since'[p]
      /\ ~Active(p) => since'[p] = since[p]
      /\ dir'["orig"] # NoFile /\ Active(p) => Now \in since'[p]
      /\ (Active(p)' <=> Active(p)) /\ (Active(p) => BackingUp(p))
  BY <1>0, <1>1 DEF OwnerStep, Backup, Active, BackingUp, jobVars
<1>3. UNCHANGED <<pc, job, in, out, buf, pos, md, rc>>
  BY <1>2 DEF jobVars
<1>4. /\ dir["back"] # NoFile => data'[dir["back"]] = data[dir["back"]]
      /\ out[p] # NoFile => data'[out[p]] = data[out[p]]
      /\ in[p] # NoFile /\ in[p] # dir["orig"] => data'[in[p]] = data[in[p]]
      /\ in[p] # NoFile =>
           \/ data'[in[p]] = data[in[p]]
           \/ in[p] = dir["orig"] /\ in[p] = dir'["orig"] /\ data'[in[p]] = Now
  BY <1>0, <1>1, OwnerKeeps
<1>5. Active(p) =>
        /\ \A k : Gone(p, k) \subseteq Gone(p, k)'
        /\ \A k : \A v \in Gone(p, k)' : dir'["orig"] # NoFile /\ k \in DOMAIN Now => Now[k] # v
        /\ dir["orig"] # NoFile /\ data[dir["orig"]] \in since[p] =>
             \A k \in DOMAIN data[dir["orig"]] :
               \/ data[dir["orig"]][k] \in Gone(p, k)'
               \/ dir'["orig"] # NoFile /\ k \in DOMAIN Now /\ Now[k] = data[dir["orig"]][k]
  BY <1>1, <1>2, OwnerGone
<1>6. out[p] # NoFile => Result(p)' = Result(p)
  BY <1>3, <1>4 DEF Result
<1>7. Active(p) =>
        \A s : Genuine(p, s) => s \in since'[p] \/ \E k \in DOMAIN s : s[k] \in Gone(p, k)'
  BY <1>2, <1>5 DEF Genuine
<1>8. SourceSeen(p)'
  <2>1. dir'["orig"] # NoFile /\ Active(p) => data'[dir'["orig"]] \in since'[p]
    BY <1>2 DEF Now
  <2>2. ASSUME pc[p] \in {"mkstemp", "read"}, in[p] # NoFile PROVE data'[in[p]] \in since'[p]
    <3>1. data[in[p]] \in since[p] /\ Active(p)
      BY <1>2, <2>2 DEF BackupInv, SourceSeen, Active
    <3>2. in[p] = dir'["orig"] => dir'["orig"] # NoFile
      BY <2>2
    <3> QED BY <1>2, <1>4, <2>2, <3>1, <3>2
  <2> QED BY <1>2, <1>3, <2>1, <2>2 DEF SourceSeen
<1>9. Copying(p)'
  <2>1. SUFFICES ASSUME pc[p] = "read"
                 PROVE  /\ Len(data'[out[p]]) + Len(buf[p]) = pos[p]
                        /\ \A k \in 1..pos[p] :
                             \/ Result(p)'[k] \in Gone(p, k)'
                             \/ k \in DOMAIN data'[in[p]] /\ Result(p)'[k] = data'[in[p]][k]
    BY <1>3 DEF Copying
  <2>2. /\ out[p] # NoFile /\ in[p] # NoFile /\ Active(p)
        /\ Len(data[out[p]]) + Len(buf[p]) = pos[p] /\ data[in[p]] \in since[p]
        /\ \A k \in 1..pos[p] :
             \/ Result(p)[k] \in Gone(p, k)
             \/ k \in DOMAIN data[in[p]] /\ Result(p)[k] = data[in[p]][k]
    BY <1>0, <1>2, <2>1 DEF BackupInv, Copying, SourceSeen, Opened, Active
  <2>3. Result(p)' = Result(p)
    BY <1>6, <2>2
  <2>4. ASSUME NEW k \in 1..pos[p]
        PROVE  \/ Result(p)[k] \in Gone(p, k)'
               \/ k \in DOMAIN data'[in[p]] /\ Result(p)[k] = data'[in[p]][k]
    <3>1. CASE Result(p)[k] \in Gone(p, k)
      BY <1>5, <2>2, <3>1
    <3>2. CASE /\ data'[in[p]] = data[in[p]]
               /\ k \in DOMAIN data[in[p]] /\ Result(p)[k] = data[in[p]][k]
      BY <3>2
    <3>3. CASE /\ in[p] = dir["orig"] /\ in[p] = dir'["orig"] /\ data'[in[p]] = Now
               /\ k \in DOMAIN data[in[p]] /\ Result(p)[k] = data[in[p]][k]
      BY <1>5, <2>2, <3>3
    <3> QED BY <1>4, <2>2, <3>1, <3>2, <3>3
  <2> QED BY <1>4, <2>2, <2>3, <2>4
<1>10. Copied(p)'
  <2>1. SUFFICES ASSUME pc[p] \in {"unlink", "rename"} \/ (pc[p] = "close" /\ rc[p] = "SUCCESS")
                 PROVE  /\ Len(data'[out[p]]) + Len(buf[p]) = pos[p]
                        /\ Genuine(p, Result(p))'
    BY <1>3 DEF Copied
  <2>2. out[p] # NoFile /\ Active(p)
    BY <1>0, <1>1, <2>1 DEF Opened, Renamed, Active
  <2>3. Len(data[out[p]]) + Len(buf[p]) = pos[p] /\ Genuine(p, Result(p))
    BY <1>2, <2>1 DEF BackupInv, Copied
  <2> QED BY <1>4, <1>6, <1>7, <2>2, <2>3 DEF Genuine
<1>11. Closed(p)'
  <2>1. SUFFICES ASSUME pc[p] = "md5" \/ (pc[p] = "tidy" /\ rc[p] = "SUCCESS")
                 PROVE  /\ dir["back"] # NoFile
                        /\ "flush" \notin silent => Genuine(p, data[dir["back"]])'
    BY <1>2, <1>3 DEF Closed
  <2>2. Active(p)
    BY <2>1 DEF Active
  <2> QED BY <1>2, <1>4, <1>7, <2>1, <2>2 DEF BackupInv, Closed, Genuine
<1>12. Summing(p)'
  <2>1. SUFFICES ASSUME pc[p] = "sum"
                 PROVE  /\ dir["back"] # NoFile /\ Len(md[p].src) = pos[p]
                        /\ "flush" \notin silent => Compared(p, data[dir["back"]])'
    BY <1>2, <1>3 DEF Summing
  <2>2. /\ dir["back"] # NoFile /\ in[p] # NoFile /\ Active(p) /\ Len(md[p].src) = pos[p]
        /\ "flush" \notin silent => Compared(p, data[dir["back"]])
    BY <1>0, <1>2, <2>1 DEF BackupInv, Summing, Opened, Active
  <2>3. ASSUME NEW k, NEW v \in Gone(p, k)',
               k \in DOMAIN data[in[p]] => data[in[p]][k] # v
        PROVE  k \in DOMAIN data'[in[p]] => data'[in[p]][k] # v
    BY <1>4, <1>5, <2>2, <2>3
  <2>4. \A k : Gone(p, k) \subseteq Gone(p, k)'
    BY <1>5, <2>2
  <2>5. data'[dir'["back"]] = data[dir["back"]] /\ md' = md /\ in' = in
    BY <1>2, <1>3, <1>4, <2>2
  <2> QED BY <1>2, <2>2, <2>3, <2>4, <2>5 DEF Compared
<1>13. Summed(p)'
  BY <1>2, <1>3, <1>4 DEF BackupInv, Summed, Trusted
<1>14. SummingDest(p)'
  <2>1. SUFFICES ASSUME pc[p] \in {"sumdest", "attrs"}
                 PROVE  /\ pc[p] = "sumdest" => in[p] = dir["back"] /\
                              ReadSoFar(md[p].dst, data'[in[p]], pos[p])
                        /\ pc[p] = "attrs" => md[p].src = data'[dir["back"]]
    BY <1>2, <1>3 DEF SummingDest
  <2>2. /\ pc[p] = "sumdest" => in[p] = dir["back"] /\ in[p] # NoFile
                                /\ ReadSoFar(md[p].dst, data[in[p]], pos[p])
        /\ pc[p] = "attrs" => dir["back"] # NoFile /\ md[p].src = data[dir["back"]]
    BY <1>0, <1>2, <2>1 DEF BackupInv, SummingDest, Summed, Opened
  <2> QED BY <1>4, <2>1, <2>2
<1>15. Reported(p)'
  BY <1>2, <1>3, <1>4 DEF BackupInv, Reported, Trusted, Active
<1> QED BY <1>8, <1>9, <1>10, <1>11, <1>12, <1>13, <1>14, <1>15 DEF BackupInv

LEMMA OwnerHeld ==
  ASSUME TypeOK, NEW p \in Proc, Apart(p), FilesHeld(p), RestoreInv(p), OwnerStep(p)
  PROVE  FilesHeld(p)' /\ RestoreInv(p)'
<1>0. Typed /\ Opened /\ edits \in Nat
  BY TypeOKTyped, BoundAssumption DEF TypeOK, Opened
<1>1. SUFFICES ASSUME Clean' PROVE FilesHeld(p)' /\ RestoreInv(p)'
  BY DEF FilesHeld, RestoreInv
<1>2. /\ UNCHANGED <<pc, job, in, out, buf, pos, md, rc>>
      /\ dir'["back"] = dir["back"] /\ held \subseteq held'
      /\ since'[p] \subseteq since[p] \union held'
  BY DEF OwnerStep, jobVars
<1>3. Clean
  BY <1>0, <1>1 DEF OwnerStep, Clean, Deceived
<1>4. OrigHeld'
  BY DEF OwnerStep, OrigHeld, Now
<1>5. dir["back"] # NoFile => data'[dir["back"]] = data[dir["back"]]
  BY <1>0, OwnerKeeps
<1>6. FilesHeld(p)'
  BY <1>2, <1>3, <1>4, <1>5 DEF FilesHeld, BackHeld, Active
<1>7. pc[p] = "sum" => in[p] # NoFile
  BY <1>0 DEF Opened
<1>8. RestoreInv(p)'
  BY <1>2, <1>3, <1>4, <1>5, <1>7 DEF RestoreInv
<1> QED BY <1>6, <1>8

-----------------------------------------------------------------------------
(* One job at a time: the invariant and what it says.                       *)

LEMMA InitSolo ==
  ASSUME NEW p \in Proc, Init
  PROVE  SoloInv(p)
<1>0. TypeOK
  BY InitTypes
<1>1. PICK i \in Inode, c \in Content :
        /\ dir = [orig |-> i, back |-> NoFile]
        /\ data = [j \in Inode |-> IF j = i THEN c ELSE <<>>]
        /\ held = {c}
  BY DEF Init
<1>3. /\ pc[p] = "idle" /\ in[p] = NoFile /\ out[p] = NoFile /\ buf[p] = <<>>
      /\ rc[p] = "NONE" /\ job[p] = "backup" /\ since[p] = {}
  BY DEF Init
<1>4. Apart(p) /\ Renamed(p)
  BY <1>1, <1>3, InodeAssumption DEF Apart, Renamed
<1>5. BackupInv(p)
  BY <1>3 DEF BackupInv, SourceSeen, Copying, Copied, Closed, Summing, Summed, SummingDest,
              Reported, Active
<1>6. FilesHeld(p) /\ RestoreInv(p)
  BY <1>1, <1>3, InodeAssumption DEF FilesHeld, RestoreInv, OrigHeld, BackHeld
<1> QED BY <1>0, <1>4, <1>5, <1>6 DEF SoloInv

LEMMA StepSolo ==
  ASSUME NEW p \in Proc, SoloInv(p), Step(p), TypeOK'
  PROVE  SoloInv(p)'
<1>1. /\ Typed /\ Opened /\ data \in [Inode -> Seq(Block)] /\ buf \in [Proc -> Seq(Block)]
      /\ md \in [Proc -> [src : Seq(Block), dst : Seq(Block)]] /\ edits \in Nat
  <2>1. Typed
    BY TypeOKTyped DEF SoloInv
  <2>2. Opened /\ edits \in Nat
    BY BoundAssumption DEF SoloInv, TypeOK, Opened
  <2> QED BY <2>1, <2>2 DEF SoloInv, TypeOK
<1>2. /\ Apart(p) /\ Renamed(p) /\ BackupInv(p)
      /\ FilesHeld(p) /\ RestoreInv(p)
  BY DEF SoloInv
<1>4. Apart(p)' /\ Renamed(p)'
  BY <1>1, <1>2, StepApart, StepRenamed
<1>5. BackupInv(p)'
  BY <1>1, <1>2, StepSourceSeen, StepCopying, StepCopied, StepClosed, StepSumming,
     StepSummed, StepSummingDest, StepReported DEF BackupInv
<1>6. FilesHeld(p)' /\ RestoreInv(p)'
  BY <1>1, <1>2, StepFilesHeld, StepRestoreInv DEF BackupInv
<1> QED BY <1>4, <1>5, <1>6 DEF SoloInv

LEMMA OwnerSolo ==
  ASSUME NEW p \in Proc, SoloInv(p), Edit \/ Delete, TypeOK'
  PROVE  SoloInv(p)'
<1>1. OwnerStep(p)
  BY OwnerSteps DEF SoloInv
<1>3. Typed /\ Opened
  BY TypeOKTyped DEF SoloInv, TypeOK, Opened
<1> QED BY <1>1, <1>3, OwnerApart, OwnerBackup, OwnerHeld DEF SoloInv

LEMMA StartSolo ==
  ASSUME NEW p \in Proc, NEW j \in {"backup", "restore"}, SoloInv(p), Start(p, j), TypeOK'
  PROVE  SoloInv(p)'
<1>1. /\ UNCHANGED <<dir, data, in, out, buf, edits, undone, silent, held, crashes>>
      /\ pc[p] = "idle" /\ job'[p] = j
      /\ in[p] = NoFile /\ out[p] = NoFile /\ buf[p] = <<>>
      /\ since'[p] = IF j = "restore" \/ dir["orig"] = NoFile THEN {} ELSE {data[dir["orig"]]}
      /\ (pc'[p] = "idle" /\ rc'[p] = "ERROR" /\ dir["orig"] = NoFile) \/ pc'[p] = "access"
  BY DEF Start, Set, Goto, fsVars, SoloInv, TypeOK, Apart
<1>3. Apart(p)' /\ Renamed(p)'
  BY <1>1 DEF SoloInv, Apart, Renamed
<1>4. BackupInv(p)'
  BY <1>1 DEF BackupInv, SourceSeen, Copying, Copied, Closed, Summing, Summed, SummingDest,
              Reported, Backup, Active
<1>5. RestoreInv(p)'
  BY <1>1 DEF RestoreInv
<1>6. FilesHeld(p)'
  BY <1>1 DEF SoloInv, FilesHeld, OrigHeld, BackHeld, Active, Clean, Deceived
<1> QED BY <1>3, <1>4, <1>5, <1>6 DEF SoloInv

LEMMA CrashSolo ==
  ASSUME NEW p \in Proc, SoloInv(p), Crash(p), TypeOK'
  PROVE  SoloInv(p)'
<1>1. /\ UNCHANGED <<dir, data, edits, undone, silent, since, held, job>> /\ crashes' # 0
      /\ pc'[p] = "idle" /\ rc'[p] = "NONE"
      /\ in'[p] = NoFile /\ out'[p] = NoFile /\ buf' = Set(buf, p, <<>>)
  BY BoundAssumption DEF Crash, Return, Goto, Set, SoloInv, TypeOK
<1>3. Apart(p)' /\ Renamed(p)'
  BY <1>1 DEF SoloInv, Apart, Renamed, Set, TypeOK
<1>4. BackupInv(p)'
  BY <1>1 DEF BackupInv, SourceSeen, Copying, Copied, Closed, Summing, Summed, SummingDest,
              Reported, Active
<1>5. FilesHeld(p)' /\ RestoreInv(p)'
  BY <1>1 DEF FilesHeld, RestoreInv, Clean
<1> QED BY <1>3, <1>4, <1>5 DEF SoloInv

LEMMA StutterSolo ==
  ASSUME NEW p \in Proc, SoloInv(p), UNCHANGED vars, TypeOK'
  PROVE  SoloInv(p)'
<1>1. UNCHANGED <<dir, tmp, data, pc, job, in, out, buf, pos, md, rc, edits, held, since,
                  undone, silent, crashes>>
  BY DEF vars, fsVars, jobVars, bookVars
<1>2. Apart(p)' /\ Renamed(p)'
  BY <1>1 DEF SoloInv, Apart, Renamed, Src, Dst
<1>3. BackupInv(p)'
  <2>1. BackupInv(p)
    BY DEF SoloInv
  <2>2. /\ (Backup(p)' <=> Backup(p)) /\ Result(p)' = Result(p)
        /\ \A k : Gone(p, k)' = Gone(p, k)
    BY <1>1 DEF Backup, Gone, BlockAt, Result
  <2>3. SourceSeen(p)' /\ Copying(p)' /\ Copied(p)' /\ Closed(p)'
    BY <1>1, <2>1, <2>2 DEF BackupInv, SourceSeen, Copying, Copied, Closed, Active, Genuine
  <2>4. Summing(p)'
    BY <1>1, <2>1, <2>2 DEF BackupInv, Summing, Compared, ReadSoFar
  <2>5. Summed(p)' /\ SummingDest(p)' /\ Reported(p)'
    BY <1>1, <2>1, <2>2 DEF BackupInv, Summed, SummingDest, Reported, Trusted, ReadSoFar
  <2> QED BY <2>3, <2>4, <2>5 DEF BackupInv
<1>4. FilesHeld(p)' /\ RestoreInv(p)'
  BY <1>1 DEF SoloInv, FilesHeld, RestoreInv, Clean, Deceived, OrigHeld, BackHeld, Active,
              ReadSoFar
<1> QED BY <1>2, <1>3, <1>4 DEF SoloInv

LEMMA SoloInvariant ==
  ASSUME NEW p, Proc = {p}
  PROVE  Spec => []SoloInv(p)
<1>1. Init => SoloInv(p)
  BY InitSolo
<1>2. SoloInv(p) /\ [Next]_vars => SoloInv(p)'
  <2> SUFFICES ASSUME SoloInv(p), [Next]_vars PROVE SoloInv(p)'
    OBVIOUS
  <2>1. TypeOK'
    BY NextTypes DEF SoloInv
  <2>2. \/ \E j \in {"backup", "restore"} : Start(p, j)
        \/ Step(p) \/ Crash(p) \/ Edit \/ Delete \/ UNCHANGED vars
    BY DEF Next
  <2> QED BY <2>1, <2>2, StartSolo, StepSolo, CrashSolo, OwnerSolo, StutterSolo
<1> QED BY <1>1, <1>2, PTL DEF Spec

(* One job at a time, whatever fails or is killed at any step, while the    *)
(* owner edits, replaces and deletes the file: a backup that reports        *)
(* success is a copy of what the file held, as a whole, at one moment while *)
(* the job ran, unless demo_check_hash has been deceived: by a read error,  *)
(* by an fclose() that failed unnoticed, or by an owner who has brought     *)
(* back a block he had taken out during a backup (BackupIsSnapshot,         *)
(* backup_file).                                                            *)
THEOREM ReportedBackupIsSnapshot ==
  ASSUME NEW p, Proc = {p}
  PROVE  Spec => []BackupIsSnapshot
<1>1. SoloInv(p) => BackupIsSnapshot
  BY BoundAssumption
     DEF SoloInv, BackupInv, Reported, Backup, Trusted, BackupIsSnapshot, Deceived, TypeOK
<1> QED BY <1>1, SoloInvariant, PTL

(* One job at a time, without kills, and with demo_check_hash not deceived  *)
(* (Deceived): between jobs the backup is missing or one of something the   *)
(* file has held, for a failed backup_file removes what it could not verify *)
(* (NoBadBackup).                                                           *)
THEOREM NoBackupIsBad ==
  ASSUME NEW p, Proc = {p}
  PROVE  Spec => []NoBadBackup
<1>1. SoloInv(p) => NoBadBackup
  BY DEF SoloInv, FilesHeld, Clean, BackHeld, NoBadBackup
<1> QED BY <1>1, SoloInvariant, PTL

(* One job at a time, without kills, and with demo_check_hash not deceived  *)
(* (Deceived): a restore that reports success has left nothing in the file  *)
(* that its owner has not had in it before (RestoreIsReal, restore_file).   *)
THEOREM RestoredFileIsReal ==
  ASSUME NEW p, Proc = {p}
  PROVE  Spec => []RestoreIsReal
<1>1. SoloInv(p) => RestoreIsReal
  BY DEF SoloInv, FilesHeld, Clean, OrigHeld, RestoreIsReal, Active
<1> QED BY <1>1, SoloInvariant, PTL
=============================================================================
