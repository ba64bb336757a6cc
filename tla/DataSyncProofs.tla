--------------------------- MODULE DataSyncProofs ---------------------------
(***************************************************************************)
(* Proofs about DataSync.tla, for any inodes and blocks, any failures and  *)
(* any bounds.                                                             *)
(*                                                                         *)
(* For any number of processes side by side: every variable keeps its      *)
(* type, and no temporary file stays behind that could be removed.         *)
(*                                                                         *)
(* For one call at a time, the case the other properties are about: a call *)
(* that fails has left dest as it was, but for two exceptions, and one     *)
(* that succeeds has made it what orig was.  The argument of the latter is *)
(* that nobody else changes dest between its signature and the patch, so   *)
(* that a part of the delta stands for the block of orig it was made for.  *)
(*                                                                         *)
(* For two calls side by side, where nothing fails: one success is enough. *)
(* Here dest may be cut, removed or replaced between the signature and the *)
(* patch, and a new file gets its last blocks after it has become dest.    *)
(***************************************************************************)
EXTENDS DataSync, SeqLemmas

(* What a block of a file may be. *)
Blk == Block \union {Zeros}

Part == [from : Nat, block : Blk]

PC == {"idle", "access", "make", "creat", "open", "openorig", "mkstemp", "sig", "delta",
       "patch", "unlink", "rename", "close", "tidy"}

(* A process that has come so far has the files it needs. *)
Ready(p) ==
  /\ pc[p] = "idle" => tmp[p] = NoFile /\ (temps[p] = {} \/ "unlink" \in late[p])
  /\ pc[p] \in {"open", "openorig", "mkstemp", "sig", "delta", "patch", "unlink", "rename"} =>
       dirOk
  /\ pc[p] \in {"sig", "delta", "patch", "unlink", "rename"} => tmp[p] # NoFile
  /\ pc[p] \in {"delta", "patch"} => fpDest[p] # NoFile
  /\ pc[p] = "patch" => fpTmpDest[p] # NoFile

(* Nobody writes to orig but its owner. *)
OrigSafe ==
  /\ data[dir["orig"]] \in Content
  /\ dir["dest"] # dir["orig"]
  /\ \A p \in Proc : tmp[p] # dir["orig"] /\ fpTmpDest[p] # dir["orig"]


Typed ==
  /\ pc \in [Proc -> PC]
  /\ dir \in [{"orig", "dest"} -> Inode \union {NoFile}]
  /\ tmp \in [Proc -> Inode \union {NoFile}]
  /\ temps \in [Proc -> SUBSET {"sig", "delta", "new"}]
  /\ fpDest \in [Proc -> Inode \union {NoFile}]
  /\ fpOrig \in [Proc -> Inode \union {NoFile}]
  /\ fpTmpDest \in [Proc -> Inode \union {NoFile}]
  /\ pos \in [Proc -> Nat]
  /\ rc \in [Proc -> {"NONE", "SUCCESS", "ERROR"}]
  /\ late \in [Proc -> SUBSET {"rename", "flush", "unlink", "chdir"}]

(* The contents. *)
Filled ==
  /\ data \in [Inode -> Seq(Blk)]
  /\ sig \in [Proc -> Seq(Blk)]
  /\ delta \in [Proc -> Seq(Part)]
  /\ buf \in [Proc -> Seq(Blk)]

Booked ==
  /\ dirOk \in BOOLEAN
  /\ dir["orig"] # NoFile
  /\ dir["dest"] # NoFile => dirOk
  /\ edits \in 0..MaxEdits /\ crashes \in 0..MaxCrashes
  /\ since \in [Proc -> SUBSET Content]
  /\ before \in [Proc -> Seq(Blk)]

AllReady == \A p \in Proc : Ready(p)

(* The inductive invariant for any number of processes. *)
Inv == Typed /\ Filled /\ Booked /\ AllReady /\ OrigSafe

LEMMA InvTypes == Inv => TypeOK /\ NoStrayTmp
<1> SUFFICES ASSUME Inv PROVE TypeOK /\ NoStrayTmp
  OBVIOUS
<1>1. NoStrayTmp
  BY DEF Inv, AllReady, Ready, NoStrayTmp
<1>2. TypeOK
  <2>1. Typed /\ Filled /\ Booked /\ AllReady
    BY DEF Inv
  <2>2. \A p \in Proc :
          /\ pc[p] \in {"delta", "patch"} => fpDest[p] # NoFile
          /\ pc[p] = "patch" => fpTmpDest[p] # NoFile
          /\ pc[p] \in {"unlink", "rename"} => tmp[p] # NoFile
    BY <2>1 DEF AllReady, Ready
  <2>3. \A f \in {fpDest, fpOrig, fpTmpDest} : f \in [Proc -> Inode \union {NoFile}]
    BY <2>1 DEF Typed
  <2> QED BY <2>1, <2>2, <2>3 DEF Typed, Filled, Booked, TypeOK, PC, Blk, Part
<1> QED BY <1>1, <1>2

LEMMA NewInodeIsFree == Free # {} => NewInode \in Inode /\ NewInode \in Free
BY DEF Free, NewInode

LEMMA ContentIsSeq == Content \subseteq Seq(Blk) /\ <<>> \in Content
<1>1. ASSUME NEW c \in Content PROVE c \in Seq(Blk)
  <2>1. PICK n \in 0..MaxBlocks : c \in [1..n -> Block]
    BY BoundAssumption DEF Content, BoundedSeq, SeqOf
  <2>2. c \in [1..n -> Blk] /\ n \in Nat
    BY <2>1, BoundAssumption DEF Blk
  <2> QED BY <2>2, SeqDef
<1>2. <<>> \in [1..0 -> Block] /\ 0 \in 0..MaxBlocks
  BY BoundAssumption
<1>3. <<>> \in Content
  BY <1>2, BoundAssumption DEF Content, BoundedSeq, SeqOf
<1> QED BY <1>1, <1>3

-----------------------------------------------------------------------------
(* What a step of a process may do to each variable.                        *)

(* The next part of the delta, and what it makes of dest as it is by now. *)
NextPart(p) == delta[p][pos[p] + 1]
Piece(p) == Applied(NextPart(p), data[fpDest[p]])

Patching(p) ==
  /\ pc[p] = "patch" /\ pos[p] < Len(delta[p])
  /\ Applicable(NextPart(p), data[fpDest[p]])

DirStep(p) ==
  \/ UNCHANGED dir
  \/ dir' = Set(dir, "dest", NoFile)
  \/ dir["dest"] = NoFile /\ Free # {} /\ dir' = Set(dir, "dest", NewInode) /\ dirOk'
  \/ pc[p] = "rename" /\ dir' = Set(dir, "dest", tmp[p])

TmpStep(p) ==
  \/ UNCHANGED tmp
  \/ tmp' = Set(tmp, p, NoFile)
  \/ Free # {} /\ tmp' = Set(tmp, p, NewInode)

DataStep(p) ==
  \/ UNCHANGED data
  \/ Free # {} /\ data' = Set(data, NewInode, <<>>)
  \/ dir["dest"] # NoFile /\ pc[p] = "creat" /\ data' = Set(data, dir["dest"], <<>>)
  \/ /\ Patching(p)
     /\ LET b == Append(buf[p], Piece(p)) IN
        data' = [data EXCEPT ![fpTmpDest[p]] = Written(@, pos[p] + 1 - Len(b), b, Zeros)]
  \/ /\ pc[p] = "close" /\ fpTmpDest[p] # NoFile
     /\ data' = [data EXCEPT ![fpTmpDest[p]] = Written(@, pos[p] - Len(buf[p]), buf[p], Zeros)]
  \/ data' = Scrubbed

SigStep(p) ==
  \/ UNCHANGED sig
  \/ sig' = Set(sig, p, <<>>)
  \/ /\ fpDest[p] # NoFile /\ pos[p] < Len(data[fpDest[p]])
     /\ sig' = Set(sig, p, Append(sig[p], data[fpDest[p]][pos[p] + 1]))

DeltaStep(p) ==
  \/ UNCHANGED delta
  \/ delta' = Set(delta, p, <<>>)
  \/ /\ fpOrig[p] # NoFile /\ pos[p] < Len(data[fpOrig[p]])
     /\ \E part \in Parts(sig[p], data[fpOrig[p]][pos[p] + 1]) :
          delta' = Set(delta, p, Append(delta[p], part))

BufStep(p) ==
  \/ UNCHANGED buf
  \/ buf' = Set(buf, p, <<>>)
  \/ Patching(p) /\ buf' = Set(buf, p, Append(buf[p], Piece(p)))

PosStep(p) == UNCHANGED pos \/ pos' = Set(pos, p, 0) \/ pos' = Set(pos, p, pos[p] + 1)

FpStep(p) ==
  /\ fpDest' \in {fpDest, Set(fpDest, p, dir["dest"]), Set(fpDest, p, NoFile)}
  /\ fpOrig' \in {fpOrig, Set(fpOrig, p, dir["orig"]), Set(fpOrig, p, NoFile)}
  /\ fpTmpDest' \in {fpTmpDest, Set(fpTmpDest, p, tmp[p]), Set(fpTmpDest, p, NoFile)}

ResultStep(p) ==
  /\ rc' \in {rc, Set(rc, p, "ERROR")}
  /\ \/ UNCHANGED late
     \/ \E calls \in SUBSET {"rename", "flush", "unlink", "chdir"} :
          late' = Set(late, p, late[p] \union calls)

LEMMA StepChanges ==
  ASSUME dirOk \in BOOLEAN, NEW p \in Proc, Step(p)
  PROVE  /\ UNCHANGED <<edits, crashes, since, before>>
         /\ dirOk' \in {dirOk, TRUE}
         /\ DirStep(p) /\ TmpStep(p) /\ DataStep(p)
         /\ SigStep(p) /\ DeltaStep(p) /\ BufStep(p) /\ PosStep(p)
         /\ FpStep(p) /\ ResultStep(p)
<1> USE DEF Goto, Fails, fsVars, bookVars, NextPart, Piece, Patching, DirStep, TmpStep, DataStep,
            SigStep, DeltaStep, BufStep, PosStep, FpStep, ResultStep
<1>1. CASE AccessDest(p)
  BY <1>1 DEF AccessDest
<1>2. CASE MakeDest(p)
  BY <1>2 DEF MakeDest
<1>3. CASE CreatDest(p)
  <2>1. CASE Creat /\ dirOk'
    BY <1>3, <2>1 DEF CreatDest, Creat
  <2>2. CASE UNCHANGED <<dir, data>>
    BY <1>3, <2>2 DEF CreatDest
  <2> QED BY <1>3, <2>1, <2>2 DEF CreatDest
<1>4. CASE OpenDest(p)
  BY <1>4 DEF OpenDest
<1>5. CASE OpenOrig(p)
  BY <1>5 DEF OpenOrig
<1>6. CASE MakeTemps(p)
  BY <1>6 DEF MakeTemps
<1>7. CASE RsyncFails(p)
  BY <1>7 DEF RsyncFails
<1>8. CASE Signature(p)
  BY <1>8 DEF Signature
<1>9. CASE Delta(p)
  BY <1>9 DEF Delta
<1>10. CASE Patch(p)
  BY <1>10 DEF Patch
<1>11. CASE UnlinkDest(p)
  BY <1>11 DEF UnlinkDest
<1>12. CASE RenameTmp(p)
  BY <1>12 DEF RenameTmp, Late
<1>13. CASE CloseFiles(p)
  BY <1>13 DEF CloseFiles, Late
<1>14. CASE Tidy(p)
  BY <1>14 DEF Tidy, Return, Late
<1> QED BY <1>1, <1>2, <1>3, <1>4, <1>5, <1>6, <1>7, <1>8, <1>9,
          <1>10, <1>11, <1>12, <1>13, <1>14 DEF Step

LEMMA StepControl ==
  ASSUME Typed, NEW p \in Proc, Step(p)
  PROVE  /\ pc' \in [Proc -> PC]
         /\ temps' \in [Proc -> SUBSET {"sig", "delta", "new"}]
<1> USE DEF Goto, Set, Fails, Typed, PC, fsVars
<1>1. CASE AccessDest(p)
  BY <1>1 DEF AccessDest
<1>2. CASE MakeDest(p)
  BY <1>2 DEF MakeDest
<1>3. CASE CreatDest(p)
  BY <1>3 DEF CreatDest, Creat
<1>4. CASE OpenDest(p)
  BY <1>4 DEF OpenDest
<1>5. CASE OpenOrig(p)
  BY <1>5 DEF OpenOrig
<1>6. CASE MakeTemps(p)
  <2>1. pc' \in [Proc -> PC]
    <3>1. \E l \in PC : pc' = [pc EXCEPT ![p] = l]
      BY <1>6, Zenon DEF MakeTemps
    <3> QED BY <3>1
  <2>2. \E t \in SUBSET {"sig", "delta", "new"} : temps' = Set(temps, p, t)
    BY <1>6 DEF MakeTemps
  <2>3. temps \in [Proc -> SUBSET {"sig", "delta", "new"}]
    OBVIOUS
  <2> HIDE DEF Typed
  <2> QED BY <2>1, <2>2, <2>3
<1>7. CASE RsyncFails(p)
  BY <1>7 DEF RsyncFails
<1>8. CASE Signature(p)
  BY <1>8 DEF Signature
<1>9. CASE Delta(p)
  BY <1>9 DEF Delta
<1>10. CASE Patch(p)
  BY <1>10 DEF Patch
<1>11. CASE UnlinkDest(p)
  BY <1>11 DEF UnlinkDest
<1>12. CASE RenameTmp(p)
  BY <1>12 DEF RenameTmp, Late
<1>13. CASE CloseFiles(p)
  BY <1>13 DEF CloseFiles, Late
<1>14. CASE Tidy(p)
  <2>1. pc' \in [Proc -> PC]
    BY <1>14 DEF Tidy, Return
  <2>2. PICK left \in SUBSET (temps[p] \union (IF tmp[p] = NoFile THEN {} ELSE {"new"})) :
          temps' = Set(temps, p, left)
    BY <1>14 DEF Tidy
  <2>3. temps[p] \in SUBSET {"sig", "delta", "new"}
    OBVIOUS
  <2>4. left \in SUBSET {"sig", "delta", "new"}
    BY <2>2, <2>3
  <2> QED BY <2>1, <2>2, <2>4
<1> QED BY <1>1, <1>2, <1>3, <1>4, <1>5, <1>6, <1>7, <1>8, <1>9,
          <1>10, <1>11, <1>12, <1>13, <1>14 DEF Step

(* A process changes nothing that belongs to another one. *)
LEMMA StepFrame ==
  ASSUME Typed, NEW p \in Proc, Step(p)
  PROVE  \A q \in Proc \ {p} :
           /\ pc'[q] = pc[q] /\ tmp'[q] = tmp[q] /\ temps'[q] = temps[q]
           /\ fpDest'[q] = fpDest[q] /\ fpTmpDest'[q] = fpTmpDest[q] /\ late'[q] = late[q]
<1> USE DEF Goto, Set, Fails, Typed, fsVars, bookVars
<1>1. CASE AccessDest(p)
  BY <1>1 DEF AccessDest
<1>2. CASE MakeDest(p)
  BY <1>2 DEF MakeDest
<1>3. CASE CreatDest(p)
  BY <1>3 DEF CreatDest, Creat
<1>4. CASE OpenDest(p)
  BY <1>4 DEF OpenDest
<1>5. CASE OpenOrig(p)
  BY <1>5 DEF OpenOrig
<1>6. CASE MakeTemps(p)
  BY <1>6 DEF MakeTemps
<1>7. CASE RsyncFails(p)
  BY <1>7 DEF RsyncFails
<1>8. CASE Signature(p)
  BY <1>8 DEF Signature
<1>9. CASE Delta(p)
  BY <1>9 DEF Delta
<1>10. CASE Patch(p)
  BY <1>10 DEF Patch
<1>11. CASE UnlinkDest(p)
  BY <1>11 DEF UnlinkDest
<1>12. CASE RenameTmp(p)
  BY <1>12 DEF RenameTmp, Late
<1>13. CASE CloseFiles(p)
  BY <1>13 DEF CloseFiles, Late
<1>14. CASE Tidy(p)
  BY <1>14 DEF Tidy, Return, Late
<1> QED BY <1>1, <1>2, <1>3, <1>4, <1>5, <1>6, <1>7, <1>8, <1>9,
          <1>10, <1>11, <1>12, <1>13, <1>14 DEF Step

(* Which actions lead to a label. *)
LEMMA StepMoves ==
  ASSUME Typed, NEW p \in Proc, Step(p)
  PROVE  /\ pc'[p] = "sig" => MakeTemps(p) \/ Signature(p)
         /\ pc'[p] = "delta" => Signature(p) \/ Delta(p)
         /\ pc'[p] = "patch" => Delta(p) \/ Patch(p)
         /\ pc'[p] = "unlink" => Patch(p)
         /\ pc'[p] = "rename" => UnlinkDest(p)
         /\ pc'[p] = "close" /\ rc'[p] # "ERROR" => RenameTmp(p)
         /\ pc'[p] \in {"tidy", "idle"} => CloseFiles(p) \/ Tidy(p)
<1> USE DEF Typed, Goto, Fails, Set
<1>1. CASE AccessDest(p)
  BY <1>1 DEF AccessDest
<1>2. CASE MakeDest(p)
  BY <1>2 DEF MakeDest
<1>3. CASE CreatDest(p)
  BY <1>3 DEF CreatDest
<1>4. CASE OpenDest(p)
  BY <1>4 DEF OpenDest
<1>5. CASE OpenOrig(p)
  BY <1>5 DEF OpenOrig
<1>6. CASE MakeTemps(p)
  BY <1>6 DEF MakeTemps
<1>7. CASE RsyncFails(p)
  BY <1>7 DEF RsyncFails
<1>8. CASE Signature(p)
  BY <1>8 DEF Signature
<1>9. CASE Delta(p)
  BY <1>9 DEF Delta
<1>10. CASE Patch(p)
  BY <1>10 DEF Patch
<1>11. CASE UnlinkDest(p)
  BY <1>11 DEF UnlinkDest
<1>12. CASE RenameTmp(p)
  BY <1>12 DEF RenameTmp
<1>13. CASE CloseFiles(p)
  BY <1>13 DEF CloseFiles
<1>14. CASE Tidy(p)
  BY <1>14 DEF Tidy, Return
<1> QED BY <1>1, <1>2, <1>3, <1>4, <1>5, <1>6, <1>7, <1>8, <1>9,
          <1>10, <1>11, <1>12, <1>13, <1>14 DEF Step

LEMMA StepReady ==
  ASSUME Typed, Booked, NEW p \in Proc, Ready(p), Step(p)
  PROVE  Ready(p)'
<1> USE NewInodeIsFree, ValueAssumption DEF Goto, Set, Fails, Typed, Booked, Ready, fsVars
<1>1. CASE AccessDest(p)
  BY <1>1 DEF AccessDest
<1>2. CASE MakeDest(p)
  BY <1>2 DEF MakeDest
<1>3. CASE CreatDest(p)
  BY <1>3, ZenonT(40) DEF CreatDest, Creat
<1>4. CASE OpenDest(p)
  BY <1>4 DEF OpenDest
<1>5. CASE OpenOrig(p)
  BY <1>5 DEF OpenOrig
<1>6. CASE MakeTemps(p)
  BY <1>6 DEF MakeTemps
<1>7. CASE RsyncFails(p)
  BY <1>7 DEF RsyncFails
<1>8. CASE Signature(p)
  BY <1>8 DEF Signature
<1>9. CASE Delta(p)
  BY <1>9 DEF Delta
<1>10. CASE Patch(p)
  BY <1>10 DEF Patch
<1>11. CASE UnlinkDest(p)
  BY <1>11 DEF UnlinkDest
<1>12. CASE RenameTmp(p)
  BY <1>12 DEF RenameTmp, Late
<1>13. CASE CloseFiles(p)
  BY <1>13 DEF CloseFiles, Late
<1>14. CASE Tidy(p)
  BY <1>14 DEF Tidy, Return, Late
<1> QED BY <1>1, <1>2, <1>3, <1>4, <1>5, <1>6, <1>7, <1>8, <1>9,
          <1>10, <1>11, <1>12, <1>13, <1>14 DEF Step

-----------------------------------------------------------------------------
(* The invariant for any number of processes.                               *)

LEMMA InitInv == Init => Inv
<1> SUFFICES ASSUME Init PROVE Inv
  OBVIOUS
<1> DEFINE i == CHOOSE i \in Inode : TRUE
           j == CHOOSE j \in Inode \ {i} : TRUE
<1>1. i \in Inode /\ j \in Inode /\ i # j
  <2>1. i \in Inode /\ \E k \in Inode : k # i
    BY InodeAssumption
  <2>2. \E k : k \in Inode \ {i}
    BY <2>1
  <2>3. j \in Inode \ {i}
    BY <2>2
  <2> QED BY <2>1, <2>3
<1> HIDE DEF i, j
<1>2. PICK c \in Content, d \in Content, there \in BOOLEAN :
        /\ dir = [orig |-> i, dest |-> IF there THEN j ELSE NoFile]
        /\ data = [k \in Inode |-> IF k = i THEN c ELSE IF k = j /\ there THEN d ELSE <<>>]
        /\ dirOk \in {TRUE, there}
  BY DEF Init, i, j
<1>3. NoFile \notin Inode
  BY ValueAssumption
<1>4. Typed
  <2>1. dir \in [{"orig", "dest"} -> Inode \union {NoFile}]
    BY <1>1, <1>2
  <2>2. /\ tmp \in [Proc -> Inode \union {NoFile}]
        /\ temps \in [Proc -> SUBSET {"sig", "delta", "new"}]
        /\ fpDest \in [Proc -> Inode \union {NoFile}]
        /\ fpOrig \in [Proc -> Inode \union {NoFile}]
        /\ fpTmpDest \in [Proc -> Inode \union {NoFile}]
    BY DEF Init
  <2>3. /\ pc \in [Proc -> PC] /\ pos \in [Proc -> Nat]
        /\ rc \in [Proc -> {"NONE", "SUCCESS", "ERROR"}]
        /\ late \in [Proc -> SUBSET {"rename", "flush", "unlink", "chdir"}]
    BY DEF Init, PC
  <2> QED BY <2>1, <2>2, <2>3 DEF Typed
<1>5. Filled
  <2>1. <<>> \in Seq(Blk) /\ <<>> \in Seq(Part)
    BY EmptySeq
  <2>2. c \in Seq(Blk) /\ d \in Seq(Blk)
    BY ContentIsSeq
  <2>3. data \in [Inode -> Seq(Blk)]
    BY <1>2, <2>1, <2>2
  <2>4. sig \in [Proc -> Seq(Blk)] /\ delta \in [Proc -> Seq(Part)] /\ buf \in [Proc -> Seq(Blk)]
    BY <2>1 DEF Init
  <2> QED BY <2>3, <2>4 DEF Filled
<1>6. Booked
  <2>1. since \in [Proc -> SUBSET Content]
    BY DEF Init
  <2>2. before \in [Proc -> Seq(Blk)]
    BY EmptySeq DEF Init
  <2>3. edits \in 0..MaxEdits /\ crashes \in 0..MaxCrashes
    BY BoundAssumption DEF Init
  <2> QED BY <1>1, <1>2, <1>3, <2>1, <2>2, <2>3 DEF Booked
<1>7. AllReady
  BY DEF Init, AllReady, Ready
<1>8. OrigSafe
  BY <1>1, <1>2, <1>3 DEF Init, OrigSafe
<1> QED BY <1>4, <1>5, <1>6, <1>7, <1>8 DEF Inv

(* What is written to the new file is a block. *)
LEMMA PieceType ==
  ASSUME Typed, Filled, NEW p \in Proc, Ready(p), Patching(p)
  PROVE  /\ fpTmpDest[p] \in Inode /\ fpDest[p] \in Inode
         /\ NextPart(p) \in Part
         /\ pos[p] + 1 \in 1..Len(delta[p])
         /\ Piece(p) \in Blk
<1>1. fpTmpDest[p] \in Inode /\ fpDest[p] \in Inode /\ pos[p] \in Nat
  BY DEF Typed, Ready, Patching
<1>2. /\ data[fpDest[p]] \in Seq(Blk) /\ delta[p] \in Seq(Part)
      /\ Len(data[fpDest[p]]) \in Nat /\ Len(delta[p]) \in Nat
  BY <1>1, LenProperties DEF Filled
<1>3. pos[p] + 1 \in 1..Len(delta[p])
  BY <1>1, <1>2 DEF Patching
<1>4. NextPart(p) \in Part
  BY <1>2, <1>3, ElementOfSeq DEF NextPart
<1>5. Piece(p) \in Blk
  <2>1. CASE NextPart(p).from = 0
    BY <1>4, <2>1 DEF Piece, Applied, Part
  <2>2. CASE NextPart(p).from # 0
    <3>1. NextPart(p).from \in 1..Len(data[fpDest[p]])
      BY <1>2, <1>4, <2>2 DEF Patching, Applicable, Part
    <3> QED BY <1>2, <2>2, <3>1, ElementOfSeq DEF Piece, Applied
  <2> QED BY <2>1, <2>2
<1> QED BY <1>1, <1>3, <1>4, <1>5

LEMMA PartsType ==
  ASSUME NEW s \in Seq(Blk), NEW b \in Blk
  PROVE  Parts(s, b) \subseteq Part
<1>1. DOMAIN s \subseteq Nat
  BY LenProperties
<1> QED BY <1>1 DEF Parts, Part, Copy, Literal, Blk

(* What a process does to the contents of files. *)
LEMMA StepData ==
  ASSUME Typed, Filled, dirOk \in BOOLEAN, NEW p \in Proc, Ready(p), Step(p)
  PROVE  data' \in [Inode -> Seq(Blk)] /\ buf' \in [Proc -> Seq(Blk)]
<1>0. data \in [Inode -> Seq(Blk)] /\ buf \in [Proc -> Seq(Blk)] /\ pos[p] \in Nat
  BY DEF Filled, Typed
<1>1. ASSUME Patching(p) PROVE Append(buf[p], Piece(p)) \in Seq(Blk)
  BY <1>0, <1>1, PieceType, AppendProperties
<1>2. \A i \in Inode, b \in Seq(Blk), n \in Int : Written(data[i], n, b, Zeros) \in Seq(Blk)
  <2>1. Zeros \in Blk
    BY DEF Blk
  <2> QED BY <1>0, <2>1, WrittenType
<1>3. \A b \in Seq(Blk) : Len(b) \in Nat
  BY LenProperties
<1>4. ASSUME NEW i \in Inode, NEW b \in Seq(Blk), NEW n \in Int,
             data' = [data EXCEPT ![i] = Written(@, n, b, Zeros)]
      PROVE  data' \in [Inode -> Seq(Blk)]
  BY <1>0, <1>2, <1>4
<1>5. ASSUME Patching(p),
             data' = [data EXCEPT ![fpTmpDest[p]] =
               Written(@, pos[p] + 1 - Len(Append(buf[p], Piece(p))),
                       Append(buf[p], Piece(p)), Zeros)]
      PROVE  data' \in [Inode -> Seq(Blk)]
  <2>1. fpTmpDest[p] \in Inode
    BY <1>5, PieceType
  <2>2. pos[p] + 1 - Len(Append(buf[p], Piece(p))) \in Int
    BY <1>0, <1>1, <1>3, <1>5
  <2> QED BY <1>1, <1>4, <1>5, <2>1, <2>2
<1>6. ASSUME fpTmpDest[p] # NoFile,
             data' = [data EXCEPT ![fpTmpDest[p]] =
               Written(@, pos[p] - Len(buf[p]), buf[p], Zeros)]
      PROVE  data' \in [Inode -> Seq(Blk)]
  <2>1. fpTmpDest[p] \in Inode /\ pos[p] - Len(buf[p]) \in Int /\ buf[p] \in Seq(Blk)
    BY <1>0, <1>3, <1>6 DEF Typed
  <2> QED BY <1>4, <1>6, <2>1
<1>7. /\ Free # {} => Set(data, NewInode, <<>>) \in [Inode -> Seq(Blk)]
      /\ dir["dest"] # NoFile => Set(data, dir["dest"], <<>>) \in [Inode -> Seq(Blk)]
  <2>1. <<>> \in Seq(Blk)
    BY EmptySeq
  <2> QED BY <1>0, <2>1 DEF Set
<1>8. Scrubbed \in [Inode -> Seq(Blk)]
  BY <1>0, EmptySeq DEF Scrubbed
<1>9. data' \in [Inode -> Seq(Blk)]
  <2>1. DataStep(p)
    BY StepChanges
  <2> QED BY <1>0, <1>5, <1>6, <1>7, <1>8, <2>1 DEF DataStep
<1>10. buf' \in [Proc -> Seq(Blk)]
  <2>1. BufStep(p)
    BY StepChanges
  <2> QED BY <1>0, <1>1, <2>1, EmptySeq DEF BufStep, Set
<1> QED BY <1>9, <1>10

LEMMA StepFilled ==
  ASSUME Typed, Filled, dirOk \in BOOLEAN, NEW p \in Proc, Ready(p), Step(p)
  PROVE  Filled'
<1>1. data' \in [Inode -> Seq(Blk)] /\ buf' \in [Proc -> Seq(Blk)]
  BY StepData
<1>2. ASSUME NEW i \in Inode, pos[p] < Len(data[i]) PROVE data[i][pos[p] + 1] \in Blk
  <2>1. data[i] \in Seq(Blk) /\ pos[p] \in Nat
    BY DEF Filled, Typed
  <2>2. pos[p] + 1 \in 1..Len(data[i])
    BY <1>2, <2>1, LenProperties
  <2> QED BY <2>1, <2>2, ElementOfSeq
<1>3. (fpDest[p] # NoFile => fpDest[p] \in Inode) /\ (fpOrig[p] # NoFile => fpOrig[p] \in Inode)
  BY DEF Typed
<1>4. sig' \in [Proc -> Seq(Blk)]
  <2>1. sig \in [Proc -> Seq(Blk)] /\ SigStep(p)
    BY StepChanges DEF Filled
  <2>2. \A b \in Blk : Append(sig[p], b) \in Seq(Blk)
    BY <2>1, AppendProperties
  <2>3. <<>> \in Seq(Blk)
    BY EmptySeq
  <2> QED BY <1>2, <1>3, <2>1, <2>2, <2>3 DEF SigStep, Set
<1>5. delta' \in [Proc -> Seq(Part)]
  <2>1. delta \in [Proc -> Seq(Part)] /\ DeltaStep(p) /\ sig[p] \in Seq(Blk)
    BY StepChanges DEF Filled
  <2>2. \A x \in Part : Append(delta[p], x) \in Seq(Part)
    BY <2>1, AppendProperties
  <2>3. <<>> \in Seq(Part)
    BY EmptySeq
  <2>4. ASSUME fpOrig[p] # NoFile, pos[p] < Len(data[fpOrig[p]])
        PROVE  Parts(sig[p], data[fpOrig[p]][pos[p] + 1]) \subseteq Part
    BY <1>2, <1>3, <2>1, <2>4, PartsType
  <2> QED BY <2>1, <2>2, <2>3, <2>4 DEF DeltaStep, Set
<1> QED BY <1>1, <1>4, <1>5 DEF Filled

LEMMA StepTyped ==
  ASSUME Typed, dirOk \in BOOLEAN, NEW p \in Proc, Step(p)
  PROVE  Typed'
<1>1. dir' \in [{"orig", "dest"} -> Inode \union {NoFile}]
  <2>1. DirStep(p) /\ dir \in [{"orig", "dest"} -> Inode \union {NoFile}]
        /\ tmp[p] \in Inode \union {NoFile}
    BY StepChanges DEF Typed
  <2> QED BY <2>1, NewInodeIsFree DEF DirStep, Set
<1>2. tmp' \in [Proc -> Inode \union {NoFile}]
  <2>1. TmpStep(p) /\ tmp \in [Proc -> Inode \union {NoFile}]
    BY StepChanges DEF Typed
  <2> QED BY <2>1, NewInodeIsFree DEF TmpStep, Set
<1>3. /\ fpDest' \in [Proc -> Inode \union {NoFile}]
      /\ fpOrig' \in [Proc -> Inode \union {NoFile}]
      /\ fpTmpDest' \in [Proc -> Inode \union {NoFile}]
  <2>1. FpStep(p)
    BY StepChanges
  <2> QED BY <2>1 DEF FpStep, Set, Typed
<1>4. pos' \in [Proc -> Nat]
  <2>1. PosStep(p) /\ pos \in [Proc -> Nat]
    BY StepChanges DEF Typed
  <2> QED BY <2>1 DEF PosStep, Set
<1>5. /\ rc' \in [Proc -> {"NONE", "SUCCESS", "ERROR"}]
      /\ late' \in [Proc -> SUBSET {"rename", "flush", "unlink", "chdir"}]
  <2>1. ResultStep(p) /\ rc \in [Proc -> {"NONE", "SUCCESS", "ERROR"}]
        /\ late \in [Proc -> SUBSET {"rename", "flush", "unlink", "chdir"}]
    BY StepChanges DEF Typed
  <2>2. rc' \in [Proc -> {"NONE", "SUCCESS", "ERROR"}]
    BY <2>1 DEF ResultStep, Set
  <2>3. late' \in [Proc -> SUBSET {"rename", "flush", "unlink", "chdir"}]
    BY <2>1 DEF ResultStep, Late, Set
  <2> QED BY <2>2, <2>3
<1>6. pc' \in [Proc -> PC] /\ temps' \in [Proc -> SUBSET {"sig", "delta", "new"}]
  BY StepControl
<1> QED BY <1>1, <1>2, <1>3, <1>4, <1>5, <1>6 DEF Typed

LEMMA StepBooked ==
  ASSUME Typed, Booked, NEW p \in Proc, Ready(p), Step(p)
  PROVE  Booked'
<1>1. dirOk \in BOOLEAN /\ dirOk' \in {dirOk, TRUE} /\ DirStep(p)
      /\ UNCHANGED <<edits, crashes, since, before>>
  BY StepChanges DEF Booked
<1>2. dirOk' \in BOOLEAN
  BY <1>1
<1>3. dir'["orig"] # NoFile
  BY <1>1 DEF DirStep, Set, Typed, Booked
<1>4. ASSUME dir'["dest"] # NoFile PROVE dirOk'
  <2>1. dir["dest"] # NoFile \/ pc[p] = "rename" \/ dirOk'
    BY <1>1, <1>4 DEF DirStep, Set, Typed
  <2>2. pc[p] = "rename" => dirOk
    BY DEF Ready
  <2>3. dirOk => dirOk'
    BY <1>1
  <2>4. dir["dest"] # NoFile => dirOk
    BY DEF Booked
  <2> QED BY <2>1, <2>2, <2>3, <2>4
<1> QED BY <1>1, <1>2, <1>3, <1>4 DEF Booked

(* An inode that is in use is no new one. *)
LEMMA NewInodeIsApart ==
  ASSUME Free # {}
  PROVE  /\ NewInode \notin {dir["orig"], dir["dest"]}
         /\ \A p \in Proc : NewInode \notin {tmp[p], fpDest[p], fpOrig[p], fpTmpDest[p]}
BY NewInodeIsFree DEF Free

(* Only the file that is written to changes. *)
LEMMA StepKeeps ==
  ASSUME Typed, Filled, dirOk \in BOOLEAN, NEW p \in Proc, Ready(p), Step(p),
         NEW i \in Inode, i \notin Free
  PROVE  \/ data'[i] = data[i]
         \/ data'[i] = <<>> /\ i \in Free'
         \/ data'[i] = <<>> /\ i = dir["dest"] /\ pc[p] = "creat"
         \/ i = fpTmpDest[p] /\ pc[p] \in {"patch", "close"}
<1>1. DataStep(p) /\ data \in [Inode -> Seq(Blk)]
  BY StepChanges DEF Filled
<1>2. CASE Free # {} /\ data' = Set(data, NewInode, <<>>)
  BY <1>1, <1>2, NewInodeIsFree DEF Set
<1>3. CASE pc[p] = "creat" /\ data' = Set(data, dir["dest"], <<>>)
  BY <1>1, <1>3 DEF Set
<1>4. CASE data' = Scrubbed
  BY <1>4 DEF Scrubbed
<1>5. ASSUME NEW s, data' = [data EXCEPT ![fpTmpDest[p]] = s], pc[p] \in {"patch", "close"}
      PROVE  data'[i] = data[i] \/ (i = fpTmpDest[p] /\ pc[p] \in {"patch", "close"})
  BY <1>1, <1>5
<1> QED BY <1>1, <1>2, <1>3, <1>4, <1>5 DEF DataStep, Patching

LEMMA StepOrigSafe ==
  ASSUME Typed, Filled, Booked, NEW p \in Proc, Ready(p), OrigSafe, Step(p)
  PROVE  OrigSafe'
<1>1. /\ dirOk \in BOOLEAN /\ dir["orig"] \in Inode /\ dir["orig"] \notin Free
      /\ dir["dest"] # dir["orig"] /\ data[dir["orig"]] \in Content
      /\ \A q \in Proc : tmp[q] # dir["orig"] /\ fpTmpDest[q] # dir["orig"]
  BY DEF Typed, Booked, OrigSafe, Free
<1>2. DirStep(p) /\ TmpStep(p) /\ FpStep(p)
  BY <1>1, StepChanges
<1>3. dir'["orig"] = dir["orig"] /\ dir'["dest"] # dir["orig"]
  BY <1>1, <1>2, NewInodeIsApart, ValueAssumption DEF DirStep, Set, Typed
<1>4. \A q \in Proc : tmp'[q] # dir["orig"]
  BY <1>1, <1>2, NewInodeIsApart, ValueAssumption DEF TmpStep, Set, Typed
<1>5. \A q \in Proc : fpTmpDest'[q] # dir["orig"]
  BY <1>1, <1>2, ValueAssumption DEF FpStep, Set, Typed
<1>6. data'[dir["orig"]] \in Content
  <2>1. data'[dir["orig"]] \in {data[dir["orig"]], <<>>}
    BY <1>1, StepKeeps
  <2> QED BY <1>1, <2>1, ContentIsSeq
<1> QED BY <1>3, <1>4, <1>5, <1>6 DEF OrigSafe

LEMMA StepInv ==
  ASSUME Inv, NEW p \in Proc, Step(p)
  PROVE  Inv'
<1>1. Typed /\ Filled /\ Booked /\ dirOk \in BOOLEAN /\ OrigSafe /\ \A q \in Proc : Ready(q)
  BY DEF Inv, Booked, AllReady
<1>2. Ready(p)'
  BY <1>1, StepReady
<1>3. ASSUME NEW q \in Proc \ {p} PROVE Ready(q)'
  <2>1. pc'[q] = pc[q] /\ tmp'[q] = tmp[q] /\ temps'[q] = temps[q]
        /\ fpDest'[q] = fpDest[q] /\ fpTmpDest'[q] = fpTmpDest[q] /\ late'[q] = late[q]
    BY <1>1, StepFrame
  <2>2. dirOk => dirOk'
    BY <1>1, StepChanges
  <2> QED BY <1>1, <2>1, <2>2 DEF Ready
<1>4. AllReady'
  BY <1>2, <1>3 DEF AllReady
<1> QED BY <1>1, <1>4, StepFilled, StepTyped, StepBooked, StepOrigSafe DEF Inv

(* What the owner does. *)
LEMMA EditStep ==
  ASSUME Typed, Filled, Booked, Edit
  PROVE  \E c \in Content :
           /\ dir'["dest"] = dir["dest"] /\ dir'["orig"] \in Inode /\ data'[dir'["orig"]] = c
           /\ \/ dir'["orig"] = dir["orig"]
              \/ Free # {} /\ dir'["orig"] = NewInode
           /\ \A i \in Inode \ {dir'["orig"]} : data'[i] = data[i]
           /\ since' = [p \in Proc |-> IF Active(p) THEN since[p] \union {c} ELSE since[p]]
           /\ dir' \in [{"orig", "dest"} -> Inode \union {NoFile}]
           /\ data' \in [Inode -> Seq(Blk)]
<1>1. PICK c \in Content :
        /\ \/ /\ Free # {}
              /\ dir' = Set(dir, "orig", NewInode)
              /\ data' = Set(data, NewInode, c)
           \/ data' = Set(data, dir["orig"], c) /\ UNCHANGED dir
        /\ since' = [p \in Proc |-> IF Active(p) THEN since[p] \union {c} ELSE since[p]]
  BY DEF Edit
<1>2. /\ c \in Seq(Blk) /\ data \in [Inode -> Seq(Blk)] /\ dir["orig"] \in Inode
      /\ dir \in [{"orig", "dest"} -> Inode \union {NoFile}]
  BY ContentIsSeq DEF Filled, Typed, Booked
<1> QED BY <1>1, <1>2, NewInodeIsFree DEF Set

LEMMA EditInv ==
  ASSUME Inv, Edit
  PROVE  Inv'
<1>1. Typed /\ Filled /\ Booked /\ AllReady /\ OrigSafe
  BY DEF Inv
<1>2. PICK c \in Content :
           /\ dir'["dest"] = dir["dest"] /\ dir'["orig"] \in Inode /\ data'[dir'["orig"]] = c
           /\ \/ dir'["orig"] = dir["orig"]
              \/ Free # {} /\ dir'["orig"] = NewInode
           /\ \A i \in Inode \ {dir'["orig"]} : data'[i] = data[i]
           /\ since' = [p \in Proc |-> IF Active(p) THEN since[p] \union {c} ELSE since[p]]
           /\ dir' \in [{"orig", "dest"} -> Inode \union {NoFile}]
           /\ data' \in [Inode -> Seq(Blk)]
  BY <1>1, EditStep
<1>3. UNCHANGED <<dirOk, tmp, temps, pc, fpDest, fpOrig, fpTmpDest, sig, delta, pos, buf, rc,
                  crashes, late, before>>
  BY DEF Edit, callVars
<1>4. Typed'
  BY <1>1, <1>2, <1>3 DEF Typed
<1>5. Filled'
  BY <1>1, <1>2, <1>3 DEF Filled
<1>6. edits' \in 0..MaxEdits
  BY <1>1, BoundAssumption DEF Edit, Booked
<1>7. since' \in [Proc -> SUBSET Content]
  BY <1>1, <1>2 DEF Booked
<1>8. Booked'
  BY <1>1, <1>2, <1>3, <1>6, <1>7, ValueAssumption DEF Booked
<1>9. AllReady'
  BY <1>1, <1>3 DEF AllReady, Ready
<1>10. OrigSafe'
  BY <1>1, <1>2, <1>3, NewInodeIsApart DEF OrigSafe
<1> QED BY <1>4, <1>5, <1>8, <1>9, <1>10 DEF Inv

LEMMA StartInv ==
  ASSUME Inv, NEW p \in Proc, Start(p)
  PROVE  Inv'
<1>1. Typed /\ Filled /\ Booked /\ AllReady /\ OrigSafe
  BY DEF Inv
<1>2. UNCHANGED <<dirOk, dir, tmp, data, fpDest, fpOrig, fpTmpDest, sig, delta, pos, buf,
                  edits, crashes>> /\ temps' = Set(temps, p, {})
  BY DEF Start
<1>3. pc' = Set(pc, p, "access") /\ rc' = Set(rc, p, "SUCCESS") /\ late' = Set(late, p, {})
  BY <1>1 DEF Start, Goto, Set, Booked
<1>4. since' = Set(since, p, {data[dir["orig"]]}) /\ before' = Set(before, p, Holds("dest"))
  BY <1>1 DEF Start, Holds, Booked
<1>5. Typed'
  BY <1>1, <1>2, <1>3 DEF Typed, PC, Set
<1>6. Filled'
  BY <1>1, <1>2 DEF Filled
<1>7. Booked'
  <2>1. since' \in [Proc -> SUBSET Content]
    BY <1>1, <1>4 DEF Booked, OrigSafe, Set
  <2>2. Holds("dest") \in Seq(Blk)
    BY <1>1, EmptySeq DEF Holds, Typed, Filled
  <2>3. before' \in [Proc -> Seq(Blk)]
    BY <1>1, <1>4, <2>2 DEF Booked, Set
  <2> QED BY <1>1, <1>2, <2>1, <2>3 DEF Booked
<1>8. AllReady'
  BY <1>1, <1>2, <1>3 DEF Typed, AllReady, Ready, Set
<1>9. OrigSafe'
  BY <1>1, <1>2 DEF OrigSafe
<1> QED BY <1>5, <1>6, <1>7, <1>8, <1>9 DEF Inv

LEMMA CrashInv ==
  ASSUME Inv, NEW p \in Proc, Crash(p)
  PROVE  Inv'
<1>1. Typed /\ Filled /\ Booked /\ AllReady /\ OrigSafe
  BY DEF Inv
<1>2. UNCHANGED <<dirOk, dir, edits, late, since, before>> /\ crashes' = crashes + 1
      /\ data' = Scrubbed /\ crashes < MaxCrashes
  BY DEF Crash
<1>3. /\ pc' = Set(pc, p, "idle") /\ rc' = Set(rc, p, "NONE") /\ pos' = Set(pos, p, 0)
      /\ tmp' = Set(tmp, p, NoFile) /\ temps' = Set(temps, p, {})
      /\ fpDest' = Set(fpDest, p, NoFile) /\ fpOrig' = Set(fpOrig, p, NoFile)
      /\ fpTmpDest' = Set(fpTmpDest, p, NoFile)
      /\ sig' = Set(sig, p, <<>>) /\ delta' = Set(delta, p, <<>>) /\ buf' = Set(buf, p, <<>>)
  BY DEF Crash, Return, Goto, Set
<1>4. Typed'
  BY <1>1, <1>2, <1>3 DEF Typed, PC, Set
<1>5. Filled'
  <2>1. <<>> \in Seq(Blk) /\ <<>> \in Seq(Part)
    BY EmptySeq
  <2>2. Scrubbed \in [Inode -> Seq(Blk)]
    BY <1>1, <2>1 DEF Scrubbed, Filled
  <2> QED BY <1>1, <1>2, <1>3, <2>1, <2>2 DEF Filled, Set
<1>6. Booked'
  BY <1>1, <1>2, BoundAssumption DEF Booked
<1>7. AllReady'
  BY <1>1, <1>2, <1>3 DEF Typed, AllReady, Ready, Set
<1>8. OrigSafe'
  <2>1. data'[dir["orig"]] \in {data[dir["orig"]], <<>>}
    BY <1>1, <1>2 DEF Scrubbed, Typed, Booked
  <2>2. data'[dir["orig"]] \in Content
    BY <1>1, <2>1, ContentIsSeq DEF OrigSafe
  <2> QED BY <1>1, <1>2, <1>3, <2>2, ValueAssumption DEF Typed, Booked, OrigSafe, Set
<1> QED BY <1>4, <1>5, <1>6, <1>7, <1>8 DEF Inv

LEMMA NextInv == Inv /\ [Next]_vars => Inv'
<1> SUFFICES ASSUME Inv, [Next]_vars PROVE Inv'
  OBVIOUS
<1>1. CASE Recover
  BY <1>1 DEF Recover, fsVars, callVars, bookVars, Inv, Typed, Filled, Booked, AllReady, Ready,
              OrigSafe
<1>2. CASE UNCHANGED vars
  BY <1>2 DEF vars, fsVars, callVars, bookVars, Inv, Typed, Filled, Booked, AllReady, Ready,
              OrigSafe
<1> QED BY <1>1, <1>2, StartInv, StepInv, CrashInv, EditInv DEF Next

LEMMA Invariance == Spec => []Inv
BY InitInv, NextInv, PTL DEF Spec

(* Any number of processes, inodes and blocks, whatever fails: every        *)
(* variable keeps its type, and no step reads or writes a file that is not  *)
(* open (TypeOK).                                                           *)
THEOREM TypeCorrect == Spec => []TypeOK
BY InvTypes, Invariance, PTL

(* Any number of processes side by side, with failures and kills at every   *)
(* step: demo_file_data_sync has removed its three temporary files by the   *)
(* time it returns, or else the unlink() of one of them has failed, which   *)
(* nobody checks (NoStrayTmp).                                              *)
THEOREM SyncTidiesUp == Spec => []NoStrayTmp
BY InvTypes, Invariance, PTL
-----------------------------------------------------------------------------
(* One call at a time.                                                      *)

(* The inodes and files of a call do not get into each other's way. *)
Apart(p) ==
  /\ tmp[p] # NoFile => tmp[p] # dir["dest"]
  /\ fpDest[p] # NoFile =>
       /\ pc[p] \notin {"idle", "access", "make", "creat", "open", "tidy"}
       /\ fpDest[p] # tmp[p]
       /\ pc[p] \in {"openorig", "mkstemp", "sig", "delta", "patch"} => fpDest[p] = dir["dest"]
  /\ fpOrig[p] # NoFile =>
       /\ pc[p] \notin {"idle", "access", "make", "creat", "open", "openorig", "tidy"}
       /\ fpOrig[p] \notin {tmp[p], fpTmpDest[p], dir["dest"]}
  /\ fpTmpDest[p] # NoFile => pc[p] \in {"patch", "unlink", "rename", "close"}
  /\ pc[p] \in {"patch", "unlink", "rename"} => fpTmpDest[p] = tmp[p]

(* How far the exchange of dest has got. *)
Exchange(p) ==
  /\ pc[p] # "idle" => rc[p] # "NONE"
  /\ pc[p] \notin {"idle", "close", "tidy"} => rc[p] = "SUCCESS" /\ late[p] = {}
  /\ pc[p] \in {"make", "creat", "rename"} => dir["dest"] = NoFile
  /\ pc[p] \in {"close", "tidy"} /\ rc[p] = "SUCCESS" => dir["dest"] # NoFile
  /\ pc[p] = "close" =>
       fpTmpDest[p] \in IF rc[p] = "SUCCESS" THEN {dir["dest"]} ELSE {tmp[p], NoFile}

(* What a call that has failed leaves dest as. *)
Kept(p) ==
  \/ Holds("dest") = before[p]
  \/ "rename" \in late[p] /\ dir["dest"] = NoFile
  \/ "chdir" \in late[p] /\ dir["dest"] # NoFile

Keeping(p) ==
  /\ pc[p] \in {"access", "make", "creat", "open", "openorig", "mkstemp", "sig", "delta",
                "patch", "unlink"} => Holds("dest") = before[p]
  /\ pc[p] \in {"close", "tidy", "idle"} /\ rc[p] = "ERROR" => Kept(p)

(* What orig has had for block k since the call of p began. *)
WasAt(p, k) == {c[k] : c \in {d \in since[p] : k \in DOMAIN d}}

FromOrig(p, s) == \A k \in DOMAIN s : s[k] \in WasAt(p, k)

(* n blocks are the whole of orig, if that has kept still. *)
Whole(p, n) == \A c \in since[p] : since[p] = {c} => n = Len(c)

OrigSeen(p) ==
  /\ Active(p) => data[dir["orig"]] \in since[p]
  /\ fpOrig[p] # NoFile => data[fpOrig[p]] \in since[p]

(* Nothing has been read yet. *)
Blank(p) ==
  /\ pc[p] \in {"idle", "access", "make", "creat", "open", "openorig", "mkstemp"} =>
       sig[p] = <<>> /\ pos[p] = 0
  /\ pc[p] \in {"idle", "access", "make", "creat", "open", "openorig", "mkstemp", "sig"} =>
       delta[p] = <<>>
  /\ pc[p] \in {"idle", "access", "make", "creat", "open", "openorig", "mkstemp", "sig", "delta"} =>
       buf[p] = <<>>
  /\ pc[p] \in {"sig", "delta"} => data[tmp[p]] = <<>>

Signed(p) ==
  /\ pc[p] = "sig" => pos[p] = Len(sig[p])
  /\ pc[p] \in {"sig", "delta", "patch"} /\ fpDest[p] # NoFile =>
       /\ Len(sig[p]) <= Len(data[fpDest[p]])
       /\ \A n \in DOMAIN sig[p] : sig[p][n] = data[fpDest[p]][n]

(* A delta can be applied to dest, and gives what has been read of orig. *)
DeltaOK(p) ==
  /\ pc[p] = "delta" => pos[p] = Len(delta[p])
  /\ pc[p] \in {"delta", "patch"} =>
       \A k \in DOMAIN delta[p] :
         /\ Applicable(delta[p][k], data[fpDest[p]])
         /\ Applied(delta[p][k], data[fpDest[p]]) \in WasAt(p, k)
  /\ pc[p] = "patch" => Whole(p, Len(delta[p])) /\ pos[p] <= Len(delta[p])

(* What the new file holds once it is closed. *)
Result(p) == data[fpTmpDest[p]] \o buf[p]

Patched(p) ==
  /\ pc[p] \in {"patch", "unlink", "rename"} \/ (pc[p] = "close" /\ rc[p] = "SUCCESS") =>
       /\ Len(data[fpTmpDest[p]]) + Len(buf[p]) = pos[p]
       /\ FromOrig(p, Result(p))
  /\ pc[p] \in {"unlink", "rename"} \/ (pc[p] = "close" /\ rc[p] = "SUCCESS") =>
       Whole(p, pos[p])

Synced(p) ==
  pc[p] \in {"tidy", "idle"} /\ rc[p] = "SUCCESS" /\ "flush" \notin late[p] =>
    /\ dir["dest"] # NoFile
    /\ FromOrig(p, data[dir["dest"]])
    /\ Whole(p, Len(data[dir["dest"]]))

SoloInv(p) ==
  /\ Inv /\ Apart(p) /\ Exchange(p) /\ Keeping(p) /\ OrigSeen(p)
  /\ Blank(p) /\ Signed(p) /\ DeltaOK(p) /\ Patched(p) /\ Synced(p)

(* What is known of a process before and, for the first line, after a step. *)
Base(p) == Typed /\ Filled /\ Booked /\ Ready(p) /\ OrigSafe
Solo(p) == Base(p) /\ Apart(p) /\ Exchange(p)

LEMMA StepActive ==
  ASSUME NEW p \in Proc, Step(p)
  PROVE  pc[p] # "idle"
BY DEF Step, AccessDest, MakeDest, CreatDest, OpenDest, OpenOrig, MakeTemps, RsyncFails,
       Signature, Delta, Patch, UnlinkDest, RenameTmp, CloseFiles, Tidy

LEMMA StepApart ==
  ASSUME NEW p \in Proc, Base(p), Apart(p), Step(p)
  PROVE  Apart(p)'
<1> USE NewInodeIsFree, NewInodeIsApart, ValueAssumption
    DEF Base, Typed, Ready, OrigSafe, Apart, Goto, Set, Fails, fsVars
<1>1. CASE AccessDest(p)
  BY <1>1 DEF AccessDest
<1>2. CASE MakeDest(p)
  BY <1>2 DEF MakeDest
<1>3. CASE CreatDest(p)
  BY <1>3, ZenonT(40) DEF CreatDest, Creat
<1>4. CASE OpenDest(p)
  BY <1>4 DEF OpenDest
<1>5. CASE OpenOrig(p)
  BY <1>5 DEF OpenOrig
<1>6. CASE MakeTemps(p)
  BY <1>6 DEF MakeTemps
<1>7. CASE RsyncFails(p)
  BY <1>7 DEF RsyncFails
<1>8. CASE Signature(p)
  BY <1>8 DEF Signature
<1>9. CASE Delta(p)
  BY <1>9 DEF Delta
<1>10. CASE Patch(p)
  BY <1>10 DEF Patch
<1>11. CASE UnlinkDest(p)
  BY <1>11 DEF UnlinkDest
<1>12. CASE RenameTmp(p)
  BY <1>12 DEF RenameTmp, Late
<1>13. CASE CloseFiles(p)
  BY <1>13 DEF CloseFiles, Late
<1>14. CASE Tidy(p)
  BY <1>14 DEF Tidy, Return, Late
<1> QED BY <1>1, <1>2, <1>3, <1>4, <1>5, <1>6, <1>7, <1>8, <1>9,
          <1>10, <1>11, <1>12, <1>13, <1>14 DEF Step

LEMMA StepExchange ==
  ASSUME NEW p \in Proc, Solo(p), Step(p)
  PROVE  Exchange(p)'
<1> USE NewInodeIsFree, ValueAssumption
    DEF Solo, Base, Typed, Ready, Apart, Exchange, Goto, Set, Fails, fsVars, bookVars
<1>1. CASE AccessDest(p)
  BY <1>1 DEF AccessDest
<1>2. CASE MakeDest(p)
  BY <1>2 DEF MakeDest
<1>3. CASE CreatDest(p)
  BY <1>3, ZenonT(40) DEF CreatDest, Creat
<1>4. CASE OpenDest(p)
  BY <1>4 DEF OpenDest
<1>5. CASE OpenOrig(p)
  BY <1>5 DEF OpenOrig
<1>6. CASE MakeTemps(p)
  BY <1>6 DEF MakeTemps
<1>7. CASE RsyncFails(p)
  BY <1>7 DEF RsyncFails
<1>8. CASE Signature(p)
  BY <1>8 DEF Signature
<1>9. CASE Delta(p)
  BY <1>9 DEF Delta
<1>10. CASE Patch(p)
  BY <1>10 DEF Patch
<1>11. CASE UnlinkDest(p)
  BY <1>11 DEF UnlinkDest
<1>12. CASE RenameTmp(p)
  BY <1>12 DEF RenameTmp, Late
<1>13. CASE CloseFiles(p)
  BY <1>13 DEF CloseFiles, Late
<1>14. CASE Tidy(p)
  BY <1>14 DEF Tidy, Return, Late
<1> QED BY <1>1, <1>2, <1>3, <1>4, <1>5, <1>6, <1>7, <1>8, <1>9,
          <1>10, <1>11, <1>12, <1>13, <1>14 DEF Step

(* Until the exchange dest stays as it is, and after one that has failed. *)
LEMMA StepKeepsDest ==
  ASSUME NEW p \in Proc, Solo(p), Step(p),
         pc[p] \notin {"creat", "unlink", "rename"}, pc[p] = "close" => rc[p] # "SUCCESS"
  PROVE  /\ dir'["dest"] = dir["dest"]
         /\ dir["dest"] # NoFile => data'[dir["dest"]] = data[dir["dest"]]
         /\ Holds("dest")' = Holds("dest")
<1>1. dir' = dir
  BY DEF Step, AccessDest, MakeDest, CreatDest, OpenDest, OpenOrig, MakeTemps, RsyncFails,
         Signature, Delta, Patch, UnlinkDest, RenameTmp, CloseFiles, Tidy, fsVars
<1>2. ASSUME dir["dest"] # NoFile PROVE data'[dir["dest"]] = data[dir["dest"]]
  <2>1. dir["dest"] \in Inode /\ dir["dest"] \notin Free
    BY <1>2 DEF Solo, Base, Typed, Free
  <2>2. dir["dest"] \notin Free'
    BY <1>1 DEF Free
  <2>3. pc[p] \in {"patch", "close"} => fpTmpDest[p] # dir["dest"]
    BY <1>2 DEF Solo, Base, Ready, Apart, Exchange
  <2> QED BY <2>1, <2>2, <2>3, StepKeeps DEF Solo, Base, Booked
<1> QED BY <1>1, <1>2 DEF Holds

LEMMA StepKeeping ==
  ASSUME NEW p \in Proc, Solo(p), Keeping(p), Step(p)
  PROVE  Keeping(p)'
<1>0. /\ before' = before /\ pc[p] # "idle" /\ Typed
      /\ late[p] \subseteq late'[p] /\ rc'[p] \in {rc[p], "ERROR"}
  <2>1. before' = before /\ ResultStep(p)
    BY StepChanges DEF Solo, Base, Booked
  <2> QED BY <2>1, StepActive DEF Solo, Base, Typed, ResultStep, Late, Set
<1>1. CASE CreatDest(p)
  <2>1. dir["dest"] = NoFile /\ Holds("dest") = before[p] /\ pc[p] = "creat" /\ before[p] = <<>>
    BY <1>1 DEF CreatDest, Solo, Exchange, Keeping, Holds
  <2>2. Holds("dest")' = <<>>
    <3>1. \/ UNCHANGED <<dir, data>>
          \/ Free # {} /\ dir' = Set(dir, "dest", NewInode) /\ data' = Set(data, NewInode, <<>>)
      BY <1>1, <2>1 DEF CreatDest, Creat
    <3>2. data \in [Inode -> Seq(Blk)] /\ dir \in [{"orig", "dest"} -> Inode \union {NoFile}]
      BY DEF Solo, Base, Typed, Filled
    <3>3. CASE UNCHANGED <<dir, data>>
      BY <2>1, <3>3 DEF Holds
    <3>4. CASE Free # {} /\ dir' = Set(dir, "dest", NewInode) /\ data' = Set(data, NewInode, <<>>)
      <4>1. dir'["dest"] = NewInode /\ data'[NewInode] = <<>>
        BY <3>2, <3>4, NewInodeIsFree DEF Set
      <4> QED BY <4>1 DEF Holds
    <3> QED BY <3>1, <3>3, <3>4
  <2> QED BY <1>0, <2>1, <2>2 DEF Keeping, Kept
<1>2. CASE UnlinkDest(p)
  <2>1. Holds("dest") = before[p]
    BY <1>2 DEF UnlinkDest, Keeping
  <2>2. pc'[p] = "rename" \/ (UNCHANGED <<dir, data>> /\ pc'[p] = "close")
    BY <1>0, <1>2 DEF UnlinkDest, Goto, Fails, Typed
  <2>3. pc'[p] # "rename" => Holds("dest")' = before'[p]
    BY <1>0, <2>1, <2>2 DEF Holds
  <2> QED BY <2>2, <2>3 DEF Keeping, Kept
<1>3. CASE RenameTmp(p)
  <2>1. dir["dest"] = NoFile /\ rc[p] = "SUCCESS"
    BY <1>3 DEF RenameTmp, Solo, Exchange
  <2>2. pc'[p] = "close"
    BY <1>0, <1>3 DEF RenameTmp, Goto, Fails, Typed
  <2>3. rc'[p] = "ERROR" => "rename" \in late'[p] /\ dir'["dest"] = NoFile
    BY <1>0, <1>3, <2>1 DEF RenameTmp, Late, Set, Typed
  <2> QED BY <2>2, <2>3 DEF Keeping, Kept
<1>4. CASE CloseFiles(p) \/ Tidy(p)
  <2>1. pc[p] \in {"close", "tidy"} /\ pc'[p] \in {"tidy", "idle"}
    BY <1>0, <1>4 DEF CloseFiles, Tidy, Goto, Return, Typed
  <2>2. CASE rc[p] = "ERROR"
    <3>1. Kept(p)
      BY <2>1, <2>2 DEF Keeping
    <3>2. dir'["dest"] = dir["dest"] /\ Holds("dest")' = Holds("dest")
      BY <2>1, <2>2, StepKeepsDest
    <3>3. Kept(p)'
      BY <1>0, <3>1, <3>2 DEF Kept
    <3> QED BY <2>1, <3>3 DEF Keeping
  <2>3. CASE rc[p] # "ERROR" /\ rc'[p] = "ERROR"
    <3>1. Tidy(p) /\ dir' = dir /\ "chdir" \in late'[p]
      <4>1. Tidy(p) /\ dir' = dir
        BY <1>0, <1>4, <2>3 DEF CloseFiles, Tidy
      <4>2. PICK failed \in SUBSET (may \intersect {"unlink", "chdir"}) :
              /\ late' = Set(late, p, late[p] \union failed)
              /\ rc' = IF "chdir" \in failed THEN Set(rc, p, "ERROR") ELSE rc
        BY <4>1 DEF Tidy
      <4>3. "chdir" \in failed
        BY <2>3, <4>2
      <4> QED BY <1>0, <4>1, <4>2, <4>3 DEF Set, Typed
    <3>2. dir["dest"] # NoFile
      <4>1. pc[p] = "tidy" /\ rc[p] # "ERROR"
        BY <2>3, <3>1 DEF Tidy
      <4>2. rc[p] # "NONE"
        BY <4>1 DEF Solo, Exchange
      <4> QED BY <1>0, <4>1, <4>2 DEF Solo, Exchange, Typed
    <3> QED BY <2>1, <3>1, <3>2 DEF Keeping, Kept
  <2>4. CASE rc'[p] # "ERROR"
    BY <2>1, <2>4 DEF Keeping
  <2> QED BY <2>2, <2>3, <2>4
<1>5. CASE ~(CreatDest(p) \/ UnlinkDest(p) \/ RenameTmp(p) \/ CloseFiles(p) \/ Tidy(p))
  <2>1. pc[p] \in {"access", "make", "open", "openorig", "mkstemp", "sig", "delta", "patch"}
    BY <1>5 DEF Step, AccessDest, MakeDest, OpenDest, OpenOrig, MakeTemps, RsyncFails,
         Signature, Delta, Patch
  <2>2. Holds("dest")' = before'[p]
    BY <1>0, <2>1, StepKeepsDest DEF Keeping
  <2> QED BY <2>2 DEF Keeping, Kept
<1> QED BY <1>1, <1>2, <1>3, <1>4, <1>5

-----------------------------------------------------------------------------
(* What a call makes of orig.                                               *)

LEMMA StepOrigSeen ==
  ASSUME NEW p \in Proc, Solo(p), OrigSeen(p), Step(p)
  PROVE  OrigSeen(p)'
<1>1. /\ Active(p) /\ since' = since /\ dir'["orig"] = dir["orig"] /\ dir["orig"] \in Inode
      /\ fpOrig'[p] \in {fpOrig[p], dir["orig"], NoFile}
  <2>1. DirStep(p) /\ FpStep(p) /\ since' = since
    BY StepChanges DEF Solo, Base, Booked
  <2> QED BY <2>1, StepActive DEF Active, Solo, Base, Typed, Booked, DirStep, FpStep, Set
<1>2. ASSUME NEW i \in {dir["orig"], fpOrig[p]}, i # NoFile, i \notin Free'
      PROVE  data'[i] = data[i]
  <2>1. i \in Inode /\ i \notin Free
    BY <1>2 DEF Solo, Base, Typed, Free
  <2>2. i # dir["dest"] /\ i # fpTmpDest[p]
    BY <1>2 DEF Solo, Base, OrigSafe, Apart
  <2> QED BY <1>2, <2>1, <2>2, StepKeeps DEF Solo, Base, Booked
<1>3. /\ dir["orig"] # NoFile /\ dir["orig"] \notin Free'
      /\ fpOrig'[p] # NoFile => fpOrig'[p] \notin Free'
  BY <1>1, ValueAssumption DEF Free
<1>4. data'[dir'["orig"]] \in since'[p]
  BY <1>1, <1>2, <1>3 DEF OrigSeen
<1>5. fpOrig'[p] # NoFile => data'[fpOrig'[p]] \in since'[p]
  BY <1>1, <1>2, <1>3, <1>4 DEF OrigSeen
<1> QED BY <1>4, <1>5 DEF OrigSeen

LEMMA StepBlank ==
  ASSUME Typed, Filled, NEW p \in Proc, Blank(p), Step(p)
  PROVE  Blank(p)'
<1> USE NewInodeIsFree DEF Typed, Filled, Blank, Goto, Set, Fails, fsVars
<1>1. CASE AccessDest(p)
  BY <1>1 DEF AccessDest
<1>2. CASE MakeDest(p)
  BY <1>2 DEF MakeDest
<1>3. CASE CreatDest(p)
  BY <1>3 DEF CreatDest, Creat
<1>4. CASE OpenDest(p)
  BY <1>4 DEF OpenDest
<1>5. CASE OpenOrig(p)
  BY <1>5 DEF OpenOrig
<1>6. CASE MakeTemps(p)
  BY <1>6 DEF MakeTemps
<1>7. CASE RsyncFails(p)
  BY <1>7 DEF RsyncFails
<1>8. CASE Signature(p)
  BY <1>8 DEF Signature
<1>9. CASE Delta(p)
  BY <1>9 DEF Delta
<1>10. CASE Patch(p)
  BY <1>10 DEF Patch
<1>11. CASE UnlinkDest(p)
  BY <1>11 DEF UnlinkDest
<1>12. CASE RenameTmp(p)
  BY <1>12 DEF RenameTmp, Late
<1>13. CASE CloseFiles(p)
  BY <1>13 DEF CloseFiles, Late
<1>14. CASE Tidy(p)
  BY <1>14 DEF Tidy, Return, Late
<1> QED BY <1>1, <1>2, <1>3, <1>4, <1>5, <1>6, <1>7, <1>8, <1>9,
          <1>10, <1>11, <1>12, <1>13, <1>14 DEF Step

LEMMA StepSigned ==
  ASSUME NEW p \in Proc, Solo(p), Blank(p), Signed(p), Step(p)
  PROVE  Signed(p)'
<1>0. Typed /\ Filled
  BY DEF Solo, Base
<1>1. CASE Signature(p)
  <2>1. /\ pc[p] = "sig" /\ fpDest[p] \in Inode /\ UNCHANGED <<data, fpDest>>
        /\ pos[p] = Len(sig[p]) /\ sig[p] \in Seq(Blk) /\ data[fpDest[p]] \in Seq(Blk)
        /\ Len(sig[p]) <= Len(data[fpDest[p]])
        /\ \A n \in DOMAIN sig[p] : sig[p][n] = data[fpDest[p]][n]
    BY <1>0, <1>1 DEF Signature, fsVars, Typed, Filled, Signed
  <2>2. CASE pos[p] < Len(data[fpDest[p]])
    <3> DEFINE x == data[fpDest[p]][pos[p] + 1]
    <3>1. /\ pos'[p] = pos[p] + 1 /\ pc'[p] = "sig" /\ sig'[p] = Append(sig[p], x)
      BY <1>0, <1>1, <2>1, <2>2 DEF Signature, Set, Typed, Filled
    <3>2. pos[p] + 1 \in 1..Len(data[fpDest[p]])
      BY <2>1, <2>2, LenProperties
    <3>3. x \in Blk
      BY <2>1, <3>2, ElementOfSeq
    <3> HIDE DEF x
    <3>4. /\ Len(sig'[p]) = pos[p] + 1 /\ DOMAIN sig'[p] = 1..(pos[p] + 1)
          /\ sig'[p][pos[p] + 1] = x /\ \A n \in 1..pos[p] : sig'[p][n] = sig[p][n]
          /\ DOMAIN sig[p] = 1..pos[p]
      BY <2>1, <3>1, <3>3, AppendProperties, LenProperties
    <3>5. ASSUME NEW n \in DOMAIN sig'[p] PROVE sig'[p][n] = data[fpDest[p]][n]
      <4>1. n \in 1..pos[p] \/ n = pos[p] + 1
        BY <1>0, <3>4 DEF Typed
      <4> QED BY <2>1, <3>4, <4>1 DEF x
    <3> QED BY <2>1, <3>1, <3>2, <3>4, <3>5 DEF Signed
  <2>3. CASE ~(pos[p] < Len(data[fpDest[p]]))
    <3>1. pc'[p] = "delta" /\ sig' = sig
      BY <1>0, <1>1, <2>3 DEF Signature, Goto, Typed
    <3> QED BY <2>1, <3>1 DEF Signed
  <2> QED BY <2>2, <2>3
<1>2. CASE MakeTemps(p)
  <2>1. sig'[p] = <<>> /\ pos'[p] = 0 /\ Len(<<>>) = 0 /\ DOMAIN <<>> = {}
        /\ pc'[p] \in {"sig", "close"} /\ fpDest' = fpDest
    BY <1>0, <1>2, EmptySeq DEF MakeTemps, Blank, Goto, Fails, Typed
  <2>2. fpDest'[p] # NoFile => Len(data'[fpDest'[p]]) \in Nat
    <3>1. data' \in [Inode -> Seq(Blk)]
      BY <1>0, StepData DEF Solo, Base, Booked
    <3> QED BY <1>0, <2>1, <3>1, LenProperties DEF Typed
  <2> QED BY <2>1, <2>2 DEF Signed
<1>3. CASE Delta(p) \/ Patch(p)
  <2>1. /\ pc[p] \in {"delta", "patch"} /\ pc'[p] \in {"delta", "patch", "unlink", "close"}
        /\ UNCHANGED <<sig, fpDest>> /\ fpDest[p] \in Inode
    BY <1>0, <1>3 DEF Delta, Patch, Goto, Fails, Typed, Solo, Base, Ready
  <2>2. data'[fpDest[p]] = data[fpDest[p]]
    <3>1. fpDest[p] = dir["dest"] /\ dir["dest"] # NoFile
      BY <2>1, ValueAssumption DEF Solo, Apart
    <3> QED BY <2>1, <3>1, StepKeepsDest
  <2> QED BY <2>1, <2>2 DEF Signed
<1>4. CASE ~(Signature(p) \/ MakeTemps(p) \/ Delta(p) \/ Patch(p))
  <2>1. pc'[p] \notin {"sig", "delta", "patch"}
    BY <1>0, <1>4, StepMoves
  <2> QED BY <2>1 DEF Signed
<1> QED BY <1>1, <1>2, <1>3, <1>4

(* A part of a delta made for block b of orig makes block b of dest. *)
LEMMA PartMakesBlock ==
  ASSUME NEW s \in Seq(Blk), NEW d \in Seq(Blk), Len(s) <= Len(d),
         \A n \in DOMAIN s : s[n] = d[n],
         NEW b \in Blk, NEW part \in Parts(s, b)
  PROVE  Applicable(part, d) /\ Applied(part, d) = b
<1>1. DOMAIN s = 1..Len(s) /\ Len(s) \in Nat /\ Len(d) \in Nat
  BY LenProperties
<1>2. CASE b \in ToSet(s)
  <2>1. PICK n \in DOMAIN s : s[n] = b /\ part = Copy(n)
    BY <1>2 DEF Parts
  <2>2. part.from = n /\ n # 0 /\ n <= Len(d)
    BY <1>1, <2>1 DEF Copy
  <2> QED BY <2>1, <2>2 DEF Applicable, Applied
<1>3. CASE b \notin ToSet(s)
  BY <1>1, <1>3 DEF Parts, Literal, Applicable, Applied
<1> QED BY <1>2, <1>3

(* What the delta of p makes of dest is from orig. *)
Makes(p, k) ==
  /\ Applicable(delta[p][k], data[fpDest[p]])
  /\ Applied(delta[p][k], data[fpDest[p]]) \in WasAt(p, k)

LEMMA StepDeltaOK ==
  ASSUME NEW p \in Proc, Solo(p), OrigSeen(p), Blank(p), Signed(p), DeltaOK(p), Step(p)
  PROVE  DeltaOK(p)'
<1>0. Typed /\ Filled /\ since' = since
  BY StepChanges DEF Solo, Base, Booked
<1>1. CASE Delta(p)
  <2>1. /\ pc[p] = "delta" /\ fpOrig[p] \in Inode /\ fpDest[p] \in Inode
        /\ UNCHANGED <<data, fpDest, sig>>
        /\ pos[p] = Len(delta[p]) /\ sig[p] \in Seq(Blk) /\ data[fpDest[p]] \in Seq(Blk)
        /\ data[fpOrig[p]] \in Seq(Blk) /\ delta[p] \in Seq(Part) /\ pos[p] \in Nat
        /\ data[fpOrig[p]] \in since[p]
        /\ DOMAIN delta[p] = 1..pos[p]
    BY <1>0, <1>1, LenProperties
       DEF Delta, fsVars, Typed, Filled, DeltaOK, Solo, Base, Ready, OrigSeen
  <2>2. \A k \in 1..pos[p] : Makes(p, k)
    BY <2>1 DEF DeltaOK, Makes
  <2>3. CASE pos[p] < Len(data[fpOrig[p]])
    <3>1. /\ pos[p] + 1 \in 1..Len(data[fpOrig[p]])
          /\ pos[p] + 1 \in DOMAIN data[fpOrig[p]]
          /\ data[fpOrig[p]][pos[p] + 1] \in Blk
      <4>1. pos[p] + 1 \in 1..Len(data[fpOrig[p]])
        BY <2>1, <2>3, LenProperties
      <4> QED BY <2>1, <4>1, ElementOfSeq, LenProperties
    <3>2. PICK part \in Parts(sig[p], data[fpOrig[p]][pos[p] + 1]) :
            /\ delta'[p] = Append(delta[p], part) /\ pos'[p] = pos[p] + 1 /\ pc'[p] = "delta"
      <4>1. ~(pos[p] >= Len(data[fpOrig[p]]))
        BY <2>1, <2>3, LenProperties
      <4>2. PICK part \in Parts(sig[p], data[fpOrig[p]][pos[p] + 1]) :
              delta' = Set(delta, p, Append(delta[p], part))
        BY <1>1, <4>1 DEF Delta
      <4>3. pos' = Set(pos, p, pos[p] + 1) /\ pc' = pc
        BY <1>1, <4>1 DEF Delta
      <4>4. delta'[p] = Append(delta[p], part) /\ pos'[p] = pos[p] + 1
        BY <1>0, <4>2, <4>3 DEF Set, Typed, Filled
      <4> QED BY <2>1, <4>2, <4>3, <4>4
    <3>3. /\ part \in Part /\ Applicable(part, data[fpDest[p]])
          /\ Applied(part, data[fpDest[p]]) = data[fpOrig[p]][pos[p] + 1]
      <4>1. /\ Len(sig[p]) <= Len(data[fpDest[p]])
            /\ \A n \in DOMAIN sig[p] : sig[p][n] = data[fpDest[p]][n]
        BY <2>1, ValueAssumption DEF Signed
      <4>2. \A s, d \in Seq(Blk), b \in Blk :
              Len(s) <= Len(d) /\ (\A n \in DOMAIN s : s[n] = d[n]) =>
                \A x \in Parts(s, b) : Applicable(x, d) /\ Applied(x, d) = b
        BY PartMakesBlock
      <4>3. part \in Part
        BY <2>1, <3>1, PartsType
      <4>4. \A x \in Parts(sig[p], data[fpOrig[p]][pos[p] + 1]) :
              /\ Applicable(x, data[fpDest[p]])
              /\ Applied(x, data[fpDest[p]]) = data[fpOrig[p]][pos[p] + 1]
        BY <2>1, <3>1, <4>1, <4>2
      <4> QED BY <4>3, <4>4
    <3>4. data[fpOrig[p]][pos[p] + 1] \in WasAt(p, pos[p] + 1)
      BY <2>1, <3>1 DEF WasAt
    <3>5. /\ Len(delta'[p]) = pos[p] + 1 /\ DOMAIN delta'[p] = 1..(pos[p] + 1)
          /\ delta'[p][pos[p] + 1] = part /\ \A k \in 1..pos[p] : delta'[p][k] = delta[p][k]
      BY <2>1, <3>2, <3>3, AppendProperties, LenProperties
    <3>6. \A k : WasAt(p, k)' = WasAt(p, k)
      BY <1>0 DEF WasAt
    <3>7. ASSUME NEW k \in DOMAIN delta'[p] PROVE Makes(p, k)'
      <4>1. k \in 1..pos[p] \/ k = pos[p] + 1
        BY <2>1, <3>5
      <4>2. CASE k \in 1..pos[p]
        BY <2>1, <2>2, <3>5, <3>6, <4>2 DEF Makes
      <4>3. CASE k = pos[p] + 1
        BY <2>1, <3>3, <3>4, <3>5, <3>6, <4>3 DEF Makes
      <4> QED BY <4>1, <4>2, <4>3
    <3> QED BY <3>2, <3>5, <3>7 DEF DeltaOK, Makes
  <2>4. CASE pos[p] >= Len(data[fpOrig[p]])
    <3>1. pc'[p] = "patch" /\ pos'[p] = 0 /\ delta' = delta
      <4>1. ~(pos[p] < Len(data[fpOrig[p]]))
        BY <2>1, <2>4, LenProperties
      <4> QED BY <1>0, <1>1, <4>1 DEF Delta, Set, Goto, Typed
    <3>2. ASSUME NEW c \in since[p], since[p] = {c} PROVE Len(delta[p]) = Len(c)
      <4>1. data[fpOrig[p]] = c /\ Len(c) \in Nat /\ DOMAIN c = 1..Len(c)
        BY <2>1, <3>2, LenProperties
      <4>2. CASE pos[p] = 0
        BY <2>1, <2>4, <4>1, <4>2
      <4>3. CASE pos[p] # 0
        <5>1. pos[p] \in 1..pos[p]
          BY <2>1, <4>3
        <5>2. pos[p] \in DOMAIN c
          BY <2>2, <3>2, <5>1 DEF Makes, WasAt
        <5> QED BY <2>1, <2>4, <4>1, <5>2
      <4> QED BY <4>2, <4>3
    <3>3. \A k : Makes(p, k)' <=> Makes(p, k)
      BY <1>0, <2>1, <3>1 DEF Makes, WasAt
    <3>4. \A k \in DOMAIN delta'[p] : Makes(p, k)'
      BY <2>1, <2>2, <3>1, <3>3
    <3>5. Whole(p, Len(delta[p]))'
      BY <1>0, <3>1, <3>2 DEF Whole
    <3>6. 0 <= Len(delta'[p])
      BY <2>1, <3>1
    <3> QED BY <3>1, <3>4, <3>5, <3>6 DEF DeltaOK, Makes
  <2> QED BY <2>1, <2>3, <2>4, LenProperties
<1>2. CASE Signature(p)
  <2>1. delta'[p] = <<>> /\ Len(<<>>) = 0 /\ DOMAIN <<>> = {}
        /\ (pc'[p] = "sig" \/ (pc'[p] = "delta" /\ pos'[p] = 0))
    BY <1>0, <1>2, EmptySeq DEF Signature, Blank, Goto, Set, Typed
  <2> QED BY <2>1 DEF DeltaOK
<1>3. CASE Patch(p)
  <2>1. /\ pc[p] = "patch" /\ pc'[p] \in {"patch", "unlink", "close"}
        /\ UNCHANGED <<delta, fpDest>> /\ fpDest[p] \in Inode
        /\ pos'[p] = pos[p] \/ (pos'[p] = pos[p] + 1 /\ pos[p] < Len(delta[p]))
    BY <1>0, <1>3 DEF Patch, Goto, Set, Fails, Typed, Solo, Base, Ready
  <2>2. data'[fpDest[p]] = data[fpDest[p]]
    <3>1. fpDest[p] = dir["dest"] /\ dir["dest"] # NoFile
      BY <2>1, ValueAssumption DEF Solo, Apart
    <3> QED BY <2>1, <3>1, StepKeepsDest
  <2>3. \A k : Makes(p, k)' <=> Makes(p, k)
    BY <1>0, <2>1, <2>2 DEF Makes, WasAt
  <2>4. pos'[p] <= Len(delta[p])
    <3>1. pos[p] \in Nat /\ Len(delta[p]) \in Nat /\ pos[p] <= Len(delta[p])
      BY <1>0, <2>1, LenProperties DEF Typed, Filled, DeltaOK
    <3> QED BY <2>1, <3>1
  <2> QED BY <1>0, <2>1, <2>3, <2>4 DEF DeltaOK, Whole, Makes
<1>4. CASE ~(Signature(p) \/ Delta(p) \/ Patch(p))
  <2>1. pc'[p] \notin {"delta", "patch"}
    BY <1>0, <1>4, StepMoves
  <2> QED BY <2>1 DEF DeltaOK
<1> QED BY <1>1, <1>2, <1>3, <1>4

LEMMA PatchGoesOn ==
  ASSUME NEW p \in Proc, Patch(p), Patching(p)
  PROVE  /\ pos' = Set(pos, p, pos[p] + 1)
         /\ \/ data' = data /\ buf' = Set(buf, p, Append(buf[p], Piece(p)))
            \/ /\ data' = Set(data, fpTmpDest[p],
                              Written(data[fpTmpDest[p]],
                                      pos[p] + 1 - Len(Append(buf[p], Piece(p))),
                                      Append(buf[p], Piece(p)), Zeros))
               /\ buf' = Set(buf, p, <<>>)
BY DEF Patch, Patching, Piece, NextPart, Set

(* The new file, with its buffer, grows by the block that the next part of  *)
(* the delta makes.                                                         *)
LEMMA PatchAppends ==
  ASSUME Typed, Filled, NEW p \in Proc, Ready(p), Patch(p), Patching(p),
         Len(data[fpTmpDest[p]]) + Len(buf[p]) = pos[p]
  PROVE  /\ Result(p)' = Append(Result(p), Piece(p))
         /\ Result(p) \in Seq(Blk) /\ Len(Result(p)) = pos[p]
         /\ Len(data'[fpTmpDest'[p]]) + Len(buf'[p]) = pos'[p]
         /\ pos'[p] = pos[p] + 1 /\ fpTmpDest' = fpTmpDest
<1>0. fpTmpDest' = fpTmpDest
  BY DEF Patch
<1>1. /\ fpTmpDest[p] \in Inode /\ Piece(p) \in Blk /\ pos[p] \in Nat
      /\ data[fpTmpDest[p]] \in Seq(Blk) /\ buf[p] \in Seq(Blk)
  BY PieceType DEF Typed, Filled
<1>2. PICK b : b = Append(buf[p], Piece(p))
  OBVIOUS
<1>3. PICK r : r = data[fpTmpDest[p]] \o b
  OBVIOUS
<1>4. /\ b \in Seq(Blk) /\ Len(b) = Len(buf[p]) + 1
      /\ r \in Seq(Blk) /\ r = Append(Result(p), Piece(p))
      /\ Result(p) \in Seq(Blk) /\ Len(Result(p)) = pos[p]
  <2>1. b \in Seq(Blk) /\ Len(b) = Len(buf[p]) + 1
    BY <1>1, <1>2, AppendProperties
  <2>2. Result(p) \in Seq(Blk) /\ Len(Result(p)) = pos[p]
    BY <1>1, ConcatProperties DEF Result
  <2>3. r = Append(Result(p), Piece(p))
    <3>1. \A s, u \in Seq(Blk), v \in Blk : s \o Append(u, v) = Append(s \o u, v)
      BY ConcatAppend
    <3>2. data[fpTmpDest[p]] \o Append(buf[p], Piece(p)) =
            Append(data[fpTmpDest[p]] \o buf[p], Piece(p))
      BY <1>1, <3>1
    <3> QED BY <1>2, <1>3, <3>2 DEF Result
  <2> QED BY <1>1, <2>1, <2>2, <2>3, AppendProperties
<1>5. Written(data[fpTmpDest[p]], pos[p] + 1 - Len(b), b, Zeros) = r
  <2>1. Written(data[fpTmpDest[p]], Len(data[fpTmpDest[p]]), b, Zeros) = data[fpTmpDest[p]] \o b
    BY <1>1, <1>4, WrittenAppends
  <2>2. \A i, j, k \in Nat : i + j = k => k + 1 - (j + 1) = i
    OBVIOUS
  <2>3. pos[p] + 1 - Len(b) = Len(data[fpTmpDest[p]])
    <3>1. Len(data[fpTmpDest[p]]) \in Nat /\ Len(buf[p]) \in Nat
      BY <1>1, LenProperties
    <3>2. pos[p] + 1 - (Len(buf[p]) + 1) = Len(data[fpTmpDest[p]])
      BY <1>1, <2>2, <3>1
    <3> QED BY <1>4, <3>2
  <2> QED BY <1>3, <2>1, <2>3
<1>6. /\ pos'[p] = pos[p] + 1
      /\ \/ data'[fpTmpDest[p]] = data[fpTmpDest[p]] /\ buf'[p] = b
         \/ data'[fpTmpDest[p]] = r /\ buf'[p] = <<>>
  <2>1. /\ pos' = Set(pos, p, pos[p] + 1)
        /\ \/ data' = data /\ buf' = Set(buf, p, b)
           \/ data' = Set(data, fpTmpDest[p], r) /\ buf' = Set(buf, p, <<>>)
    BY <1>2, <1>5, PatchGoesOn, Zenon
  <2> QED BY <1>1, <2>1 DEF Set, Typed, Filled
<1>7. Result(p)' = r /\ Len(data'[fpTmpDest'[p]]) + Len(buf'[p]) = pos'[p]
  <2>1. CASE data'[fpTmpDest[p]] = data[fpTmpDest[p]] /\ buf'[p] = b
    <3>1. \A i, j \in Nat : i + (j + 1) = i + j + 1
      OBVIOUS
    <3>2. Len(data[fpTmpDest[p]]) + Len(b) = pos[p] + 1
      <4>1. Len(data[fpTmpDest[p]]) \in Nat /\ Len(buf[p]) \in Nat
        BY <1>1, LenProperties
      <4> QED BY <1>4, <3>1, <4>1
    <3> QED BY <1>0, <1>3, <1>6, <2>1, <3>2 DEF Result
  <2>2. CASE data'[fpTmpDest[p]] = r /\ buf'[p] = <<>>
    <3>1. r \o <<>> = r /\ Len(r) = pos[p] + 1
      BY <1>1, <1>4, ConcatEmptySeq, AppendProperties
    <3>2. Len(<<>>) = 0 /\ Len(r) + 0 = Len(r)
      BY <1>1, <3>1
    <3> QED BY <1>0, <1>6, <2>2, <3>1, <3>2 DEF Result
  <2> QED BY <1>6, <2>1, <2>2
<1> QED BY <1>0, <1>4, <1>6, <1>7

LEMMA PatchingOn ==
  ASSUME NEW p \in Proc, Solo(p), DeltaOK(p), Patched(p), Patch(p), Patching(p)
  PROVE  /\ Len(data'[fpTmpDest'[p]]) + Len(buf'[p]) = pos'[p]
         /\ FromOrig(p, Result(p))'
<1>0. Typed /\ Filled /\ Ready(p) /\ pc[p] = "patch" /\ since' = since
  BY DEF Solo, Base, Patching, Patch, bookVars
<1>1. /\ Piece(p) \in Blk /\ pos[p] \in Nat
      /\ pos[p] + 1 \in 1..Len(delta[p]) /\ DOMAIN delta[p] = 1..Len(delta[p])
  <2>1. delta[p] \in Seq(Part)
    BY <1>0 DEF Filled
  <2> QED BY <1>0, <2>1, PieceType, LenProperties DEF Typed, Filled
<1>2. Piece(p) \in WasAt(p, pos[p] + 1)
  BY <1>0, <1>1 DEF DeltaOK, Piece, NextPart
<1>3. Len(data[fpTmpDest[p]]) + Len(buf[p]) = pos[p] /\ FromOrig(p, Result(p))
  BY <1>0 DEF Patched
<1>4. /\ Result(p)' = Append(Result(p), Piece(p))
      /\ Result(p) \in Seq(Blk) /\ Len(Result(p)) = pos[p]
      /\ Len(data'[fpTmpDest'[p]]) + Len(buf'[p]) = pos'[p]
  BY <1>0, <1>3, PatchAppends
<1>5. PICK r : r = Result(p)'
  OBVIOUS
<1>6. /\ r[pos[p] + 1] = Piece(p) /\ DOMAIN r = 1..(pos[p] + 1)
      /\ \A k \in 1..pos[p] : r[k] = Result(p)[k]
      /\ DOMAIN Result(p) = 1..pos[p]
  BY <1>1, <1>4, <1>5, AppendProperties, LenProperties
<1>7. ASSUME NEW k \in DOMAIN r PROVE r[k] \in WasAt(p, k)
  <2>1. k = pos[p] + 1 \/ k \in 1..pos[p]
    BY <1>1, <1>6
  <2> QED BY <1>2, <1>3, <1>6, <2>1 DEF FromOrig
<1>8. \A k : WasAt(p, k)' = WasAt(p, k)
  BY <1>0 DEF WasAt
<1> QED BY <1>4, <1>5, <1>7, <1>8 DEF FromOrig

LEMMA StepPatched ==
  ASSUME NEW p \in Proc, Solo(p), Blank(p), DeltaOK(p), Patched(p), Step(p)
  PROVE  Patched(p)'
<1>0. Typed /\ Filled /\ since' = since
  BY StepChanges DEF Solo, Base, Booked
<1>1. CASE Patch(p)
  <2>1. CASE Patching(p)
    <3>1. pc'[p] = "patch"
      BY <1>0, <1>1, <2>1 DEF Patch, Patching, NextPart
    <3> QED BY <1>1, <2>1, <3>1, PatchingOn DEF Patched
  <2>2. CASE ~Patching(p)
    <3>1. pc[p] = "patch" /\ UNCHANGED <<data, buf, pos, fpTmpDest>>
          /\ \/ pc'[p] = "close" /\ rc'[p] = "ERROR"
             \/ pc'[p] = "unlink" /\ pos[p] = Len(delta[p])
      BY <1>0, <1>1, <2>2 DEF Patch, Patching, NextPart, Goto, Fails, Set, Typed
    <3>2. Result(p)' = Result(p) /\ \A k : WasAt(p, k)' = WasAt(p, k)
      BY <1>0, <3>1 DEF Result, WasAt
    <3> QED BY <1>0, <3>1, <3>2 DEF Patched, DeltaOK, Whole, FromOrig
  <2> QED BY <2>1, <2>2
<1>2. CASE Delta(p)
  <2>1. /\ pc[p] = "delta" /\ buf'[p] = <<>> /\ data' = data /\ data[tmp[p]] = <<>>
        /\ \/ pc'[p] = "delta"
           \/ pc'[p] = "patch" /\ pos'[p] = 0 /\ fpTmpDest'[p] = tmp[p]
    BY <1>0, <1>2 DEF Delta, Blank, fsVars, Goto, Set, Typed
  <2>2. <<>> \o <<>> = <<>> /\ DOMAIN <<>> = {} /\ Len(<<>>) + Len(<<>>) = 0
    BY EmptySeq, ConcatEmptySeq
  <2> QED BY <2>1, <2>2 DEF Patched, FromOrig, Result
<1>3. CASE UnlinkDest(p) \/ RenameTmp(p)
  <2>1. /\ pc[p] \in {"unlink", "rename"} /\ UNCHANGED <<data, buf, pos, fpTmpDest>>
        /\ pc'[p] \in {"rename", "close"}
    BY <1>0, <1>3 DEF UnlinkDest, RenameTmp, Goto, Fails, Typed
  <2>2. Result(p)' = Result(p) /\ \A k : WasAt(p, k)' = WasAt(p, k)
    BY <1>0, <2>1 DEF Result, WasAt
  <2> QED BY <1>0, <2>1, <2>2 DEF Patched, Whole, FromOrig
<1>4. CASE ~(Patch(p) \/ Delta(p) \/ UnlinkDest(p) \/ RenameTmp(p))
  <2>1. /\ pc'[p] \notin {"patch", "unlink", "rename"}
        /\ pc'[p] = "close" => rc'[p] = "ERROR"
    BY <1>0, <1>4, StepMoves
  <2> QED BY <2>1 DEF Patched
<1> QED BY <1>1, <1>2, <1>3, <1>4

(* What is left in the buffer ends the new file. *)
LEMMA CloseAppends ==
  ASSUME Typed, Filled, NEW p \in Proc, fpTmpDest[p] # NoFile,
         Len(data[fpTmpDest[p]]) + Len(buf[p]) = pos[p]
  PROVE  /\ Written(data[fpTmpDest[p]], pos[p] - Len(buf[p]), buf[p], Zeros) = Result(p)
         /\ Result(p) \in Seq(Blk) /\ Len(Result(p)) = pos[p]
<1>1. data[fpTmpDest[p]] \in Seq(Blk) /\ buf[p] \in Seq(Blk) /\ pos[p] \in Nat
  BY DEF Typed, Filled
<1>2. pos[p] - Len(buf[p]) = Len(data[fpTmpDest[p]])
  <2>1. Len(data[fpTmpDest[p]]) \in Nat /\ Len(buf[p]) \in Nat
    BY <1>1, LenProperties
  <2>2. \A i, j, k \in Nat : i + j = k => k - j = i
    OBVIOUS
  <2> QED BY <1>1, <2>1, <2>2
<1>3. Written(data[fpTmpDest[p]], Len(data[fpTmpDest[p]]), buf[p], Zeros) = Result(p)
  BY <1>1, WrittenAppends DEF Result
<1>4. Result(p) \in Seq(Blk) /\ Len(Result(p)) = pos[p]
  <2>1. \A s, u \in Seq(Blk) : s \o u \in Seq(Blk) /\ Len(s \o u) = Len(s) + Len(u)
    BY ConcatProperties
  <2> QED BY <1>1, <2>1 DEF Result
<1> QED BY <1>2, <1>3, <1>4

LEMMA StepSynced ==
  ASSUME NEW p \in Proc, Solo(p), Patched(p), Synced(p), Step(p)
  PROVE  Synced(p)'
<1> SUFFICES ASSUME pc'[p] \in {"tidy", "idle"}, rc'[p] = "SUCCESS", "flush" \notin late'[p]
             PROVE  /\ dir'["dest"] # NoFile
                    /\ FromOrig(p, data[dir["dest"]])'
                    /\ Whole(p, Len(data[dir["dest"]]))'
  BY DEF Synced
<1>0. Typed /\ Filled /\ since' = since /\ \A k : WasAt(p, k)' = WasAt(p, k)
  BY StepChanges DEF Solo, Base, Booked, WasAt
<1>1. CloseFiles(p) \/ Tidy(p)
  BY <1>0, StepMoves
<1>2. CASE CloseFiles(p)
  <2>1. /\ pc[p] = "close" /\ rc[p] = "SUCCESS" /\ dir' = dir
        /\ data' = IF fpTmpDest[p] = NoFile THEN data
                   ELSE [data EXCEPT ![fpTmpDest[p]] =
                           Written(@, pos[p] - Len(buf[p]), buf[p], Zeros)]
    BY <1>0, <1>2 DEF CloseFiles, Late, Set, Typed
  <2>2. dir["dest"] # NoFile /\ fpTmpDest[p] = dir["dest"] /\ fpTmpDest[p] \in Inode
    BY <1>0, <2>1 DEF Solo, Exchange, Typed
  <2>3. /\ Len(data[fpTmpDest[p]]) + Len(buf[p]) = pos[p]
        /\ FromOrig(p, Result(p)) /\ Whole(p, pos[p])
    BY <2>1 DEF Patched
  <2>4. data'[dir'["dest"]] = Result(p) /\ Len(Result(p)) = pos[p]
    <3>1. Written(data[fpTmpDest[p]], pos[p] - Len(buf[p]), buf[p], Zeros) = Result(p)
          /\ Len(Result(p)) = pos[p]
      <4>1. fpTmpDest[p] # NoFile
        BY <2>2
      <4> QED BY <1>0, <2>3, <4>1, CloseAppends
    <3>2. data \in [Inode -> Seq(Blk)]
      BY <1>0 DEF Filled
    <3> QED BY <2>1, <2>2, <3>1, <3>2
  <2> QED BY <1>0, <2>1, <2>2, <2>3, <2>4 DEF FromOrig, Whole
<1>3. CASE Tidy(p)
  <2>1. pc[p] = "tidy" /\ rc[p] = "SUCCESS" /\ "flush" \notin late[p]
    <3>1. PICK failed \in SUBSET (may \intersect {"unlink", "chdir"}) :
            /\ late' = Set(late, p, late[p] \union failed)
            /\ rc' = IF "chdir" \in failed THEN Set(rc, p, "ERROR") ELSE rc
      BY <1>3 DEF Tidy
    <3>2. late'[p] = late[p] \union failed
      BY <1>0, <3>1 DEF Set, Typed
    <3> QED BY <1>0, <1>3, <3>1, <3>2 DEF Tidy, Set, Typed
  <2>2. dir["dest"] # NoFile
    BY <2>1 DEF Synced
  <2>3. dir'["dest"] = dir["dest"] /\ data'[dir["dest"]] = data[dir["dest"]]
    BY <2>1, <2>2, StepKeepsDest
  <2> QED BY <1>0, <2>1, <2>3 DEF Synced, FromOrig, Whole
<1> QED BY <1>1, <1>2, <1>3

-----------------------------------------------------------------------------
(* One call at a time: the invariant and what it says.                      *)

LEMMA InitSolo ==
  ASSUME NEW p \in Proc, Init
  PROVE  SoloInv(p)
<1>1. Inv
  BY InitInv
<1>2. /\ pc[p] = "idle" /\ rc[p] = "NONE" /\ tmp[p] = NoFile /\ pos[p] = 0
      /\ fpDest[p] = NoFile /\ fpOrig[p] = NoFile /\ fpTmpDest[p] = NoFile
      /\ sig[p] = <<>> /\ delta[p] = <<>> /\ buf[p] = <<>>
  BY DEF Init
<1>3. Apart(p) /\ Exchange(p) /\ Keeping(p) /\ OrigSeen(p) /\ Blank(p)
  BY <1>2 DEF Apart, Exchange, Keeping, OrigSeen, Blank, Active
<1>4. Signed(p) /\ DeltaOK(p) /\ Patched(p) /\ Synced(p)
  BY <1>2 DEF Signed, DeltaOK, Patched, Synced
<1> QED BY <1>1, <1>3, <1>4 DEF SoloInv

LEMMA SoloInvParts ==
  ASSUME NEW p \in Proc, SoloInv(p)
  PROVE  Solo(p) /\ Base(p) /\ Typed /\ Filled /\ Booked
BY DEF SoloInv, Inv, AllReady, Solo, Base

LEMMA StepSolo ==
  ASSUME NEW p \in Proc, SoloInv(p), Step(p)
  PROVE  SoloInv(p)'
<1>1. /\ Solo(p) /\ Base(p) /\ Inv /\ Apart(p) /\ Exchange(p) /\ Keeping(p) /\ OrigSeen(p)
      /\ Blank(p) /\ Signed(p) /\ DeltaOK(p) /\ Patched(p) /\ Synced(p)
  BY SoloInvParts DEF SoloInv
<1>2. Inv' /\ Apart(p)' /\ Exchange(p)' /\ Keeping(p)' /\ OrigSeen(p)' /\ Blank(p)'
  BY <1>1, SoloInvParts, StepInv, StepApart, StepExchange, StepKeeping, StepOrigSeen, StepBlank
<1>3. Signed(p)' /\ DeltaOK(p)' /\ Patched(p)' /\ Synced(p)'
  BY <1>1, StepSigned, StepDeltaOK, StepPatched, StepSynced
<1> QED BY <1>2, <1>3 DEF SoloInv

(* What the owner does leaves alone what a call has to do with, but for     *)
(* orig, and gives that nothing that has not been seen.                     *)
LEMMA EditKeeps ==
  ASSUME NEW p \in Proc, SoloInv(p), Edit
  PROVE  /\ dir'["dest"] = dir["dest"] /\ Holds("dest")' = Holds("dest")
         /\ dir["dest"] # NoFile => data'[dir["dest"]] = data[dir["dest"]]
         /\ tmp[p] # NoFile => data'[tmp[p]] = data[tmp[p]]
         /\ fpTmpDest[p] # NoFile => data'[fpTmpDest[p]] = data[fpTmpDest[p]]
         /\ dir'["orig"] = dir["orig"] \/ dir'["orig"] \notin {tmp[p], fpOrig[p], fpTmpDest[p]}
         /\ since[p] \subseteq since'[p]
         /\ pc[p] = "idle" => since'[p] = since[p]
         /\ Active(p) => data'[dir'["orig"]] \in since'[p]
         /\ fpOrig[p] # NoFile => \/ data'[fpOrig[p]] = data[fpOrig[p]]
                                  \/ data'[fpOrig[p]] \in since'[p]
<1>1. Typed /\ Filled /\ Booked /\ OrigSafe /\ Apart(p)
  BY SoloInvParts DEF SoloInv, Base
<1>2. PICK c \in Content :
           /\ dir'["dest"] = dir["dest"] /\ dir'["orig"] \in Inode /\ data'[dir'["orig"]] = c
           /\ \/ dir'["orig"] = dir["orig"]
              \/ Free # {} /\ dir'["orig"] = NewInode
           /\ \A i \in Inode \ {dir'["orig"]} : data'[i] = data[i]
           /\ since' = [q \in Proc |-> IF Active(q) THEN since[q] \union {c} ELSE since[q]]
  BY <1>1, EditStep
<1>3. /\ dir'["orig"] # dir["dest"] /\ dir'["orig"] \notin {tmp[p], fpTmpDest[p]}
      /\ dir'["orig"] = dir["orig"] \/ dir'["orig"] # fpOrig[p]
  BY <1>1, <1>2, NewInodeIsApart DEF OrigSafe
<1>4. fpOrig[p] # NoFile => Active(p)
  BY <1>1 DEF Apart, Active
<1>5. Holds("dest")' = Holds("dest")
  BY <1>1, <1>2, <1>3 DEF Holds, Typed
<1> QED BY <1>1, <1>2, <1>3, <1>4, <1>5 DEF Typed, Active

LEMMA EditSolo ==
  ASSUME NEW p \in Proc, SoloInv(p), Edit
  PROVE  SoloInv(p)'
<1>0. /\ UNCHANGED <<tmp, pc, fpDest, fpOrig, fpTmpDest, sig, delta, pos, buf, rc, late, before>>
      /\ Inv'
  BY EditInv DEF Edit, callVars, SoloInv
<1>1. /\ Typed /\ Booked /\ OrigSafe /\ Ready(p) /\ Apart(p) /\ Exchange(p)
  BY SoloInvParts DEF SoloInv, Base
<1>2. Apart(p)'
  BY <1>0, <1>1, EditKeeps DEF Apart
<1>3. Exchange(p)' /\ Keeping(p)'
  BY <1>0, <1>1, EditKeeps DEF Exchange, Keeping, Kept, SoloInv
<1>4. OrigSeen(p)'
  BY <1>0, EditKeeps DEF OrigSeen, Active, SoloInv
<1>5. Blank(p)'
  BY <1>0, <1>1, EditKeeps DEF Blank, Ready, SoloInv
<1>6. \A k : WasAt(p, k) \subseteq WasAt(p, k)'
  BY EditKeeps DEF WasAt
<1>7. \A n : Active(p) /\ Whole(p, n) => Whole(p, n)'
  <2> SUFFICES ASSUME NEW n, Active(p), Whole(p, n), NEW c \in since'[p], since'[p] = {c}
               PROVE  n = Len(c)
    BY DEF Whole
  <2>1. since[p] # {} /\ since[p] \subseteq {c}
    BY EditKeeps DEF OrigSeen, SoloInv
  <2>2. since[p] = {c}
    BY <2>1
  <2> QED BY <2>2 DEF Whole
<1>8. \A n : Whole(p, n) => Whole(p, n)'
  BY <1>7, EditKeeps DEF Whole, Active
<1>9. pc[p] \in {"sig", "delta", "patch"} /\ fpDest[p] # NoFile =>
        data'[fpDest[p]] = data[fpDest[p]]
  BY <1>1, EditKeeps DEF Apart
<1>10. Signed(p)'
  BY <1>0, <1>9 DEF Signed, SoloInv
<1>11. DeltaOK(p)'
  <2>1. pc[p] \in {"delta", "patch"} => fpDest[p] # NoFile
    BY <1>1 DEF Ready
  <2> QED BY <1>0, <1>6, <1>8, <1>9, <2>1 DEF DeltaOK, SoloInv
<1>12. Patched(p)'
  <2> SUFFICES ASSUME \/ pc[p] \in {"patch", "unlink", "rename"}
                      \/ pc[p] = "close" /\ rc[p] = "SUCCESS"
               PROVE  Patched(p)'
    BY <1>0 DEF Patched
  <2>1. fpTmpDest[p] # NoFile
    BY <1>1 DEF Apart, Exchange, Ready
  <2>2. data'[fpTmpDest[p]] = data[fpTmpDest[p]] /\ Result(p)' = Result(p)
    BY <1>0, <2>1, EditKeeps DEF Result
  <2> QED BY <1>0, <1>6, <1>8, <2>2 DEF Patched, FromOrig, SoloInv
<1>13. Synced(p)'
  BY <1>0, <1>6, <1>8, EditKeeps DEF Synced, FromOrig, SoloInv
<1> QED BY <1>0, <1>2, <1>3, <1>4, <1>5, <1>10, <1>11, <1>12, <1>13 DEF SoloInv

LEMMA StartSolo ==
  ASSUME NEW p \in Proc, SoloInv(p), Start(p)
  PROVE  SoloInv(p)'
<1>0. Typed /\ Booked /\ Inv /\ Apart(p) /\ Exchange(p) /\ Blank(p) /\ OrigSeen(p)
  BY SoloInvParts DEF SoloInv
<1>1. /\ UNCHANGED <<dir, tmp, data, fpDest, fpOrig, fpTmpDest, sig, delta, pos, buf>>
      /\ pc[p] = "idle" /\ pc'[p] = "access" /\ rc'[p] = "SUCCESS" /\ late'[p] = {}
      /\ since'[p] = {data[dir["orig"]]} /\ before'[p] = Holds("dest")
  BY <1>0 DEF Start, Holds, Set, Goto, fsVars, Typed, Booked
<1>2. Apart(p)' /\ Exchange(p)' /\ Blank(p)' /\ OrigSeen(p)'
  BY <1>0, <1>1 DEF Apart, Exchange, Blank, OrigSeen, Active
<1>3. Keeping(p)'
  <2>1. Holds("dest")' = Holds("dest")
    BY <1>1 DEF Holds
  <2> QED BY <1>1, <2>1 DEF Keeping
<1>4. Signed(p)' /\ DeltaOK(p)' /\ Patched(p)' /\ Synced(p)'
  BY <1>1 DEF Signed, DeltaOK, Patched, Synced
<1> QED BY <1>0, <1>2, <1>3, <1>4, StartInv DEF SoloInv

LEMMA CrashSolo ==
  ASSUME NEW p \in Proc, SoloInv(p), Crash(p)
  PROVE  SoloInv(p)'
<1>1. /\ pc'[p] = "idle" /\ rc'[p] = "NONE" /\ tmp'[p] = NoFile /\ pos'[p] = 0
      /\ fpDest'[p] = NoFile /\ fpOrig'[p] = NoFile /\ fpTmpDest'[p] = NoFile
      /\ sig'[p] = <<>> /\ delta'[p] = <<>> /\ buf'[p] = <<>>
  BY SoloInvParts DEF Crash, Return, Goto, Set, Typed, Filled
<1>2. Apart(p)' /\ Exchange(p)' /\ Keeping(p)' /\ OrigSeen(p)' /\ Blank(p)'
  BY <1>1 DEF Apart, Exchange, Keeping, OrigSeen, Blank, Active
<1>3. Signed(p)' /\ DeltaOK(p)' /\ Patched(p)' /\ Synced(p)'
  BY <1>1 DEF Signed, DeltaOK, Patched, Synced
<1> QED BY <1>2, <1>3, CrashInv DEF SoloInv

LEMMA StutterSolo ==
  ASSUME NEW p \in Proc, SoloInv(p), Recover \/ UNCHANGED vars, Inv'
  PROVE  SoloInv(p)'
<1>1. UNCHANGED <<dir, tmp, data, pc, fpDest, fpOrig, fpTmpDest, sig, delta, pos, buf, rc,
                  late, since, before>>
  BY DEF Recover, vars, fsVars, callVars, bookVars
<1>2. Holds("dest")' = Holds("dest") /\ Result(p)' = Result(p) /\ \A k : WasAt(p, k)' = WasAt(p, k)
  BY <1>1 DEF Holds, Result, WasAt
<1>3. Apart(p)' /\ Exchange(p)' /\ Keeping(p)' /\ OrigSeen(p)' /\ Blank(p)'
  BY <1>1, <1>2 DEF SoloInv, Apart, Exchange, Keeping, Kept, OrigSeen, Blank, Active
<1>4. Signed(p)' /\ DeltaOK(p)'
  BY <1>1, <1>2 DEF SoloInv, Signed, DeltaOK, Whole
<1>5. Patched(p)' /\ Synced(p)'
  BY <1>1, <1>2 DEF SoloInv, Patched, Synced, FromOrig, Whole
<1> QED BY <1>3, <1>4, <1>5 DEF SoloInv

LEMMA SoloInvariant ==
  ASSUME NEW p, Proc = {p}
  PROVE  Spec => []SoloInv(p)
<1>1. Init => SoloInv(p)
  BY InitSolo
<1>2. SoloInv(p) /\ [Next]_vars => SoloInv(p)'
  <2> SUFFICES ASSUME SoloInv(p), [Next]_vars PROVE SoloInv(p)'
    OBVIOUS
  <2>1. Inv'
    BY NextInv DEF SoloInv
  <2>2. Start(p) \/ Step(p) \/ Crash(p) \/ Edit \/ Recover \/ UNCHANGED vars
    BY DEF Next
  <2> QED BY <2>1, <2>2, StartSolo, StepSolo, CrashSolo, EditSolo, StutterSolo
<1> QED BY <1>1, <1>2, PTL DEF Spec

(* One call at a time, whatever fails and wherever earlier calls have been  *)
(* killed, while the owner edits and replaces orig: a call that reports a   *)
(* failure has left dest as it was, but for two failures that come too late *)
(* for that, of rename() and of the chdir() back (FailureKeepsDest,         *)
(* demo_file_data_sync).                                                    *)
THEOREM FailedSyncKeepsDest ==
  ASSUME NEW p, Proc = {p}
  PROVE  Spec => []FailureKeepsDest
<1>1. SoloInv(p) => FailureKeepsDest
  BY DEF SoloInv, Keeping, Kept, FailureKeepsDest
<1> QED BY <1>1, SoloInvariant, PTL

(* One call at a time, whatever dest held before, whatever else fails and   *)
(* whatever the owner does meanwhile: a success whose fclose() has not      *)
(* failed unnoticed makes dest what orig was, block by block, and equal to  *)
(* it if it has kept still (SyncedIsRead, demo_file_data_sync).             *)
THEOREM SyncedDestIsOrig ==
  ASSUME NEW p, Proc = {p}
  PROVE  Spec => []SyncedIsRead
<1>1. SoloInv(p) => SyncedIsRead
  <2> SUFFICES ASSUME SoloInv(p), pc[p] = "idle", rc[p] = "SUCCESS", "flush" \notin late[p]
               PROVE  /\ dir["dest"] # NoFile
                      /\ \A c \in since[p] : since[p] = {c} => Holds("dest") = c
                      /\ \A k \in DOMAIN Holds("dest") :
                           \E c \in since[p] : k <= Len(c) /\ Holds("dest")[k] = c[k]
    BY DEF SyncedIsRead
  <2>1. /\ dir["dest"] # NoFile /\ Holds("dest") = data[dir["dest"]]
        /\ Holds("dest") \in Seq(Blk) /\ since[p] \subseteq Seq(Blk)
    <3>1. Typed /\ Filled /\ Booked /\ dir["dest"] # NoFile
      BY SoloInvParts DEF SoloInv, Synced
    <3> QED BY <3>1, ContentIsSeq DEF Holds, Typed, Filled, Booked
  <2>2. FromOrig(p, Holds("dest")) /\ Whole(p, Len(Holds("dest")))
    BY <2>1 DEF SoloInv, Synced
  <2>3. ASSUME NEW c \in since[p], since[p] = {c} PROVE Holds("dest") = c
    <3>1. Len(Holds("dest")) = Len(c)
      BY <2>2, <2>3 DEF Whole
    <3>2. DOMAIN Holds("dest") = 1..Len(c)
      BY <2>1, <3>1, LenProperties
    <3>3. \A k \in 1..Len(c) : Holds("dest")[k] = c[k]
      BY <2>2, <2>3, <3>2 DEF FromOrig, WasAt
    <3> QED BY <2>1, <3>1, <3>3, SeqEqual
  <2>4. ASSUME NEW k \in DOMAIN Holds("dest")
        PROVE  \E c \in since[p] : k <= Len(c) /\ Holds("dest")[k] = c[k]
    <3>1. PICK c \in since[p] : k \in DOMAIN c /\ Holds("dest")[k] = c[k]
      BY <2>2 DEF FromOrig, WasAt
    <3>2. k <= Len(c)
      BY <2>1, <3>1, LenProperties
    <3> QED BY <3>1, <3>2
  <2> QED BY <2>1, <2>3, <2>4
<1> QED BY <1>1, SoloInvariant, PTL

-----------------------------------------------------------------------------
(* Two calls side by side.                                                  *)

(* What orig holds, while its owner leaves it alone. *)
Orig == data[dir["orig"]]

(* A writer that has still to close its file. *)
Pends(r, i) == pc[r] = "close" /\ fpTmpDest[r] = i

(* A new file is nobody else's, until it has become dest. *)
Own(r) ==
  /\ tmp[r] # NoFile =>
       /\ tmp[r] # dir["dest"]
       /\ \A s \in Proc : tmp[r] # fpDest[s]
       /\ \A s \in Proc \ {r} : tmp[r] # tmp[s] /\ tmp[r] # fpTmpDest[s]
  /\ fpTmpDest[r] # NoFile =>
       /\ pc[r] \in {"patch", "unlink", "rename", "close"}
       /\ \A s \in Proc \ {r} : fpTmpDest[r] # fpTmpDest[s]
  /\ pc[r] \in {"patch", "unlink", "rename"} => fpTmpDest[r] = tmp[r]

(* What is open. *)
Reads(r) ==
  /\ fpOrig[r] \in {NoFile, dir["orig"]}
  /\ pc[r] \in {"mkstemp", "sig", "delta"} => fpOrig[r] = dir["orig"]
  /\ fpDest[r] # NoFile =>
       pc[r] \in {"openorig", "mkstemp", "sig", "delta", "patch", "unlink", "rename", "close"}

(* A signature is right where the file it was made of has not been cut; and *)
(* has not been cut if somebody will write behind.                          *)
SigFits(r) ==
  /\ pc[r] = "sig" => pos[r] = Len(sig[r])
  /\ pc[r] \in {"sig", "delta", "patch"} /\ fpDest[r] # NoFile =>
       /\ \A n \in DOMAIN sig[r] :
            n <= Len(data[fpDest[r]]) => sig[r][n] = data[fpDest[r]][n]
       /\ (\E s \in Proc : Pends(s, fpDest[r])) => Len(sig[r]) <= Len(data[fpDest[r]])

(* A part of a delta, made with signature s, stands for block b. *)
StandsFor(part, s, b) ==
  IF part.from = 0 THEN part.block = b ELSE part.from \in DOMAIN s /\ s[part.from] = b

DeltaFits(r) ==
  /\ pc[r] = "delta" => pos[r] = Len(delta[r])
  /\ pc[r] \in {"delta", "patch"} =>
       \A k \in DOMAIN delta[r] :
         k <= Len(Orig) /\ StandsFor(delta[r][k], sig[r], Orig[k])
  /\ pc[r] = "patch" => Len(delta[r]) = Len(Orig) /\ pos[r] <= Len(delta[r])

(* What has been applied gives the beginning of orig, and in the end all.   *)
Begun(r) ==
  /\ Len(data[fpTmpDest[r]]) + Len(buf[r]) = pos[r]
  /\ \A k \in DOMAIN Result(r) : k <= Len(Orig) /\ Result(r)[k] = Orig[k]

(* Once the new file has become dest, the other call may have cut it.       *)
OutputFits(r) ==
  /\ pc[r] \in {"patch", "unlink", "rename"} => Begun(r)
  /\ pc[r] \in {"unlink", "rename"} => pos[r] = Len(Orig)
  /\ pc[r] = "close" /\ fpTmpDest[r] # NoFile =>
       Len(data[fpTmpDest[r]]) + Len(buf[r]) <= pos[r]

Fits(r) == Blank(r) /\ Own(r) /\ Reads(r) /\ SigFits(r) /\ DeltaFits(r) /\ OutputFits(r)

(* dest is up to date, or will be when its writer closes it. *)
DestIsOrig ==
  /\ dir["dest"] # NoFile
  /\ \/ data[dir["dest"]] = Orig /\ \A r \in Proc : ~Pends(r, dir["dest"])
     \/ \E r \in Proc : /\ Pends(r, dir["dest"])
                        /\ Len(data[dir["dest"]]) + Len(buf[r]) = pos[r]
                        /\ Result(r) = Orig

(* A call that ends in a success, unless the other one comes to be in its   *)
(* place.                                                                   *)
Hopeful(r) ==
  \/ pc[r] = "creat" /\ dirOk
  \/ pc[r] \in {"open", "unlink"} /\ dir["dest"] # NoFile
  \/ /\ pc[r] \in {"openorig", "mkstemp", "sig", "delta", "patch"}
     /\ dir["dest"] # NoFile
     /\ fpDest[r] # NoFile /\ Len(sig[r]) <= Len(data[fpDest[r]])
  \/ pc[r] = "rename"

Succeeded(r) == pc[r] \in {"close", "tidy", "idle"} /\ rc[r] = "SUCCESS"

(* What a success has made is there, or somebody makes it again. *)
Lasting == (\E r \in Proc : Succeeded(r)) => DestIsOrig \/ \E r \in Proc : Hopeful(r)

Quiet == edits = 0 /\ crashes = 0

DuoInv ==
  /\ Inv /\ may = {}
  /\ Quiet => (\A r \in Proc : Fits(r)) /\ Lasting

(* What is known before a step of a call that meets no failure. *)
Calm == Inv /\ may = {} /\ \A r \in Proc : Fits(r)

LEMMA CalmParts ==
  ASSUME Calm
  PROVE  /\ Inv /\ Typed /\ Filled /\ Booked /\ OrigSafe /\ may = {} /\ dirOk \in BOOLEAN
         /\ \A r \in Proc : /\ Ready(r) /\ Blank(r) /\ Own(r) /\ Reads(r)
                            /\ SigFits(r) /\ DeltaFits(r) /\ OutputFits(r)
BY DEF Calm, Inv, AllReady, Booked, Fits

(* A step changes nothing that belongs to another call. *)
LEMMA StepOthers ==
  ASSUME Typed, Filled, dirOk \in BOOLEAN, NEW s \in Proc, Step(s), NEW r \in Proc, r # s
  PROVE  /\ pc'[r] = pc[r] /\ tmp'[r] = tmp[r] /\ rc'[r] = rc[r]
         /\ fpDest'[r] = fpDest[r] /\ fpOrig'[r] = fpOrig[r] /\ fpTmpDest'[r] = fpTmpDest[r]
         /\ sig'[r] = sig[r] /\ delta'[r] = delta[r] /\ pos'[r] = pos[r] /\ buf'[r] = buf[r]
<1>1. SigStep(s) /\ DeltaStep(s) /\ BufStep(s) /\ PosStep(s) /\ FpStep(s) /\ ResultStep(s)
  BY StepChanges
<1>2. pc'[r] = pc[r] /\ tmp'[r] = tmp[r] /\ fpDest'[r] = fpDest[r] /\ fpTmpDest'[r] = fpTmpDest[r]
  BY StepFrame
<1>3. fpOrig'[r] = fpOrig[r]
  BY <1>1 DEF FpStep, Set, Typed
<1>4. pos'[r] = pos[r] /\ rc'[r] = rc[r]
  BY <1>1 DEF PosStep, ResultStep, Set, Typed
<1>5. sig'[r] = sig[r]
  BY <1>1 DEF SigStep, Set, Filled
<1>6. delta'[r] = delta[r]
  BY <1>1 DEF DeltaStep, Set, Filled
<1>7. buf'[r] = buf[r]
  BY <1>1 DEF BufStep, Set, Filled
<1> QED BY <1>2, <1>3, <1>4, <1>5, <1>6, <1>7

(* Nobody writes to orig. *)
LEMMA StepOrig ==
  ASSUME Inv, NEW s \in Proc, Step(s)
  PROVE  dir'["orig"] = dir["orig"] /\ Orig' = Orig
<1>1. Typed /\ Filled /\ Booked /\ OrigSafe /\ Ready(s) /\ dirOk \in BOOLEAN
  BY DEF Inv, AllReady, Booked
<1>2. dir'["orig"] = dir["orig"]
  BY <1>1, StepChanges DEF DirStep, Set, Typed
<1>3. dir["orig"] \in Inode /\ dir["orig"] \notin Free /\ dir["orig"] \notin Free'
  BY <1>1, <1>2 DEF Free, Typed, Booked
<1>4. dir["orig"] # dir["dest"] /\ dir["orig"] # fpTmpDest[s]
  BY <1>1 DEF OrigSafe
<1> QED BY <1>1, <1>2, <1>3, <1>4, StepKeeps DEF Orig

(* A file that is dest or open can only be cut by creat(), when it is dest, *)
(* or written to by the call whose new file it is.                          *)
LEMMA StepFile ==
  ASSUME Inv, NEW s \in Proc, Step(s), NEW i \in Inode, i \notin Free, i \notin Free'
  PROVE  \/ data'[i] = data[i]
         \/ data'[i] = <<>> /\ i = dir["dest"] /\ pc[s] = "creat"
         \/ i = fpTmpDest[s] /\ pc[s] \in {"patch", "close"}
BY StepKeeps DEF Inv, AllReady, Booked

LEMMA InUse ==
  ASSUME Typed, NEW r \in Proc
  PROVE  /\ dir["dest"] # NoFile => dir["dest"] \in Inode /\ dir["dest"] \notin Free
         /\ tmp[r] # NoFile => tmp[r] \in Inode /\ tmp[r] \notin Free
         /\ fpDest[r] # NoFile => fpDest[r] \in Inode /\ fpDest[r] \notin Free
         /\ fpTmpDest[r] # NoFile => fpTmpDest[r] \in Inode /\ fpTmpDest[r] \notin Free
BY DEF Typed, Free

(* Closing writes what is left in the buffer behind what the file holds.    *)
LEMMA CloseWrites ==
  ASSUME Calm, NEW s \in Proc, CloseFiles(s)
  PROVE  /\ pc[s] = "close" /\ UNCHANGED <<dirOk, dir, tmp, sig, delta, pos, buf, rc>>
         /\ pc'[s] = "tidy" /\ fpTmpDest'[s] = NoFile /\ fpDest'[s] = NoFile
         /\ fpOrig'[s] = NoFile
         /\ \A i \in Inode : i # fpTmpDest[s] => data'[i] = data[i]
         /\ fpTmpDest[s] # NoFile =>
              data'[fpTmpDest[s]] =
                Written(data[fpTmpDest[s]], pos[s] - Len(buf[s]), buf[s], Zeros)
<1>1. /\ Typed /\ Filled /\ may = {}
  BY CalmParts
<1>2. data' = IF fpTmpDest[s] = NoFile THEN data
              ELSE [data EXCEPT ![fpTmpDest[s]] = Written(@, pos[s] - Len(buf[s]), buf[s], Zeros)]
  BY <1>1 DEF CloseFiles
<1>3. /\ pc[s] = "close" /\ UNCHANGED <<dirOk, dir, tmp, sig, delta, pos, buf, rc>>
      /\ pc'[s] = "tidy" /\ fpTmpDest'[s] = NoFile /\ fpDest'[s] = NoFile
      /\ fpOrig'[s] = NoFile
  BY <1>1 DEF CloseFiles, Goto, Set, Typed
<1> QED BY <1>1, <1>2, <1>3 DEF Typed, Filled

LEMMA CloseExtends ==
  ASSUME Calm, NEW s \in Proc, CloseFiles(s), fpTmpDest[s] # NoFile
  PROVE  /\ Len(data[fpTmpDest[s]]) \in Nat
         /\ Len(data'[fpTmpDest[s]]) \in Nat
         /\ Len(data[fpTmpDest[s]]) <= Len(data'[fpTmpDest[s]])
         /\ \A k \in 1..Len(data[fpTmpDest[s]]) :
              data'[fpTmpDest[s]][k] = data[fpTmpDest[s]][k]
<1>1. /\ Typed /\ Filled /\ OutputFits(s) /\ pc[s] = "close"
      /\ data'[fpTmpDest[s]] = Written(data[fpTmpDest[s]], pos[s] - Len(buf[s]), buf[s], Zeros)
  BY CalmParts, CloseWrites
<1>2. /\ data[fpTmpDest[s]] \in Seq(Blk) /\ buf[s] \in Seq(Blk) /\ pos[s] \in Nat /\ Zeros \in Blk
      /\ Len(data[fpTmpDest[s]]) \in Nat /\ Len(buf[s]) \in Nat
  BY <1>1, LenProperties DEF Typed, Filled, Blk
<1>3. pos[s] - Len(buf[s]) \in Nat /\ Len(data[fpTmpDest[s]]) <= pos[s] - Len(buf[s])
  <2>1. \A i, j, k \in Nat : i + j <= k => k - j \in Nat /\ i <= k - j
    OBVIOUS
  <2>2. Len(data[fpTmpDest[s]]) + Len(buf[s]) <= pos[s]
    BY <1>1 DEF OutputFits
  <2> QED BY <1>2, <2>1, <2>2
<1>4. PICK f, b, o : f = data[fpTmpDest[s]] /\ b = buf[s] /\ o = pos[s] - Len(buf[s])
  OBVIOUS
<1>5. f \in Seq(Blk) /\ b \in Seq(Blk) /\ o \in Nat /\ Zeros \in Blk /\ Len(f) <= o
  BY <1>2, <1>3, <1>4
<1>6. /\ Len(f) \in Nat /\ Len(Written(f, o, b, Zeros)) \in Nat
      /\ Len(f) <= Len(Written(f, o, b, Zeros))
      /\ \A k \in 1..Len(f) : Written(f, o, b, Zeros)[k] = f[k]
  <2>1. \A u, v \in Seq(Blk), n \in Nat, z \in Blk : Len(u) <= n =>
          /\ Len(Written(u, n, v, z)) \in Nat /\ Len(u) <= Len(Written(u, n, v, z))
          /\ \A k \in 1..Len(u) : Written(u, n, v, z)[k] = u[k]
    BY WrittenBehind
  <2>2. Len(f) \in Nat
    BY <1>2, <1>4
  <2> QED BY <1>5, <2>1, <2>2
<1> QED BY <1>1, <1>4, <1>6

LEMMA StepOwn ==
  ASSUME Calm, NEW s \in Proc, Step(s), NEW r \in Proc
  PROVE  Own(r)'
<1>0. /\ Typed /\ \A t \in Proc : Own(t) /\ Reads(t) /\ Ready(t)
      /\ dir["orig"] # NoFile
  BY CalmParts DEF Booked
<1> USE <1>0, NewInodeIsFree, NewInodeIsApart, ValueAssumption
    DEF Typed, Own, Goto, Set, Fails, fsVars
<1>1. CASE AccessDest(s)
  BY <1>1 DEF AccessDest
<1>2. CASE MakeDest(s)
  BY <1>2 DEF MakeDest
<1>3. CASE CreatDest(s)
  <2>1. /\ pc[s] = "creat" /\ pc'[s] \in {"open", "close"}
        /\ \A t \in Proc \ {s} : pc'[t] = pc[t]
        /\ UNCHANGED <<tmp, fpDest, fpTmpDest>>
    BY <1>3 DEF CreatDest
  <2>2. dir'["dest"] = dir["dest"] \/ (Free # {} /\ dir'["dest"] = NewInode)
    BY <1>3, ZenonT(40) DEF CreatDest, Creat
  <2> QED BY <2>1, <2>2
<1>4. CASE OpenDest(s)
  BY <1>4 DEF OpenDest
<1>5. CASE OpenOrig(s)
  BY <1>5 DEF OpenOrig
<1>6. CASE MakeTemps(s)
  BY <1>6 DEF MakeTemps
<1>7. CASE RsyncFails(s)
  BY <1>7 DEF RsyncFails
<1>8. CASE Signature(s)
  BY <1>8 DEF Signature
<1>9. CASE Delta(s)
  BY <1>9 DEF Delta, Ready
<1>10. CASE Patch(s)
  BY <1>10 DEF Patch
<1>11. CASE UnlinkDest(s)
  BY <1>11 DEF UnlinkDest
<1>12. CASE RenameTmp(s)
  BY <1>12 DEF RenameTmp, Late
<1>13. CASE CloseFiles(s)
  BY <1>13 DEF CloseFiles, Late
<1>14. CASE Tidy(s)
  BY <1>14 DEF Tidy, Return, Late
<1> QED BY <1>1, <1>2, <1>3, <1>4, <1>5, <1>6, <1>7, <1>8, <1>9,
          <1>10, <1>11, <1>12, <1>13, <1>14 DEF Step

LEMMA StepReads ==
  ASSUME Calm, NEW s \in Proc, Step(s), NEW r \in Proc
  PROVE  Reads(r)'
<1>0. Typed /\ Reads(r) /\ dir'["orig"] = dir["orig"] /\ may = {}
  BY CalmParts, StepOrig
<1>1. CASE r # s
  <2>1. pc'[r] = pc[r] /\ fpDest'[r] = fpDest[r] /\ fpOrig'[r] = fpOrig[r]
    BY <1>1, CalmParts, StepOthers
  <2> QED BY <1>0, <2>1 DEF Reads
<1>2. CASE r = s
  <2> USE <1>0, <1>2 DEF Typed, Reads, Goto, Set, Fails, fsVars
  <2>1. CASE AccessDest(s)
    BY <2>1 DEF AccessDest
  <2>2. CASE MakeDest(s)
    BY <2>2 DEF MakeDest
  <2>3. CASE CreatDest(s)
    BY <2>3 DEF CreatDest, Creat
  <2>4. CASE OpenDest(s)
    BY <2>4 DEF OpenDest
  <2>5. CASE OpenOrig(s)
    BY <2>5 DEF OpenOrig
  <2>6. CASE MakeTemps(s)
    BY <2>6 DEF MakeTemps
  <2>7. CASE RsyncFails(s)
    BY <2>7 DEF RsyncFails
  <2>8. CASE Signature(s)
    BY <2>8 DEF Signature
  <2>9. CASE Delta(s)
    BY <2>9 DEF Delta
  <2>10. CASE Patch(s)
    BY <2>10 DEF Patch
  <2>11. CASE UnlinkDest(s)
    BY <2>11 DEF UnlinkDest
  <2>12. CASE RenameTmp(s)
    BY <2>12 DEF RenameTmp, Late
  <2>13. CASE CloseFiles(s)
    BY <2>13 DEF CloseFiles, Late
  <2>14. CASE Tidy(s)
    BY <2>14 DEF Tidy, Return, Late
  <2> QED BY <2>1, <2>2, <2>3, <2>4, <2>5, <2>6, <2>7, <2>8, <2>9,
            <2>10, <2>11, <2>12, <2>13, <2>14 DEF Step
<1> QED BY <1>1, <1>2

(* Until it is renamed nobody but its call touches a new file. *)
LEMMA TmpStays ==
  ASSUME Calm, NEW s \in Proc, Step(s), NEW r \in Proc, r # s, tmp[r] # NoFile
  PROVE  data'[tmp[r]] = data[tmp[r]]
<1>1. Inv /\ Typed /\ Typed' /\ Own(r) /\ Own(s)
  BY CalmParts, StepTyped
<1>2. tmp[r] \in Inode /\ tmp[r] \notin Free
  BY <1>1, InUse
<1>3. tmp[r] \notin Free'
  <2>1. tmp'[r] = tmp[r]
    BY CalmParts, StepOthers
  <2> QED BY <2>1 DEF Free
<1>4. tmp[r] # dir["dest"] /\ tmp[r] # fpTmpDest[s]
  BY <1>1 DEF Own
<1> QED BY <1>1, <1>2, <1>3, <1>4, StepFile

LEMMA StepBlankDuo ==
  ASSUME Calm, NEW s \in Proc, Step(s), NEW r \in Proc
  PROVE  Blank(r)'
<1>1. CASE r = s
  BY <1>1, CalmParts, StepBlank
<1>2. CASE r # s
  <2>1. /\ pc'[r] = pc[r] /\ tmp'[r] = tmp[r] /\ sig'[r] = sig[r] /\ delta'[r] = delta[r]
        /\ pos'[r] = pos[r] /\ buf'[r] = buf[r] /\ Blank(r) /\ Ready(r)
    BY <1>2, CalmParts, StepOthers
  <2>2. pc[r] \in {"sig", "delta"} => data'[tmp[r]] = data[tmp[r]]
    BY <1>2, <2>1, TmpStays DEF Ready
  <2> QED BY <2>1, <2>2 DEF Blank
<1> QED BY <1>1, <1>2

(* A call that closes its files writes to what was its own new file.        *)
LEMMA PendsBefore ==
  ASSUME Calm, NEW s \in Proc, Step(s), NEW i, i # NoFile, i # tmp[s], NEW t \in Proc, Pends(t, i)'
  PROVE  Pends(t, i)
<1>1. CASE t # s
  <2>1. pc'[t] = pc[t] /\ fpTmpDest'[t] = fpTmpDest[t]
    BY <1>1, CalmParts, StepOthers
  <2> QED BY <2>1 DEF Pends
<1>2. CASE t = s
  <2>1. Typed /\ FpStep(s) /\ Own(s)
    BY CalmParts, StepChanges
  <2>2. fpTmpDest'[s] = i
    BY <1>2 DEF Pends
  <2>3. fpTmpDest'[s] \in {fpTmpDest[s], tmp[s], NoFile}
    BY <2>1 DEF FpStep, Set, Typed
  <2>4. fpTmpDest[s] = i
    BY <2>2, <2>3
  <2>5. pc[s] = "close"
    BY <2>1, <2>4 DEF Own
  <2> QED BY <1>2, <2>4, <2>5 DEF Pends
<1> QED BY <1>1, <1>2

(* Nobody comes to write to a file that is open to read. *)
LEMMA NoNewWriter ==
  ASSUME Calm, NEW s \in Proc, Step(s), NEW r \in Proc, fpDest[r] # NoFile,
         fpDest'[r] = fpDest[r]
  PROVE  \A t \in Proc : Pends(t, fpDest[r])' => Pends(t, fpDest[r])
<1>1. tmp[s] # fpDest[r]
  BY CalmParts DEF Own
<1>2. PICK i : i = fpDest[r]
  OBVIOUS
<1>3. \A t \in Proc : Pends(t, i)' => Pends(t, i)
  BY <1>1, <1>2, PendsBefore
<1>4. \A t \in Proc : Pends(t, fpDest[r])' <=> Pends(t, i)'
  BY <1>2 DEF Pends
<1> QED BY <1>2, <1>3, <1>4

LEMMA StepOwnSig ==
  ASSUME Calm, NEW s \in Proc, Step(s)
  PROVE  SigFits(s)'
<1>0. Typed /\ Filled /\ SigFits(s) /\ Blank(s) /\ Own(s) /\ Ready(s) /\ Filled' /\ Typed'
  BY CalmParts, StepFilled, StepTyped
<1>1. CASE Signature(s)
  <2>1. /\ pc[s] = "sig" /\ fpDest[s] \in Inode /\ UNCHANGED <<data, fpDest, fpTmpDest>>
        /\ pos[s] = Len(sig[s]) /\ sig[s] \in Seq(Blk) /\ data[fpDest[s]] \in Seq(Blk)
        /\ \A n \in DOMAIN sig[s] :
             n <= Len(data[fpDest[s]]) => sig[s][n] = data[fpDest[s]][n]
    BY <1>0, <1>1 DEF Signature, fsVars, Typed, Filled, SigFits
  <2>2. CASE pos[s] < Len(data[fpDest[s]])
    <3> DEFINE x == data[fpDest[s]][pos[s] + 1]
    <3>1. /\ pos'[s] = pos[s] + 1 /\ pc'[s] = "sig" /\ sig'[s] = Append(sig[s], x)
      BY <1>0, <1>1, <2>1, <2>2 DEF Signature, Set, Typed, Filled
    <3>2. pos[s] + 1 \in 1..Len(data[fpDest[s]])
      BY <2>1, <2>2, LenProperties
    <3>3. x \in Blk
      BY <2>1, <3>2, ElementOfSeq
    <3> HIDE DEF x
    <3>4. /\ Len(sig'[s]) = pos[s] + 1 /\ DOMAIN sig'[s] = 1..(pos[s] + 1)
          /\ sig'[s][pos[s] + 1] = x /\ \A n \in 1..pos[s] : sig'[s][n] = sig[s][n]
          /\ DOMAIN sig[s] = 1..pos[s]
      BY <2>1, <3>1, <3>3, AppendProperties, LenProperties
    <3>5. ASSUME NEW n \in DOMAIN sig'[s], n <= Len(data[fpDest[s]])
          PROVE  sig'[s][n] = data[fpDest[s]][n]
      <4>1. n \in 1..pos[s] \/ n = pos[s] + 1
        BY <1>0, <3>4 DEF Typed
      <4> QED BY <2>1, <3>4, <3>5, <4>1 DEF x
    <3> QED BY <2>1, <3>1, <3>2, <3>4, <3>5 DEF SigFits
  <2>3. CASE ~(pos[s] < Len(data[fpDest[s]]))
    <3>1. pc'[s] = "delta" /\ sig' = sig
      BY <1>0, <1>1, <2>3 DEF Signature, Goto, Typed
    <3>2. \A t \in Proc : Pends(t, fpDest[s])' => Pends(t, fpDest[s])
      BY <1>1, <2>1, ValueAssumption, NoNewWriter
    <3> QED BY <1>0, <2>1, <3>1, <3>2, ValueAssumption DEF SigFits
  <2> QED BY <2>2, <2>3
<1>2. CASE MakeTemps(s)
  <2>1. sig'[s] = <<>> /\ pos'[s] = 0 /\ Len(<<>>) = 0 /\ DOMAIN <<>> = {}
        /\ pc'[s] \in {"sig", "close"}
    BY <1>0, <1>2, EmptySeq DEF MakeTemps, Blank, Goto, Fails, Typed
  <2>2. fpDest'[s] # NoFile => Len(data'[fpDest'[s]]) \in Nat
    BY <1>0, LenProperties DEF Typed, Filled
  <2> QED BY <2>1, <2>2 DEF SigFits
<1>3. CASE Delta(s) \/ Patch(s)
  <2>1. /\ pc[s] \in {"delta", "patch"} /\ pc'[s] \in {"delta", "patch", "unlink", "close"}
        /\ UNCHANGED <<sig, fpDest>> /\ fpDest[s] \in Inode
    BY <1>0, <1>3 DEF Delta, Patch, Goto, Fails, Typed, Ready
  <2>2. data'[fpDest[s]] = data[fpDest[s]]
    <3>1. CASE Delta(s)
      BY <3>1 DEF Delta, fsVars
    <3>2. CASE Patch(s)
      <4>1. pc[s] = "patch" /\ fpTmpDest[s] # fpDest[s]
        BY <1>0, <3>2 DEF Patch, Own, Ready
      <4>2. \E x : data' = [data EXCEPT ![fpTmpDest[s]] = x] \/ data' = data
        BY <3>2 DEF Patch
      <4> QED BY <1>0, <2>1, <4>1, <4>2 DEF Filled
    <3> QED BY <1>3, <3>1, <3>2
  <2>3. \A t \in Proc : Pends(t, fpDest[s])' => Pends(t, fpDest[s])
    BY <2>1, ValueAssumption, NoNewWriter
  <2> QED BY <1>0, <2>1, <2>2, <2>3, ValueAssumption DEF SigFits
<1>4. CASE ~(Signature(s) \/ MakeTemps(s) \/ Delta(s) \/ Patch(s))
  <2>1. pc'[s] \notin {"sig", "delta", "patch"}
    BY <1>0, <1>4, StepMoves
  <2> QED BY <2>1 DEF SigFits
<1> QED BY <1>1, <1>2, <1>3, <1>4

(* Nobody is there but the two. *)
AtMostTwo == \A r, s, t \in Proc : r # s => t \in {r, s}

(* The other call may cut the file a signature is of, as it creates dest,   *)
(* or write to it what it had still in its buffer, but not one after the    *)
(* other.                                                                   *)
LEMMA StepOtherSig ==
  ASSUME Calm, AtMostTwo, NEW s \in Proc, Step(s), NEW r \in Proc, r # s
  PROVE  SigFits(r)'
<1>0. Typed /\ Filled /\ SigFits(r) /\ Own(s) /\ Inv
  BY CalmParts
<1>1. /\ pc'[r] = pc[r] /\ fpDest'[r] = fpDest[r] /\ sig'[r] = sig[r] /\ pos'[r] = pos[r]
  BY CalmParts, StepOthers
<1> SUFFICES ASSUME pc[r] \in {"sig", "delta", "patch"}, fpDest[r] # NoFile
             PROVE  /\ \A n \in DOMAIN sig[r] :
                         n <= Len(data'[fpDest[r]]) => sig[r][n] = data'[fpDest[r]][n]
                    /\ (\E t \in Proc : Pends(t, fpDest[r])') =>
                         Len(sig[r]) <= Len(data'[fpDest[r]])
  BY <1>0, <1>1 DEF SigFits, Pends
<1>2. /\ fpDest[r] \in Inode /\ fpDest[r] \notin Free /\ fpDest[r] \notin Free'
  BY <1>0, <1>1, InUse DEF Free
<1>3. /\ \A n \in DOMAIN sig[r] :
           n <= Len(data[fpDest[r]]) => sig[r][n] = data[fpDest[r]][n]
      /\ (\E t \in Proc : Pends(t, fpDest[r])) => Len(sig[r]) <= Len(data[fpDest[r]])
      /\ sig[r] \in Seq(Blk) /\ Len(sig[r]) \in Nat /\ DOMAIN sig[r] = 1..Len(sig[r])
      /\ Len(data[fpDest[r]]) \in Nat
  BY <1>0, <1>2, LenProperties DEF SigFits, Filled
<1>4. \A t \in Proc : Pends(t, fpDest[r])' => Pends(t, fpDest[r])
  BY <1>1, NoNewWriter
<1>5. CASE data'[fpDest[r]] = data[fpDest[r]]
  BY <1>3, <1>4, <1>5
<1>6. CASE data'[fpDest[r]] = <<>> /\ pc[s] = "creat"
  <2>1. Len(<<>>) = 0
    BY EmptySeq
  <2>2. \A t \in Proc : ~Pends(t, fpDest[r])'
    BY <1>4, <1>6 DEF Pends, AtMostTwo
  <2> QED BY <1>3, <1>6, <2>1, <2>2
<1>7. CASE fpDest[r] = fpTmpDest[s] /\ pc[s] \in {"patch", "close"}
  <2>1. pc[s] = "close" /\ Pends(s, fpDest[r])
    BY <1>0, <1>7 DEF Own, Pends
  <2>2. CloseFiles(s)
    BY <2>1 DEF Step, AccessDest, MakeDest, CreatDest, OpenDest, OpenOrig, MakeTemps, RsyncFails,
         Signature, Delta, Patch, UnlinkDest, RenameTmp, Tidy
  <2>3. /\ Len(data'[fpDest[r]]) \in Nat
        /\ Len(data[fpDest[r]]) <= Len(data'[fpDest[r]])
        /\ \A k \in 1..Len(data[fpDest[r]]) : data'[fpDest[r]][k] = data[fpDest[r]][k]
    BY <1>7, <2>2, CloseExtends
  <2>4. Len(sig[r]) <= Len(data[fpDest[r]])
    BY <1>3, <2>1
  <2> QED BY <1>3, <2>3, <2>4
<1> QED BY <1>0, <1>2, <1>5, <1>6, <1>7, StepFile

LEMMA PartStandsFor ==
  ASSUME NEW s \in Seq(Blk), NEW b \in Blk, NEW part \in Parts(s, b)
  PROVE  StandsFor(part, s, b)
<1>1. DOMAIN s = 1..Len(s) /\ Len(s) \in Nat
  BY LenProperties
<1>2. CASE b \in ToSet(s)
  <2>1. PICK n \in DOMAIN s : s[n] = b /\ part = Copy(n)
    BY <1>2 DEF Parts
  <2> QED BY <1>1, <2>1 DEF Copy, StandsFor
<1>3. CASE b \notin ToSet(s)
  BY <1>3 DEF Parts, Literal, StandsFor
<1> QED BY <1>2, <1>3

LEMMA StepDeltaFits ==
  ASSUME Calm, NEW s \in Proc, Step(s), NEW r \in Proc
  PROVE  DeltaFits(r)'
<1>0. /\ Typed /\ Filled /\ DeltaFits(r) /\ Blank(r) /\ Reads(r) /\ Ready(r)
      /\ Orig' = Orig /\ Orig \in Seq(Blk) /\ Len(Orig) \in Nat /\ dir["orig"] # NoFile
  <2>1. Orig \in Seq(Blk)
    BY CalmParts DEF Orig, Typed, Filled, Booked
  <2> QED BY <2>1, CalmParts, StepOrig, LenProperties DEF Booked
<1>1. CASE r # s
  <2>1. pc'[r] = pc[r] /\ sig'[r] = sig[r] /\ delta'[r] = delta[r] /\ pos'[r] = pos[r]
    BY <1>1, CalmParts, StepOthers
  <2> QED BY <1>0, <2>1 DEF DeltaFits
<1>2. CASE r = s /\ Delta(s)
  <2>1. /\ pc[s] = "delta" /\ fpOrig[s] = dir["orig"] /\ sig' = sig
        /\ pos[s] = Len(delta[s]) /\ delta[s] \in Seq(Part) /\ pos[s] \in Nat
        /\ sig[s] \in Seq(Blk) /\ DOMAIN delta[s] = 1..pos[s]
        /\ \A k \in 1..pos[s] : k <= Len(Orig) /\ StandsFor(delta[s][k], sig[s], Orig[k])
    <3>1. pc[s] = "delta" /\ sig' = sig /\ fpOrig[s] = dir["orig"]
      BY <1>0, <1>2 DEF Delta, Reads
    <3>2. /\ delta[s] \in Seq(Part) /\ pos[s] \in Nat /\ sig[s] \in Seq(Blk)
          /\ DOMAIN delta[s] = 1..Len(delta[s])
      BY <1>0, LenProperties DEF Typed, Filled
    <3>3. /\ pos[s] = Len(delta[s])
          /\ \A k \in DOMAIN delta[s] : k <= Len(Orig) /\ StandsFor(delta[s][k], sig[s], Orig[k])
      BY <1>0, <1>2, <3>1 DEF DeltaFits
    <3> QED BY <3>1, <3>2, <3>3
  <2>2. CASE pos[s] < Len(Orig)
    <3>1. /\ pos[s] + 1 \in 1..Len(Orig) /\ Orig[pos[s] + 1] \in Blk
      <4>1. pos[s] + 1 \in 1..Len(Orig)
        BY <1>0, <2>1, <2>2
      <4> QED BY <1>0, <4>1, ElementOfSeq
    <3>2. PICK part \in Parts(sig[s], Orig[pos[s] + 1]) :
            /\ delta'[s] = Append(delta[s], part) /\ pos'[s] = pos[s] + 1 /\ pc'[s] = "delta"
      <4>1. ~(pos[s] >= Len(Orig))
        BY <1>0, <2>1, <2>2
      <4>2. PICK part \in Parts(sig[s], Orig[pos[s] + 1]) :
              delta' = Set(delta, s, Append(delta[s], part))
        BY <1>2, <2>1, <4>1 DEF Delta, Orig
      <4>3. pos' = Set(pos, s, pos[s] + 1) /\ pc' = pc
        BY <1>2, <2>1, <4>1 DEF Delta, Orig
      <4>4. delta'[s] = Append(delta[s], part) /\ pos'[s] = pos[s] + 1
        BY <1>0, <4>2, <4>3 DEF Set, Typed, Filled
      <4> QED BY <2>1, <4>2, <4>3, <4>4
    <3>3. part \in Part /\ StandsFor(part, sig[s], Orig[pos[s] + 1])
      <4>1. \A u \in Seq(Blk), b \in Blk : \A x \in Parts(u, b) : x \in Part /\ StandsFor(x, u, b)
        BY PartsType, PartStandsFor
      <4> QED BY <2>1, <3>1, <4>1
    <3>4. /\ Len(delta'[s]) = pos[s] + 1 /\ DOMAIN delta'[s] = 1..(pos[s] + 1)
          /\ delta'[s][pos[s] + 1] = part /\ \A k \in 1..pos[s] : delta'[s][k] = delta[s][k]
      BY <2>1, <3>2, <3>3, AppendProperties, LenProperties
    <3>5. ASSUME NEW k \in DOMAIN delta'[s]
          PROVE  k <= Len(Orig) /\ StandsFor(delta'[s][k], sig[s], Orig[k])
      <4>1. k \in 1..pos[s] \/ k = pos[s] + 1
        BY <2>1, <3>4
      <4> QED BY <2>1, <3>1, <3>3, <3>4, <4>1
    <3> QED BY <1>0, <1>2, <2>1, <3>2, <3>4, <3>5 DEF DeltaFits
  <2>3. CASE pos[s] >= Len(Orig)
    <3>1. pc'[s] = "patch" /\ pos'[s] = 0 /\ delta' = delta
      <4>1. ~(pos[s] < Len(Orig))
        BY <1>0, <2>1, <2>3
      <4> QED BY <1>0, <1>2, <2>1, <4>1 DEF Delta, Set, Goto, Typed, Orig
    <3>2. pos[s] = Len(Orig)
      <4>1. CASE pos[s] = 0
        BY <1>0, <2>1, <2>3, <4>1
      <4>2. CASE pos[s] # 0
        <5>1. pos[s] \in 1..pos[s]
          BY <2>1, <4>2
        <5> QED BY <1>0, <2>1, <2>3, <5>1
      <4> QED BY <4>1, <4>2
    <3> QED BY <1>0, <1>2, <2>1, <3>1, <3>2 DEF DeltaFits
  <2> QED BY <1>0, <2>1, <2>2, <2>3
<1>3. CASE r = s /\ Signature(s)
  <2>1. delta'[s] = <<>> /\ Len(<<>>) = 0 /\ DOMAIN <<>> = {}
        /\ (pc'[s] = "sig" \/ (pc'[s] = "delta" /\ pos'[s] = 0))
    BY <1>0, <1>3, EmptySeq DEF Signature, Blank, Goto, Set, Typed
  <2> QED BY <1>3, <2>1 DEF DeltaFits
<1>4. CASE r = s /\ Patch(s)
  <2>1. /\ pc[s] = "patch" /\ pc'[s] \in {"patch", "unlink", "close"} /\ UNCHANGED <<delta, sig>>
        /\ pos'[s] = pos[s] \/ (pos'[s] = pos[s] + 1 /\ pos[s] < Len(delta[s]))
    BY <1>0, <1>4 DEF Patch, Goto, Set, Fails, Typed
  <2>2. pos'[s] <= Len(delta[s])
    <3>1. pos[s] \in Nat /\ Len(delta[s]) \in Nat /\ pos[s] <= Len(delta[s])
      BY <1>0, <1>4, <2>1, LenProperties DEF Typed, Filled, DeltaFits
    <3> QED BY <2>1, <3>1
  <2> QED BY <1>0, <1>4, <2>1, <2>2 DEF DeltaFits
<1>5. CASE r = s /\ ~(Signature(s) \/ Delta(s) \/ Patch(s))
  <2>1. pc'[s] \notin {"delta", "patch"}
    BY <1>0, <1>5, StepMoves
  <2> QED BY <1>5, <2>1 DEF DeltaFits
<1> QED BY <1>1, <1>2, <1>3, <1>4, <1>5

(* The next part of a delta makes the next block of orig, if it can be      *)
(* applied; and it can if dest has not been cut.                            *)
LEMMA PieceOfOrig ==
  ASSUME Calm, NEW s \in Proc, pc[s] = "patch", pos[s] < Len(delta[s])
  PROVE  /\ Patching(s) => pos[s] + 1 <= Len(Orig) /\ Piece(s) = Orig[pos[s] + 1]
         /\ Len(sig[s]) <= Len(data[fpDest[s]]) => Applicable(NextPart(s), data[fpDest[s]])
<1>1. /\ Typed /\ Filled /\ DeltaFits(s) /\ SigFits(s) /\ Ready(s) /\ fpDest[s] \in Inode
  BY CalmParts DEF Ready, Typed
<1>2. /\ pos[s] \in Nat /\ delta[s] \in Seq(Part) /\ sig[s] \in Seq(Blk)
      /\ data[fpDest[s]] \in Seq(Blk) /\ Len(delta[s]) \in Nat /\ DOMAIN delta[s] = 1..Len(delta[s])
      /\ Len(sig[s]) \in Nat /\ DOMAIN sig[s] = 1..Len(sig[s]) /\ Len(data[fpDest[s]]) \in Nat
  BY <1>1, LenProperties DEF Typed, Filled
<1>3. pos[s] + 1 \in DOMAIN delta[s]
  BY <1>2
<1>4. pos[s] + 1 <= Len(Orig) /\ StandsFor(NextPart(s), sig[s], Orig[pos[s] + 1])
  BY <1>1, <1>3 DEF DeltaFits, NextPart
<1>5. NextPart(s) \in Part
  BY <1>2, <1>3, ElementOfSeq DEF NextPart
<1>6. \A n \in DOMAIN sig[s] : n <= Len(data[fpDest[s]]) => sig[s][n] = data[fpDest[s]][n]
  BY <1>1 DEF SigFits, Ready
<1>7. CASE NextPart(s).from = 0
  BY <1>2, <1>4, <1>7 DEF StandsFor, Applicable, Piece, Applied
<1>8. CASE NextPart(s).from # 0
  <2>1. NextPart(s).from \in 1..Len(sig[s]) /\ sig[s][NextPart(s).from] = Orig[pos[s] + 1]
    BY <1>2, <1>4, <1>8 DEF StandsFor
  <2>2. Patching(s) => NextPart(s).from <= Len(data[fpDest[s]])
    BY DEF Patching, Applicable
  <2> QED BY <1>2, <1>4, <1>6, <1>8, <2>1, <2>2 DEF Applicable, Piece, Applied
<1> QED BY <1>7, <1>8

LEMMA BegunLength ==
  ASSUME NEW r \in Proc, Begun(r), pos[r] \in Nat
  PROVE  Len(data[fpTmpDest[r]]) + Len(buf[r]) <= pos[r]
<1>1. \A n \in Nat : n <= n
  OBVIOUS
<1>2. Len(data[fpTmpDest[r]]) + Len(buf[r]) = pos[r]
  BY DEF Begun
<1> QED BY <1>1, <1>2

LEMMA StepOwnOutput ==
  ASSUME Calm, NEW s \in Proc, Step(s)
  PROVE  OutputFits(s)'
<1>0. /\ Typed /\ Filled /\ DeltaFits(s) /\ Blank(s) /\ Own(s) /\ Ready(s) /\ OutputFits(s)
      /\ Orig' = Orig /\ pos[s] \in Nat
  BY CalmParts, StepOrig DEF Typed
<1>1. CASE Patch(s) /\ Patching(s)
  <2>0. /\ pc'[s] = "patch" /\ pc[s] = "patch" /\ pos[s] < Len(delta[s])
    BY <1>0, <1>1 DEF Patch, Patching, NextPart
  <2>1. /\ Len(data[fpTmpDest[s]]) + Len(buf[s]) = pos[s]
        /\ \A k \in DOMAIN Result(s) : k <= Len(Orig) /\ Result(s)[k] = Orig[k]
    BY <1>0, <2>0 DEF OutputFits, Begun
  <2>2. /\ Result(s)' = Append(Result(s), Piece(s))
        /\ Result(s) \in Seq(Blk) /\ Len(Result(s)) = pos[s]
        /\ Len(data'[fpTmpDest'[s]]) + Len(buf'[s]) = pos'[s]
    BY <1>0, <1>1, <2>1, PatchAppends
  <2>3. pos[s] + 1 <= Len(Orig) /\ Piece(s) = Orig[pos[s] + 1] /\ Piece(s) \in Blk
    BY <1>0, <1>1, <2>0, PieceOfOrig, PieceType
  <2>4. PICK u : u = Result(s)'
    OBVIOUS
  <2>5. /\ u[pos[s] + 1] = Piece(s) /\ DOMAIN u = 1..(pos[s] + 1)
        /\ \A k \in 1..pos[s] : u[k] = Result(s)[k]
        /\ DOMAIN Result(s) = 1..pos[s]
    BY <1>0, <2>2, <2>3, <2>4, AppendProperties, LenProperties
  <2>6. ASSUME NEW k \in DOMAIN u PROVE k <= Len(Orig) /\ u[k] = Orig[k]
    <3>1. k = pos[s] + 1 \/ k \in 1..pos[s]
      BY <1>0, <2>5
    <3> QED BY <2>1, <2>3, <2>5, <3>1
  <2>7. Begun(s)'
    BY <1>0, <2>2, <2>4, <2>6 DEF Begun
  <2> QED BY <2>0, <2>7 DEF OutputFits
<1>2. CASE Patch(s) /\ ~Patching(s)
  <2>1. pc[s] = "patch" /\ UNCHANGED <<data, buf, pos, fpTmpDest>>
        /\ \/ pc'[s] = "close"
           \/ pc'[s] = "unlink" /\ pos[s] = Len(delta[s])
    BY <1>0, <1>2 DEF Patch, Patching, NextPart, Goto, Fails, Set, Typed
  <2>2. Begun(s) /\ Begun(s)' /\ Len(delta[s]) = Len(Orig)
    <3>1. Result(s)' = Result(s)
      BY <2>1 DEF Result
    <3>2. Begun(s) /\ Len(delta[s]) = Len(Orig)
      BY <1>0, <2>1 DEF OutputFits, DeltaFits
    <3> QED BY <1>0, <2>1, <3>1, <3>2 DEF Begun
  <2> QED BY <1>0, <2>1, <2>2, BegunLength DEF OutputFits
<1>3. CASE Delta(s)
  <2>1. /\ pc[s] = "delta" /\ buf'[s] = <<>> /\ data' = data /\ data[tmp[s]] = <<>>
        /\ \/ pc'[s] = "delta"
           \/ pc'[s] = "patch" /\ pos'[s] = 0 /\ fpTmpDest'[s] = tmp[s]
    BY <1>0, <1>3 DEF Delta, Blank, fsVars, Goto, Set, Typed
  <2>2. <<>> \o <<>> = <<>> /\ DOMAIN <<>> = {} /\ Len(<<>>) + Len(<<>>) = 0
    BY EmptySeq, ConcatEmptySeq
  <2>3. pc'[s] = "patch" => Begun(s)'
    BY <2>1, <2>2 DEF Begun, Result
  <2> QED BY <2>1, <2>3 DEF OutputFits
<1>4. CASE UnlinkDest(s) \/ RenameTmp(s)
  <2>1. /\ pc[s] \in {"unlink", "rename"} /\ UNCHANGED <<data, buf, pos, fpTmpDest>>
        /\ pc'[s] \in {"rename", "close"}
    BY <1>0, <1>4 DEF UnlinkDest, RenameTmp, Goto, Fails, Typed
  <2>2. Begun(s) /\ Begun(s)' /\ pos[s] = Len(Orig)
    <3>1. Result(s)' = Result(s)
      BY <2>1 DEF Result
    <3>2. Begun(s) /\ pos[s] = Len(Orig)
      BY <1>0, <2>1 DEF OutputFits
    <3> QED BY <1>0, <2>1, <3>1, <3>2 DEF Begun
  <2> QED BY <1>0, <2>1, <2>2, BegunLength DEF OutputFits
<1>5. CASE ~(Patch(s) \/ Delta(s) \/ UnlinkDest(s) \/ RenameTmp(s))
  <2>1. pc'[s] \notin {"patch", "unlink", "rename"}
    BY <1>0, <1>5, StepMoves
  <2>2. pc'[s] = "close" => fpTmpDest'[s] = NoFile
    <3> SUFFICES ASSUME pc'[s] = "close" PROVE fpTmpDest'[s] = NoFile
      OBVIOUS
    <3>1. MakeDest(s) \/ CreatDest(s) \/ MakeTemps(s) \/ RsyncFails(s)
      <4> USE DEF Typed, Goto, Fails, Set
      <4>1. ~AccessDest(s) /\ ~OpenDest(s) /\ ~OpenOrig(s)
        BY <1>0 DEF AccessDest, OpenDest, OpenOrig
      <4>2. ~Signature(s)
        BY <1>0 DEF Signature
      <4>3. ~CloseFiles(s) /\ ~Tidy(s)
        BY <1>0 DEF CloseFiles, Tidy, Return
      <4> QED BY <1>5, <4>1, <4>2, <4>3 DEF Step
    <3>2. fpTmpDest' = fpTmpDest /\ pc[s] \in {"make", "creat", "mkstemp", "sig", "delta", "patch"}
      BY <3>1 DEF MakeDest, CreatDest, MakeTemps, RsyncFails
    <3>3. pc[s] # "patch"
      <4>1. RsyncFails(s) => pc[s] # "patch"
        BY CalmParts DEF RsyncFails
      <4> QED BY <3>1, <4>1 DEF MakeDest, CreatDest, MakeTemps
    <3> QED BY <1>0, <3>2, <3>3 DEF Own
  <2> QED BY <2>1, <2>2 DEF OutputFits
<1> QED BY <1>1, <1>2, <1>3, <1>4, <1>5

LEMMA StepOtherOutput ==
  ASSUME Calm, NEW s \in Proc, Step(s), NEW r \in Proc, r # s
  PROVE  OutputFits(r)'
<1>0. /\ Inv /\ Typed /\ Filled /\ Own(r) /\ Own(s) /\ Ready(r) /\ OutputFits(r) /\ Orig' = Orig
  BY CalmParts, StepOrig
<1>1. /\ pc'[r] = pc[r] /\ fpTmpDest'[r] = fpTmpDest[r] /\ pos'[r] = pos[r] /\ buf'[r] = buf[r]
  BY CalmParts, StepOthers
<1>2. CASE pc[r] \in {"patch", "unlink", "rename"}
  <2>1. tmp[r] # NoFile /\ fpTmpDest[r] = tmp[r]
    BY <1>0, <1>2 DEF Ready, Own
  <2>2. data'[fpTmpDest[r]] = data[fpTmpDest[r]] /\ Result(r)' = Result(r)
    <3>1. data'[fpTmpDest[r]] = data[fpTmpDest[r]]
      BY <2>1, TmpStays
    <3> QED BY <1>1, <3>1 DEF Result
  <2>3. Begun(r) /\ (pc[r] \in {"unlink", "rename"} => pos[r] = Len(Orig))
    BY <1>0, <1>2 DEF OutputFits
  <2>4. Begun(r)'
    BY <1>0, <1>1, <2>2, <2>3 DEF Begun
  <2> QED BY <1>0, <1>1, <1>2, <2>3, <2>4 DEF OutputFits
<1>3. CASE pc[r] = "close" /\ fpTmpDest[r] # NoFile
  <2>1. /\ fpTmpDest[r] \in Inode /\ fpTmpDest[r] \notin Free /\ fpTmpDest[r] \notin Free'
    BY <1>0, <1>1, <1>3, InUse DEF Free
  <2>2. fpTmpDest[r] # fpTmpDest[s]
    BY <1>0, <1>3 DEF Own
  <2>3. data'[fpTmpDest[r]] \in {data[fpTmpDest[r]], <<>>}
    BY <1>0, <2>1, <2>2, StepFile
  <2>4. /\ Len(data[fpTmpDest[r]]) + Len(buf[r]) <= pos[r]
        /\ Len(data[fpTmpDest[r]]) \in Nat /\ Len(buf[r]) \in Nat /\ pos[r] \in Nat /\ Len(<<>>) = 0
    BY <1>0, <1>3, <2>1, LenProperties, EmptySeq DEF OutputFits, Filled, Typed
  <2>5. Len(data'[fpTmpDest[r]]) + Len(buf[r]) <= pos[r]
    <3>1. CASE data'[fpTmpDest[r]] = data[fpTmpDest[r]]
      BY <2>4, <3>1
    <3>2. CASE data'[fpTmpDest[r]] = <<>>
      <4>1. \A i, j, k \in Nat : i + j <= k => 0 + j <= k
        OBVIOUS
      <4> QED BY <2>4, <3>2, <4>1
    <3> QED BY <2>3, <3>1, <3>2
  <2>6. pc'[r] = "close"
    BY <1>1, <1>3
  <2> QED BY <1>1, <2>5, <2>6 DEF OutputFits
<1>4. CASE pc[r] \notin {"patch", "unlink", "rename", "close"} \/ fpTmpDest[r] = NoFile
  BY <1>0, <1>1, <1>2, <1>4 DEF OutputFits
<1> QED BY <1>2, <1>3, <1>4

LEMMA StepFits ==
  ASSUME Calm, AtMostTwo, NEW s \in Proc, Step(s), NEW r \in Proc
  PROVE  Fits(r)'
<1>1. Blank(r)' /\ Own(r)' /\ Reads(r)' /\ DeltaFits(r)'
  BY StepBlankDuo, StepOwn, StepReads, StepDeltaFits
<1>2. SigFits(r)' /\ OutputFits(r)'
  BY StepOwnSig, StepOtherSig, StepOwnOutput, StepOtherOutput
<1> QED BY <1>1, <1>2 DEF Fits

LEMMA SteadyDir ==
  ASSUME Typed, NEW s \in Proc, Step(s), pc[s] \notin {"creat", "rename"}, pc'[s] # "rename"
  PROVE  dir' = dir
<1> USE DEF Typed, Goto, fsVars
<1>1. CASE UnlinkDest(s)
  BY <1>1 DEF UnlinkDest
<1>2. CASE CreatDest(s) \/ RenameTmp(s)
  BY <1>2 DEF CreatDest, RenameTmp
<1>3. CASE ~(UnlinkDest(s) \/ CreatDest(s) \/ RenameTmp(s))
  BY <1>3 DEF Step, AccessDest, MakeDest, OpenDest, OpenOrig, MakeTemps, RsyncFails, Signature,
              Delta, Patch, CloseFiles, Tidy
<1> QED BY <1>1, <1>2, <1>3

LEMMA ClosingStep ==
  ASSUME NEW s \in Proc, Step(s), pc[s] = "close"
  PROVE  CloseFiles(s)
BY DEF Step, AccessDest, MakeDest, CreatDest, OpenDest, OpenOrig, MakeTemps, RsyncFails,
       Signature, Delta, Patch, UnlinkDest, RenameTmp, Tidy

LEMMA StepDestIsOrig ==
  ASSUME Calm, DestIsOrig, NEW s \in Proc, Step(s),
         pc[s] \notin {"creat", "rename"}, pc'[s] # "rename"
  PROVE  DestIsOrig'
<1>0. /\ Inv /\ Typed /\ Filled /\ \A r \in Proc : Own(r)
      /\ dir' = dir /\ Orig' = Orig
  BY CalmParts, SteadyDir, StepOrig
<1>1. PICK d : d = dir["dest"]
  OBVIOUS
<1>2. /\ d # NoFile /\ d \in Inode /\ d \notin Free /\ d \notin Free'
  BY <1>0, <1>1, InUse DEF DestIsOrig, Free
<1>3. d # tmp[s]
  BY <1>0, <1>1, <1>2 DEF Own
<1>4. \A t \in Proc : Pends(t, d)' => Pends(t, d)
  BY <1>2, <1>3, PendsBefore
<1>5. ~Pends(s, d) => data'[d] = data[d]
  <2>1. d = fpTmpDest[s] /\ pc[s] \in {"patch", "close"} => Pends(s, d)
    BY <1>0, <1>3 DEF Own, Pends
  <2> QED BY <1>0, <1>2, <2>1, StepFile
<1>6. CASE data[d] = Orig /\ \A r \in Proc : ~Pends(r, d)
  BY <1>0, <1>1, <1>2, <1>4, <1>5, <1>6 DEF DestIsOrig
<1>7. ASSUME NEW t \in Proc, Pends(t, d), Len(data[d]) + Len(buf[t]) = pos[t], Result(t) = Orig
      PROVE  DestIsOrig'
  <2>1. fpTmpDest[t] = d /\ pc[t] = "close"
    BY <1>7 DEF Pends
  <2>2. CASE t = s
    <3>1. CloseFiles(s)
      BY <2>1, <2>2, ClosingStep
    <3>2. /\ pc'[s] = "tidy"
          /\ data'[d] = Written(data[d], pos[s] - Len(buf[s]), buf[s], Zeros)
      BY <1>2, <2>1, <2>2, <3>1, CloseWrites
    <3>3. Written(data[d], pos[s] - Len(buf[s]), buf[s], Zeros) = Orig
      BY <1>0, <1>2, <1>7, <2>1, <2>2, CloseAppends
    <3>4. \A r \in Proc : ~Pends(r, d)'
      <4>1. \A r \in Proc \ {s} : fpTmpDest[r] # d
        BY <1>0, <1>2, <2>1, <2>2 DEF Own
      <4> QED BY <1>4, <3>2, <4>1 DEF Pends
    <3> QED BY <1>0, <1>1, <1>2, <3>2, <3>3, <3>4 DEF DestIsOrig
  <2>3. CASE t # s
    <3>1. data'[d] = data[d]
      <4>1. fpTmpDest[s] # d
        BY <1>0, <1>2, <2>1, <2>3 DEF Own
      <4> QED BY <1>5, <4>1 DEF Pends
    <3>2. /\ pc'[t] = pc[t] /\ fpTmpDest'[t] = fpTmpDest[t] /\ buf'[t] = buf[t] /\ pos'[t] = pos[t]
      BY <2>3, CalmParts, StepOthers
    <3>3. Result(t)' = Result(t) /\ Pends(t, d)'
      BY <1>7, <2>1, <3>1, <3>2 DEF Result, Pends
    <3> QED BY <1>0, <1>1, <1>2, <1>7, <3>1, <3>2, <3>3 DEF DestIsOrig
  <2> QED BY <2>2, <2>3
<1> QED BY <1>1, <1>6, <1>7 DEF DestIsOrig

(* What has been read of a file cannot get more than what it holds, unless  *)
(* the other call cuts it.                                                  *)
LEMMA StepHopefulOther ==
  ASSUME Calm, NEW s \in Proc, Step(s), pc[s] \notin {"creat", "rename"}, pc'[s] # "rename",
         NEW r \in Proc, r # s, Hopeful(r)
  PROVE  Hopeful(r)'
<1>0. /\ Inv /\ Typed /\ Filled /\ Own(s) /\ dir' = dir /\ dirOk' \in {dirOk, TRUE}
  BY CalmParts, SteadyDir, StepChanges
<1>1. pc'[r] = pc[r] /\ fpDest'[r] = fpDest[r] /\ sig'[r] = sig[r]
  BY CalmParts, StepOthers
<1>2. CASE pc[r] \in {"creat", "open", "unlink", "rename"}
  <2>1. pc[r] = "creat" => dirOk'
    <3>1. pc[r] = "creat" => dirOk
      BY DEF Hopeful
    <3>2. dirOk' \in {dirOk, TRUE}
      BY <1>0
    <3>3. dirOk => dirOk'
      BY <3>2
    <3> QED BY <3>1, <3>3
  <2>2. pc[r] \in {"open", "unlink"} => dir'["dest"] # NoFile
    BY <1>0, <1>2 DEF Hopeful
  <2> QED BY <1>1, <1>2, <2>1, <2>2 DEF Hopeful
<1>3. CASE /\ pc[r] \in {"openorig", "mkstemp", "sig", "delta", "patch"}
           /\ dir["dest"] # NoFile
           /\ fpDest[r] # NoFile /\ Len(sig[r]) <= Len(data[fpDest[r]])
  <2>1. /\ fpDest[r] \in Inode /\ fpDest[r] \notin Free /\ fpDest[r] \notin Free'
    BY <1>0, <1>1, <1>3, InUse DEF Free
  <2>2. Len(sig[r]) \in Nat /\ Len(data[fpDest[r]]) \in Nat
    BY <1>0, <2>1, LenProperties DEF Filled
  <2>3. CASE data'[fpDest[r]] = data[fpDest[r]]
    BY <1>0, <1>1, <1>3, <2>3 DEF Hopeful
  <2>4. CASE fpDest[r] = fpTmpDest[s] /\ pc[s] \in {"patch", "close"}
    <3>1. CloseFiles(s)
      BY <1>0, <1>3, <2>4, ClosingStep DEF Own
    <3>2. Len(data'[fpDest[r]]) \in Nat /\ Len(data[fpDest[r]]) <= Len(data'[fpDest[r]])
      BY <1>3, <2>4, <3>1, CloseExtends
    <3>3. Len(sig[r]) <= Len(data'[fpDest[r]])
      BY <1>3, <2>2, <3>2
    <3> QED BY <1>0, <1>1, <1>3, <3>3 DEF Hopeful
  <2> QED BY <1>0, <2>1, <2>3, <2>4, StepFile
<1> QED BY <1>2, <1>3 DEF Hopeful

(* The new file becomes dest with all of orig in it and in its buffer. *)
LEMMA RenamedIsOrig ==
  ASSUME Calm, NEW s \in Proc, RenameTmp(s)
  PROVE  DestIsOrig'
<1>0. /\ Inv /\ Typed /\ Filled /\ Own(s) /\ Ready(s) /\ OutputFits(s) /\ may = {} /\ Step(s)
  BY CalmParts DEF Step
<1>1. /\ pc[s] = "rename" /\ dir'["dest"] = tmp[s] /\ pc'[s] = "close"
      /\ UNCHANGED <<data, fpTmpDest, buf, pos>>
  BY <1>0 DEF RenameTmp, Set, Goto, Typed
<1>2. tmp[s] # NoFile /\ fpTmpDest[s] = tmp[s] /\ fpTmpDest[s] \in Inode
  BY <1>0, <1>1 DEF Ready, Own, Typed
<1>3. Begun(s) /\ pos[s] = Len(Orig)
  BY <1>0, <1>1 DEF OutputFits
<1>4. Orig' = Orig /\ Orig \in Seq(Blk)
  BY <1>0, StepOrig DEF Orig, Inv, Typed, Filled, Booked
<1>5. Result(s) \in Seq(Blk) /\ Len(Result(s)) = pos[s]
  BY <1>0, <1>2, <1>3, CloseAppends DEF Begun
<1>6. Result(s) = Orig
  <2>1. \A k \in 1..Len(Orig) : Result(s)[k] = Orig[k]
    BY <1>3, <1>5, LenProperties DEF Begun
  <2> QED BY <1>3, <1>4, <1>5, <2>1, SeqEqual
<1>7. Result(s)' = Orig' /\ Pends(s, dir["dest"])'
      /\ Len(data'[dir'["dest"]]) + Len(buf'[s]) = pos'[s]
  <2>1. Result(s)' = Result(s)
    BY <1>1 DEF Result
  <2>2. Len(data[fpTmpDest[s]]) + Len(buf[s]) = pos[s]
    BY <1>3 DEF Begun
  <2> QED BY <1>1, <1>2, <1>4, <1>6, <2>1, <2>2 DEF Pends
<1> QED BY <1>1, <1>2, <1>7 DEF DestIsOrig

(* A call that has got so far goes on to its rename(). *)
LEMMA StepHopefulOwn ==
  ASSUME Calm, NEW s \in Proc, Step(s), Hopeful(s)
  PROVE  Hopeful(s)' \/ RenameTmp(s)
<1>0. /\ Typed /\ Filled /\ Ready(s) /\ Blank(s) /\ Own(s) /\ Reads(s) /\ SigFits(s) /\ may = {}
      /\ dir["orig"] # NoFile
  BY CalmParts DEF Booked
<1> DEFINE Fitting == Len(sig[s]) <= Len(data[fpDest[s]])
<1>1. CASE CreatDest(s)
  <2>1. pc[s] = "creat" /\ dirOk
    BY <1>1 DEF CreatDest, Hopeful
  <2>2. Creat /\ pc'[s] = "open"
    BY <1>0, <1>1, <2>1 DEF CreatDest, Goto, Typed
  <2>3. dir'["dest"] # NoFile
    BY <1>0, <2>2, NewInodeIsFree, ValueAssumption DEF Creat, Set, Typed
  <2> QED BY <2>2, <2>3 DEF Hopeful
<1>2. CASE OpenDest(s)
  <2>1. pc[s] = "open" /\ dir["dest"] # NoFile
    BY <1>2 DEF OpenDest, Hopeful
  <2>2. /\ pc'[s] = "openorig" /\ fpDest'[s] = dir["dest"] /\ UNCHANGED <<dir, data, sig>>
    BY <1>0, <1>2 DEF OpenDest, Goto, Set, Typed, fsVars
  <2>3. sig[s] = <<>> /\ dir["dest"] \in Inode
    BY <1>0, <2>1 DEF Blank, Typed
  <2>4. Len(sig[s]) <= Len(data[dir["dest"]])
    <3>1. Len(sig[s]) = 0 /\ Len(data[dir["dest"]]) \in Nat
      BY <1>0, <2>3, EmptySeq, LenProperties DEF Filled
    <3> QED BY <3>1
  <2> QED BY <2>1, <2>2, <2>4 DEF Hopeful
<1>3. CASE OpenOrig(s)
  <2>1. pc[s] = "openorig" /\ dir["dest"] # NoFile /\ fpDest[s] # NoFile /\ Fitting
    BY <1>3 DEF OpenOrig, Hopeful
  <2>2. pc'[s] = "mkstemp" /\ UNCHANGED <<dir, data, sig, fpDest>>
    BY <1>0, <1>3 DEF OpenOrig, Goto, Typed, fsVars
  <2> QED BY <2>1, <2>2 DEF Hopeful
<1>4. CASE MakeTemps(s)
  <2>1. pc[s] = "mkstemp" /\ dir["dest"] # NoFile /\ fpDest[s] # NoFile /\ Fitting
    BY <1>4 DEF MakeTemps, Hopeful
  <2>2. /\ pc'[s] = "sig" /\ UNCHANGED <<dir, sig, fpDest>>
        /\ Free # {} /\ data' = Set(data, NewInode, <<>>)
    BY <1>0, <1>4 DEF MakeTemps, Goto, Typed
  <2>3. data'[fpDest[s]] = data[fpDest[s]]
    BY <1>0, <2>1, <2>2, NewInodeIsApart DEF Set, Typed, Filled
  <2> QED BY <2>1, <2>2, <2>3 DEF Hopeful
<1>5. CASE RsyncFails(s)
  BY <1>0, <1>5 DEF RsyncFails, Reads, Hopeful
<1>6. CASE Signature(s)
  <2>1. pc[s] = "sig" /\ dir["dest"] # NoFile /\ fpDest[s] # NoFile /\ Fitting
    BY <1>6 DEF Signature, Hopeful
  <2>2. pc'[s] \in {"sig", "delta"} /\ UNCHANGED <<dir, data, fpDest>>
    BY <1>0, <1>6, <2>1 DEF Signature, Goto, Typed, fsVars
  <2>3. /\ sig[s] \in Seq(Blk) /\ Len(sig[s]) \in Nat /\ data[fpDest[s]] \in Seq(Blk)
        /\ Len(data[fpDest[s]]) \in Nat /\ pos[s] = Len(sig[s])
    BY <1>0, <2>1, LenProperties DEF Typed, Filled, SigFits
  <2>4. Len(sig'[s]) <= Len(data[fpDest[s]])
    <3>1. CASE pos[s] < Len(data[fpDest[s]])
      <4>1. data[fpDest[s]][pos[s] + 1] \in Blk
        BY <2>3, <3>1, ElementOfSeq
      <4>2. sig'[s] = Append(sig[s], data[fpDest[s]][pos[s] + 1])
        BY <1>0, <1>6, <3>1 DEF Signature, Set, Filled
      <4>3. Len(sig'[s]) = Len(sig[s]) + 1
        BY <2>3, <4>1, <4>2, AppendProperties
      <4> QED BY <2>3, <3>1, <4>3
    <3>2. CASE ~(pos[s] < Len(data[fpDest[s]]))
      BY <1>6, <2>1, <3>2 DEF Signature
    <3> QED BY <3>1, <3>2
  <2> QED BY <2>1, <2>2, <2>4 DEF Hopeful
<1>7. CASE Delta(s)
  <2>1. pc[s] = "delta" /\ dir["dest"] # NoFile /\ fpDest[s] # NoFile /\ Fitting
    BY <1>7 DEF Delta, Hopeful
  <2>2. pc'[s] \in {"delta", "patch"} /\ UNCHANGED <<dir, data, sig, fpDest>>
    BY <1>0, <1>7, <2>1 DEF Delta, Goto, Typed, fsVars
  <2> QED BY <2>1, <2>2 DEF Hopeful
<1>8. CASE Patch(s)
  <2>1. pc[s] = "patch" /\ dir["dest"] # NoFile /\ fpDest[s] # NoFile /\ Fitting
    BY <1>8 DEF Patch, Hopeful
  <2>2. pc'[s] \in {"patch", "unlink"} /\ UNCHANGED <<dir, sig, fpDest>>
    <3>1. pos[s] < Len(delta[s]) => Applicable(NextPart(s), data[fpDest[s]])
      BY <2>1, PieceOfOrig
    <3> QED BY <1>0, <1>8, <2>1, <3>1 DEF Patch, NextPart, Goto, Typed
  <2>3. data'[fpDest[s]] = data[fpDest[s]]
    <3>1. fpTmpDest[s] # fpDest[s] /\ Inv
      BY <1>0, <2>1, CalmParts DEF Own, Ready
    <3>2. fpDest[s] \in Inode /\ fpDest[s] \notin Free /\ fpDest[s] \notin Free'
      BY <1>0, <2>1, <2>2, InUse DEF Free
    <3> QED BY <2>1, <3>1, <3>2, StepFile
  <2> QED BY <2>1, <2>2, <2>3 DEF Hopeful
<1>9. CASE UnlinkDest(s)
  <2>1. dir["dest"] # NoFile
    BY <1>9 DEF UnlinkDest, Hopeful
  <2>2. pc'[s] = "rename"
    BY <1>0, <1>9, <2>1 DEF UnlinkDest, Goto, Typed
  <2> QED BY <2>2 DEF Hopeful
<1>10. ~(AccessDest(s) \/ MakeDest(s) \/ CloseFiles(s) \/ Tidy(s))
  BY DEF AccessDest, MakeDest, CloseFiles, Tidy, Hopeful
<1> QED BY <1>1, <1>2, <1>3, <1>4, <1>5, <1>6, <1>7, <1>8, <1>9, <1>10 DEF Step

(* Only rename() makes a success. *)
LEMMA StepSucceeded ==
  ASSUME Calm, NEW s \in Proc, Step(s), pc[s] # "rename", NEW r \in Proc, Succeeded(r)'
  PROVE  Succeeded(r)
<1>0. Typed /\ may = {}
  BY CalmParts
<1>1. CASE r # s
  <2>1. pc'[r] = pc[r] /\ rc'[r] = rc[r]
    BY <1>1, CalmParts, StepOthers
  <2> QED BY <2>1 DEF Succeeded
<1>2. CASE r = s
  <2>1. ~RenameTmp(s)
    BY DEF RenameTmp
  <2>2. rc'[s] = "SUCCESS" /\ (CloseFiles(s) \/ Tidy(s))
    BY <1>0, <1>2, <2>1, StepMoves DEF Succeeded
  <2>3. rc' = rc /\ pc[s] \in {"close", "tidy"}
    BY <1>0, <2>2 DEF CloseFiles, Tidy
  <2> QED BY <1>2, <2>2, <2>3 DEF Succeeded
<1> QED BY <1>1, <1>2

(* rename() is what takes the other one's success away, and what makes its  *)
(* own; nothing but creat() can come between.                               *)
LEMMA StepLasting ==
  ASSUME Calm, Lasting, NEW s \in Proc, Step(s)
  PROVE  Lasting'
<1>0. /\ Inv /\ Typed /\ Booked /\ may = {} /\ dirOk \in BOOLEAN /\ \A r \in Proc : Ready(r)
  BY CalmParts
<1>1. CASE RenameTmp(s)
  BY <1>1, RenamedIsOrig DEF Lasting
<1>2. CASE CreatDest(s) /\ dirOk
  <2>1. pc[s] = "creat"
    BY <1>2 DEF CreatDest
  <2>2. Hopeful(s)
    BY <1>2, <2>1 DEF Hopeful
  <2>3. Hopeful(s)'
    BY <1>2, <2>1, <2>2, StepHopefulOwn DEF RenameTmp
  <2> QED BY <2>3 DEF Lasting
<1>3. CASE CreatDest(s) /\ ~dirOk
  <2>1. pc[s] # "rename" /\ dir["dest"] = NoFile
    BY <1>0, <1>3 DEF CreatDest, Booked
  <2>2. \A r \in Proc : ~Hopeful(r)
    BY <1>0, <1>3, <2>1 DEF Hopeful, Ready
  <2>3. \A r \in Proc : ~Succeeded(r)
    BY <2>1, <2>2 DEF Lasting, DestIsOrig
  <2> QED BY <2>1, <2>3, StepSucceeded DEF Lasting
<1>4. CASE UnlinkDest(s)
  <2>1. CASE pc'[s] = "rename"
    <3>1. Hopeful(s)'
      BY <2>1 DEF Hopeful
    <3> QED BY <3>1 DEF Lasting
  <2>2. CASE pc'[s] # "rename"
    <3>1. pc[s] = "unlink" /\ dir["dest"] = NoFile
      BY <1>0, <1>4, <2>2 DEF UnlinkDest, Goto, Typed
    <3>2. ~DestIsOrig /\ ~Hopeful(s)
      BY <3>1 DEF DestIsOrig, Hopeful
    <3>3. (\E r \in Proc : Succeeded(r)') => \E r \in Proc : Succeeded(r)
      BY <3>1, StepSucceeded
    <3>4. \A r \in Proc : Hopeful(r) => Hopeful(r)'
      BY <2>2, <3>1, <3>2, StepHopefulOther
    <3> QED BY <3>2, <3>3, <3>4 DEF Lasting
  <2> QED BY <2>1, <2>2
<1>5. CASE ~(RenameTmp(s) \/ CreatDest(s) \/ UnlinkDest(s))
  <2>1. pc[s] \notin {"creat", "rename"} /\ pc'[s] # "rename"
    <3>1. pc'[s] # "rename"
      BY <1>0, <1>5, StepMoves
    <3> QED BY <1>5, <3>1 DEF Step, AccessDest, MakeDest, OpenDest, OpenOrig, MakeTemps, RsyncFails,
                Signature, Delta, Patch, CloseFiles, Tidy
  <2>2. (\E r \in Proc : Succeeded(r)') => \E r \in Proc : Succeeded(r)
    BY <2>1, StepSucceeded
  <2>3. DestIsOrig => DestIsOrig'
    BY <2>1, StepDestIsOrig
  <2>4. \A r \in Proc : Hopeful(r) => Hopeful(r)'
    <3>1. Hopeful(s) => Hopeful(s)'
      BY <1>5, StepHopefulOwn
    <3>2. \A r \in Proc \ {s} : Hopeful(r) => Hopeful(r)'
      BY <2>1, StepHopefulOther
    <3> QED BY <3>1, <3>2
  <2> QED BY <2>2, <2>3, <2>4 DEF Lasting
<1> QED BY <1>1, <1>2, <1>3, <1>4, <1>5

-----------------------------------------------------------------------------
(* The invariant for two processes.                                         *)

LEMMA InitDuo ==
  ASSUME Init
  PROVE  (\A r \in Proc : Fits(r)) /\ Lasting
<1>1. /\ \A r \in Proc : /\ pc[r] = "idle" /\ tmp[r] = NoFile /\ rc[r] = "NONE"
                         /\ fpDest[r] = NoFile /\ fpOrig[r] = NoFile /\ fpTmpDest[r] = NoFile
                         /\ sig[r] = <<>> /\ delta[r] = <<>> /\ pos[r] = 0 /\ buf[r] = <<>>
  BY DEF Init
<1>2. \A r \in Proc : Fits(r)
  BY <1>1 DEF Fits, Blank, Own, Reads, SigFits, DeltaFits, OutputFits
<1>3. \A r \in Proc : ~Succeeded(r)
  BY <1>1 DEF Succeeded
<1> QED BY <1>2, <1>3 DEF Lasting

LEMMA StartDuo ==
  ASSUME Calm, Lasting, NEW s \in Proc, Start(s)
  PROVE  (\A r \in Proc : Fits(r)') /\ Lasting'
<1>0. /\ Typed /\ dir["orig"] # NoFile
      /\ \A r \in Proc : /\ Blank(r) /\ Own(r) /\ Reads(r)
                         /\ SigFits(r) /\ DeltaFits(r) /\ OutputFits(r)
  BY CalmParts DEF Booked
<1>1. /\ UNCHANGED <<dirOk, dir, tmp, data, fpDest, fpOrig, fpTmpDest, sig, delta, pos, buf>>
      /\ Orig' = Orig
  BY DEF Start, fsVars, Orig
<1>2. /\ pc[s] = "idle" /\ pc'[s] = "access"
      /\ \A r \in Proc \ {s} : pc'[r] = pc[r] /\ rc'[r] = rc[r]
  BY <1>0 DEF Start, Goto, Set, Typed
<1>3. \A r \in Proc, l \in {"creat", "open", "openorig", "mkstemp", "sig", "delta", "patch",
                            "unlink", "rename", "close"} : (pc'[r] = l) <=> (pc[r] = l)
  BY <1>2
<1>4. \A r \in Proc : \A i : Pends(r, i)' <=> Pends(r, i)
  BY <1>1, <1>3 DEF Pends
<1>5. ASSUME NEW r \in Proc PROVE Fits(r)'
  <2>1. Blank(r)'
    BY <1>0, <1>1, <1>2 DEF Blank
  <2>2. Own(r)' /\ Reads(r)'
    BY <1>0, <1>1, <1>2 DEF Own, Reads
  <2>3. SigFits(r)'
    BY <1>0, <1>1, <1>2, <1>4 DEF SigFits
  <2>4. DeltaFits(r)'
    BY <1>0, <1>1, <1>2 DEF DeltaFits
  <2>5. OutputFits(r)'
    <3>1. Begun(r) <=> Begun(r)'
      BY <1>1 DEF Begun, Result
    <3> QED BY <1>0, <1>1, <1>2, <3>1 DEF OutputFits
  <2> QED BY <2>1, <2>2, <2>3, <2>4, <2>5 DEF Fits
<1>6. \A r \in Proc : Succeeded(r)' => Succeeded(r)
  BY <1>2 DEF Succeeded
<1>7. \A r \in Proc : Hopeful(r) => Hopeful(r)'
  BY <1>1, <1>2 DEF Hopeful
<1>8. DestIsOrig => DestIsOrig'
  <2>1. \A r \in Proc : Result(r)' = Result(r)
    BY <1>1 DEF Result
  <2> QED BY <1>1, <1>4, <2>1 DEF DestIsOrig
<1> QED BY <1>5, <1>6, <1>7, <1>8 DEF Lasting

LEMMA NextDuo ==
  ASSUME DuoInv, AtMostTwo, [Next]_vars
  PROVE  DuoInv'
<1>1. Inv' /\ Inv /\ may = {}
  BY NextInv DEF DuoInv
<1>2. may' = {}
  BY <1>1 DEF Next, Recover, vars
<1>3. ASSUME Quiet' PROVE (\A r \in Proc : Fits(r)') /\ Lasting'
  <2>1. edits \in Nat /\ crashes \in Nat
    BY <1>1, BoundAssumption DEF Inv, Booked
  <2>2. ~Edit /\ \A s \in Proc : ~Crash(s)
    BY <1>3, <2>1 DEF Edit, Crash, Quiet
  <2>3. CASE UNCHANGED vars
    <3>1. Quiet
      BY <1>3, <2>3 DEF Quiet, vars, bookVars
    <3>2. /\ UNCHANGED <<dirOk, dir, tmp, data, pc, fpDest, fpOrig, fpTmpDest, sig, delta, pos,
                         buf, rc>>
          /\ \A r \in Proc : Fits(r)
          /\ Lasting
      BY <2>3, <3>1 DEF vars, fsVars, callVars, DuoInv
    <3>3. \A r \in Proc : Fits(r)'
      <4>1. \A r \in Proc : /\ Blank(r) /\ Own(r) /\ Reads(r)
                           /\ SigFits(r) /\ DeltaFits(r) /\ OutputFits(r)
        BY <3>2 DEF Fits
      <4>2. \A r \in Proc : Blank(r)' /\ Own(r)' /\ Reads(r)'
        BY <3>2, <4>1 DEF Blank, Own, Reads
      <4>3. \A r \in Proc : SigFits(r)' /\ DeltaFits(r)'
        BY <3>2, <4>1 DEF SigFits, Pends, DeltaFits, Orig
      <4>4. \A r \in Proc : OutputFits(r)'
        BY <3>2, <4>1 DEF OutputFits, Begun, Result, Orig
      <4> QED BY <4>2, <4>3, <4>4 DEF Fits
    <3>4. Lasting'
      BY <3>2 DEF Lasting, Succeeded, DestIsOrig, Hopeful, Pends, Orig, Result
    <3> QED BY <3>3, <3>4
  <2>4. CASE \E s \in Proc : Start(s) \/ Step(s)
    <3>1. PICK s \in Proc : Start(s) \/ Step(s)
      BY <2>4
    <3>2. edits' = edits /\ crashes' = crashes
      <4>1. Start(s) => edits' = edits /\ crashes' = crashes
        BY DEF Start
      <4>2. Step(s) => edits' = edits /\ crashes' = crashes
        BY <1>1, StepChanges DEF Inv, Booked
      <4> QED BY <3>1, <4>1, <4>2
    <3>3. Calm /\ Lasting
      BY <1>3, <3>2 DEF DuoInv, Quiet, Calm
    <3> QED BY <3>1, <3>3, StartDuo, StepFits, StepLasting
  <2> QED BY <1>1, <2>2, <2>3, <2>4 DEF Next, Recover
<1> QED BY <1>1, <1>2, <1>3 DEF DuoInv

LEMMA DuoInvariant ==
  ASSUME AtMostTwo, MayFail = {}
  PROVE  Spec => []DuoInv
<1>1. Init => DuoInv
  <2>1. Init => may = {}
    BY DEF Init
  <2> QED BY <2>1, InitInv, InitDuo DEF DuoInv
<1>2. DuoInv /\ [Next]_vars => DuoInv'
  BY NextDuo
<1> QED BY <1>1, <1>2, PTL DEF Spec

LEMMA DuoIsEnough == DuoInv => OneSuccessIsEnough
<1> SUFFICES ASSUME DuoInv, Quiet, \A r \in Proc : pc[r] = "idle", NEW p \in Proc, rc[p] = "SUCCESS"
             PROVE  Holds("dest") = Holds("orig") /\ dir["dest"] # NoFile
  BY DEF OneSuccessIsEnough, Active, Quiet
<1>1. Succeeded(p) /\ \A r \in Proc : ~Hopeful(r) /\ \A i : ~Pends(r, i)
  BY DEF Succeeded, Hopeful, Pends
<1>2. dir["dest"] # NoFile /\ data[dir["dest"]] = Orig
  BY <1>1 DEF DuoInv, Lasting, DestIsOrig
<1> QED BY <1>2 DEF DuoInv, Inv, Booked, Holds, Orig

(* Two processes side by side, any inodes and blocks, no call of the system *)
(* failing: although one may cut, remove or replace the dest the other is   *)
(* reading, once both have come to their end a single success is enough for *)
(* dest to be there and to equal orig (demo_file_data_sync).                *)
THEOREM OneSuccessLasts ==
  ASSUME NEW p, NEW q, Proc = {p, q}, MayFail = {}
  PROVE  Spec => []OneSuccessIsEnough
<1>1. AtMostTwo
  BY DEF AtMostTwo
<1>2. Spec => []DuoInv
  BY <1>1, DuoInvariant
<1> QED BY <1>2, DuoIsEnough, PTL
=============================================================================
