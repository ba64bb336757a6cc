--------------------------- MODULE MakePathProofs ---------------------------
(***************************************************************************)
(* Proofs about MakePath.tla, for any paths and any number of processes.   *)
(*                                                                         *)
(* demo_make_dir goes down its path to a directory that is there and makes *)
(* the others on its way back.  What it relies on is that the directory    *)
(* above the one it is about to make is there by then, whoever has made    *)
(* it: mkdir() may fail as often as it likes, as long as it only fails     *)
(* because another process has been faster.                                *)
(***************************************************************************)
EXTENDS MakePath, SequenceTheorems, TLAPS

Names == UNION {Range(g) : g \in Goal}

(* The first n names of a path. *)
LEMMA Beginnings ==
  ASSUME NEW g \in Goal
  PROVE  /\ g \in Seq(Names) /\ Len(g) \in Nat \ {0}
         /\ SubSeq(g, 1, 0) = <<>>
         /\ \A n \in 0..Len(g) :
              /\ Len(SubSeq(g, 1, n)) = n
              /\ IsPrefix(SubSeq(g, 1, n), g)
              /\ n > 0 => Front(SubSeq(g, 1, n)) = SubSeq(g, 1, n - 1)
<1>1. g \in Seq(Range(g)) /\ g # <<>> /\ Range(g) \subseteq Names
  BY GoalAssumption DEF Names
<1>2. g \in Seq(Names) /\ DOMAIN g = 1..Len(g) /\ Len(g) \in Nat
  <2>1. \A S, T : S \subseteq T => \A s \in Seq(S) : s \in Seq(T)
    OBVIOUS
  <2> QED BY <1>1, <2>1, LenProperties
<1>3. Len(g) # 0
  BY <1>1, <1>2, EmptySeq
<1>4. SubSeq(g, 1, 0) = <<>>
  BY SubSeqEmpty
<1>5. ASSUME NEW n \in 0..Len(g)
      PROVE  /\ Len(SubSeq(g, 1, n)) = n
             /\ IsPrefix(SubSeq(g, 1, n), g)
             /\ n > 0 => Front(SubSeq(g, 1, n)) = SubSeq(g, 1, n - 1)
  <2>1. \A i \in 1..n : g[i] \in Names
    BY <1>2, ElementOfSeq
  <2>2. SubSeq(g, 1, n) \in Seq(Names) /\ Len(SubSeq(g, 1, n)) = n
    BY <1>2, <2>1, SubSeqProperties
  <2>3. IsPrefix(SubSeq(g, 1, n), g)
    BY <1>2, <2>2, SubSeqFull DEF IsPrefix
  <2>4. ASSUME n > 0 PROVE Front(SubSeq(g, 1, n)) = SubSeq(g, 1, n - 1)
    <3>1. CASE n = 1
      BY <1>4, <2>2, <3>1, SubSeqEmpty DEF Front
    <3>2. CASE n > 1
      <4>1. SubSeq(SubSeq(g, 1, n), 1, n - 1) = SubSeq(g, 1, n - 1)
        <5>1. /\ 1 \in 1..Len(g) /\ n \in 1..Len(g)
              /\ 1 \in 1..(n - 1 + 1) /\ n - 1 \in 1..(n - 1 + 1)
          BY <1>2, <3>2
        <5> QED BY <1>2, <5>1, SubSeqOfSubSeq
      <4> QED BY <2>2, <4>1 DEF Front
    <3> QED BY <2>4, <3>1, <3>2
  <2> QED BY <2>2, <2>3, <2>4
<1> QED BY <1>2, <1>3, <1>4, <1>5

-----------------------------------------------------------------------------
PC == {"idle", "access", "creat", "look", "made", "mkdir", "recreat", "chdir"}

(* Types that do not depend on each other. *)
Typed ==
  /\ pc \in [Proc -> PC]
  /\ goal \in [Proc -> Goal]
  /\ caller \in [Proc -> {"file", "copy"}]
  /\ depth \in [Proc -> Nat]
  /\ rc \in [Proc -> {"NONE", "SUCCESS", "ERROR"}]
  /\ hurt \in [Proc -> BOOLEAN]
  /\ removals \in 0..MaxRemovals

(* demo_make_dir does not leave the directories of its path. *)
OnPath(p) ==
  /\ depth[p] <= Len(goal[p]) - 1
  /\ pc[p] = "mkdir" => depth[p] > 0
  /\ pc[p] \in {"access", "creat", "recreat"} => caller[p] = "file"
  /\ pc[p] = "chdir" => caller[p] = "copy"

(* Nobody makes what no path leads to. *)
OnWay(d) == \E g \in Goal : IsPrefix(d, g)

Shape ==
  /\ Typed
  /\ \A p \in Proc : OnPath(p)
  /\ \A d \in dirs \union files : OnWay(d)
  /\ <<>> \in dirs

(* What the call of p can rely on to be there. *)
Way(p) ==
  /\ pc[p] = "made" => Path(p) \in dirs
  /\ pc[p] = "mkdir" => Front(Path(p)) \in dirs
  /\ pc[p] \in {"recreat", "chdir"} => Dir(p) \in dirs
  /\ pc[p] = "idle" /\ rc[p] # "NONE" =>
       IF caller[p] = "file" THEN goal[p] \in files
       ELSE Dir(p) \in dirs /\ rc[p] = "SUCCESS"

WayInv == removals = 0 => \A p \in Proc : hurt[p] \/ Way(p)

LEMMA ShapeTypes == Shape => TypeOK
<1> SUFFICES ASSUME Shape PROVE TypeOK
  OBVIOUS
<1>1. \A p \in Proc : depth[p] \in 0..Len(goal[p])
  <2> SUFFICES ASSUME NEW p \in Proc PROVE depth[p] \in 0..Len(goal[p])
    OBVIOUS
  <2>1. goal[p] \in Goal /\ depth[p] \in Nat /\ depth[p] <= Len(goal[p]) - 1
    BY DEF Shape, Typed, OnPath
  <2>2. Len(goal[p]) \in Nat
    BY <2>1, Beginnings
  <2> QED BY <2>1, <2>2
<1> QED BY <1>1 DEF Shape, Typed, OnWay, TypeOK, PC

LEMMA InitShape == Init => Shape /\ WayInv
<1> SUFFICES ASSUME Init PROVE Shape /\ WayInv
  OBVIOUS
<1>1. \A p \in Proc : goal[p] \in Goal /\ Len(goal[p]) \in Nat \ {0}
  BY Beginnings DEF Init
<1>2. \A p \in Proc : OnPath(p)
  BY <1>1 DEF Init, OnPath
<1>3. OnWay(<<>>)
  <2>1. PICK g \in Goal : TRUE
    BY GoalAssumption
  <2>2. 0 \in 0..Len(g)
    BY <2>1, Beginnings
  <2>3. IsPrefix(SubSeq(g, 1, 0), g) /\ SubSeq(g, 1, 0) = <<>>
    BY <2>1, <2>2, Beginnings
  <2> QED BY <2>1, <2>3 DEF OnWay
<1>4. Shape
  BY <1>1, <1>2, <1>3, FaultAssumption DEF Init, Shape, Typed, PC
<1>5. WayInv
  BY DEF Init, WayInv, Way
<1> QED BY <1>4, <1>5

(* Only mkdir() makes a directory, in one that is there. *)
LEMMA StepShape ==
  ASSUME Shape, NEW p \in Proc, Step(p)
  PROVE  Shape'
<1>1. /\ Typed /\ OnPath(p) /\ goal[p] \in Goal /\ depth[p] \in Nat
      /\ goal' = goal /\ caller' = caller /\ removals' = removals
      /\ Len(goal[p]) \in Nat \ {0} /\ OnWay(goal[p])
  <2>1. Typed /\ OnPath(p) /\ goal[p] \in Goal /\ depth[p] \in Nat
    BY DEF Shape, Typed
  <2>2. Len(goal[p]) \in Nat \ {0}
    BY <2>1, Beginnings
  <2>3. goal' = goal /\ caller' = caller /\ removals' = removals
    BY DEF Step, Access, Creat, Look, Made, Mkdir, Recreat, Chdir
  <2>4. Len(goal[p]) \in 0..Len(goal[p])
    BY <2>2
  <2>5. SubSeq(goal[p], 1, Len(goal[p])) = goal[p]
    BY <2>1, Beginnings, SubSeqFull
  <2>6. IsPrefix(SubSeq(goal[p], 1, Len(goal[p])), goal[p])
    BY <2>1, <2>4, Beginnings
  <2>7. IsPrefix(goal[p], goal[p])
    BY <2>5, <2>6
  <2> QED BY <2>1, <2>2, <2>3, <2>7 DEF OnWay
<1>2. depth' \in [Proc -> Nat] /\ OnPath(p)'
  <2> USE <1>1 DEF Typed, OnPath, PC, Goto, Return, Set
  <2>1. CASE Access(p)
    BY <2>1 DEF Access
  <2>2. CASE Creat(p)
    BY <2>2 DEF Creat
  <2>3. CASE Look(p)
    BY <2>3 DEF Look
  <2>4. CASE Made(p)
    <3>1. \A i, j \in Nat : i < j - 1 => i + 1 <= j - 1 /\ i + 1 > 0
      OBVIOUS
    <3>2. depth[p] \in Nat /\ Len(goal[p]) \in Nat /\ depth[p] <= Len(goal[p]) - 1
      BY <1>1
    <3>3. CASE depth[p] < Len(goal[p]) - 1
      <4>1. /\ depth' = [depth EXCEPT ![p] = depth[p] + 1] /\ pc' = [pc EXCEPT ![p] = "mkdir"]
            /\ depth[p] + 1 <= Len(goal[p]) - 1 /\ depth[p] + 1 > 0
        BY <2>4, <3>1, <3>2, <3>3 DEF Made
      <4> QED BY <4>1
    <3>4. CASE ~(depth[p] < Len(goal[p]) - 1)
      BY <2>4, <3>4 DEF Made
    <3> QED BY <3>3, <3>4
  <2>5. CASE Mkdir(p)
    BY <2>5 DEF Mkdir
  <2>6. CASE Recreat(p)
    BY <2>6 DEF Recreat
  <2>7. CASE Chdir(p)
    BY <2>7 DEF Chdir
  <2> QED BY <2>1, <2>2, <2>3, <2>4, <2>5, <2>6, <2>7 DEF Step
<1>3. Typed'
  BY <1>1, <1>2 DEF Typed, PC, Goto, Return, Set, Step, Access, Creat, Look, Made, Mkdir,
                    Recreat, Chdir
<1>4. \A q \in Proc : OnPath(q)'
  <2> SUFFICES ASSUME NEW q \in Proc, q # p PROVE OnPath(q)'
    BY <1>2
  <2>1. pc'[q] = pc[q] /\ depth'[q] = depth[q]
    BY <1>1 DEF Typed, Goto, Return, Set, Step, Access, Creat, Look, Made, Mkdir,
                Recreat, Chdir
  <2> QED BY <1>1, <2>1 DEF OnPath, Shape
<1>5. /\ dirs \subseteq dirs' /\ dirs' \subseteq dirs \union {Path(p)}
      /\ files' \subseteq files \union {goal[p]}
  BY DEF Step, Access, Creat, Look, Made, Mkdir, Recreat, Chdir
<1>6. OnWay(Path(p))
  <2>1. depth[p] \in 0..Len(goal[p])
    BY <1>1 DEF OnPath
  <2> QED BY <1>1, <2>1, Beginnings DEF OnWay, Path
<1>7. \A d \in dirs' \union files' : OnWay(d)
  BY <1>1, <1>5, <1>6 DEF Shape
<1> QED BY <1>3, <1>4, <1>5, <1>7 DEF Shape, OnWay

(* What a call relies on stays there while nobody removes it, whatever the  *)
(* others do; and each step takes it to what the next one relies on.        *)
LEMMA StepWay ==
  ASSUME Shape, WayInv, NEW p \in Proc, Step(p)
  PROVE  WayInv'
<1> SUFFICES ASSUME removals' = 0, NEW q \in Proc, ~hurt'[q] PROVE Way(q)'
  BY DEF WayInv
<1>1. /\ dirs \subseteq dirs' /\ files \subseteq files' /\ goal' = goal /\ caller' = caller
      /\ removals = 0
  BY DEF Step, Access, Creat, Look, Made, Mkdir, Recreat, Chdir
<1>2. Typed /\ OnPath(q)
  BY DEF Shape
<1>3. CASE q # p
  <2>1. pc'[q] = pc[q] /\ depth'[q] = depth[q] /\ rc'[q] = rc[q] /\ hurt'[q] = hurt[q]
    BY <1>2, <1>3 DEF Typed, Goto, Return, Set, Step, Access, Creat, Look, Made, Mkdir,
                      Recreat, Chdir
  <2>2. Way(q)
    BY <1>1, <2>1 DEF WayInv
  <2> QED BY <1>1, <2>1, <2>2 DEF Way, Path, Dir
<1>4. CASE q = p
  <2>1. ~hurt[p] /\ Way(p)
    <3>1. ~hurt[p]
      BY <1>2, <1>4 DEF Typed, Set, Step, Access, Creat, Look, Made, Mkdir, Recreat, Chdir
    <3> QED BY <1>1, <3>1 DEF WayInv
  <2>2. /\ SubSeq(goal[p], 1, 0) = <<>> /\ Len(goal[p]) \in Nat \ {0}
        /\ depth[p] \in Nat /\ depth[p] <= Len(goal[p]) - 1 /\ <<>> \in dirs
        /\ \A n \in 1..Len(goal[p]) :
             Front(SubSeq(goal[p], 1, n)) = SubSeq(goal[p], 1, n - 1)
        /\ Dir(p) = SubSeq(goal[p], 1, Len(goal[p]) - 1)
    <3>1. goal[p] \in Goal /\ depth[p] \in Nat
      BY <1>2 DEF Typed
    <3>2. \A n \in 1..Len(goal[p]) : n \in 0..Len(goal[p]) /\ n > 0
      BY <3>1, Beginnings
    <3> QED BY <1>2, <1>4, <3>1, <3>2, Beginnings DEF OnPath, Dir, Front, Shape
  <2> USE <1>1, <1>2, <1>4 DEF Typed, OnPath, PC, Goto, Return, Set
  <2>3. CASE Access(p)
    BY <2>3 DEF Access, Way
  <2>4. CASE Creat(p)
    BY <2>4 DEF Creat, Way
  <2>5. CASE Look(p)
    BY <2>2, <2>5, ZenonT(40) DEF Look, Way, Path
  <2>6. CASE Made(p)
    <3>1. pc[p] = "made" /\ SubSeq(goal[p], 1, depth[p]) \in dirs /\ dirs' = dirs
      BY <2>1, <2>6 DEF Made, Way, Path
    <3>2. \/ depth[p] < Len(goal[p]) - 1 /\ pc'[p] = "mkdir" /\ depth'[p] = depth[p] + 1
          \/ depth[p] = Len(goal[p]) - 1 /\ pc'[p] \in {"recreat", "chdir"}
      BY <2>2, <2>6 DEF Made
    <3>3. CASE pc'[p] = "mkdir"
      <4>1. depth[p] + 1 \in 1..Len(goal[p]) /\ depth[p] + 1 - 1 = depth[p]
        BY <2>2, <3>2, <3>3
      <4>2. Front(SubSeq(goal[p], 1, depth[p] + 1)) = SubSeq(goal[p], 1, depth[p])
        BY <2>2, <4>1
      <4> QED BY <3>1, <3>2, <3>3, <4>2 DEF Way, Path
    <3>4. CASE pc'[p] \in {"recreat", "chdir"}
      BY <2>2, <3>1, <3>2, <3>4 DEF Way, Dir
    <3> QED BY <3>2, <3>3, <3>4
  <2>7. CASE Mkdir(p)
    BY <2>1, <2>7 DEF Mkdir, Way, Path
  <2>8. CASE Recreat(p)
    BY <2>1, <2>8 DEF Recreat, Way
  <2>9. CASE Chdir(p)
    BY <2>1, <2>9 DEF Chdir, Way, Dir
  <2> QED BY <2>3, <2>4, <2>5, <2>6, <2>7, <2>8, <2>9 DEF Step
<1> QED BY <1>3, <1>4

LEMMA StartShape ==
  ASSUME Shape, WayInv, NEW p \in Proc, NEW c \in {"file", "copy"}, NEW g \in Goal,
         Start(p, c, g)
  PROVE  Shape' /\ WayInv'
<1>1. Len(g) - 1 \in Nat
  BY Beginnings
<1>2. Typed'
  BY <1>1 DEF Start, Shape, Typed, PC, Goto, Set
<1>3. \A q \in Proc : OnPath(q)'
  BY <1>1 DEF Start, Shape, Typed, OnPath, Goto, Set
<1>4. WayInv'
  <2> SUFFICES ASSUME removals = 0, NEW q \in Proc, ~hurt'[q] PROVE Way(q)'
    BY DEF Start, WayInv
  <2>1. CASE q = p
    BY <2>1 DEF Start, Shape, Typed, Way, Goto, Set
  <2>2. CASE q # p
    <3>1. /\ pc'[q] = pc[q] /\ depth'[q] = depth[q] /\ rc'[q] = rc[q] /\ hurt'[q] = hurt[q]
          /\ goal'[q] = goal[q] /\ caller'[q] = caller[q] /\ dirs' = dirs /\ files' = files
      BY <2>2 DEF Start, Shape, Typed, Goto, Set
    <3>2. Way(q)
      BY <3>1 DEF WayInv
    <3> QED BY <3>1, <3>2 DEF Way, Path, Dir
  <2> QED BY <2>1, <2>2
<1> QED BY <1>2, <1>3, <1>4 DEF Start, Shape, OnWay

LEMMA Invariance == Spec => [](Shape /\ WayInv)
<1>1. Shape /\ WayInv /\ [Next]_vars => Shape' /\ WayInv'
  <2> SUFFICES ASSUME Shape, WayInv, [Next]_vars PROVE Shape' /\ WayInv'
    OBVIOUS
  <2>1. CASE \E d \in dirs : Rmdir(d)
    <3>1. /\ removals' = removals + 1 /\ removals' \in 0..MaxRemovals /\ <<>> \in dirs'
          /\ dirs' \subseteq dirs
          /\ UNCHANGED <<files, pc, goal, caller, depth, rc, hurt>>
      BY <2>1, FaultAssumption DEF Rmdir, Shape, Typed
    <3>2. removals' # 0
      BY <3>1 DEF Shape, Typed
    <3> QED BY <3>1, <3>2 DEF Shape, Typed, OnPath, OnWay, WayInv
  <2>2. CASE UNCHANGED vars
    BY <2>2 DEF vars, Shape, Typed, OnPath, OnWay, WayInv, Way, Path, Dir
  <2> QED BY <2>1, <2>2, StepShape, StepWay, StartShape DEF Next
<1> QED BY <1>1, InitShape, PTL DEF Spec

(* Any paths and any number of processes: demo_make_dir stays on the path   *)
(* it has been given, and nothing is made that is on no path (TypeOK).      *)
THEOREM TypeCorrect == Spec => []TypeOK
<1>1. Shape => TypeOK
  BY ShapeTypes
<1> QED BY <1>1, Invariance, PTL

(* Any paths and any number of processes side by side, calls that fail, and *)
(* until somebody removes a directory: a call none of whose own calls has   *)
(* failed for another reason than that somebody was faster has its file or  *)
(* its directory (EndMeansMade, demo_make_file, demo_make_dir).             *)
THEOREM WantedIsMade == Spec => []EndMeansMade
<1>1. WayInv => EndMeansMade
  BY DEF WayInv, Way, EndMeansMade
<1> QED BY <1>1, Invariance, PTL
=============================================================================
