--------------------------- MODULE JobListProofs ---------------------------
(***************************************************************************)
(* Type correctness, NoStrayTmp, MissingOnlyMidSave and NoLoss of          *)
(* JobList.tla, for any number of processes and names and any bounds.      *)
(*                                                                         *)
(* NoLoss is not inductive.  What keeps it true is that every process that *)
(* has loaded the list carries all owed names in memory until it has put   *)
(* them back (CarriesOwed), and that the list, when it can be parsed or    *)
(* nobody is about to replace it, holds them too (ListHoldsOwed).          *)
(***************************************************************************)
EXTENDS JobList, SeqLemmas

(* What a process knows about its own command line, memory and temporary    *)
(* file at each step.                                                       *)
Local(p) ==
  /\ req[p].add => req[p].name \in Name
  /\ pc[p] \in {"idle", "init", "make", "creat", "recreat"} => ~doing[p]
  /\ pc[p] = "add" => req[p].add /\ ~doing[p]
  /\ pc[p] \in {"do", "run"} => doing[p]
  /\ pc[p] \in {"save", "write", "unlink", "rename", "out"} /\ ~doing[p] =>
       req[p].add
  /\ pc[p] \in {"save", "write", "unlink", "rename"} /\ ~doing[p] =>
       req[p].name \in ToSet(ctx[p])
  /\ pc[p] = "run" => /\ ctx[p] # <<>>
                      /\ req[p].name \in {NULL} \union ToSet(ctx[p])
  /\ pc[p] \in {"unlink", "rename"} => tmp[p] = Whole(ctx[p])

TypeInv == TypeOK /\ \A p \in Proc : Local(p)

(* An invocation with -a runs alone. *)
AddsAlone == \A p, q \in Proc : p # q /\ Active(p) /\ Active(q) => ~req[p].add

OrphanNames == UNION {NamesOf(f) : f \in orphans}

CarriesOwed ==
  \A p \in Proc : pc[p] \in {"run", "save", "write", "unlink", "rename"} =>
    owed \subseteq ToSet(ctx[p]) \union OrphanNames

ListHoldsOwed ==
  list.kind = "whole" \/ (\A p \in Proc : pc[p] # "rename") =>
    owed \subseteq NamesOf(list) \union OrphanNames

(* Between its rename() and its answer an -a has its job in the list. *)
JustAdded ==
  \A p \in Proc : pc[p] = "out" /\ rc[p] = "SUCCESS" /\ ~doing[p] =>
    req[p].name \in NamesOf(list)

Safe == AddsAlone /\ CarriesOwed /\ ListHoldsOwed /\ JustAdded

SafeInv == ~clobbered /\ fatal = {} => Safe

IInv == TypeInv /\ SafeInv

-----------------------------------------------------------------------------
(* Lemmas.                                                                  *)

(* demo_del_job_from_ctx finds an entry, and one with the wanted name. *)
LEMMA JobIndexProperties ==
  ASSUME NEW s \in Seq(Name), s # <<>>, NEW n \in {NULL} \union ToSet(s)
  PROVE  /\ JobIndex(s, n) \in 1..Len(s)
         /\ n # NULL => s[JobIndex(s, n)] = n
<1>1. Len(s) \in Nat /\ Len(s) # 0 /\ DOMAIN s = 1..Len(s)
  BY LenProperties, EmptySeq
<1>2. CASE n = NULL
  BY <1>1, <1>2 DEF JobIndex
<1>3. CASE n # NULL
  <2> DEFINE I == {i \in 1..Len(s) : s[i] = n}
  <2>1. I \subseteq Nat /\ I # {}
    BY <1>1, <1>3 DEF ToSet
  <2>2. Min(I) \in I
    BY <2>1, LeastElement
  <2>3. JobIndex(s, n) = Min(I)
    BY <1>3, <2>1 DEF JobIndex, SelectInSeq
  <2> QED BY <2>2, <2>3
<1> QED BY <1>2, <1>3

(* The invocation of p ends, whatever its result. *)
Returns(p) == Return(p, "SUCCESS") \/ Return(p, "ERROR")

(* A step of one process leaves what the others have as it is. *)
Frame(p) ==
  \A q \in Proc \ {p} :
    /\ pc'[q] = pc[q]
    /\ req'[q] = req[q]
    /\ doing'[q] = doing[q]
    /\ ctx'[q] = ctx[q]
    /\ rc'[q] = rc[q]
    /\ tmp'[q] = tmp[q]
    /\ q \in unremoved => q \in unremoved'

LEMMA StepFrame ==
  ASSUME TypeOK, NEW p \in Proc, Step(p)
  PROVE  Frame(p)
<1> USE DEF TypeOK, Frame, Goto, Returns, Return, fileVars, bookVars
<1>1. CASE InitAccess(p)
  BY <1>1 DEF InitAccess, Initialised
<1>2. CASE MakeAccess(p)
  BY <1>2 DEF MakeAccess
<1>3. CASE Creat(p)
  BY <1>3 DEF Creat, Initialised
<1>4. CASE Recreat(p)
  BY <1>4 DEF Recreat
<1>5. CASE AddJob(p)
  BY <1>5 DEF AddJob
<1>6. CASE CoverOpen(p)
  BY <1>6 DEF CoverOpen, Saved, NotSaved
<1>7. CASE CoverWrite(p)
  BY <1>7 DEF CoverWrite, CoverFails
<1>8. CASE CoverUnlink(p)
  BY <1>8 DEF CoverUnlink, CoverFails
<1>9. CASE CoverRename(p)
  BY <1>9 DEF CoverRename, CoverFails
<1>10. CASE CoverOut(p)
  BY <1>10 DEF CoverOut, Saved, NotSaved
<1>11. CASE DoLoad(p)
  BY <1>11 DEF DoLoad
<1>12. CASE RunJob(p)
  BY <1>12 DEF RunJob
<1> QED BY <1>1, <1>2, <1>3, <1>4, <1>5, <1>6, <1>7, <1>8, <1>9, <1>10, <1>11,
          <1>12 DEF Step

LEMMA OthersLocal ==
  ASSUME NEW p \in Proc, Frame(p), \A q \in Proc : Local(q), Local(p)'
  PROVE  \A q \in Proc : Local(q)'
BY DEF Frame, Local

-----------------------------------------------------------------------------
(* Type correctness.                                                        *)

LEMMA FilesAreFiles ==
  /\ Absent \in File /\ Zero \in File /\ Torn \in File
  /\ \A s \in Seq(Name) : Whole(s) \in File
  /\ \A s : Whole(s) # Torn /\ Whole(s) # Absent /\ Whole(s).jobs = s
  /\ Absent # Torn /\ Zero # Torn /\ Zero # Absent
  /\ Absent.jobs = <<>> /\ Zero.jobs = <<>> /\ Torn.jobs = <<>>
  /\ \A f \in File : f.jobs \in Seq(Name)
  /\ \A f \in File : f.kind = "whole" => f # Absent
<1>1. Absent \in File /\ Zero \in File /\ Torn \in File
  BY DEF File
<1>2. \A s \in Seq(Name) : Whole(s) \in File
  BY DEF File, Whole
<1>3. \A s : /\ Whole(s).kind = "whole" /\ Whole(s).jobs = s
             /\ Absent.kind = "absent" /\ Absent.jobs = <<>>
             /\ Zero.kind = "zero" /\ Zero.jobs = <<>>
             /\ Torn.kind = "torn" /\ Torn.jobs = <<>>
  BY DEF Absent, Zero, Torn, Whole
<1>4. \A f \in File : f.jobs \in Seq(Name)
  <2>1. <<>> \in Seq(Name)
    OBVIOUS
  <2> QED BY <1>3, <2>1 DEF File
<1> QED BY <1>1, <1>2, <1>3, <1>4

(* Returning to the prompt gives every variable of a process a value of its *)
(* type and nothing for Local to ask.                                       *)
LEMMA ReturnLocal ==
  ASSUME TypeOK, NEW p \in Proc, Returns(p)
  PROVE  /\ pc' \in [Proc -> PC]
         /\ req' \in [Proc -> Request]
         /\ doing' \in [Proc -> BOOLEAN]
         /\ ctx' \in [Proc -> Seq(Name)]
         /\ rc' \in [Proc -> {"SUCCESS", "ERROR"}]
         /\ Local(p)'
<1>1. NoRequest \in Request /\ "idle" \in PC /\ <<>> \in Seq(Name)
  BY DEF NoRequest, Request, PC
<1>2. pc'[p] = "idle" /\ req'[p] = NoRequest /\ ~doing'[p]
  BY DEF TypeOK, Returns, Return, Goto
<1>3. Local(p)'
  BY <1>2 DEF Local, NoRequest
<1>4. CASE Return(p, "SUCCESS")
  BY <1>1, <1>3, <1>4 DEF TypeOK, Return, Goto
<1>5. CASE Return(p, "ERROR")
  BY <1>1, <1>3, <1>5 DEF TypeOK, Return, Goto
<1> QED BY <1>4, <1>5 DEF Returns

LEMMA InvokeTypes ==
  ASSUME TypeInv, NEW p \in Proc, NEW a \in BOOLEAN, NEW d \in BOOLEAN,
         NEW n \in Name \union {NULL}, Invoke(p, a, d, n)
  PROVE  TypeInv'
<1>1. TypeOK'
  <2>1. adds' \in 0..MaxAdds
    BY BoundAssumption DEF TypeInv, TypeOK, Invoke
  <2>2. [add |-> a, do |-> d, name |-> n] \in Request /\ "init" \in PC
    BY DEF Request, PC
  <2>3. pc' \in [Proc -> PC] /\ req' \in [Proc -> Request]
    BY <2>2 DEF TypeInv, TypeOK, Invoke, Goto
  <2>4. clobbered' \in BOOLEAN
    BY DEF TypeInv, TypeOK, Invoke, Active
  <2>5. tmp' \in [Proc -> File]
    BY FilesAreFiles DEF TypeInv, TypeOK, Invoke
  <2> QED BY <2>1, <2>3, <2>4, <2>5 DEF TypeInv, TypeOK, Invoke
<1>2. Frame(p)
  BY DEF TypeInv, TypeOK, Frame, Invoke, Goto
<1>3. Local(p)'
  BY DEF TypeInv, TypeOK, Local, Invoke, Goto
<1> QED BY <1>1, <1>2, <1>3, OthersLocal DEF TypeInv

(* The variables of the processes that a step of p may set all at once. *)
ProcTyped(p) ==
  /\ pc' \in [Proc -> PC]
  /\ req' \in [Proc -> Request]
  /\ doing' \in [Proc -> BOOLEAN]
  /\ ctx' \in [Proc -> Seq(Name)]
  /\ rc' \in [Proc -> {"SUCCESS", "ERROR"}]
  /\ Local(p)'

LEMMA ReturnTypes ==
  ASSUME TypeOK, NEW p \in Proc, Returns(p)
  PROVE  ProcTyped(p)
BY ReturnLocal DEF ProcTyped

LEMMA InitialisedTypes ==
  ASSUME TypeInv, NEW p \in Proc, pc[p] \in {"init", "creat"}, Initialised(p)
  PROVE  ProcTyped(p)
<1> USE DEF TypeInv, TypeOK
<1>1. CASE req[p].add /\ Goto(p, "add") /\ UNCHANGED <<req, doing, ctx, rc>>
  BY <1>1 DEF ProcTyped, Goto, PC, Local
<1>2. CASE /\ ~req[p].add /\ Goto(p, "do")
           /\ doing' = [doing EXCEPT ![p] = TRUE] /\ UNCHANGED <<req, ctx, rc>>
  BY <1>2 DEF ProcTyped, Goto, PC, Local
<1>3. CASE Returns(p)
  BY <1>3, ReturnTypes
<1> QED BY <1>1, <1>2, <1>3 DEF Initialised, Returns

LEMMA SavedTypes ==
  ASSUME TypeInv, NEW p \in Proc, pc[p] \in {"save", "out"}, Saved(p)
  PROVE  ProcTyped(p) /\ owed' \subseteq Name
<1> USE DEF TypeInv, TypeOK
<1>1. owed' \subseteq Name
  BY DEF Saved, Local
<1>2. CASE ~doing[p] /\ req[p].do
  <2>1. <<>> \in Seq(Name) /\ "do" \in PC
    BY DEF PC
  <2>2. /\ pc' = [pc EXCEPT ![p] = "do"]
        /\ doing' = [doing EXCEPT ![p] = TRUE]
        /\ ctx' = [ctx EXCEPT ![p] = <<>>]
        /\ UNCHANGED <<req, rc>>
    BY <1>2 DEF Saved, Goto
  <2>3. Local(p)'
    BY <2>2 DEF Local
  <2> QED BY <1>1, <2>1, <2>2, <2>3 DEF ProcTyped
<1>3. CASE ~(~doing[p] /\ req[p].do)
  <2>1. Returns(p)
    BY <1>3 DEF Saved, Returns
  <2> QED BY <1>1, <2>1, ReturnTypes
<1> QED BY <1>2, <1>3

LEMMA NotSavedTypes ==
  ASSUME TypeInv, NEW p \in Proc, NotSaved(p)
  PROVE  ProcTyped(p) /\ owed' \subseteq Name
BY ReturnTypes DEF TypeInv, TypeOK, NotSaved, Returns

LEMMA CoverFailsTypes ==
  ASSUME TypeInv, NEW p \in Proc, pc[p] \in {"write", "unlink", "rename"},
         CoverFails(p), UNCHANGED <<req, doing, ctx>>
  PROVE  ProcTyped(p)
<1> USE DEF TypeInv, TypeOK
<1>1. pc'[p] = "out" /\ pc' \in [Proc -> PC]
  BY DEF CoverFails, Goto, PC
<1>2. Local(p)'
  BY <1>1 DEF Local
<1> QED BY <1>1, <1>2 DEF ProcTyped, CoverFails

LEMMA StepTypes ==
  ASSUME TypeInv, NEW p \in Proc, Step(p)
  PROVE  TypeOK' /\ Local(p)'
<1> SUFFICES /\ ProcTyped(p)
             /\ list' \in File \ {Torn} /\ dirOk' \in BOOLEAN
             /\ tmp' \in [Proc -> File] /\ orphans' \subseteq File
             /\ owed' \subseteq Name /\ clobbered' \in BOOLEAN
             /\ fatal' \subseteq Destructive /\ unremoved' \subseteq Proc
             /\ adds' \in 0..MaxAdds /\ crashes' \in 0..MaxCrashes
  BY DEF ProcTyped, TypeOK
<1> USE DEF TypeInv, TypeOK, fileVars, bookVars, Destructive
<1>1. CASE InitAccess(p)
  <2>1. CASE Goto(p, "make") /\ UNCHANGED <<req, doing, ctx, rc>>
    <3>1. ProcTyped(p)
      BY <1>1, <2>1 DEF InitAccess, Goto, ProcTyped, PC, Local
    <3> QED BY <1>1, <3>1 DEF InitAccess
  <2>2. CASE Initialised(p)
    BY <1>1, <2>2, InitialisedTypes DEF InitAccess
  <2> QED BY <1>1, <2>1, <2>2 DEF InitAccess
<1>2. CASE MakeAccess(p)
  <2>1. CASE Goto(p, "creat") /\ UNCHANGED <<req, doing, ctx, rc>>
    <3>1. ProcTyped(p)
      BY <1>2, <2>1 DEF MakeAccess, Goto, ProcTyped, PC, Local
    <3> QED BY <1>2, <3>1 DEF MakeAccess
  <2>2. CASE Returns(p)
    BY <1>2, <2>2, ReturnTypes DEF MakeAccess
  <2> QED BY <1>2, <2>1, <2>2 DEF MakeAccess, Returns
<1>3. CASE Creat(p)
  <2>1. /\ list' \in File \ {Torn} /\ clobbered' \in BOOLEAN
        /\ dirOk' \in BOOLEAN
    BY <1>3, FilesAreFiles DEF Creat, MakeZero
  <2>2. CASE Initialised(p)
    BY <1>3, <2>1, <2>2, InitialisedTypes DEF Creat
  <2>3. CASE Returns(p)
    BY <1>3, <2>1, <2>3, ReturnTypes DEF Creat
  <2>4. CASE Goto(p, "recreat") /\ UNCHANGED <<req, doing, ctx, rc>>
    <3>1. ProcTyped(p)
      BY <1>3, <2>4 DEF Creat, Goto, ProcTyped, PC, Local
    <3> QED BY <1>3, <2>1, <3>1 DEF Creat
  <2> QED BY <1>3, <2>2, <2>3, <2>4 DEF Creat, Returns
<1>4. CASE Recreat(p)
  <2>1. list' \in File \ {Torn} /\ clobbered' \in BOOLEAN
    BY <1>4, FilesAreFiles DEF Recreat, MakeZero
  <2> QED BY <1>4, <2>1, ReturnTypes DEF Recreat, Returns
<1>5. CASE AddJob(p)
  <2>1. CASE \E s \in LoadedForAdd :
               /\ ctx' = [ctx EXCEPT ![p] = Append(s, req[p].name)]
               /\ Goto(p, "save")
               /\ UNCHANGED <<req, doing, rc>>
    <3>1. PICK s \in LoadedForAdd :
               /\ ctx' = [ctx EXCEPT ![p] = Append(s, req[p].name)]
               /\ Goto(p, "save")
               /\ UNCHANGED <<req, doing, rc>>
      BY <2>1
    <3>2. s \in Seq(Name) /\ req[p].name \in Name
      BY <1>5, FilesAreFiles DEF LoadedForAdd, AddJob, Local
    <3>3. /\ ctx'[p] \in Seq(Name) /\ ctx' \in [Proc -> Seq(Name)]
          /\ req[p].name \in ToSet(ctx'[p])
      BY <3>1, <3>2, AppendToSet
    <3>4. Local(p)'
      BY <1>5, <3>1, <3>3 DEF AddJob, Goto, Local
    <3> QED BY <1>5, <3>1, <3>3, <3>4 DEF AddJob, Goto, PC, ProcTyped
  <2>2. CASE Returns(p)
    BY <1>5, <2>2, ReturnTypes DEF AddJob
  <2> QED BY <1>5, <2>1, <2>2 DEF AddJob, Returns
<1>6. CASE CoverOpen(p)
  <2>1. CASE Saved(p) /\ UNCHANGED tmp
    BY <1>6, <2>1, SavedTypes DEF CoverOpen
  <2>2. CASE NotSaved(p) /\ UNCHANGED tmp
    BY <1>6, <2>2, NotSavedTypes DEF CoverOpen
  <2>3. CASE /\ tmp' = [tmp EXCEPT ![p] = Zero]
             /\ Goto(p, "write") /\ UNCHANGED <<req, doing, ctx, rc, owed>>
    <3>1. ProcTyped(p)
      BY <1>6, <2>3 DEF CoverOpen, Goto, ProcTyped, PC, Local
    <3> QED BY <1>6, <2>3, <3>1, FilesAreFiles DEF CoverOpen
  <2> QED BY <1>6, <2>1, <2>2, <2>3 DEF CoverOpen
<1>7. CASE CoverWrite(p)
  <2>1. tmp' \in [Proc -> File]
    <3>1. Whole(ctx[p]) \in File /\ Torn \in File
      BY FilesAreFiles
    <3> QED BY <1>7, <3>1 DEF CoverWrite
  <2>2. CASE CoverFails(p)
    BY <1>7, <2>1, <2>2, CoverFailsTypes DEF CoverWrite
  <2>3. CASE /\ tmp' = [tmp EXCEPT ![p] = Whole(ctx[p])]
             /\ Goto(p, "unlink") /\ UNCHANGED rc
    <3>1. ProcTyped(p)
      BY <1>7, <2>3 DEF CoverWrite, Goto, ProcTyped, PC, Local
    <3> QED BY <1>7, <2>1, <3>1 DEF CoverWrite
  <2> QED BY <1>7, <2>2, <2>3 DEF CoverWrite
<1>8. CASE CoverUnlink(p)
  <2>1. list' \in File \ {Torn}
    BY <1>8, FilesAreFiles DEF CoverUnlink
  <2>2. CASE CoverFails(p)
    BY <1>8, <2>1, <2>2, CoverFailsTypes DEF CoverUnlink
  <2>3. CASE Goto(p, "rename") /\ UNCHANGED rc
    <3>1. ProcTyped(p)
      BY <1>8, <2>3 DEF CoverUnlink, Goto, ProcTyped, PC, Local
    <3> QED BY <1>8, <2>1, <3>1 DEF CoverUnlink
  <2> QED BY <1>8, <2>2, <2>3 DEF CoverUnlink
<1>9. CASE CoverRename(p)
  <2>1. tmp[p] = Whole(ctx[p])
    BY <1>9 DEF CoverRename, Local
  <2>2. list' \in File \ {Torn} /\ tmp' \in [Proc -> File]
    <3>1. tmp[p] \in File \ {Torn} /\ Absent \in File
      BY <2>1, FilesAreFiles
    <3> QED BY <1>9, <3>1 DEF CoverRename
  <2>3. CASE CoverFails(p)
    BY <1>9, <2>2, <2>3, CoverFailsTypes DEF CoverRename
  <2>4. CASE Goto(p, "out") /\ UNCHANGED rc
    <3>1. ProcTyped(p)
      BY <1>9, <2>4 DEF CoverRename, Goto, ProcTyped, PC, Local
    <3> QED BY <1>9, <2>2, <3>1 DEF CoverRename
  <2> QED BY <1>9, <2>3, <2>4 DEF CoverRename
<1>10. CASE CoverOut(p)
  <2>1. tmp' \in [Proc -> File]
    BY <1>10, FilesAreFiles DEF CoverOut
  <2>2. ProcTyped(p) /\ owed' \subseteq Name
    BY <1>10, SavedTypes, NotSavedTypes DEF CoverOut
  <2> QED BY <1>10, <2>1, <2>2 DEF CoverOut
<1>11. CASE DoLoad(p)
  <2>1. CASE Returns(p)
    BY <1>11, <2>1, ReturnTypes DEF DoLoad
  <2>2. CASE /\ req[p].name \in {NULL} \union NamesOf(list)
             /\ ctx' = [ctx EXCEPT ![p] = list.jobs]
             /\ Goto(p, IF list.jobs = <<>> THEN "save" ELSE "run")
             /\ UNCHANGED <<req, doing, rc>>
    <3>1. list.jobs \in Seq(Name)
      BY FilesAreFiles
    <3>2. doing[p]
      BY <1>11 DEF DoLoad, Local
    <3>3. Local(p)'
      BY <2>2, <3>2 DEF Goto, Local, NamesOf
    <3> QED BY <1>11, <2>2, <3>1, <3>3 DEF DoLoad, Goto, PC, ProcTyped
  <2> QED BY <1>11, <2>1, <2>2 DEF DoLoad, Returns
<1>12. CASE RunJob(p)
  <2> DEFINE i == JobIndex(ctx[p], req[p].name)
             rest == RemoveAt(ctx[p], i)
             next == IF req[p].name = NULL /\ rest # <<>> THEN "run" ELSE "save"
  <2>1. CASE Returns(p) /\ UNCHANGED owed
    BY <1>12, <2>1, ReturnTypes DEF RunJob
  <2>2. CASE /\ ctx' = [ctx EXCEPT ![p] = rest]
             /\ owed' = owed \ {ctx[p][i]}
             /\ Goto(p, next)
             /\ UNCHANGED <<req, doing, rc>>
    <3>1. i \in 1..Len(ctx[p])
      BY <1>12, JobIndexProperties DEF RunJob, Local
    <3>2. rest \in Seq(Name)
      BY <3>1, RemoveAtProperties
    <3>3. doing[p]
      BY <1>12 DEF RunJob, Local
    <3> HIDE DEF rest
    <3>4. next \in {"run", "save"} /\ (next = "run" => req[p].name = NULL /\ rest # <<>>)
      OBVIOUS
    <3>5. Local(p)'
      BY <2>2, <3>3, <3>4 DEF Goto, Local
    <3> QED BY <1>12, <2>2, <3>2, <3>4, <3>5 DEF RunJob, Goto, PC, ProcTyped
  <2> QED BY <1>12, <2>1, <2>2 DEF RunJob, Returns
<1> QED BY <1>1, <1>2, <1>3, <1>4, <1>5, <1>6, <1>7, <1>8, <1>9, <1>10, <1>11,
          <1>12 DEF Step

LEMMA CrashTypes ==
  ASSUME TypeInv, NEW p \in Proc, Crash(p)
  PROVE  TypeOK' /\ Local(p)' /\ Frame(p)
<1> USE DEF TypeInv, TypeOK
<1>1. ProcTyped(p)
  BY ReturnTypes DEF Crash, Returns
<1>2. tmp' \in [Proc -> File] /\ orphans' \subseteq File
  BY FilesAreFiles DEF Crash
<1>3. crashes' \in 0..MaxCrashes
  BY BoundAssumption DEF Crash
<1>4. Frame(p)
  BY DEF Crash, Returns, Return, Goto, Frame
<1> QED BY <1>1, <1>2, <1>3, <1>4 DEF ProcTyped, Crash

LEMMA InitTypes == Init => TypeInv
<1> SUFFICES ASSUME Init PROVE TypeInv
  OBVIOUS
<1>1. TypeOK
  <2>1. <<>> \in Seq(Name) /\ NoRequest \in Request /\ "idle" \in PC
    BY DEF NoRequest, Request, PC
  <2>2. list \in File \ {Torn} /\ tmp \in [Proc -> File]
    BY FilesAreFiles DEF Init
  <2>3. adds \in 0..MaxAdds /\ crashes \in 0..MaxCrashes
    BY BoundAssumption DEF Init
  <2> QED BY <2>1, <2>2, <2>3 DEF Init, TypeOK
<1>2. \A p \in Proc : Local(p)
  BY DEF Init, Local, NoRequest
<1> QED BY <1>1, <1>2 DEF TypeInv

LEMMA NextTypes == TypeInv /\ [Next]_vars => TypeInv'
<1> SUFFICES ASSUME TypeInv, [Next]_vars PROVE TypeInv'
  OBVIOUS
<1>1. ASSUME NEW p \in Proc, NEW a \in BOOLEAN, NEW d \in BOOLEAN,
             NEW n \in Name \union {NULL}, Invoke(p, a, d, n)
      PROVE  TypeInv'
  BY <1>1, InvokeTypes
<1>2. ASSUME NEW p \in Proc, Step(p)
      PROVE  TypeInv'
  BY <1>2, StepTypes, StepFrame, OthersLocal DEF TypeInv
<1>3. ASSUME NEW p \in Proc, Crash(p)
      PROVE  TypeInv'
  BY <1>3, CrashTypes, OthersLocal DEF TypeInv
<1>4. CASE UNCHANGED vars
  BY <1>4 DEF TypeInv, TypeOK, Local, vars, fileVars, procVars, bookVars
<1> QED BY <1>1, <1>2, <1>3, <1>4 DEF Next

(* Every variable keeps its type, and the list is never the beginning of a  *)
(* JSON array: demo_file_data_cover renames only what it has written whole. *)
THEOREM TypeCorrect == Spec => []TypeOK
<1>1. TypeInv => TypeOK
  BY DEF TypeInv
<1> QED BY <1>1, InitTypes, NextTypes, PTL DEF Spec

-----------------------------------------------------------------------------
(* What a save leaves beside the list, and when the list is missing.        *)

(* A step of p that is over with demo_file_data_cover has removed the       *)
(* temporary file or has failed to, and no other step makes one.            *)
LEMMA StepTidies ==
  ASSUME TypeOK, NoStrayTmp, NEW p \in Proc, Step(p)
  PROVE  tmp'[p] # Absent =>
           pc'[p] \in {"write", "unlink", "rename", "out"} \/ p \in unremoved'
<1> USE DEF TypeOK, NoStrayTmp, Goto, Return, fileVars, bookVars
<1>1. CASE InitAccess(p)
  BY <1>1 DEF InitAccess
<1>2. CASE MakeAccess(p)
  BY <1>2 DEF MakeAccess
<1>3. CASE Creat(p)
  BY <1>3 DEF Creat
<1>4. CASE Recreat(p)
  BY <1>4 DEF Recreat
<1>5. CASE AddJob(p)
  BY <1>5 DEF AddJob
<1>6. CASE CoverOpen(p)
  BY <1>6 DEF CoverOpen
<1>7. CASE CoverWrite(p)
  BY <1>7 DEF CoverWrite, CoverFails
<1>8. CASE CoverUnlink(p)
  BY <1>8 DEF CoverUnlink, CoverFails
<1>9. CASE CoverRename(p)
  BY <1>9 DEF CoverRename, CoverFails
<1>10. CASE CoverOut(p)
  BY <1>10 DEF CoverOut
<1>11. CASE DoLoad(p)
  BY <1>11 DEF DoLoad
<1>12. CASE RunJob(p)
  BY <1>12 DEF RunJob
<1> QED BY <1>1, <1>2, <1>3, <1>4, <1>5, <1>6, <1>7, <1>8, <1>9, <1>10, <1>11,
          <1>12 DEF Step

(* NoStrayTmp for any number of processes, failures and kills: whatever     *)
(* demo_file_data_cover ends with, its temporary file is gone by then, or   *)
(* its unlink() is one of the calls that failed.                            *)
THEOREM SavesTidyUp == Spec => []NoStrayTmp
<1>1. Init => NoStrayTmp
  BY DEF Init, NoStrayTmp
<1>2. TypeOK /\ NoStrayTmp /\ [Next]_vars => NoStrayTmp'
  <2> SUFFICES ASSUME TypeOK, NoStrayTmp, [Next]_vars
               PROVE  NoStrayTmp'
    OBVIOUS
  <2>1. ASSUME NEW p \in Proc, NEW a \in BOOLEAN, NEW d \in BOOLEAN,
               NEW n \in Name \union {NULL}, Invoke(p, a, d, n)
        PROVE  NoStrayTmp'
    BY <2>1 DEF TypeOK, NoStrayTmp, Invoke, Goto
  <2>2. ASSUME NEW p \in Proc, Step(p) PROVE NoStrayTmp'
    <3>1. tmp'[p] # Absent =>
            pc'[p] \in {"write", "unlink", "rename", "out"} \/ p \in unremoved'
      BY <2>2, StepTidies
    <3>2. Frame(p)
      BY <2>2, StepFrame
    <3> QED BY <3>1, <3>2 DEF Frame, NoStrayTmp
  <2>3. ASSUME NEW p \in Proc, Crash(p) PROVE NoStrayTmp'
    BY <2>3 DEF TypeOK, NoStrayTmp, Crash, Return, Goto
  <2>4. CASE UNCHANGED vars
    BY <2>4 DEF NoStrayTmp, vars, fileVars, procVars, bookVars
  <2> QED BY <2>1, <2>2, <2>3, <2>4 DEF Next
<1> QED BY <1>1, <1>2, TypeCorrect, PTL DEF Spec

(* The steps of an invocation that has found the list, or made it. *)
Past == {"add", "save", "write", "unlink", "rename", "out", "do", "run"}

(* MissingOnlyMidSave, not only once a job is owed, but as soon as anybody  *)
(* has got past init_backup or init_restore.                                *)
MissingInv ==
  /\ owed # {} \/ \E q \in Proc : pc[q] \in Past
  /\ list = Absent /\ crashes = 0 /\ "rename" \notin fatal
  => \E q \in Proc : pc[q] = "rename"

(* A step after which the list is missing has removed it and is about to    *)
(* rename(), or has failed to; or the list was missing before, and the      *)
(* step has neither been the rename() nor got past the initialisation.      *)
LEMMA StepMissing ==
  ASSUME TypeInv, NEW p \in Proc, Step(p), list' = Absent,
         pc'[p] # "rename", "rename" \notin fatal'
  PROVE  /\ list = Absent /\ crashes' = crashes /\ "rename" \notin fatal
         /\ pc[p] # "rename"
         /\ pc'[p] \in Past \/ ~(owed' \subseteq owed) => pc[p] \in Past
<1> USE FilesAreFiles DEF TypeInv, TypeOK, Local, Past, Goto, Return, fileVars, bookVars
<1>1. CASE InitAccess(p)
  BY <1>1 DEF InitAccess
<1>2. CASE MakeAccess(p)
  BY <1>2 DEF MakeAccess
<1>3. CASE Creat(p)
  BY <1>3, ZenonT(40) DEF Creat, MakeZero
<1>4. CASE Recreat(p)
  BY <1>4 DEF Recreat, MakeZero
<1>5. CASE AddJob(p)
  BY <1>5 DEF AddJob
<1>6. CASE CoverOpen(p)
  BY <1>6 DEF CoverOpen
<1>7. CASE CoverWrite(p)
  BY <1>7 DEF CoverWrite
<1>8. CASE CoverUnlink(p)
  BY <1>8 DEF CoverUnlink
<1>9. CASE CoverRename(p)
  BY <1>9 DEF CoverRename
<1>10. CASE CoverOut(p)
  BY <1>10 DEF CoverOut
<1>11. CASE DoLoad(p)
  BY <1>11 DEF DoLoad
<1>12. CASE RunJob(p)
  BY <1>12 DEF RunJob
<1> QED BY <1>1, <1>2, <1>3, <1>4, <1>5, <1>6, <1>7, <1>8, <1>9, <1>10, <1>11,
          <1>12 DEF Step

(* MissingOnlyMidSave for any number of processes side by side: until a     *)
(* rename() fails or somebody is killed, only the unlink() of a save that   *)
(* goes on to rename() takes the list away.                                 *)
THEOREM ListIsOnlyBrieflyMissing == Spec => []MissingOnlyMidSave
<1>1. Init => MissingInv
  BY DEF Init, MissingInv, Past
<1>2. TypeInv /\ MissingInv /\ [Next]_vars => MissingInv'
  <2> SUFFICES ASSUME TypeInv, MissingInv, [Next]_vars
               PROVE  MissingInv'
    OBVIOUS
  <2>1. ASSUME NEW p \in Proc, NEW a \in BOOLEAN, NEW d \in BOOLEAN,
               NEW n \in Name \union {NULL}, Invoke(p, a, d, n)
        PROVE  MissingInv'
    BY <2>1 DEF TypeInv, TypeOK, MissingInv, Past, Invoke, Goto
  <2>2. ASSUME NEW p \in Proc, Step(p) PROVE MissingInv'
    <3> SUFFICES ASSUME owed' # {} \/ \E q \in Proc : pc'[q] \in Past,
                        list' = Absent, crashes' = 0, "rename" \notin fatal',
                        pc'[p] # "rename"
                 PROVE  \E q \in Proc : pc'[q] = "rename"
      BY DEF MissingInv
    <3>1. /\ list = Absent /\ crashes = 0 /\ "rename" \notin fatal
          /\ pc[p] # "rename"
          /\ pc'[p] \in Past \/ ~(owed' \subseteq owed) => pc[p] \in Past
      BY <2>2, StepMissing
    <3>2. \A q \in Proc \ {p} : pc'[q] = pc[q]
      BY <2>2, StepFrame DEF Frame, TypeInv
    <3>3. owed # {} \/ \E q \in Proc : pc[q] \in Past
      BY <3>1, <3>2
    <3>4. PICK q \in Proc : pc[q] = "rename"
      BY <3>1, <3>3 DEF MissingInv
    <3> QED BY <3>1, <3>2, <3>4
  <2>3. ASSUME NEW p \in Proc, Crash(p) PROVE MissingInv'
    BY <2>3 DEF TypeInv, TypeOK, MissingInv, Crash
  <2>4. CASE UNCHANGED vars
    BY <2>4 DEF MissingInv, vars, fileVars, procVars, bookVars
  <2> QED BY <2>1, <2>2, <2>3, <2>4 DEF Next
<1>3. MissingInv => MissingOnlyMidSave
  BY DEF MissingInv, MissingOnlyMidSave
<1> QED BY <1>1, <1>2, <1>3, InitTypes, NextTypes, PTL DEF Spec

-----------------------------------------------------------------------------
(* Accepted jobs are not lost.                                              *)

(* A step of p that makes nobody owe more: what has to be shown of p and of *)
(* the list for Safe to survive.                                            *)
LEMMA SafeFrame ==
  ASSUME TypeInv, Safe, NEW p \in Proc, Frame(p), Active(p),
         orphans' = orphans, owed' \subseteq owed,
         pc'[p] # "idle" => req'[p] = req[p],
         pc'[p] \in {"run", "save", "write", "unlink", "rename"} =>
           owed' \subseteq ToSet(ctx'[p]) \union OrphanNames,
         pc'[p] = "out" /\ rc'[p] = "SUCCESS" /\ ~doing'[p] =>
           req'[p].name \in NamesOf(list'),
         ListHoldsOwed'
  PROVE  Safe'
<1>1. OrphanNames' = OrphanNames
  BY DEF OrphanNames
<1>2. AddsAlone'
  BY DEF Safe, AddsAlone, Frame, Active
<1>3. CarriesOwed'
  BY <1>1 DEF Safe, CarriesOwed, Frame
<1>4. JustAdded'
  <2> SUFFICES ASSUME NEW q \in Proc, q # p,
                      pc'[q] = "out", rc'[q] = "SUCCESS", ~doing'[q]
               PROVE  FALSE
    BY DEF JustAdded
  <2>1. req[q].add /\ Active(q)
    BY DEF TypeInv, Local, Frame, Active
  <2> QED BY <2>1 DEF Safe, AddsAlone
<1> QED BY <1>2, <1>3, <1>4 DEF Safe

(* A step of p that leaves the list alone, and does not end a replacement,  *)
(* leaves the owed names in it.                                             *)
LEMMA ListKept ==
  ASSUME TypeInv, Safe, NEW p \in Proc, Frame(p),
         orphans' = orphans, owed' \subseteq owed, list' = list,
         pc[p] # "rename"
  PROVE  ListHoldsOwed'
<1>1. OrphanNames' = OrphanNames /\ NamesOf(list') = NamesOf(list)
  BY DEF OrphanNames
<1>2. (\A q \in Proc : pc'[q] # "rename") => \A q \in Proc : pc[q] # "rename"
  BY DEF Frame
<1> QED BY <1>1, <1>2 DEF Safe, ListHoldsOwed

(* While an -a is under way nobody replaces the list. *)
LEMMA AddersList ==
  ASSUME TypeInv, Safe, NEW p \in Proc, Active(p), req[p].add, pc[p] # "rename"
  PROVE  /\ owed \subseteq NamesOf(list) \union OrphanNames
         /\ \A q \in Proc \ {p} : pc[q] = "idle"
<1>1. \A q \in Proc \ {p} : pc[q] = "idle"
  BY DEF Safe, AddsAlone, Active
<1> QED BY <1>1 DEF Safe, ListHoldsOwed

(* creat() on a list that has no jobs. *)
LEMMA MakeZeroKeeps ==
  ASSUME TypeInv, Safe, NEW p \in Proc, Frame(p), MakeZero, ~clobbered',
         orphans' = orphans, owed' = owed, pc[p] # "rename"
  PROVE  ListHoldsOwed'
<1>1. list.jobs = <<>> /\ list' = Zero
  BY DEF MakeZero, TypeInv, TypeOK
<1>2. NamesOf(list') = NamesOf(list) /\ list'.kind # "whole"
  BY <1>1 DEF NamesOf, Zero
<1>3. OrphanNames' = OrphanNames
  BY DEF OrphanNames
<1>4. (\A q \in Proc : pc'[q] # "rename") => \A q \in Proc : pc[q] # "rename"
  BY DEF Frame
<1> QED BY <1>2, <1>3, <1>4 DEF Safe, ListHoldsOwed

(* Every value that Return gives p is one that SafeFrame asks nothing of. *)
LEMMA ReturnSafe ==
  ASSUME TypeInv, Safe, NEW p \in Proc, Frame(p), Active(p), Returns(p),
         orphans' = orphans, owed' \subseteq owed, ListHoldsOwed'
  PROVE  Safe'
<1>1. pc'[p] = "idle"
  BY DEF TypeInv, TypeOK, Returns, Return, Goto
<1> QED BY <1>1, SafeFrame

LEMMA StepSafe ==
  ASSUME TypeInv, Safe, ~clobbered', fatal' = {}, NEW p \in Proc, Step(p)
  PROVE  Safe'
<1> USE DEF Goto, fileVars, bookVars
<1>a. Frame(p)
  BY StepFrame DEF TypeInv
<1>b. TypeOK
  BY DEF TypeInv
<1>1. ASSUME InitAccess(p) \/ MakeAccess(p) PROVE Safe'
  <2>1. /\ Active(p) /\ pc[p] # "rename" /\ orphans' = orphans
        /\ owed' = owed /\ list' = list
    BY <1>1 DEF InitAccess, MakeAccess, Active
  <2>2. ListHoldsOwed'
    BY <1>a, <2>1, ListKept
  <2>3. Returns(p) \/ (pc'[p] \in {"make", "creat", "add", "do"} /\ req' = req)
    BY <1>1, <1>b DEF InitAccess, MakeAccess, Initialised, TypeOK, Returns
  <2> QED BY <1>a, <2>1, <2>2, <2>3, ReturnSafe, SafeFrame
<1>2. CASE Creat(p)
  <2>1. /\ Active(p) /\ pc[p] # "rename" /\ orphans' = orphans /\ owed' = owed
        /\ MakeZero \/ list' = list
    BY <1>2 DEF Creat, Active
  <2>2. ListHoldsOwed'
    BY <1>a, <2>1, ListKept, MakeZeroKeeps
  <2>3. Returns(p) \/ (pc'[p] \in {"recreat", "add", "do"} /\ req' = req)
    BY <1>2, <1>b DEF Creat, Initialised, TypeOK, Returns
  <2> QED BY <1>a, <2>1, <2>2, <2>3, ReturnSafe, SafeFrame
<1>3. CASE Recreat(p)
  <2>1. /\ Active(p) /\ pc[p] # "rename" /\ orphans' = orphans /\ owed' = owed
        /\ MakeZero \/ list' = list
    BY <1>3 DEF Recreat, Active
  <2>2. ListHoldsOwed'
    BY <1>a, <2>1, ListKept, MakeZeroKeeps
  <2> QED BY <1>a, <1>3, <2>1, <2>2, ReturnSafe DEF Recreat, Returns
<1>4. CASE AddJob(p)
  <2>1. /\ Active(p) /\ pc[p] # "rename" /\ orphans' = orphans
        /\ owed' = owed /\ list' = list /\ req[p].add /\ req[p].name \in Name
    BY <1>4 DEF AddJob, Active, TypeInv, Local
  <2>2. ListHoldsOwed'
    BY <1>a, <2>1, ListKept
  <2>3. CASE Returns(p)
    BY <1>a, <2>1, <2>2, <2>3, ReturnSafe
  <2>4. CASE /\ ctx' = [ctx EXCEPT ![p] = Append(list.jobs, req[p].name)]
             /\ pc' = [pc EXCEPT ![p] = "save"] /\ req' = req
    <3>1. list.jobs \in Seq(Name)
      BY <1>b, FilesAreFiles DEF TypeOK
    <3>2. ToSet(ctx'[p]) = NamesOf(list) \union {req[p].name}
      BY <1>b, <2>1, <2>4, <3>1, AppendToSet DEF TypeOK, NamesOf
    <3>3. owed' \subseteq ToSet(ctx'[p]) \union OrphanNames
      BY <2>1, <3>2, AddersList
    <3>4. pc'[p] = "save"
      BY <1>b, <2>4 DEF TypeOK
    <3> QED BY <1>a, <2>1, <2>2, <2>4, <3>3, <3>4, SafeFrame
  <2> QED BY <1>4, <2>3, <2>4 DEF AddJob, LoadedForAdd, Returns
<1>5. CASE CoverOpen(p)
  <2>1. /\ Active(p) /\ pc[p] = "save" /\ orphans' = orphans
        /\ owed' = owed /\ list' = list
    BY <1>5 DEF CoverOpen, Active, NotSaved
  <2>2. ListHoldsOwed'
    BY <1>a, <2>1, ListKept
  <2>3. CASE Returns(p)
    BY <1>a, <2>1, <2>2, <2>3, ReturnSafe
  <2>4. CASE pc' = [pc EXCEPT ![p] = "write"] /\ req' = req /\ ctx' = ctx
    <3>1. owed' \subseteq ToSet(ctx'[p]) \union OrphanNames
      BY <2>1, <2>4 DEF Safe, CarriesOwed
    <3>2. pc'[p] = "write"
      BY <1>b, <2>4 DEF TypeOK
    <3> QED BY <1>a, <2>1, <2>2, <2>4, <3>1, <3>2, SafeFrame
  <2> QED BY <1>5, <2>3, <2>4 DEF CoverOpen, NotSaved, Returns
<1>6. CASE CoverWrite(p)
  <2>1. /\ Active(p) /\ pc[p] = "write" /\ orphans' = orphans
        /\ owed' = owed /\ list' = list /\ req' = req /\ ctx' = ctx
    BY <1>6 DEF CoverWrite, Active
  <2>2. ListHoldsOwed'
    BY <1>a, <2>1, ListKept
  <2>3. owed' \subseteq ToSet(ctx'[p]) \union OrphanNames
    BY <2>1 DEF Safe, CarriesOwed
  <2>4. pc'[p] = "unlink" \/ (pc'[p] = "out" /\ rc'[p] = "ERROR")
    BY <1>6, <1>b DEF CoverWrite, CoverFails, TypeOK
  <2> QED BY <1>a, <2>1, <2>2, <2>3, <2>4, SafeFrame
<1>7. CASE CoverUnlink(p)
  <2>1. /\ Active(p) /\ pc[p] = "unlink" /\ orphans' = orphans
        /\ owed' = owed /\ req' = req /\ ctx' = ctx
    BY <1>7 DEF CoverUnlink, Active
  <2>2. owed' \subseteq ToSet(ctx'[p]) \union OrphanNames
    BY <2>1 DEF Safe, CarriesOwed
  <2>3. CASE list' = list /\ pc'[p] = "out" /\ rc'[p] = "ERROR"
    <3>1. ListHoldsOwed'
      BY <1>a, <2>1, <2>3, ListKept
    <3> QED BY <1>a, <2>1, <2>3, <3>1, SafeFrame
  <2>4. CASE list' = Absent /\ pc'[p] = "rename"
    <3>1. ListHoldsOwed'
      BY <2>4 DEF ListHoldsOwed, Absent
    <3> QED BY <1>a, <2>1, <2>2, <2>4, <3>1, SafeFrame
  <2> QED BY <1>7, <1>b, <2>3, <2>4 DEF CoverUnlink, CoverFails, TypeOK
<1>8. CASE CoverRename(p)
  <2>1. /\ Active(p) /\ pc[p] = "rename" /\ orphans' = orphans
        /\ owed' = owed /\ req' = req /\ doing' = doing
        /\ list' = tmp[p] /\ pc'[p] = "out"
    BY <1>8, <1>b DEF CoverRename, Active, TypeOK
  <2>2. list' = Whole(ctx[p]) /\ NamesOf(list') = ToSet(ctx[p])
    BY <2>1, FilesAreFiles DEF TypeInv, Local, NamesOf
  <2>3. owed' \subseteq NamesOf(list') \union OrphanNames
    BY <2>1, <2>2 DEF Safe, CarriesOwed
  <2>4. ListHoldsOwed'
    BY <2>1, <2>3 DEF ListHoldsOwed, OrphanNames
  <2>5. ~doing'[p] => req'[p].name \in NamesOf(list')
    BY <2>1, <2>2 DEF TypeInv, Local
  <2> QED BY <1>a, <2>1, <2>4, <2>5, SafeFrame
<1>9. CASE CoverOut(p)
  <2>1. /\ Active(p) /\ pc[p] = "out" /\ orphans' = orphans /\ list' = list
    BY <1>9 DEF CoverOut, Active
  <2>2. CASE owed' = owed
    <3>1. ListHoldsOwed'
      BY <1>a, <2>1, <2>2, ListKept
    <3>2. Returns(p) \/ (pc'[p] = "do" /\ req' = req)
      BY <1>9, <1>b DEF CoverOut, Saved, NotSaved, TypeOK, Returns
    <3> QED BY <1>a, <2>1, <2>2, <3>1, <3>2, ReturnSafe, SafeFrame
  <2>3. CASE ~doing[p] /\ rc[p] = "SUCCESS" /\ Saved(p)
    <3>1. req[p].add /\ owed' = owed \union {req[p].name}
      BY <2>1, <2>3 DEF TypeInv, Local, Saved
    <3>2. /\ owed \subseteq NamesOf(list) \union OrphanNames
          /\ \A q \in Proc \ {p} : pc[q] = "idle"
      BY <2>1, <3>1, AddersList
    <3>3. req[p].name \in NamesOf(list)
      BY <2>1, <2>3 DEF Safe, JustAdded
    <3>4. pc'[p] \in {"idle", "do"} /\ \A q \in Proc \ {p} : pc'[q] = "idle"
      BY <1>a, <1>b, <2>3, <3>2 DEF Saved, Returns, Return, TypeOK, Frame
    <3>5. ListHoldsOwed'
      BY <2>1, <3>1, <3>2, <3>3 DEF ListHoldsOwed, OrphanNames
    <3> QED BY <3>4, <3>5 DEF Safe, AddsAlone, Active, CarriesOwed, JustAdded
  <2> QED BY <1>9, <2>2, <2>3 DEF CoverOut, Saved, NotSaved
<1>10. CASE DoLoad(p)
  <2>1. /\ Active(p) /\ pc[p] = "do" /\ orphans' = orphans
        /\ owed' = owed /\ list' = list
    BY <1>10 DEF DoLoad, Active
  <2>2. ListHoldsOwed'
    BY <1>a, <2>1, ListKept
  <2>3. CASE Returns(p)
    BY <1>a, <2>1, <2>2, <2>3, ReturnSafe
  <2>4. CASE /\ list.kind = "whole" /\ req' = req
             /\ ctx' = [ctx EXCEPT ![p] = list.jobs]
             /\ pc'[p] \in {"save", "run"}
    <3>1. ctx'[p] = list.jobs
      BY <1>b, <2>4 DEF TypeOK
    <3>2. owed' \subseteq ToSet(ctx'[p]) \union OrphanNames
      BY <2>1, <2>4, <3>1 DEF Safe, ListHoldsOwed, NamesOf
    <3> QED BY <1>a, <2>1, <2>2, <2>4, <3>2, SafeFrame
  <2> QED BY <1>10, <1>b, <2>3, <2>4 DEF DoLoad, TypeOK, Returns
<1>11. CASE RunJob(p)
  <2> DEFINE i == JobIndex(ctx[p], req[p].name)
             rest == RemoveAt(ctx[p], i)
  <2>1. /\ Active(p) /\ pc[p] = "run" /\ orphans' = orphans
        /\ owed' \subseteq owed /\ list' = list
    BY <1>11 DEF RunJob, Active
  <2>2. ListHoldsOwed'
    BY <1>a, <2>1, ListKept
  <2>3. CASE Returns(p)
    BY <1>a, <2>1, <2>2, <2>3, ReturnSafe
  <2>4. CASE /\ ctx' = [ctx EXCEPT ![p] = rest]
             /\ owed' = owed \ {ctx[p][i]}
             /\ pc'[p] \in {"run", "save"} /\ req' = req
    <3>1. ctx[p] \in Seq(Name) /\ i \in 1..Len(ctx[p])
      BY <1>b, <2>1, JobIndexProperties DEF TypeInv, TypeOK, Local
    <3>2. ToSet(ctx[p]) \subseteq ToSet(rest) \union {ctx[p][i]}
      BY <3>1, RemoveAtProperties
    <3>3. owed \subseteq ToSet(ctx[p]) \union OrphanNames
      BY <2>1 DEF Safe, CarriesOwed
    <3>4. ctx'[p] = rest
      BY <1>b, <2>4 DEF TypeOK
    <3>5. owed' \subseteq ToSet(ctx'[p]) \union OrphanNames
      BY <2>4, <3>2, <3>3, <3>4
    <3> QED BY <1>a, <2>1, <2>2, <2>4, <3>5, SafeFrame
  <2> QED BY <1>11, <1>b, <2>3, <2>4 DEF RunJob, TypeOK, Returns
<1> QED BY <1>1, <1>2, <1>3, <1>4, <1>5, <1>6, <1>7, <1>8, <1>9, <1>10, <1>11 DEF Step

LEMMA InvokeSafe ==
  ASSUME TypeInv, Safe, ~clobbered', NEW p \in Proc, NEW a \in BOOLEAN,
         NEW d \in BOOLEAN, NEW n \in Name \union {NULL}, Invoke(p, a, d, n)
  PROVE  Safe'
<1> USE DEF Goto, fileVars
<1>1. /\ pc[p] = "idle" /\ pc' = [pc EXCEPT ![p] = "init"]
      /\ req' = [req EXCEPT ![p] = [add |-> a, do |-> d, name |-> n]]
      /\ rc' = [rc EXCEPT ![p] = "SUCCESS"]
      /\ UNCHANGED <<list, orphans, doing, ctx, owed>>
      /\ \A q \in Proc \ {p} : Active(q) => ~a /\ ~req[q].add
  BY DEF Invoke, TypeInv, TypeOK
<1>2. /\ pc'[p] = "init" /\ req'[p].add = a
      /\ \A q \in Proc \ {p} : pc'[q] = pc[q] /\ req'[q] = req[q] /\ rc'[q] = rc[q]
  BY <1>1 DEF TypeInv, TypeOK
<1>3. AddsAlone'
  BY <1>1, <1>2 DEF Safe, AddsAlone, Active
<1>4. OrphanNames' = OrphanNames /\ NamesOf(list') = NamesOf(list)
  BY <1>1 DEF OrphanNames
<1>5. CarriesOwed' /\ ListHoldsOwed' /\ JustAdded'
  BY <1>1, <1>2, <1>4 DEF Safe, CarriesOwed, ListHoldsOwed, JustAdded
<1> QED BY <1>3, <1>5 DEF Safe

LEMMA CrashSafe ==
  ASSUME TypeInv, Safe, NEW p \in Proc, Crash(p)
  PROVE  Safe'
<1>1. /\ list' = list /\ owed' = owed /\ pc'[p] = "idle" /\ Frame(p)
      /\ orphans' = orphans \union ({tmp[p]} \ {Absent})
  BY CrashTypes DEF Crash, Returns, Return, Goto, TypeInv, TypeOK
<1>2. OrphanNames \subseteq OrphanNames'
  BY <1>1 DEF OrphanNames
<1>3. AddsAlone' /\ JustAdded'
  BY <1>1 DEF Safe, AddsAlone, JustAdded, Active, Frame
<1>4. CarriesOwed'
  BY <1>1, <1>2 DEF Safe, CarriesOwed, Frame
<1>5. ListHoldsOwed'
  <2>1. CASE pc[p] = "rename"
    <3>1. tmp[p] = Whole(ctx[p]) /\ tmp[p] # Absent /\ NamesOf(tmp[p]) = ToSet(ctx[p])
      BY <2>1, FilesAreFiles DEF TypeInv, Local, NamesOf
    <3>2. ToSet(ctx[p]) \subseteq OrphanNames'
      BY <1>1, <3>1 DEF OrphanNames
    <3>3. owed \subseteq ToSet(ctx[p]) \union OrphanNames
      BY <2>1 DEF Safe, CarriesOwed
    <3> QED BY <1>1, <1>2, <3>2, <3>3 DEF ListHoldsOwed
  <2>2. CASE pc[p] # "rename"
    BY <1>1, <1>2, <2>2 DEF Safe, ListHoldsOwed, Frame
  <2> QED BY <2>1, <2>2
<1> QED BY <1>3, <1>4, <1>5 DEF Safe

LEMMA InitSafe == Init => SafeInv
<1> SUFFICES ASSUME Init PROVE Safe
  BY DEF SafeInv
<1> QED BY DEF Init, Safe, AddsAlone, CarriesOwed, ListHoldsOwed, JustAdded, Active

LEMMA NextSafe == TypeInv /\ SafeInv /\ [Next]_vars => SafeInv'
<1> SUFFICES ASSUME TypeInv, SafeInv, [Next]_vars, ~clobbered', fatal' = {}
             PROVE  Safe'
  BY DEF SafeInv
<1>1. ASSUME NEW p \in Proc, NEW a \in BOOLEAN, NEW d \in BOOLEAN,
             NEW n \in Name \union {NULL}, Invoke(p, a, d, n)
      PROVE  Safe'
  <2>1. ~clobbered /\ fatal = {}
    BY <1>1 DEF Invoke
  <2> QED BY <1>1, <2>1, InvokeSafe DEF SafeInv
<1>2. ASSUME NEW p \in Proc, Step(p)
      PROVE  Safe'
  <2>1. ~clobbered
    BY <1>2 DEF Step, InitAccess, MakeAccess, Creat, Recreat, MakeZero, AddJob,
                CoverOpen, CoverWrite, CoverUnlink, CoverRename, CoverOut,
                DoLoad, RunJob, bookVars
  <2>2. fatal' = fatal \/ \E c \in Destructive : fatal' = fatal \union {c}
    BY <1>2 DEF Step, InitAccess, MakeAccess, Creat, Recreat, AddJob,
                CoverOpen, CoverWrite, CoverUnlink, CoverRename, CoverOut,
                DoLoad, RunJob, bookVars, Destructive
  <2>3. fatal = {}
    BY <2>2
  <2> QED BY <1>2, <2>1, <2>3, StepSafe DEF SafeInv
<1>3. ASSUME NEW p \in Proc, Crash(p)
      PROVE  Safe'
  <2>1. ~clobbered /\ fatal = {}
    BY <1>3 DEF Crash
  <2> QED BY <1>3, <2>1, CrashSafe DEF SafeInv
<1>4. CASE UNCHANGED vars
  <2>1. ~clobbered /\ fatal = {} /\ OrphanNames' = OrphanNames /\ NamesOf(list') = NamesOf(list)
    BY <1>4 DEF vars, fileVars, bookVars, OrphanNames
  <2> QED BY <1>4, <2>1 DEF SafeInv, Safe, AddsAlone, CarriesOwed, ListHoldsOwed,
             JustAdded, Active, vars, fileVars, procVars, bookVars
<1> QED BY <1>1, <1>2, <1>3, <1>4 DEF Next

(* Whatever an owed name is carried in is a file on the disk. *)
LEMMA SafeNoLoss == TypeInv /\ SafeInv => NoLoss
<1> SUFFICES ASSUME TypeInv, Safe PROVE owed \subseteq Recorded
  BY DEF SafeInv, NoLoss
<1>1. NamesOf(list) \union OrphanNames \subseteq Recorded
  BY DEF Recorded, OrphanNames
<1>2. CASE \E p \in Proc : pc[p] = "rename"
  <2>1. PICK p \in Proc : pc[p] = "rename"
    BY <1>2
  <2>2. NamesOf(tmp[p]) = ToSet(ctx[p])
    BY <2>1, FilesAreFiles DEF TypeInv, Local, NamesOf
  <2>3. ToSet(ctx[p]) \subseteq Recorded
    BY <2>1, <2>2 DEF Recorded, Active
  <2> QED BY <1>1, <2>1, <2>3 DEF Safe, CarriesOwed
<1>3. CASE \A p \in Proc : pc[p] # "rename"
  BY <1>1, <1>3 DEF Safe, ListHoldsOwed
<1> QED BY <1>2, <1>3

(* A job whose -a was answered with success stays on the disk until it has  *)
(* been copied, up to the first Destructive failure: any number of -d side  *)
(* by side, other calls failing, kills at every step (backup, restore and   *)
(* all they call).                                                          *)
THEOREM AcceptedJobsAreKept == Spec => []NoLoss
<1>1. Init => TypeInv /\ SafeInv
  BY InitTypes, InitSafe
<1>2. TypeInv /\ SafeInv /\ [Next]_vars => (TypeInv /\ SafeInv)'
  BY NextTypes, NextSafe
<1>3. TypeInv /\ SafeInv => NoLoss
  BY SafeNoLoss
<1> QED BY <1>1, <1>2, <1>3, PTL DEF Spec
=============================================================================
