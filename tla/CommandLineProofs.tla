-------------------------- MODULE CommandLineProofs --------------------------
(***************************************************************************)
(* One process at a time, as main() runs them: the job list implements the *)
(* queue of JobQueue.tla, under every failure but the Destructive ones and *)
(* with kills at every step.  The refinement needs to know how what the    *)
(* process has in memory relates to the list it is about to replace:       *)
(* Memory says it.                                                         *)
(*                                                                         *)
(* Commands do nothing to the job list that invocations of backup() and    *)
(* restore() do not do, so what is proved about those holds for them; and  *)
(* a command that looks its paths up in the wrong directory has said that  *)
(* something failed, and one that reports success has dealt with its last  *)
(* path.  Any options, any number of paths and of names.                   *)
(***************************************************************************)
EXTENDS CommandLine, JobListProofs

-----------------------------------------------------------------------------
(* Invocations one after the other implement the queue.                     *)

(* The array in memory is the list with one job appended, with the wanted   *)
(* job deleted, or what is left after a number of jobs at its head.         *)
Memory(p) ==
  LET wanted == req[p].name IN
  /\ pc[p] \in {"make", "creat", "recreat", "rename"} => list.jobs = <<>>
  /\ pc[p] \in {"save", "write", "unlink"} /\ ~doing[p] =>
       ctx[p] = Append(list.jobs, wanted)
  /\ pc[p] \in {"run", "save", "write", "unlink"} /\ doing[p] /\ wanted = NULL =>
       EndOf(ctx[p], list.jobs)
  /\ pc[p] \in {"save", "write", "unlink"} /\ doing[p] /\ wanted = NULL =>
       ctx[p] = <<>>
  /\ pc[p] = "run" /\ wanted # NULL => ctx[p] = list.jobs
  /\ pc[p] \in {"save", "write", "unlink"} /\ doing[p] /\ wanted # NULL =>
       /\ list.jobs # <<>>
       /\ wanted \in ToSet(list.jobs)
       /\ ctx[p] = RemoveAt(list.jobs, JobIndex(list.jobs, wanted))

SerialInv == TypeInv /\ Memory(Solo)

-----------------------------------------------------------------------------
LEMMA OneProcess == Solo \in Proc /\ Proc = {Solo}
BY SerialAssumption DEF Solo

LEMMA SparedCalls ==
  "print" \notin MayFail /\ "read" \notin MayFail /\ "rename" \notin MayFail
BY SparedAssumption DEF Destructive

(* At the prompt, and after a step that leads there, Memory says nothing. *)
LEMMA ReturnMemory ==
  ASSUME TypeInv, NEW p \in Proc, Returns(p)
  PROVE  Memory(p)'
BY DEF TypeInv, TypeOK, Returns, Return, Goto, Memory

LEMMA StepMemory ==
  ASSUME SerialInv, Step(Solo)
  PROVE  Memory(Solo)'
<1> DEFINE p == Solo
<1> USE OneProcess DEF Goto, fileVars, bookVars
<1>b. TypeInv /\ TypeOK /\ Memory(p) /\ Local(p)
  BY DEF SerialInv, TypeInv
<1> HIDE DEF p
<1>p. p \in Proc /\ Step(p)
  BY DEF p
<1> SUFFICES Memory(p)'
  BY DEF p
<1>1. CASE InitAccess(p)
  <2>1. CASE Returns(p)
    BY <1>b, <1>p, <2>1, ReturnMemory
  <2>2. CASE list = Absent /\ pc'[p] = "make"
    BY <1>1, <2>2, FilesAreFiles DEF InitAccess, Memory
  <2>3. CASE pc'[p] \in {"add", "do"}
    BY <2>3 DEF Memory
  <2> QED BY <1>1, <1>b, <1>p, <2>1, <2>2, <2>3 DEF InitAccess, Initialised, TypeOK, Returns
<1>2. CASE MakeAccess(p)
  <2>1. CASE Returns(p)
    BY <1>b, <1>p, <2>1, ReturnMemory
  <2>2. CASE list = Absent /\ pc'[p] = "creat"
    BY <1>2, <2>2, FilesAreFiles DEF MakeAccess, Memory
  <2> QED BY <1>2, <1>b, <1>p, <2>1, <2>2 DEF MakeAccess, TypeOK, Returns
<1>3. CASE Creat(p)
  <2>1. CASE Returns(p)
    BY <1>b, <1>p, <2>1, ReturnMemory
  <2>2. CASE list' = list /\ pc'[p] = "recreat"
    BY <1>3, <1>b, <2>2 DEF Creat, Memory
  <2>3. CASE pc'[p] \in {"add", "do"}
    BY <2>3 DEF Memory
  <2> QED BY <1>3, <1>b, <1>p, <2>1, <2>2, <2>3 DEF Creat, Initialised, TypeOK, Returns
<1>4. CASE Recreat(p)
  BY <1>4, <1>b, <1>p, ReturnMemory DEF Recreat, Returns
<1>5. CASE AddJob(p)
  <2>1. CASE Returns(p)
    BY <1>b, <1>p, <2>1, ReturnMemory
  <2>2. CASE /\ ctx'[p] = Append(list.jobs, req[p].name) /\ pc'[p] = "save"
             /\ req' = req /\ doing' = doing /\ list' = list
    <3>1. ~doing[p]
      BY <1>5, <1>b DEF AddJob, Local
    <3> QED BY <2>2, <3>1 DEF Memory
  <2> QED BY <1>5, <1>b, <1>p, <2>1, <2>2, SparedCalls DEF AddJob, LoadedForAdd, TypeOK, Returns
<1>6. CASE CoverOpen(p)
  <2>1. CASE Returns(p)
    BY <1>b, <1>p, <2>1, ReturnMemory
  <2>2. CASE pc'[p] = "write" /\ UNCHANGED <<req, doing, ctx, list>>
    BY <1>6, <1>b, <2>2 DEF CoverOpen, Memory
  <2> QED BY <1>6, <1>b, <1>p, <2>1, <2>2, SparedCalls DEF CoverOpen, NotSaved, TypeOK, Returns
<1>7. CASE CoverWrite(p)
  <2>1. pc'[p] \in {"unlink", "out"} /\ UNCHANGED <<req, doing, ctx, list>>
    BY <1>7, <1>b, <1>p DEF CoverWrite, CoverFails, TypeOK
  <2> QED BY <1>7, <1>b, <2>1 DEF CoverWrite, Memory
<1>8. CASE CoverUnlink(p)
  <2>1. pc'[p] = "out" \/ (pc'[p] = "rename" /\ list' = Absent)
    BY <1>8, <1>b, <1>p DEF CoverUnlink, CoverFails, TypeOK
  <2> QED BY <2>1, FilesAreFiles DEF Memory
<1>9. CASE CoverRename(p)
  <2>1. pc'[p] = "out"
    BY <1>9, <1>b, <1>p DEF CoverRename, CoverFails, TypeOK
  <2> QED BY <2>1 DEF Memory
<1>10. CASE CoverOut(p)
  <2>1. CASE Returns(p)
    BY <1>b, <1>p, <2>1, ReturnMemory
  <2>2. CASE pc'[p] = "do"
    BY <2>2 DEF Memory
  <2> QED BY <1>10, <1>b, <1>p, <2>1, <2>2 DEF CoverOut, Saved, NotSaved, TypeOK, Returns
<1>11. CASE DoLoad(p)
  <2>1. CASE Returns(p)
    BY <1>b, <1>p, <2>1, ReturnMemory
  <2>2. CASE /\ req[p].name \in {NULL} \union NamesOf(list)
             /\ ctx'[p] = list.jobs
             /\ pc'[p] = IF list.jobs = <<>> THEN "save" ELSE "run"
             /\ UNCHANGED <<req, doing, list>>
    <3>1. doing[p]
      BY <1>11, <1>b DEF DoLoad, Local
    <3>2. list.jobs \in Seq(Name)
      BY <1>b, FilesAreFiles DEF TypeOK
    <3>3. list.jobs = <<>> => req[p].name = NULL
      BY <2>2, <3>2 DEF NamesOf, ToSet
    <3> QED BY <2>2, <3>1, <3>2, <3>3, EndOfItself DEF Memory
  <2> QED BY <1>11, <1>b, <1>p, <2>1, <2>2 DEF DoLoad, TypeOK, Returns
<1>12. CASE RunJob(p)
  <2> DEFINE i == JobIndex(ctx[p], req[p].name)
             rest == RemoveAt(ctx[p], i)
  <2>1. CASE Returns(p)
    BY <1>b, <1>p, <2>1, ReturnMemory
  <2>2. CASE /\ ctx'[p] = rest
             /\ pc'[p] = IF req[p].name = NULL /\ rest # <<>> THEN "run" ELSE "save"
             /\ UNCHANGED <<req, doing, list>>
    <3>1. /\ ctx[p] \in Seq(Name) /\ i \in 1..Len(ctx[p]) /\ doing[p]
          /\ ctx[p] # <<>> /\ req[p].name \in {NULL} \union ToSet(ctx[p])
      BY <1>12, <1>b, <1>p, JobIndexProperties DEF RunJob, Local, TypeOK
    <3>3. list.jobs \in Seq(Name)
      BY <1>b, FilesAreFiles DEF TypeOK
    <3>4. CASE req[p].name = NULL
      <4>1. EndOf(ctx[p], list.jobs)
        BY <1>12, <1>b, <3>1, <3>4 DEF RunJob, Memory
      <4>2. EndOf(rest, list.jobs)
        BY <3>1, <3>3, <3>4, <4>1, EndWithoutHead DEF JobIndex
      <4> HIDE DEF rest
      <4> QED BY <2>2, <3>1, <3>4, <4>2 DEF Memory
    <3>5. CASE req[p].name # NULL
      <4>1. ctx[p] = list.jobs
        BY <1>12, <1>b, <3>5 DEF RunJob, Memory
      <4> QED BY <2>2, <3>1, <3>5, <4>1 DEF Memory
    <3> QED BY <3>4, <3>5
  <2> QED BY <1>12, <1>b, <1>p, <2>1, <2>2 DEF RunJob, TypeOK, Returns
<1> QED BY <1>p, <1>1, <1>2, <1>3, <1>4, <1>5, <1>6, <1>7, <1>8, <1>9, <1>10,
          <1>11, <1>12 DEF Step

LEMMA NextMemory == SerialInv /\ [Next]_vars => SerialInv'
<1> SUFFICES ASSUME SerialInv, [Next]_vars PROVE Memory(Solo)'
  BY NextTypes DEF SerialInv
<1>1. ASSUME NEW a \in BOOLEAN, NEW d \in BOOLEAN, NEW n \in Name \union {NULL},
             Invoke(Solo, a, d, n)
      PROVE  Memory(Solo)'
  <2>1. pc'[Solo] = "init"
    BY <1>1, OneProcess DEF Invoke, Goto, SerialInv, TypeInv, TypeOK
  <2> QED BY <2>1 DEF Memory
<1>2. CASE Step(Solo)
  BY <1>2, StepMemory
<1>3. CASE Crash(Solo)
  BY <1>3, OneProcess, ReturnMemory DEF Crash, SerialInv, Returns
<1>4. CASE UNCHANGED vars
  BY <1>4 DEF SerialInv, Memory, vars, fileVars, procVars
<1> QED BY <1>1, <1>2, <1>3, <1>4, OneProcess DEF Next

-----------------------------------------------------------------------------
(* Steps of the process are steps of the queue.                             *)

(* The queue stays; what has been carried out stays or is forgotten. *)
LEMMA Quiet ==
  ASSUME QueueOf' = QueueOf, RanOf' = RanOf \/ RanOf' = {}, crashes' = crashes
  PROVE  [Queue!Next]_(Queue!vars)
BY DEF Queue!Next, Queue!Abandon, Queue!vars

(* A step that neither touches the list nor ends or begins a rename. *)
LEMMA QuietStep ==
  ASSUME SerialInv, list' = list, pc[Solo] # "rename", pc'[Solo] # "rename",
         crashes' = crashes, RanOf' = RanOf \/ RanOf' = {}
  PROVE  [Queue!Next]_(Queue!vars)
BY Quiet DEF QueueOf

(* One job less in memory is one more that has been carried out. *)
LEMMA OneMore ==
  ASSUME NEW l \in Nat, NEW c \in 1..l
  PROVE  /\ l - c + 1 \in 1..l
         /\ l - c + 1 \notin 1..(l - c)
         /\ 1..(l - (c - 1)) = (1..(l - c)) \union {l - c + 1}
OBVIOUS

LEMMA StepRefines ==
  ASSUME SerialInv, Step(Solo)
  PROVE  [Queue!Next]_(Queue!vars)
<1> USE OneProcess DEF Goto, fileVars, bookVars
<1>b. TypeOK /\ Memory(Solo) /\ Local(Solo)
  BY DEF SerialInv, TypeInv
<1>r. Returns(Solo) => pc'[Solo] = "idle"
  BY <1>b DEF Returns, Return, TypeOK
<1>1. ASSUME InitAccess(Solo) \/ MakeAccess(Solo) \/ AddJob(Solo)
      PROVE  [Queue!Next]_(Queue!vars)
  <2>1. /\ list' = list /\ crashes' = crashes /\ pc[Solo] # "rename"
        /\ ~doing[Solo]
    BY <1>1, <1>b DEF InitAccess, MakeAccess, AddJob, Local
  <2>2. /\ pc'[Solo] \in {"idle", "make", "creat", "add", "do", "save"}
        /\ pc'[Solo] = "save" => ~doing'[Solo]
    BY <1>1, <1>b, <1>r, <2>1 DEF InitAccess, Initialised, MakeAccess, AddJob, TypeOK, Returns
  <2>3. RanOf' = {}
    BY <2>2 DEF RanOf
  <2> QED BY <2>1, <2>2, <2>3, QuietStep
<1>2. ASSUME Creat(Solo) \/ Recreat(Solo)
      PROVE  [Queue!Next]_(Queue!vars)
  <2>1. /\ crashes' = crashes /\ pc[Solo] # "rename"
        /\ list.jobs = <<>> /\ list'.jobs = <<>>
    BY <1>2, <1>b, FilesAreFiles DEF Creat, Recreat, MakeZero, Memory
  <2>2. pc'[Solo] \in {"idle", "recreat", "add", "do"}
    BY <1>2, <1>b, <1>r DEF Creat, Initialised, Recreat, TypeOK, Returns
  <2>3. RanOf' = {} /\ QueueOf' = QueueOf
    BY <2>1, <2>2 DEF RanOf, QueueOf
  <2> QED BY <2>1, <2>3, Quiet
<1>3. ASSUME CoverOpen(Solo) \/ CoverWrite(Solo)
      PROVE  [Queue!Next]_(Queue!vars)
  <2>1. /\ list' = list /\ crashes' = crashes /\ pc[Solo] \in {"save", "write"}
        /\ \/ pc'[Solo] \in {"idle", "out"}
           \/ pc'[Solo] \in {"write", "unlink"} /\ UNCHANGED <<req, doing, ctx>>
    BY <1>3, <1>b, <1>r, SparedCalls
    DEF CoverOpen, NotSaved, CoverWrite, CoverFails, TypeOK, Returns
  <2>2. RanOf' = RanOf \/ RanOf' = {}
    BY <2>1 DEF RanOf
  <2> QED BY <2>1, <2>2, QuietStep
<1>4. CASE CoverUnlink(Solo)
  <2>1. pc[Solo] = "unlink" /\ crashes' = crashes /\ tmp' = tmp
    BY <1>4 DEF CoverUnlink
  <2>2. CASE list' = list /\ pc'[Solo] = "out"
    BY <2>1, <2>2, QuietStep DEF RanOf
  <2>3. CASE pc'[Solo] = "rename"
    <3>1. /\ QueueOf = list.jobs /\ QueueOf' = ctx[Solo] /\ RanOf' = {}
          /\ list.jobs \in Seq(Name) /\ Len(list.jobs) \in Nat
          /\ DOMAIN list.jobs = 1..Len(list.jobs)
      BY <1>b, <2>1, <2>3, FilesAreFiles, LenProperties
      DEF QueueOf, RanOf, Local, TypeOK
    <3>2. CASE ~doing[Solo]
      <4>1. /\ RanOf = {} /\ req[Solo].name \in Name
            /\ QueueOf' = Append(QueueOf, req[Solo].name)
        BY <1>b, <2>1, <3>1, <3>2 DEF RanOf, Local, Memory
      <4> QED BY <2>1, <3>1, <4>1 DEF Queue!Next, Queue!Enqueue
    <3>3. CASE doing[Solo] /\ req[Solo].name = NULL
      <4>1. ctx[Solo] = <<>>
        BY <1>b, <2>1, <3>3 DEF Memory
      <4>2. RanOf = DOMAIN QueueOf /\ QueueOf' = <<>>
        BY <2>1, <3>1, <3>3, <4>1 DEF RanOf
      <4> QED BY <2>1, <3>1, <4>2 DEF Queue!Next, Queue!Commit
    <3>4. CASE doing[Solo] /\ req[Solo].name # NULL
      <4>1. RanOf = {JobIndex(list.jobs, req[Solo].name)}
        BY <2>1, <3>4 DEF RanOf
      <4>2. QueueOf' = RemoveAt(QueueOf, JobIndex(list.jobs, req[Solo].name))
        BY <1>b, <2>1, <3>1, <3>4 DEF Memory
      <4> QED BY <2>1, <3>1, <4>1, <4>2
          DEF Queue!Next, Queue!Commit, Queue!RemoveAt, RemoveAt
    <3> QED BY <3>2, <3>3, <3>4
  <2> QED BY <1>4, <1>b, <2>2, <2>3 DEF CoverUnlink, CoverFails, TypeOK
<1>5. CASE CoverRename(Solo)
  <2>1. pc[Solo] = "rename" /\ pc'[Solo] = "out" /\ list' = tmp[Solo] /\ crashes' = crashes
    BY <1>5, <1>b, SparedCalls DEF CoverRename, TypeOK
  <2>2. QueueOf' = QueueOf /\ RanOf' = {}
    BY <2>1 DEF QueueOf, RanOf
  <2> QED BY <2>1, <2>2, Quiet
<1>6. CASE CoverOut(Solo)
  <2>1. /\ list' = list /\ crashes' = crashes /\ pc[Solo] # "rename"
        /\ pc'[Solo] \in {"idle", "do"}
    BY <1>6, <1>b, <1>r DEF CoverOut, Saved, NotSaved, TypeOK, Returns
  <2>2. RanOf' = {}
    BY <2>1 DEF RanOf
  <2> QED BY <2>1, <2>2, QuietStep
<1>7. CASE DoLoad(Solo)
  <2>1. list' = list /\ crashes' = crashes /\ pc[Solo] = "do" /\ doing[Solo]
    BY <1>7, <1>b DEF DoLoad, Local
  <2>2. CASE Returns(Solo)
    BY <1>r, <2>1, <2>2, QuietStep DEF RanOf
  <2>3. CASE /\ req[Solo].name \in {NULL} \union NamesOf(list)
             /\ ctx'[Solo] = list.jobs
             /\ pc'[Solo] = IF list.jobs = <<>> THEN "save" ELSE "run"
             /\ UNCHANGED <<req, doing>>
    <3>1. list.jobs \in Seq(Name) /\ Len(list.jobs) \in Nat
      BY <1>b, FilesAreFiles, LenProperties DEF TypeOK
    <3>2. list.jobs = <<>> => req[Solo].name = NULL
      BY <2>3, <3>1 DEF NamesOf, ToSet
    <3>3. RanOf' = {}
      BY <2>1, <2>3, <3>1, <3>2 DEF RanOf
    <3> QED BY <2>1, <2>3, <3>3, QuietStep
  <2> QED BY <1>7, <1>b, <2>2, <2>3 DEF DoLoad, TypeOK, Returns
<1>8. CASE RunJob(Solo)
  <2> DEFINE i == JobIndex(ctx[Solo], req[Solo].name)
             rest == RemoveAt(ctx[Solo], i)
  <2>1. list' = list /\ crashes' = crashes /\ pc[Solo] = "run" /\ doing[Solo]
    BY <1>8, <1>b DEF RunJob, Local
  <2>2. CASE Returns(Solo)
    BY <1>r, <2>1, <2>2, QuietStep DEF RanOf
  <2>3. CASE /\ ctx'[Solo] = rest
             /\ pc'[Solo] = IF req[Solo].name = NULL /\ rest # <<>> THEN "run" ELSE "save"
             /\ UNCHANGED <<req, doing>>
             /\ ctx[Solo][i] \notin Broken
    <3>1. /\ ctx[Solo] \in Seq(Name) /\ i \in 1..Len(ctx[Solo])
          /\ Len(rest) = Len(ctx[Solo]) - 1 /\ Len(ctx[Solo]) \in Nat
      BY <1>b, <2>1, JobIndexProperties, RemoveAtProperties, LenProperties
      DEF Local, TypeOK
    <3>2. /\ Len(list.jobs) \in Nat /\ DOMAIN list.jobs = 1..Len(list.jobs)
          /\ QueueOf = list.jobs /\ QueueOf' = QueueOf
      BY <1>b, <2>1, <2>3, FilesAreFiles, LenProperties DEF TypeOK, QueueOf
    <3>3. ASSUME NEW j \in 1..Len(list.jobs), j \notin RanOf,
                 list.jobs[j] \notin Broken, RanOf' = RanOf \union {j}
          PROVE  [Queue!Next]_(Queue!vars)
      BY <2>1, <3>2, <3>3 DEF Queue!Next, Queue!Execute
    <3>4. CASE req[Solo].name = NULL
      <4> DEFINE j == Len(list.jobs) - Len(ctx[Solo]) + 1
      <4>1. /\ Len(ctx[Solo]) <= Len(list.jobs)
            /\ list.jobs[j] = ctx[Solo][i]
        <5>1. EndOf(ctx[Solo], list.jobs) /\ ctx[Solo] # <<>>
          BY <1>b, <2>1, <3>1, <3>4, LenProperties DEF Memory
        <5>2. list.jobs \in Seq(Name)
          BY <1>b, FilesAreFiles DEF TypeOK
        <5>3. ctx[Solo][1] = list.jobs[j]
          BY <3>1, <5>1, <5>2, EndWithoutHead
        <5> QED BY <3>4, <5>1, <5>3 DEF EndOf, JobIndex
      <4>2. RanOf = 1..(Len(list.jobs) - Len(ctx[Solo]))
        BY <2>1, <3>4 DEF RanOf
      <4>3. RanOf' = 1..(Len(list.jobs) - Len(rest))
        BY <2>1, <2>3, <3>4 DEF RanOf
      <4> HIDE DEF i, rest
      <4>4. Len(ctx[Solo]) \in 1..Len(list.jobs) /\ Len(rest) = Len(ctx[Solo]) - 1
        BY <3>1, <3>2, <4>1
      <4>5. Len(list.jobs) - Len(rest) = Len(list.jobs) - (Len(ctx[Solo]) - 1)
        BY <4>4
      <4>6. /\ j \in 1..Len(list.jobs)
            /\ j \notin 1..(Len(list.jobs) - Len(ctx[Solo]))
            /\ 1..(Len(list.jobs) - (Len(ctx[Solo]) - 1)) =
                 (1..(Len(list.jobs) - Len(ctx[Solo]))) \union {j}
        BY <3>2, <4>4, OneMore
      <4> HIDE DEF j
      <4> QED BY <2>3, <3>3, <4>1, <4>2, <4>3, <4>5, <4>6
    <3>5. CASE req[Solo].name # NULL
      <4>1. RanOf = {} /\ ctx[Solo] = list.jobs
        BY <1>b, <2>1, <3>5 DEF Memory, RanOf
      <4>2. RanOf' = {i}
        BY <2>1, <2>3, <3>5, <4>1 DEF RanOf
      <4> QED BY <2>3, <3>1, <3>3, <4>1, <4>2
    <3> QED BY <3>4, <3>5
  <2> QED BY <1>8, <1>b, <2>2, <2>3 DEF RunJob, TypeOK, Returns
<1> QED BY <1>1, <1>2, <1>3, <1>4, <1>5, <1>6, <1>7, <1>8 DEF Step

LEMMA CrashRefines ==
  ASSUME SerialInv, Crash(Solo)
  PROVE  [Queue!Next]_(Queue!vars)
<1>1. pc'[Solo] = "idle" /\ list' = list /\ crashes' = crashes + 1
  BY OneProcess DEF Crash, Returns, Return, Goto, SerialInv, TypeInv, TypeOK
<1>2. RanOf' = {} /\ QueueOf' = list.jobs
  BY <1>1 DEF RanOf, QueueOf
<1>3. QueueOf' \in {QueueOf, <<>>}
  BY <1>2 DEF QueueOf, SerialInv, Memory
<1> QED BY <1>1, <1>2, <1>3 DEF Queue!Next, Queue!Die

(* Used one invocation at a time, the job list is the queue of JobQueue.tla:*)
(* backup, restore and everything they call keep the order of the jobs and  *)
(* take out only what has been copied.                                      *)
THEOREM ListIsAQueue == Spec => ImplementsQueue
<1>1. Init => SerialInv /\ Queue!Init
  <2> SUFFICES ASSUME Init PROVE SerialInv /\ Queue!Init
    OBVIOUS
  <2>1. pc[Solo] = "idle" /\ list.jobs = <<>> /\ crashes = 0
    BY OneProcess, FilesAreFiles DEF Init
  <2> QED BY <2>1, InitTypes DEF SerialInv, Memory, Queue!Init, QueueOf, RanOf
<1>2. SerialInv /\ [Next]_vars => [Queue!Next]_(Queue!vars)
  <2> SUFFICES ASSUME SerialInv, [Next]_vars PROVE [Queue!Next]_(Queue!vars)
    OBVIOUS
  <2>1. ASSUME NEW a \in BOOLEAN, NEW d \in BOOLEAN,
               NEW n \in Name \union {NULL}, Invoke(Solo, a, d, n)
        PROVE  [Queue!Next]_(Queue!vars)
    <3>1. /\ list' = list /\ crashes' = crashes
          /\ pc[Solo] = "idle" /\ pc'[Solo] = "init"
      BY <2>1, OneProcess DEF Invoke, Goto, fileVars, SerialInv, TypeInv, TypeOK
    <3> QED BY <3>1, QuietStep DEF RanOf
  <2>2. CASE UNCHANGED vars
    BY <2>2 DEF vars, fileVars, procVars, bookVars, Queue!vars, QueueOf, RanOf
  <2> QED BY <2>1, <2>2, StepRefines, CrashRefines, OneProcess DEF Next
<1> QED BY <1>1, <1>2, NextMemory, PTL DEF Spec, ImplementsQueue, Queue!Spec

-----------------------------------------------------------------------------
(* Commands.                                                                *)

MainTypes ==
  /\ effect \in [add : BOOLEAN, do : BOOLEAN]
  /\ paths \in Seq(Name \union {NULL})

LEMMA CmdInitTypes == CmdInit => MainTypes
BY DEF CmdInit, MainTypes, NoEffect

LEMMA CmdNextTypes == MainTypes /\ [CmdNext]_cmdVars => MainTypes'
<1> SUFFICES ASSUME MainTypes, [CmdNext]_cmdVars PROVE MainTypes'
  OBVIOUS
<1> USE DEF MainTypes
<1>1. ASSUME NEW c \in Parsed, NEW ps \in PathLists, Start(c, ps) PROVE MainTypes'
  <2>1. effect' \in [add : BOOLEAN, do : BOOLEAN]
    BY <1>1 DEF Start, Effect
  <2>2. ps \in Seq(Name \union {NULL})
    <3>1. PICK k \in 0..MaxPaths : ps \in [1..k -> Name]
      BY DEF PathLists
    <3> QED BY <3>1, PathsAssumption
  <2>3. <<NULL>> \in Seq(Name \union {NULL})
    OBVIOUS
  <2> QED BY <1>1, <2>1, <2>2, <2>3 DEF Start
<1>2. ASSUME NEW c \in Parsed, NEW ps \in PathLists, Refuse(c, ps) PROVE MainTypes'
  BY <1>2 DEF Refuse
<1>3. CASE NextPath
  BY <1>3 DEF NextPath
<1>4. CASE Work
  BY <1>4 DEF Work, mainVars
<1>5. CASE Gone
  BY <1>5 DEF Gone, NoEffect
<1>6. CASE UNCHANGED cmdVars
  BY <1>6 DEF cmdVars, mainVars
<1> QED BY <1>1, <1>2, <1>3, <1>4, <1>5, <1>6 DEF CmdNext, Command, Exit, Kill

(* Every step of a command is one of the list, or none. *)
LEMMA CommandSteps == MainTypes /\ [CmdNext]_cmdVars => [Next]_vars
<1> SUFFICES ASSUME MainTypes, [CmdNext]_cmdVars PROVE [Next]_vars
  OBVIOUS
<1>1. CASE NextPath
  <2>1. Head(paths) \in Name \union {NULL} /\ effect.add \in BOOLEAN /\ effect.do \in BOOLEAN
    BY <1>1 DEF NextPath, MainTypes
  <2> QED BY <1>1, <2>1, OneProcess DEF NextPath, Next
<1>2. CASE Work
  BY <1>2, OneProcess DEF Work, Next
<1>3. CASE Kill
  BY <1>3, OneProcess DEF Kill, Next
<1>4. CASE Command \/ Exit
  BY <1>4 DEF Command, Refuse, Start, Exit
<1>5. CASE UNCHANGED cmdVars
  BY <1>5 DEF cmdVars
<1> QED BY <1>1, <1>2, <1>3, <1>4, <1>5 DEF CmdNext

(* main() only ever works on the list through backup() and restore(), one   *)
(* path after the other.                                                    *)
THEOREM CommandsAreInvocations == CmdSpec => Spec
<1>1. CmdInit => Init
  BY DEF CmdInit
<1> QED BY <1>1, CmdInitTypes, CmdNextTypes, CommandSteps, PTL DEF CmdSpec, Spec

(* Whatever options and paths commands are given, and wherever they fail,   *)
(* the list keeps the order of the jobs and loses none that has not been    *)
(* copied.                                                                  *)
THEOREM CommandsKeepTheQueue == CmdSpec => ImplementsQueue
BY CommandsAreInvocations, ListIsAQueue

-----------------------------------------------------------------------------
(* Where a command is: away only inside demo_file_data_cover, or after a    *)
(* failure it has reported.                                                 *)
Covering == {"write", "unlink", "rename", "out"}
PlaceInv ==
  /\ pc[Solo] \notin {"idle", "out"} => rc[Solo] = "SUCCESS"
  /\ pc[Solo] \in Covering => old = Home \/ failed
  /\ pc[Solo] \notin Covering => cwd = Home \/ failed

(* How demo_file_data_cover is come to and left, and that an invocation     *)
(* with an error ends.                                                      *)
LEMMA StepResult ==
  ASSUME TypeInv, PlaceInv, Step(Solo)
  PROVE  /\ pc'[Solo] \notin {"idle", "out"} => rc'[Solo] = "SUCCESS"
         /\ pc[Solo] \in {"write", "unlink", "rename"} => pc'[Solo] \in Covering
         /\ pc[Solo] = "out" => pc'[Solo] \in {"idle", "do"}
         /\ pc[Solo] = "save" => pc'[Solo] \in {"write", "idle", "do"}
         /\ pc[Solo] \notin {"save"} \union Covering => pc'[Solo] \notin Covering
<1> USE OneProcess DEF TypeInv, TypeOK, PlaceInv, Covering, Goto, Return
<1>1. CASE InitAccess(Solo)
  BY <1>1 DEF InitAccess, Initialised
<1>2. CASE MakeAccess(Solo)
  BY <1>2 DEF MakeAccess
<1>3. CASE Creat(Solo)
  BY <1>3 DEF Creat, Initialised
<1>4. CASE Recreat(Solo)
  BY <1>4 DEF Recreat
<1>5. CASE AddJob(Solo)
  BY <1>5 DEF AddJob
<1>6. CASE CoverOpen(Solo)
  BY <1>6 DEF CoverOpen, Saved, NotSaved
<1>7. CASE CoverWrite(Solo)
  BY <1>7 DEF CoverWrite, CoverFails
<1>8. CASE CoverUnlink(Solo)
  BY <1>8 DEF CoverUnlink, CoverFails
<1>9. CASE CoverRename(Solo)
  BY <1>9 DEF CoverRename, CoverFails
<1>10. CASE CoverOut(Solo)
  BY <1>10 DEF CoverOut, Saved, NotSaved
<1>11. CASE DoLoad(Solo)
  BY <1>11 DEF DoLoad
<1>12. CASE RunJob(Solo)
  BY <1>12 DEF RunJob
<1> QED BY <1>1, <1>2, <1>3, <1>4, <1>5, <1>6, <1>7, <1>8, <1>9, <1>10, <1>11, <1>12 DEF Step

LEMMA WorkPlace ==
  ASSUME TypeInv, PlaceInv, Work
  PROVE  PlaceInv'
<1>1. /\ pc'[Solo] \notin {"idle", "out"} => rc'[Solo] = "SUCCESS"
      /\ pc[Solo] \in {"write", "unlink", "rename"} => pc'[Solo] \in Covering
      /\ pc[Solo] = "out" => pc'[Solo] \in {"idle", "do"}
      /\ pc[Solo] = "save" => pc'[Solo] \in {"write", "idle", "do"}
      /\ pc[Solo] \notin {"save"} \union Covering => pc'[Solo] \notin Covering
  BY StepResult DEF Work
<1>2. Move /\ failed' = (failed \/ (pc'[Solo] = "idle" /\ rc'[Solo] = "ERROR"))
  BY DEF Work
<1>3. CASE pc[Solo] = "save" /\ pc'[Solo] = "write"
  BY <1>1, <1>2, <1>3 DEF Move, PlaceInv, Covering
<1>4. CASE pc[Solo] = "save" /\ pc'[Solo] # "write"
  BY <1>1, <1>2, <1>4 DEF Move, PlaceInv, Covering, placeVars
<1>5. CASE pc[Solo] = "out"
  <2>1. rc'[Solo] # "ERROR" => cwd' = old
    BY <1>2, <1>5 DEF Move, Back
  <2> QED BY <1>1, <1>2, <1>5, <2>1 DEF PlaceInv, Covering
<1>6. CASE pc[Solo] = "run"
  BY <1>1, <1>2, <1>6 DEF Move, PlaceInv, Covering, placeVars
<1>7. CASE pc[Solo] \notin {"save", "out", "run"}
  BY <1>1, <1>2, <1>7 DEF Move, PlaceInv, Covering, placeVars
<1> QED BY <1>3, <1>4, <1>5, <1>6, <1>7

LEMMA NextPlace == TypeInv /\ PlaceInv /\ [CmdNext]_cmdVars => PlaceInv'
<1> SUFFICES ASSUME TypeInv, PlaceInv, [CmdNext]_cmdVars PROVE PlaceInv'
  OBVIOUS
<1>1. CASE NextPath
  <2>1. pc[Solo] = "idle" /\ pc'[Solo] = "init" /\ rc'[Solo] = "SUCCESS"
    BY <1>1, OneProcess DEF NextPath, Invoke, Goto, TypeInv, TypeOK
  <2> QED BY <1>1, <2>1 DEF NextPath, PlaceInv, Covering, placeVars, historyVars
<1>2. CASE Work
  BY <1>2, WorkPlace
<1>3. CASE Command
  BY <1>3 DEF Command, Refuse, Start, PlaceInv, vars, procVars, placeVars, historyVars
<1>4. CASE Exit
  BY <1>4 DEF Exit, Gone, PlaceInv, vars, procVars
<1>5. CASE Kill
  <2>1. pc'[Solo] = "idle"
    BY <1>5, OneProcess DEF Kill, Crash, Return, Goto, TypeInv, TypeOK
  <2> QED BY <1>5, <2>1 DEF Kill, Gone, PlaceInv, Covering
<1>6. CASE UNCHANGED cmdVars
  BY <1>6 DEF cmdVars, PlaceInv, vars, procVars, placeVars, historyVars
<1> QED BY <1>1, <1>2, <1>3, <1>4, <1>5, <1>6 DEF CmdNext

(* A chdir() back that fails is never overlooked: any path or job looked up *)
(* from then on is looked up after an error of the same command.            *)
THEOREM LostDirectoryIsReported == CmdSpec => []WrongPlaceIsReported
<1>1. CmdInit => TypeInv /\ MainTypes /\ PlaceInv
  <2>1. CmdInit => PlaceInv
    BY OneProcess DEF CmdInit, Init, PlaceInv, Covering
  <2> QED BY <2>1, CmdInitTypes, InitTypes DEF CmdInit
<1>2. TypeInv /\ MainTypes /\ PlaceInv /\ [CmdNext]_cmdVars => (TypeInv /\ MainTypes /\ PlaceInv)'
  BY CmdNextTypes, CommandSteps, NextTypes, NextPlace
<1>3. PlaceInv => WrongPlaceIsReported
  BY DEF PlaceInv, Covering, WrongPlaceIsReported
<1> QED BY <1>1, <1>2, <1>3, PTL DEF CmdSpec

-----------------------------------------------------------------------------
(* What an exit status of zero stands for.                                  *)

(* The invocation is that of the path main() is at. *)
OnCommand == req[Solo] = [add |-> effect.add, do |-> effect.do, name |-> name]

(* Putting jobs l in place of the list deals with the path. *)
Settled(l) ==
  IF ~doing[Solo] THEN name \in ToSet(l)
  ELSE IF name = NULL THEN l = <<>> ELSE name \in done

(* The path has been dealt with. *)
Dealt ==
  /\ effect.add /\ ~effect.do => name \in NamesOf(list)
  /\ effect.do => IF name = NULL THEN list = Whole(<<>>) ELSE name \in done

ResultInv ==
  /\ phase = "shell" => pc[Solo] = "idle"
  /\ pc[Solo] # "idle" => OnCommand /\ (doing[Solo] => effect.do)
  /\ pc[Solo] \in {"save", "write", "unlink", "rename"} => Settled(ctx[Solo])
  /\ pc[Solo] = "out" /\ rc[Solo] = "SUCCESS" =>
       list = Whole(ctx[Solo]) /\ Settled(ctx[Solo])
  /\ phase = "run" /\ paths = <<>> /\ pc[Solo] = "idle" /\ rc[Solo] = "SUCCESS" => Dealt

(* An error is an error. *)
LEMMA ErrorResult ==
  ASSUME phase = "run", phase' = phase, pc'[Solo] = "idle", rc'[Solo] = "ERROR"
  PROVE  ResultInv'
BY DEF ResultInv

(* Nothing is asked of a list but that it is there. *)
LEMMA InitialisedResult ==
  ASSUME TypeInv, ResultInv, phase = "run", UNCHANGED mainVars, pc[Solo] \in {"init", "creat"},
         Initialised(Solo)
  PROVE  ResultInv'
<1> USE OneProcess DEF mainVars
<1>1. OnCommand /\ (doing[Solo] => effect.do) /\ ~doing[Solo]
  BY DEF ResultInv, TypeInv, Local
<1>2. CASE ~req[Solo].add /\ ~req[Solo].do /\ Return(Solo, "SUCCESS")
  <2>1. ~effect.add /\ ~effect.do
    BY <1>1, <1>2 DEF OnCommand
  <2>2. pc'[Solo] = "idle"
    BY <1>2 DEF Return, Goto, TypeInv, TypeOK
  <2> QED BY <2>1, <2>2 DEF ResultInv, Dealt
<1>3. CASE Return(Solo, "ERROR")
  <2>1. pc'[Solo] = "idle" /\ rc'[Solo] = "ERROR"
    BY <1>3 DEF Return, Goto, TypeInv, TypeOK
  <2> QED BY <2>1, ErrorResult
<1>4. CASE /\ pc'[Solo] \in {"add", "do"} /\ req' = req
           /\ doing'[Solo] => req[Solo].do
  BY <1>1, <1>4 DEF ResultInv, OnCommand
<1>5. \/ req[Solo].add /\ pc'[Solo] = "add" /\ doing' = doing /\ req' = req
      \/ req[Solo].do /\ pc'[Solo] = "do" /\ req' = req
      \/ ~req[Solo].add /\ ~req[Solo].do /\ Return(Solo, "SUCCESS")
      \/ Return(Solo, "ERROR")
  BY DEF Initialised, Goto, TypeInv, TypeOK
<1> QED BY <1>1, <1>2, <1>3, <1>4, <1>5

LEMMA WorkResult ==
  ASSUME TypeInv, MainTypes, ResultInv, Work
  PROVE  ResultInv'
<1> USE OneProcess
<1>1. /\ phase = "run" /\ UNCHANGED <<phase, effect, paths, name>> /\ done \subseteq done'
      /\ Step(Solo) /\ TypeOK /\ Local(Solo) /\ UNCHANGED mainVars
  BY DEF Work, mainVars, TypeInv
<1>2. ASSUME Return(Solo, "ERROR") PROVE ResultInv'
  <2>1. pc'[Solo] = "idle" /\ rc'[Solo] = "ERROR"
    BY <1>1, <1>2 DEF Return, Goto, TypeOK
  <2> QED BY <1>1, <2>1, ErrorResult
<1>3. ASSUME pc[Solo] # "idle", pc'[Solo] \notin {"idle", "save", "write", "unlink", "rename"},
             pc'[Solo] = "out" => rc'[Solo] # "SUCCESS", req' = req, doing' = doing
      PROVE  ResultInv'
  BY <1>1, <1>3 DEF ResultInv, OnCommand
<1>4. ASSUME pc[Solo] \in {"save", "write", "unlink"},
             pc'[Solo] \in {"write", "unlink", "rename"},
             req' = req, doing' = doing, ctx' = ctx
      PROVE  ResultInv'
  BY <1>1, <1>4 DEF ResultInv, OnCommand, Settled
<1>5. CASE InitAccess(Solo)
  <2>1. CASE list = Absent
    BY <1>1, <1>3, <1>5, <2>1 DEF InitAccess, Goto, TypeOK
  <2>2. CASE list # Absent
    BY <1>1, <1>5, <2>2, InitialisedResult DEF InitAccess
  <2> QED BY <2>1, <2>2
<1>6. CASE MakeAccess(Solo)
  BY <1>1, <1>2, <1>3, <1>6 DEF MakeAccess, Goto, TypeOK
<1>7. CASE Creat(Solo)
  <2>1. \/ Initialised(Solo) \/ Return(Solo, "ERROR")
        \/ pc'[Solo] = "recreat" /\ req' = req /\ doing' = doing
    BY <1>1, <1>7 DEF Creat, Goto, TypeOK
  <2>2. pc[Solo] = "creat"
    BY <1>7 DEF Creat
  <2> QED BY <1>1, <1>2, <1>3, <2>1, <2>2, InitialisedResult
<1>8. CASE Recreat(Solo)
  BY <1>2, <1>8 DEF Recreat
<1>9. CASE AddJob(Solo)
  <2>1. CASE pc'[Solo] = "save" /\ ctx'[Solo] = Append(list.jobs, req[Solo].name)
             /\ req' = req /\ doing' = doing
    <3>1. pc[Solo] = "add" /\ ~doing[Solo] /\ OnCommand /\ req[Solo].name = name
      BY <1>1, <1>9 DEF AddJob, Local, ResultInv, OnCommand
    <3>2. list.jobs \in Seq(Name) /\ req[Solo].name \in Name
      BY <1>1, <3>1, FilesAreFiles DEF TypeOK, Local
    <3>3. name \in ToSet(ctx'[Solo])
      <4>1. Append(list.jobs, name)[Len(list.jobs) + 1] = name
            /\ Len(list.jobs) + 1 \in DOMAIN Append(list.jobs, name)
        BY <3>1, <3>2
      <4> QED BY <2>1, <3>1, <4>1 DEF ToSet
    <3> QED BY <1>1, <2>1, <3>1, <3>3 DEF ResultInv, OnCommand, Settled
  <2>2. pc[Solo] = "add"
    BY <1>9 DEF AddJob
  <2> QED BY <1>1, <1>2, <1>9, <2>1, SparedCalls DEF AddJob, LoadedForAdd, Goto, TypeOK
<1>10. CASE CoverOpen(Solo)
  <2>1. \/ Return(Solo, "ERROR")
        \/ pc'[Solo] = "write" /\ UNCHANGED <<req, doing, ctx>>
    BY <1>1, <1>10, SparedCalls DEF CoverOpen, NotSaved, Goto, TypeOK
  <2> QED BY <1>2, <1>4, <1>10, <2>1 DEF CoverOpen
<1>11. CASE CoverWrite(Solo)
  <2>1. /\ pc[Solo] = "write" /\ UNCHANGED <<req, doing, ctx>>
        /\ pc'[Solo] = "unlink" \/ (pc'[Solo] = "out" /\ rc'[Solo] = "ERROR")
    BY <1>1, <1>11 DEF CoverWrite, CoverFails, Goto, TypeOK
  <2> QED BY <1>3, <1>4, <2>1
<1>12. CASE CoverUnlink(Solo)
  <2>1. /\ pc[Solo] = "unlink" /\ UNCHANGED <<req, doing, ctx>>
        /\ pc'[Solo] = "rename" \/ (pc'[Solo] = "out" /\ rc'[Solo] = "ERROR")
    BY <1>1, <1>12 DEF CoverUnlink, CoverFails, Goto, TypeOK
  <2> QED BY <1>3, <1>4, <2>1
<1>13. CASE CoverRename(Solo)
  <2>1. /\ pc[Solo] = "rename" /\ UNCHANGED <<req, doing, ctx>>
        /\ pc'[Solo] = "out" /\ list' = tmp[Solo]
    BY <1>1, <1>13, SparedCalls DEF CoverRename, Goto, TypeOK
  <2>2. tmp[Solo] = Whole(ctx[Solo])
    BY <1>1, <2>1 DEF Local
  <2> QED BY <1>1, <2>1, <2>2 DEF ResultInv, OnCommand, Settled
<1>14. CASE CoverOut(Solo)
  <2>1. pc[Solo] = "out" /\ list' = list
    BY <1>14 DEF CoverOut
  <2>2. ASSUME rc[Solo] = "SUCCESS", Saved(Solo) PROVE ResultInv'
    <3>1. /\ OnCommand /\ (doing[Solo] => effect.do) /\ list = Whole(ctx[Solo])
          /\ Settled(ctx[Solo]) /\ NamesOf(list) = ToSet(ctx[Solo])
      BY <2>1, <2>2, FilesAreFiles DEF ResultInv, NamesOf
    <3>2. CASE ~doing[Solo] /\ req[Solo].do
      <4>1. pc'[Solo] = "do" /\ req' = req
        BY <1>1, <2>2, <3>2 DEF Saved, Goto, TypeOK
      <4> QED BY <1>1, <3>1, <3>2, <4>1 DEF ResultInv, OnCommand
    <3>3. CASE ~doing[Solo] /\ ~req[Solo].do
      <4>1. pc'[Solo] = "idle"
        BY <1>1, <2>2, <3>3 DEF Saved, Return, Goto, TypeOK
      <4>2. ~effect.do /\ name \in NamesOf(list)
        BY <3>1, <3>3 DEF OnCommand, Settled
      <4> QED BY <1>1, <2>1, <4>1, <4>2 DEF ResultInv, Dealt, NamesOf
    <3>4. CASE doing[Solo]
      <4>1. pc'[Solo] = "idle"
        BY <1>1, <2>2, <3>4 DEF Saved, Return, Goto, TypeOK
      <4>2. effect.do /\ IF name = NULL THEN list = Whole(<<>>) ELSE name \in done
        BY <3>1, <3>4 DEF Settled
      <4> QED BY <1>1, <2>1, <4>1, <4>2 DEF ResultInv, Dealt
    <3> QED BY <3>2, <3>3, <3>4
  <2> QED BY <1>2, <1>14, <2>2 DEF CoverOut, NotSaved
<1>15. CASE DoLoad(Solo)
  <2>1. pc[Solo] = "do" /\ doing[Solo] /\ OnCommand
    BY <1>1, <1>15 DEF DoLoad, Local, ResultInv
  <2>2. CASE /\ req[Solo].name \in {NULL} \union NamesOf(list)
             /\ ctx'[Solo] = list.jobs
             /\ pc'[Solo] = IF list.jobs = <<>> THEN "save" ELSE "run"
             /\ UNCHANGED <<req, doing>>
    <3>1. list.jobs = <<>> => name = NULL
      <4>1. list.jobs = <<>> => NamesOf(list) = {}
        BY DEF NamesOf, ToSet
      <4> QED BY <2>1, <2>2, <4>1 DEF OnCommand
    <3>2. CASE list.jobs = <<>>
      BY <1>1, <2>1, <2>2, <3>1, <3>2 DEF ResultInv, OnCommand, Settled
    <3>3. CASE list.jobs # <<>>
      BY <1>3, <2>1, <2>2, <3>3
    <3> QED BY <3>2, <3>3
  <2> QED BY <1>1, <1>2, <1>15, <2>2 DEF DoLoad, Goto, TypeOK
<1>16. CASE RunJob(Solo)
  <2> DEFINE i == JobIndex(ctx[Solo], req[Solo].name)
             rest == RemoveAt(ctx[Solo], i)
  <2>1. pc[Solo] = "run" /\ doing[Solo] /\ OnCommand /\ effect.do /\ name = req[Solo].name
    BY <1>1, <1>16 DEF RunJob, Local, ResultInv, OnCommand
  <2>2. CASE /\ ctx'[Solo] = rest
             /\ pc'[Solo] = IF req[Solo].name = NULL /\ rest # <<>> THEN "run" ELSE "save"
             /\ UNCHANGED <<req, doing>>
    <3>1. done' = done \union {ctx[Solo][i]}
      BY <2>1, <2>2 DEF Work
    <3>2. name # NULL => ctx[Solo][i] = name
      BY <1>1, <2>1, JobIndexProperties DEF TypeOK, Local
    <3> HIDE DEF i, rest
    <3>3. CASE pc'[Solo] = "run"
      BY <1>3, <2>1, <2>2, <3>3
    <3>4. CASE pc'[Solo] = "save"
      BY <1>1, <2>1, <2>2, <3>1, <3>2, <3>4 DEF ResultInv, OnCommand, Settled
    <3> QED BY <2>2, <3>3, <3>4
  <2> QED BY <1>1, <1>2, <1>16, <2>2 DEF RunJob, Goto, TypeOK
<1> QED BY <1>1, <1>5, <1>6, <1>7, <1>8, <1>9, <1>10, <1>11, <1>12, <1>13, <1>14, <1>15,
          <1>16 DEF Step

LEMMA NextResult ==
  TypeInv /\ MainTypes /\ ResultInv /\ [CmdNext]_cmdVars => ResultInv'
<1> SUFFICES ASSUME TypeInv, MainTypes, ResultInv, [CmdNext]_cmdVars PROVE ResultInv'
  OBVIOUS
<1> USE OneProcess
<1>1. CASE NextPath
  <2>1. /\ pc'[Solo] = "init" /\ phase' = "run" /\ effect' = effect /\ name' = Head(paths)
        /\ req'[Solo] = [add |-> effect.add, do |-> effect.do, name |-> Head(paths)]
        /\ doing' = doing /\ ~doing[Solo]
    BY <1>1 DEF NextPath, Invoke, Goto, TypeInv, TypeOK, Local
  <2> QED BY <2>1 DEF ResultInv, OnCommand
<1>2. CASE Work
  BY <1>2, WorkResult
<1>3. CASE Exit \/ Kill
  <2>1. pc'[Solo] = "idle" /\ phase' = "shell"
    BY <1>3 DEF Exit, Kill, Gone, Active, Crash, Return, Goto, TypeInv, TypeOK, vars, procVars
  <2> QED BY <2>1 DEF ResultInv
<1>4. ASSUME NEW c \in Parsed, NEW ps \in PathLists, Start(c, ps) PROVE ResultInv'
  <2>1. pc'[Solo] = "idle" /\ paths' # <<>> /\ phase' = "run"
    BY <1>4 DEF Start, ResultInv, vars, procVars
  <2> QED BY <2>1 DEF ResultInv
<1>5. ASSUME NEW c \in Parsed, NEW ps \in PathLists, Refuse(c, ps) PROVE ResultInv'
  <2>1. pc'[Solo] = "idle" /\ phase' = "shell"
    BY <1>5 DEF Refuse, ResultInv, vars, procVars
  <2> QED BY <2>1 DEF ResultInv
<1>6. CASE UNCHANGED cmdVars
  BY <1>6 DEF cmdVars, ResultInv, OnCommand, Settled, Dealt, vars, fileVars, procVars, mainVars,
              historyVars, NamesOf
<1> QED BY <1>1, <1>2, <1>3, <1>4, <1>5, <1>6 DEF CmdNext, Command

(* Whatever fails, but for the Destructive failures: an exit status of zero *)
(* says that the last path is in the list after -a, has been copied by this *)
(* command after -d, and that the list is empty after -d alone              *)
(* (SuccessIsReal, main()).                                                 *)
THEOREM SuccessMeansDone == CmdSpec => SuccessIsReal
<1> DEFINE Claim == phase = "run" /\ phase' = "shell" /\ status' = "SUCCESS" =>
                      /\ effect.add /\ ~effect.do => name \in NamesOf(list)
                      /\ effect.do => IF name = NULL THEN list = Whole(<<>>) ELSE name \in done
<1>1. CmdInit => TypeInv /\ MainTypes /\ ResultInv
  <2>1. CmdInit => ResultInv
    BY OneProcess DEF CmdInit, Init, ResultInv
  <2> QED BY <2>1, CmdInitTypes, InitTypes DEF CmdInit
<1>2. TypeInv /\ MainTypes /\ ResultInv /\ [CmdNext]_cmdVars =>
        (TypeInv /\ MainTypes /\ ResultInv)'
  BY CmdNextTypes, CommandSteps, NextTypes, NextResult
<1>3. ResultInv /\ [CmdNext]_cmdVars => [Claim]_cmdVars
  <2> SUFFICES ASSUME ResultInv, CmdNext, phase = "run", phase' = "shell", status' = "SUCCESS"
               PROVE  Dealt
    BY DEF Dealt
  <2>1. Exit /\ rc[Solo] = "SUCCESS"
    BY DEF CmdNext, Command, Start, Refuse, NextPath, Work, mainVars, Exit, Kill
  <2> QED BY <2>1 DEF Exit, Active, ResultInv
<1> QED BY <1>1, <1>2, <1>3, PTL DEF CmdSpec, SuccessIsReal
=============================================================================
