------------------------------ MODULE JobArray ------------------------------
(***************************************************************************)
(* The jobs of one list in memory, as JobList.tla takes them: a sequence   *)
(* that grows at the end and from which one job at a time is taken, the    *)
(* first with a given name or the first of all.                            *)
(*                                                                         *)
(* JobContext.tla implements this specification.                           *)
(***************************************************************************)
EXTENDS Naturals, Sequences, SequencesExt

CONSTANTS Name, Entry

VARIABLE jobs

(* The first job with the name, 0 if there is none. *)
Find(n) == SelectInSeq(jobs, LAMBDA e : e.object /\ e.name = n)

Init == jobs = <<>>

Load == jobs = <<>> /\ jobs' \in Seq(Entry)

Add(e) == jobs' = Append(jobs, e)

RemoveNamed(n) == Find(n) # 0 /\ jobs' = RemoveAt(jobs, Find(n))

(* Only what has the form of a job is taken from the head. *)
RemoveHead == jobs # <<>> /\ Head(jobs).object /\ jobs' = Tail(jobs)

Clear == jobs' = <<>>

Next ==
  \/ Load
  \/ \E e \in Entry : Add(e)
  \/ \E n \in Name : RemoveNamed(n)
  \/ RemoveHead
  \/ Clear

Spec == Init /\ [][Next]_jobs
=============================================================================
