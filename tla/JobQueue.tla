------------------------------ MODULE JobQueue ------------------------------
(***************************************************************************)
(* What a job list promises to somebody who uses it one invocation at a    *)
(* time: an ordered, durable queue of file names with at-least-once        *)
(* execution.  A name enters at the end, and leaves only in a Commit that  *)
(* follows its execution; what has been executed and not committed will be *)
(* executed again.  There is one blemish: a process that dies while it     *)
(* replaces the file may leave no list under the name the program reads.   *)
(*                                                                         *)
(* What an invocation answers is no part of this: one that reports an      *)
(* error may have enqueued its name or committed before it failed.         *)
(*                                                                         *)
(* JobList.tla implements this specification, see JobListSerial.tla.       *)
(***************************************************************************)
EXTENDS Naturals, Sequences, SequencesExt

CONSTANTS
  Name,          (* the file names a job can carry                          *)
  Broken         (* those that can never be carried out                     *)

VARIABLES
  queue,         (* the jobs waiting, oldest first                          *)
  ran,           (* positions of queue executed, successfully, since the    *)
                 (* last commit                                             *)
  deaths         (* number of executors that have died                      *)

vars == <<queue, ran, deaths>>

Init ==
  /\ queue = <<>>
  /\ ran = {}
  /\ deaths = 0

(* A new request goes to the end; nothing else moves. *)
Enqueue(n) ==
  /\ ran = {}
  /\ queue' = Append(queue, n)
  /\ UNCHANGED <<ran, deaths>>

(* A job is carried out; it stays in the queue for now. *)
Execute(i) ==
  /\ i \in DOMAIN queue \ ran
  /\ queue[i] \notin Broken
  /\ ran' = ran \union {i}
  /\ UNCHANGED <<queue, deaths>>

(* One executed job is taken out, or the whole queue once all of it ran. *)
Commit ==
  /\ \/ \E i \in ran : queue' = RemoveAt(queue, i)
     \/ ran = DOMAIN queue /\ queue' = <<>>
  /\ ran' = {}
  /\ UNCHANGED deaths

(* The executor gives up: what it ran will be run again. *)
Abandon ==
  /\ ran # {}
  /\ ran' = {}
  /\ UNCHANGED <<queue, deaths>>

(* An executor dies, at worst in the middle of replacing the stored queue. *)
Die ==
  /\ queue' \in {queue, <<>>}
  /\ ran' = {}
  /\ deaths' = deaths + 1

Next ==
  \/ \E n \in Name : Enqueue(n)
  \/ \E i \in DOMAIN queue : Execute(i)
  \/ Commit
  \/ Abandon
  \/ Die

Spec == Init /\ [][Next]_vars
=============================================================================
