----------------------------- MODULE JobContext -----------------------------
(***************************************************************************)
(* One FJOB_CTX (src/lib/job_proxy.c) and the linked list of cJSON items   *)
(* it consists of (src/lib/cJSON.c).  The list is doubly linked, the first *)
(* item's prev is the last item, and there is no other pointer to it.      *)
(*                                                                         *)
(* Each call is one step, except the loop over all jobs, of which each     *)
(* round is one.  Any allocation may fail; nobody asks.  An item stands    *)
(* for a job with its members, of which only the name is ever read.        *)
(***************************************************************************)
EXTENDS Naturals, Sequences, SequencesExt, FiniteSets, Folds

CONSTANTS
  Node,        (* addresses of array elements                               *)
  NULL,        (* the null pointer                                          *)
  Name,        (* names of files                                            *)
  MaxLoad      (* bound on the length of a list read from the disk          *)

ASSUME NullAssumption == NULL \notin Node \union Name
ASSUME NodeAssumption == IsFiniteSet(Node) /\ MaxLoad \in 0..Cardinality(Node)

VARIABLES
  type,        (* FJOB_CTX.type                                             *)
  array,       (* FJOB_CTX.array is not NULL                                *)
  child,       (* the first element                                         *)
  next, prev,  (* the links of the elements                                 *)
  entry,       (* what each element holds                                   *)
  live,        (* the elements allocated and not freed                      *)
  loop,        (* the loop of demo_del_job_from_ctx is running              *)
  rc,          (* the result of the last call                               *)
  starved      (* an allocation has failed                                  *)

links == <<array, child, next, prev, entry, live>>
vars == <<links, type, loop, rc, starved>>

-----------------------------------------------------------------------------
Types == {"UNKNOWO", "BACKUP", "RESTORE"}

(* An element of the array: an object with or without a name, or some other *)
(* value, which only an editor can have put there.                          *)
Job(n) == [object |-> TRUE, name |-> n]
Other == [object |-> FALSE, name |-> NULL]
Entry == {Job(n) : n \in Name \union {NULL}} \union {Other}

(* The elements from i on. *)
Walk(i) ==
  LET at[k \in 0..Cardinality(Node)] ==
        IF k = 0 THEN i ELSE IF at[k - 1] = NULL THEN NULL ELSE next[at[k - 1]]
  IN  [k \in 1..Cardinality({m \in DOMAIN at : at[m] # NULL}) |-> at[k - 1]]

Elements == Walk(child)

(* The jobs, as somebody sees them who goes along the list. *)
Jobs == [k \in DOMAIN Elements |-> entry[Elements[k]]]

(* cJSON_Delete: the element and all that follow it. *)
Free(i) == live' = live \ ToSet(Walk(i))

-----------------------------------------------------------------------------
Init ==
  /\ type \in Types
  /\ array = FALSE
  /\ child = NULL
  /\ next = [i \in Node |-> NULL]
  /\ prev = [i \in Node |-> NULL]
  /\ entry = [i \in Node |-> Job(NULL)]
  /\ live = {}
  /\ loop = FALSE
  /\ rc = "SUCCESS"
  /\ starved = FALSE

(* demo_get_ctx_from_file: parse_array strings the elements together. *)
Load(s) ==
  /\ ~loop /\ ~array /\ live = {} /\ type # "UNKNOWO"
  /\ \E nodes \in [1..Len(s) -> Node] :
       /\ IsInjective(nodes)
       /\ array' = TRUE
       /\ child' = IF s = <<>> THEN NULL ELSE nodes[1]
       /\ live' = ToSet(nodes)
       /\ next' = [i \in Node |->
            IF \E k \in 1..(Len(s) - 1) : nodes[k] = i
              THEN nodes[(CHOOSE k \in 1..Len(s) : nodes[k] = i) + 1] ELSE NULL]
       /\ prev' = [i \in Node |->
            IF i \notin ToSet(nodes) THEN NULL
            ELSE IF i = nodes[1] THEN nodes[Len(s)]
            ELSE nodes[(CHOOSE k \in 1..Len(s) : nodes[k] = i) - 1]]
       /\ entry' = [i \in Node |->
            IF i \in ToSet(nodes) THEN s[CHOOSE k \in 1..Len(s) : nodes[k] = i]
            ELSE Job(NULL)]
  /\ rc' = "SUCCESS"
  /\ UNCHANGED <<type, loop, starved>>

-----------------------------------------------------------------------------
(* demo_add_job_to_ctx.                                                     *)

(* Faulty: the first element does not get to know the new last one. *)
AttachForgetsLast(i) ==
  /\ next' = IF child = NULL THEN next ELSE [next EXCEPT ![prev[child]] = i]
  /\ prev' = IF child = NULL THEN [prev EXCEPT ![i] = i]
             ELSE [prev EXCEPT ![i] = prev[child]]
  /\ child' = IF child = NULL THEN i ELSE child

(* add_item_to_array: the last element is the first one's prev.  (That there*)
(* is one, which the code tests again, is part of RingOK.)                  *)
Attach(i) ==
  \/ /\ child = NULL
     /\ child' = i
     /\ prev' = [prev EXCEPT ![i] = i]
     /\ UNCHANGED next
  \/ /\ child # NULL
     /\ next' = [next EXCEPT ![prev[child]] = i]
     /\ prev' = [prev EXCEPT ![i] = prev[child], ![child] = i]
     /\ UNCHANGED child

(* The element as cJSON_New_Item leaves it, with or without its name: the   *)
(* members are made one by one and any of them may be missing.              *)
NewEntry(i, e) ==
  /\ live' = live \union {i}
  /\ entry' = [entry EXCEPT ![i] = e]

(* Faulty: a job without a type gets into a context without one. *)
FitsToo(t) == type \in {"UNKNOWO", t}

(* A context without a type gets that of its first job. *)
Fits(t) == t # "UNKNOWO" /\ type \in {"UNKNOWO", t}

(* What the caller finds out is that the types do not fit, nothing else: a  *)
(* job for which there was no memory is answered with success, too.         *)
AddJob(n, t) ==
  /\ ~loop
  /\ \/ /\ ~Fits(t)
        /\ rc' = "ERROR"
        /\ UNCHANGED <<links, type, starved>>
     \/ /\ Fits(t)
        /\ rc' = "SUCCESS"
        /\ type' = t
        /\ \/ \E i \in Node \ live, e \in {Job(n), Job(NULL)} :
                /\ array' = TRUE
                /\ NewEntry(i, e)
                /\ Attach(i)
                /\ starved' = (starved \/ e # Job(n))
           \/ \E i \in Node \ live :           (* no array to put it in     *)
                /\ ~array
                /\ NewEntry(i, Job(n))
                /\ starved' = TRUE
                /\ UNCHANGED <<array, child, next, prev>>
           \/ /\ array' \in {array, TRUE}      (* no element                *)
              /\ starved' = TRUE
              /\ UNCHANGED <<child, next, prev, entry, live>>
  /\ UNCHANGED loop

-----------------------------------------------------------------------------
(* demo_del_job_from_ctx.                                                   *)

(* Faulty: the links of the element that is taken out stay as they are. *)
DetachKeepsLinks(i) ==
  LET n == IF i = child THEN next ELSE [next EXCEPT ![prev[i]] = next[i]]
      p == IF next[i] = NULL THEN prev ELSE [prev EXCEPT ![next[i]] = prev[i]]
  IN /\ child' = IF i = child THEN next[i] ELSE child
     /\ prev' = IF i # child /\ next[i] = NULL
                  THEN [p EXCEPT ![child] = prev[i]] ELSE p
     /\ next' = n

(* cJSON_DetachItemViaPointer. *)
Detach(i) ==
  LET n == IF i = child THEN next ELSE [next EXCEPT ![prev[i]] = next[i]]
      p == IF next[i] = NULL THEN prev ELSE [prev EXCEPT ![next[i]] = prev[i]]
      q == IF i # child /\ next[i] = NULL THEN [p EXCEPT ![child] = prev[i]] ELSE p
  IN /\ child' = IF i = child THEN next[i] ELSE child
     /\ prev' = [q EXCEPT ![i] = NULL]
     /\ next' = [n EXCEPT ![i] = NULL]

(* cJSON_DeleteItemFromArray: nothing follows an element taken out. *)
DeleteItem(i) ==
  /\ Detach(i)
  /\ live' = live \ ({i} \union IF next'[i] = NULL THEN {} ELSE ToSet(Walk(next'[i])))
  /\ UNCHANGED <<array, entry>>

(* Faulty: goes on looking. *)
NamedLast(n) == SelectLastInSeq(Jobs, LAMBDA e : e.object /\ e.name = n)

(* The first job with the name. *)
Named(n) == SelectInSeq(Jobs, LAMBDA e : e.object /\ e.name = n)

(* With a name: its first job is done and, if that worked, taken out. *)
DeleteNamed(n) ==
  /\ ~loop
  /\ \/ /\ array /\ Named(n) # 0
        /\ DeleteItem(Elements[Named(n)])
        /\ rc' = "SUCCESS"
     \/ rc' = "ERROR" /\ UNCHANGED links
  /\ UNCHANGED <<type, loop, starved>>

(* Without: the loop begins. *)
DeleteAll ==
  /\ ~loop
  /\ loop' = array
  /\ rc' = IF array THEN "SUCCESS" ELSE "ERROR"
  /\ UNCHANGED <<links, type, starved>>

(* Faulty: takes out only what it has done. *)
RoundKeepsNameless ==
  /\ loop /\ child # NULL
  /\ \/ entry[child].name = NULL /\ UNCHANGED <<links, loop, rc>>
     \/ entry[child].name # NULL /\ DeleteItem(child) /\ UNCHANGED <<loop, rc>>
     \/ entry[child].name # NULL /\ loop' = FALSE /\ rc' = "ERROR" /\ UNCHANGED links
  /\ UNCHANGED <<type, starved>>

(* A round of the loop: the job at the head is done and taken out; if it    *)
(* fails the loop ends.  One without a name is taken out undone, and what   *)
(* is no object stays where it is: such a round changes nothing.            *)
Round ==
  /\ loop /\ child # NULL
  /\ \/ /\ entry[child].object
        /\ DeleteItem(child)
        /\ UNCHANGED <<loop, rc>>
     \/ /\ ~entry[child].object
        /\ UNCHANGED <<links, loop, rc>>
     \/ /\ entry[child].name # NULL
        /\ loop' = FALSE
        /\ rc' = "ERROR"
        /\ UNCHANGED links
  /\ UNCHANGED <<type, starved>>

LoopEnd ==
  /\ loop /\ child = NULL
  /\ loop' = FALSE
  /\ UNCHANGED <<links, type, rc, starved>>

(* demo_job_ctx_delete; the model goes on with a new context. *)
Release ==
  /\ ~loop
  /\ type' \in Types
  /\ array' = FALSE
  /\ child' = NULL
  /\ Free(child)
  /\ next' = [i \in Node |-> NULL]
  /\ prev' = [i \in Node |-> NULL]
  /\ entry' = [i \in Node |-> IF i \in live' THEN entry[i] ELSE Job(NULL)]
  /\ rc' = "SUCCESS"
  /\ UNCHANGED <<loop, starved>>

Next ==
  \/ \E s \in BoundedSeq(Entry, MaxLoad) : Load(s)
  \/ \E n \in Name, t \in Types : AddJob(n, t)
  \/ \E n \in Name : DeleteNamed(n)
  \/ DeleteAll \/ Round \/ LoopEnd
  \/ Release

Spec == Init /\ [][Next]_vars

(* The loop runs as long as it has something to do. *)
FairSpec == Spec /\ WF_vars(Round \/ LoopEnd)

-----------------------------------------------------------------------------
(* Properties.                                                              *)

(* Every variable has its type.  A list that has a first element is an      *)
(* array, and an array has got the type of its jobs (demo_add_job_to_ctx).  *)
TypeOK ==
  /\ type \in Types
  /\ array \in BOOLEAN
  /\ child \in Node \union {NULL}
  /\ child # NULL => array
  /\ array => type # "UNKNOWO"
  /\ next \in [Node -> Node \union {NULL}]
  /\ prev \in [Node -> Node \union {NULL}]
  /\ entry \in [Node -> Entry]
  /\ live \subseteq Node
  /\ loop \in BOOLEAN
  /\ rc \in {"SUCCESS", "ERROR"}
  /\ starved \in BOOLEAN

(* After any sequence of calls the list can be walked in both directions:   *)
(* no element comes twice or has been freed, prev leads back from each      *)
(* element to the one before, and from the first to the last, which is      *)
(* where add_item_to_array takes it from.                                   *)
RingOK ==
  /\ IsInjective(Elements)
  /\ ToSet(Elements) \subseteq live
  /\ \A k \in DOMAIN Elements :
       prev[Elements[k]] = IF k = 1 THEN Last(Elements) ELSE Elements[k - 1]

(* Unless memory has run out, nothing is allocated that is not in the list: *)
(* neither taking out a job nor releasing the context leaks or frees too    *)
(* much (cJSON_DeleteItemFromArray, demo_job_ctx_delete).                   *)
NoLeak == ~starved => live = ToSet(Elements)

(* Unless memory has run out, a job answered with success is the last of    *)
(* the list, and those before it are unchanged (demo_add_job_to_ctx).       *)
AddAppends ==
  [][\A n \in Name, t \in Types :
       AddJob(n, t) /\ rc' = "SUCCESS" /\ ~starved' => Jobs' = Append(Jobs, Job(n))]_vars

(* What the pointers do is what JobList.tla takes the array to do: jobs are *)
(* appended, the first with a name or the first of all is taken out, the    *)
(* others stay in their order (job_proxy.c with the lists of cJSON.c).      *)
Sequence == INSTANCE JobArray WITH jobs <- Jobs
ImplementsArray == Sequence!Spec

(* The loop over all jobs comes to its end, unless it meets an element that *)
(* is no object: that one is neither done nor taken out, and the loop goes  *)
(* round for ever (demo_del_job_from_ctx).                                  *)
LoopEnds ==
  loop /\ (\A k \in DOMAIN Jobs : Jobs[k].object) ~> ~loop
=============================================================================
