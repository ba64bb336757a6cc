----------------------------- MODULE MCFileCopy -----------------------------
(* FileCopy.tla for TLC: the constants get their values in the .cfg files.  *)
EXTENDS FileCopy, TLC

(* What the owner may write: nothing, or blocks all alike and none of them   *)
(* zeros, so that every mixture and every beginning of a content can be told *)
(* from the whole.                                                           *)
Repeated(n) == {[i \in 1..n |-> b] : b \in Block \ {Zeros}}
EmptyOrTwo == {<<>>} \union Repeated(2)
One == Repeated(1)
Empty == {<<>>}

(* Once demo_check_hash has been deceived the properties say no more, and it *)
(* stays so: such a state is checked, and not followed any further.          *)
Undeceived == ~Deceived

(* Blocks are only compared: what the file begins with at first may as well  *)
(* be a certain one.                                                         *)
FirstBlock ==
  edits = 0 => \E c \in held : c # <<>> /\ Head(c) = CHOOSE b \in Block \ {Zeros} : TRUE

(* Processes are alike, and what the owner writes is. *)
SymmetricProcs == Permutations(Proc)
SymmetricBlocks == Permutations(Block \ {Zeros})

(* What an inode holds that has neither a name nor a reader matters no more: *)
(* NewInode gives it out only to be filled anew.  So does what a backup has  *)
(* seen of the file once it has failed.                                      *)
WithoutFree ==
  <<dir, tmp, [i \in Inode \ Free |-> data[i]], jobVars, may, edits, held,
    [p \in {q \in Proc : Active(q) \/ rc[q] = "SUCCESS"} |-> since[p]],
    undone, silent, unremoved, crashes>>
=============================================================================
