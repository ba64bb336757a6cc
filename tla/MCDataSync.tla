----------------------------- MODULE MCDataSync -----------------------------
(* DataSync with what TLC needs. *)
EXTENDS DataSync, TLC

(* Processes are only compared. *)
Symmetric == Permutations(Proc)

(* What an inode holds that has neither a name nor a reader matters no more. *)
WithoutFree ==
  <<dirOk, dir, tmp, temps, [i \in Inode \ Free |-> data[i]], callVars, may, bookVars>>

(* Either an edit or a kill: a call that follows a kill finds nothing that   *)
(* Init has not got, for a dest may hold anything from the beginning.        *)
EditOrKill == edits + crashes <= 1

(* Kinds of blocks are only compared: that which orig begins with at first   *)
(* may as well be a certain one.                                             *)
FirstBlock ==
  edits = 0 /\ Holds("orig") # <<>> => Head(Holds("orig")) = CHOOSE b \in Block : TRUE
=============================================================================
