----------------------------- MODULE MCJobList -----------------------------
(* JobList.tla for TLC: the constants get their values in the .cfg files.   *)
EXTENDS JobList, TLC

(* Processes are alike; so are names, when none of them is Broken or Flaky. *)
SymmetricProcs == Permutations(Proc)
SymmetricAll == Permutations(Proc) \union Permutations(Name)
=============================================================================
