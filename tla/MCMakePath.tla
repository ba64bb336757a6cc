----------------------------- MODULE MCMakePath -----------------------------
(* MakePath with paths for TLC. *)
EXTENDS MakePath, TLC

CONSTANTS p1, p2

Procs == {p1, p2}

(* Two files in one directory below another, and one beside that. *)
Goals == {<<"a", "b", "f">>, <<"a", "b", "g">>, <<"a", "f">>}

Symmetric == Permutations(Procs)
=============================================================================
