------------------------------- MODULE Stdio --------------------------------
(* What fwrite() and fclose() do to the blocks of a file, for FileCopy.tla  *)
(* and DataSync.tla.                                                        *)
EXTENDS Naturals, Sequences

(* Content s after blocks b have been written behind its first n.  If it is *)
(* shorter than that by now, zeros lie in between.                          *)
Written(s, n, b, zeros) ==
  [k \in 1..(IF b # <<>> /\ n + Len(b) > Len(s) THEN n + Len(b) ELSE Len(s)) |->
     IF k \in (n + 1)..(n + Len(b)) THEN b[k - n]
     ELSE IF k \in DOMAIN s THEN s[k] ELSE zeros]
=============================================================================
