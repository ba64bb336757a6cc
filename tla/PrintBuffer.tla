----------------------------- MODULE PrintBuffer -----------------------------
(***************************************************************************)
(* The buffer cJSON prints into: print, ensure and update_offset of        *)
(* src/lib/cJSON.c.  Who prints asks for room with ensure, writes, and     *)
(* moves the offset on; the buffer is moved to a larger place when it is   *)
(* full, up to INT_MAX bytes, and given up when there is no memory.  What  *)
(* is written is the business of CJsonText.tla.                            *)
(***************************************************************************)
EXTENDS Naturals

CONSTANTS
  DefaultSize,   (* default_buffer_size, 256 in the code                    *)
  IntMax         (* INT_MAX                                                 *)

ASSUME SizeAssumption ==
  DefaultSize \in Nat \ {0} /\ IntMax \in Nat /\ DefaultSize <= IntMax

VARIABLES
  length,        (* of the buffer; 0 when there is none                     *)
  offset,        (* where the text goes on                                  *)
  granted        (* bytes from the offset on that ensure has answered for   *)

bufferVars == <<length, offset, granted>>

-----------------------------------------------------------------------------
BufferInit == length = 0 /\ offset = 0 /\ granted = 0

(* print: the first buffer, unless there is no memory. *)
Open ==
  /\ length = 0
  /\ length' \in {DefaultSize, 0}
  /\ offset' = 0
  /\ granted' = 0

(* Twice what is wanted, as far as an int goes; 0 for too much. *)
NewSize(wanted) ==
  IF wanted <= IntMax \div 2 THEN wanted * 2
  ELSE IF wanted <= IntMax THEN IntMax ELSE 0

Refuse == granted' = 0 /\ UNCHANGED length

(* Faulty variant: the byte for the end of the string is forgotten. *)
EnsureNoNul(needed) ==
  /\ length > 0
  /\ UNCHANGED offset
  /\ LET wanted == needed + offset IN
     \/ wanted <= length /\ granted' = needed + 1 /\ UNCHANGED length
     \/ wanted > length /\ NewSize(wanted) > 0 /\ length' = NewSize(wanted) /\ granted' = needed + 1
     \/ wanted > length /\ length' = 0 /\ granted' = 0

(* ensure: room for the bytes needed and one more.  Without memory for a    *)
(* larger buffer the old one is freed.                                      *)
Ensure(needed) ==
  /\ length > 0
  /\ UNCHANGED offset
  /\ LET wanted == needed + offset + 1 IN
     \/ (offset >= length \/ needed > IntMax) /\ Refuse
     \/ /\ offset < length /\ needed <= IntMax
        /\ \/ wanted <= length /\ granted' = needed + 1 /\ UNCHANGED length
           \/ wanted > length /\ NewSize(wanted) = 0 /\ Refuse
           \/ /\ wanted > length /\ NewSize(wanted) > 0
              /\ \/ length' = NewSize(wanted) /\ granted' = needed + 1
                 \/ length' = 0 /\ granted' = 0

(* What has been written ends in front of the last byte granted: a NUL      *)
(* stays behind it, for the next strlen of update_offset to find, or room.  *)
Put(step) ==
  /\ granted > 0 /\ step < granted
  /\ offset' = offset + step
  /\ granted' = 0
  /\ UNCHANGED length

(* The text is complete, or the printing has failed. *)
Close == length' = 0 /\ offset' = 0 /\ granted' = 0

(* All that is more than INT_MAX is refused alike. *)
Needs == 0..(IntMax + 1)

BufferNext ==
  \/ Open
  \/ \E n \in Needs : Ensure(n)
  \/ \E step \in 0..IntMax : Put(step)
  \/ Close

BufferSpec == BufferInit /\ [][BufferNext]_bufferVars

-----------------------------------------------------------------------------
(* However much is printed, and however the sizes compare to INT_MAX, what  *)
(* ensure has answered for lies inside the buffer, which is never larger    *)
(* than an int can say, and the offset stays inside it.                     *)
InsideBuffer ==
  /\ length \in 0..IntMax
  /\ offset \in Nat /\ granted \in Nat
  /\ length > 0 => offset < length
  /\ granted > 0 => offset + granted <= length
=============================================================================
