------------------------------ MODULE AttrSync ------------------------------
(***************************************************************************)
(* demo_file_attrs_sync (src/lib/file_attrs_sync.c): the access list, the  *)
(* extended attributes and what lstat() tells of "orig" go to "dest", a    *)
(* call at a time and by name, while the owner changes them.  It is called *)
(* by backup_file and restore_file on a file they have just made.          *)
(*                                                                         *)
(* A value is the number of the change that gave it to the file, so that a *)
(* mixture of several changes can be told.  What the calls do is Linux: an *)
(* access list contains the permissions of the mode, and chown() of a file *)
(* takes its set-user bit away, and its set-group bit if the group may     *)
(* execute the file.                                                       *)
(***************************************************************************)
EXTENDS Naturals, Sequences

CONSTANTS
  Attr,         (* names of the file's user attributes                      *)
  New,          (* what a file just made has for a value                    *)
  None,         (* no user attribute of that name, nothing read             *)
  MayFail,      (* the calls that may fail                                  *)
  MaxChanges    (* bound on what the owner changes                          *)

Calls == {"getacl", "setacl", "list", "getattr", "setattr", "lstat", "chmod",
          "lchown", "lutimes"}

ASSUME ValueAssumption == {New, None} \intersect Nat = {} /\ New # None
ASSUME FaultAssumption == MayFail \subseteq Calls
ASSUME BoundAssumption == MaxChanges \in Nat

VARIABLES
  orig, dest,   (* the attributes of the two files                          *)
  pc,           (* the next call, "idle" when none runs                     *)
  acl,          (* acl_t: the permissions and the list read from orig       *)
  names,        (* the user attributes attr_copy_file has yet to copy       *)
  st,           (* struct stat of orig                                      *)
  rc,           (* the result                                               *)
  seen,         (* all that orig's attributes have been since the call      *)
  changes       (* number of the last change                                *)

localVars == <<pc, acl, names, st, rc>>
vars == <<orig, dest, localVars, seen, changes>>

-----------------------------------------------------------------------------
Value == 0..MaxChanges

(* The set-user and set-group bits of a mode; "lock" is a set-group bit     *)
(* where the group may not execute the file.                                *)
SetIds == {b \in SUBSET {"suid", "sgid", "lock"} : ~({"sgid", "lock"} \subseteq b)}
Chowned(b) == b \intersect {"lock"}

AttributesIn(V) ==
  [perm : V, setid : SetIds, acl : V, owner : V, time : V,
   user : [Attr -> Value \union {None}], reg : BOOLEAN]
Attributes == AttributesIn(Value)

(* A file of which every attribute has been set by change v.  If not reg,   *)
(* it is no regular file: a directory, which demo_file_data_copy takes for  *)
(* an empty file, or a link put there since realpath().                     *)
All(v, setid, user, reg) ==
  [perm |-> v, setid |-> setid, acl |-> v, owner |-> v, time |-> v, user |-> user,
   reg |-> reg]

Fresh == All(New, {}, [a \in Attr |-> None], TRUE)

(* Times are kept in nanoseconds and set in microseconds; here a            *)
(* microsecond has two nanoseconds.                                         *)
Micro(t) == t - (t % 2)

(* The attributes of a file that has been synchronised with one that has a. *)
Image(a) == [a EXCEPT !.setid = Chowned(@), !.time = Micro(a.time)]

(* Faulty: what lstat() tells comes first. *)
PhasesStatFirst == <<"lstat", "getacl", "list">>

(* The calls the three parts of demo_file_attrs_sync begin with. *)
Phases == <<"getacl", "list", "lstat">>

After(phase) ==
  LET k == CHOOSE k \in 1..3 : Phases[k] = phase
  IN  IF k = 3 THEN "idle" ELSE Phases[k + 1]

(* A call of demo_file_acl_sync or demo_file_stat_sync fails, and nothing   *)
(* that comes after it is done.                                             *)
Fails(call) ==
  /\ call \in MayFail
  /\ pc' = "idle"
  /\ rc' = "ERROR"

-----------------------------------------------------------------------------
Init ==
  /\ \E b \in SetIds, reg \in BOOLEAN, user \in [Attr -> {0, None}] :
       orig = All(0, b, user, reg)
  /\ dest = Fresh
  /\ pc = "idle"
  /\ acl = [perm |-> None, acl |-> None]
  /\ names = {}
  /\ st = None
  /\ rc = "NONE"
  /\ seen = {}
  /\ changes = 0

(* The copy is in place, and its attributes are next. *)
Start ==
  /\ pc = "idle"
  /\ dest' = Fresh
  /\ pc' = Phases[1]
  /\ rc' = "SUCCESS"
  /\ seen' = {orig}
  /\ UNCHANGED <<orig, acl, names, st, changes>>

GetAcl ==
  /\ pc = "getacl"
  /\ \/ /\ acl' = [perm |-> orig.perm, acl |-> orig.acl]
        /\ pc' = "setacl"
        /\ UNCHANGED rc
     \/ Fails("getacl") /\ UNCHANGED acl
  /\ UNCHANGED <<orig, dest, names, st, seen, changes>>

(* Faulty: reports a failure and forgets about it. *)
SetAclUnchecked ==
  /\ pc = "setacl"
  /\ dest' \in {[dest EXCEPT !.perm = acl.perm, !.acl = acl.acl], dest}
  /\ pc' = After("getacl")
  /\ UNCHANGED <<orig, acl, names, st, rc, seen, changes>>

SetAcl ==
  /\ pc = "setacl"
  /\ \/ /\ dest' = [dest EXCEPT !.perm = acl.perm, !.acl = acl.acl]
        /\ pc' = After("getacl")
        /\ UNCHANGED rc
     \/ Fails("setacl") /\ UNCHANGED dest
  /\ UNCHANGED <<orig, acl, names, st, seen, changes>>

-----------------------------------------------------------------------------
(* attr_copy_file, with is_user_attr.                                       *)

ListAttrs ==
  /\ pc = "list"
  /\ \/ /\ names' = {a \in Attr : orig.user[a] # None}
        /\ pc' = "copy"
        /\ UNCHANGED rc
     \/ Fails("list") /\ UNCHANGED names
  /\ UNCHANGED <<orig, dest, acl, st, seen, changes>>

(* An attribute that is gone by now, or cannot be copied, is an error, but  *)
(* the others are copied nevertheless.                                      *)
CopyAttr(a) ==
  /\ pc = "copy" /\ a \in names
  /\ names' = names \ {a}
  /\ \/ /\ orig.user[a] # None
        /\ dest' = [dest EXCEPT !.user[a] = orig.user[a]]
        /\ UNCHANGED rc
     \/ /\ orig.user[a] = None \/ {"getattr", "setattr"} \intersect MayFail # {}
        /\ rc' = "ERROR"
        /\ UNCHANGED dest
  /\ UNCHANGED <<orig, pc, acl, st, seen, changes>>

(* Faulty: goes on whatever could not be copied. *)
AttrsCopiedUnchecked ==
  /\ pc = "copy" /\ names = {}
  /\ pc' = After("list")
  /\ rc' = "SUCCESS"
  /\ UNCHANGED <<orig, dest, acl, names, st, seen, changes>>

AttrsCopied ==
  /\ pc = "copy" /\ names = {}
  /\ pc' = IF rc = "SUCCESS" THEN After("list") ELSE "idle"
  /\ UNCHANGED <<orig, dest, acl, names, st, rc, seen, changes>>

-----------------------------------------------------------------------------
(* demo_file_stat_sync.                                                     *)

(* Faulty: goes on without what lstat() should have told. *)
LstatUnchecked ==
  /\ pc = "lstat"
  /\ st' \in {None} \union
       {[perm |-> orig.perm, setid |-> orig.setid, owner |-> orig.owner, time |-> orig.time]}
  /\ pc' = "chmod"
  /\ UNCHANGED <<orig, dest, acl, names, rc, seen, changes>>

Lstat ==
  /\ pc = "lstat"
  /\ \/ /\ orig.reg
        /\ st' = [perm |-> orig.perm, setid |-> orig.setid,
                  owner |-> orig.owner, time |-> orig.time]
        /\ pc' = "chmod"
        /\ UNCHANGED rc
     \/ /\ ~orig.reg
        /\ pc' = "idle"
        /\ rc' = "ERROR"
        /\ UNCHANGED st
     \/ Fails("lstat") /\ UNCHANGED st
  /\ UNCHANGED <<orig, dest, acl, names, seen, changes>>

Chmod ==
  /\ pc = "chmod"
  /\ \/ /\ dest' = [dest EXCEPT !.perm = st.perm, !.setid = st.setid]
        /\ pc' = "lchown"
        /\ UNCHANGED rc
     \/ Fails("chmod") /\ UNCHANGED dest
  /\ UNCHANGED <<orig, acl, names, st, seen, changes>>

Lchown ==
  /\ pc = "lchown"
  /\ \/ /\ dest' = [dest EXCEPT !.owner = st.owner, !.setid = Chowned(@)]
        /\ pc' = "lutimes"
        /\ UNCHANGED rc
     \/ Fails("lchown") /\ UNCHANGED dest
  /\ UNCHANGED <<orig, acl, names, st, seen, changes>>

Lutimes ==
  /\ pc = "lutimes"
  /\ \/ /\ dest' = [dest EXCEPT !.time = Micro(st.time)]
        /\ pc' = After("lstat")
        /\ UNCHANGED rc
     \/ Fails("lutimes") /\ UNCHANGED dest
  /\ UNCHANGED <<orig, acl, names, st, seen, changes>>

-----------------------------------------------------------------------------
(* The owner changes something, or puts another file in the place of orig.  *)
Change ==
  /\ changes < MaxChanges
  /\ changes' = changes + 1
  /\ LET v == changes + 1 IN
     \/ \E b \in SetIds : orig' = [orig EXCEPT !.perm = v, !.setid = b]
     \/ orig' = [orig EXCEPT !.perm = v, !.acl = v]
     \/ orig' = [orig EXCEPT !.owner = v, !.setid = Chowned(@)]
     \/ orig' = [orig EXCEPT !.time = v]
     \/ \E a \in Attr, w \in {v, None} : orig' = [orig EXCEPT !.user[a] = w]
     \/ \E reg \in BOOLEAN : orig' = All(v, {}, [a \in Attr |-> v], reg)
  /\ seen' = IF pc = "idle" THEN seen ELSE seen \union {orig'}
  /\ UNCHANGED <<dest, localVars>>

Step ==
  \/ GetAcl \/ SetAcl
  \/ ListAttrs \/ (\E a \in Attr : CopyAttr(a)) \/ AttrsCopied
  \/ Lstat \/ Chmod \/ Lchown \/ Lutimes

Next == Start \/ Step \/ Change

Spec == Init /\ [][Next]_vars

-----------------------------------------------------------------------------
(* Properties.                                                              *)

(* Every variable has its type, dest is a regular file, and struct stat and *)
(* acl_t are filled in before they are used.                                *)
TypeOK ==
  /\ orig \in Attributes
  /\ dest \in AttributesIn(Value \union {New}) /\ dest.reg
  /\ pc \in {"idle", "getacl", "setacl", "list", "copy", "lstat", "chmod",
             "lchown", "lutimes"}
  /\ pc = "setacl" => acl \in [perm : Value, acl : Value]
  /\ names \subseteq Attr
  /\ pc \in {"chmod", "lchown", "lutimes"} =>
       st \in [perm : Value, setid : SetIds, owner : Value, time : Value]
  /\ rc \in {"NONE", "SUCCESS", "ERROR"}
  /\ seen \subseteq Attributes
  /\ changes \in Value

(* A success means, if the owner has kept still, that dest has the          *)
(* attributes of orig: but for the nanoseconds, and for the set-user and    *)
(* the set-group bit, which chown() takes away after chmod() has set them,  *)
(* the latter from a file its group may execute (demo_file_attrs_sync).     *)
SyncedIsImage ==
  pc = "idle" /\ rc = "SUCCESS" =>
    \A a \in seen : seen = {a} => dest = Image(a)

(* However the owner interferes, after a success mode, owner and time are   *)
(* together those of one moment of the call: the access list, which is set  *)
(* from an earlier moment, does not leave its permissions behind            *)
(* (demo_file_stat_sync after demo_file_acl_sync).                          *)
StatIsSnapshot ==
  pc = "idle" /\ rc = "SUCCESS" =>
    \E a \in seen : /\ dest.perm = a.perm
                    /\ dest.owner = a.owner
                    /\ dest.time = Micro(a.time)

(* Wherever a call failed or the process was killed, a dest that has got    *)
(* its time from orig has got everything else from it: a file that looks as *)
(* old as the original is not one that is half done (lutimes is last).      *)
TimeComesLast ==
  dest.time # New =>
    /\ \E a \in seen : dest.perm = a.perm
    /\ \E a \in seen : dest.acl = a.acl
    /\ \E a \in seen : dest.owner = a.owner
    /\ \A n \in Attr : \E a \in seen : dest.user[n] = a.user[n]
=============================================================================
