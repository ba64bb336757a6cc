--------------------------- MODULE AttrSyncProofs ---------------------------
(* Proofs about AttrSync, for any number of user attributes and changes.    *)
EXTENDS AttrSync, TLAPS

(* The part of the invariant about struct stat: it is of one moment, and    *)
(* what has been set from it is still there.                                *)
StatInv ==
  /\ pc # "idle" => orig \in seen
  /\ pc \in {"chmod", "lchown", "lutimes"} =>
       \E a \in seen : st.perm = a.perm /\ st.owner = a.owner /\ st.time = a.time
  /\ pc \in {"lchown", "lutimes"} => dest.perm = st.perm
  /\ pc = "lutimes" => dest.owner = st.owner

(* A user attribute that has nothing left to be copied is as in orig at     *)
(* some time.                                                               *)
UserDone(n) == \E a \in seen : dest.user[n] = a.user[n]

(* The part about what has been done by the time lutimes() is called.       *)
DoneInv ==
  /\ ~(pc = "idle" /\ rc = "SUCCESS") => dest.time = New
  /\ pc \in {"getacl", "setacl", "list"} => \A n \in Attr : dest.user[n] = None
  /\ pc = "setacl" => \E a \in seen : acl.acl = a.acl
  /\ pc \in {"list", "copy", "lstat", "chmod", "lchown", "lutimes"} =>
       \E a \in seen : dest.acl = a.acl
  /\ pc = "copy" /\ rc = "SUCCESS" => \A n \in Attr \ names : UserDone(n)
  /\ pc \in {"lstat", "chmod", "lchown", "lutimes"} => \A n \in Attr : UserDone(n)
  /\ pc \notin {"idle", "copy"} => rc = "SUCCESS"

Inv == TypeOK /\ StatInv /\ DoneInv /\ StatIsSnapshot /\ TimeComesLast

(* Cutting a time to microseconds leaves a time. *)
LEMMA MicroType == ASSUME NEW t \in Value PROVE Micro(t) \in Value
  BY BoundAssumption DEF Micro, Value

(* What chown() leaves of the set-user and set-group bits. *)
LEMMA SetIdTypes == {} \in SetIds /\ \A b \in SetIds : Chowned(b) \in SetIds
  BY DEF SetIds, Chowned

(* The order of the three parts. *)
LEMMA PhaseOrder ==
  /\ Phases[1] = "getacl"
  /\ After("getacl") = "list"
  /\ After("list") = "lstat"
  /\ After("lstat") = "idle"
  BY DEF After, Phases

LEMMA InitInv == Init => Inv
  BY BoundAssumption, ValueAssumption, SetIdTypes
  DEF Init, Inv, TypeOK, StatInv, DoneInv, StatIsSnapshot, TimeComesLast,
      All, Fresh, AttributesIn, Attributes, Value
-----------------------------------------------------------------------------
LEMMA NextInv == Inv /\ [Next]_vars => Inv'
<1> SUFFICES ASSUME Inv, [Next]_vars PROVE Inv'
    OBVIOUS
<1> USE PhaseOrder
<1> USE DEF Inv
<1>1. CASE Start
  <2>1. TypeOK'
        BY <1>1, BoundAssumption, ValueAssumption, SetIdTypes
        DEF Start, TypeOK, All, Fresh, AttributesIn, Attributes, Value
  <2>2. StatInv' /\ DoneInv'
        BY <1>1 DEF Start, TypeOK, StatInv, DoneInv, UserDone, All, Fresh
  <2>3. StatIsSnapshot' /\ TimeComesLast'
        BY <1>1 DEF Start, StatIsSnapshot, TimeComesLast, All, Fresh
  <2> QED BY <2>1, <2>2, <2>3
<1>2. CASE GetAcl
  <2>1. TypeOK'
        BY <1>2 DEF GetAcl, Fails, TypeOK, AttributesIn, Attributes
  <2>2. StatInv' /\ DoneInv'
        BY <1>2 DEF GetAcl, Fails, TypeOK, StatInv, DoneInv, UserDone
  <2>3. StatIsSnapshot' /\ TimeComesLast'
        BY <1>2 DEF GetAcl, Fails, DoneInv, StatIsSnapshot, TimeComesLast
  <2> QED BY <2>1, <2>2, <2>3
<1>3. CASE SetAcl
  <2>1. /\ dest' \in AttributesIn(Value \union {New}) /\ dest'.reg
        /\ dest'.owner = dest.owner /\ dest'.time = dest.time /\ dest'.user = dest.user
        /\ \/ rc' = rc /\ pc' = After("getacl") /\ dest'.perm = acl.perm /\ dest'.acl = acl.acl
           \/ rc' = "ERROR" /\ pc' = "idle" /\ dest' = dest
        BY <1>3 DEF SetAcl, Fails, TypeOK, AttributesIn
  <2>2. UNCHANGED <<orig, acl, names, st, seen, changes>>
        BY <1>3 DEF SetAcl
  <2>3. TypeOK'
        BY <1>3, <2>1, <2>2 DEF SetAcl, TypeOK
  <2>4. StatInv'
        BY <1>3, <2>1, <2>2 DEF SetAcl, StatInv
  <2>5. DoneInv'
        BY <1>3, <2>1, <2>2 DEF SetAcl, DoneInv, UserDone
  <2>6. StatIsSnapshot' /\ TimeComesLast'
        BY <1>3, <2>1, <2>2
        DEF SetAcl, StatInv, DoneInv, UserDone, StatIsSnapshot, TimeComesLast
  <2> QED BY <2>3, <2>4, <2>5, <2>6
<1>4. CASE ListAttrs
  <2>1. TypeOK'
        BY <1>4 DEF ListAttrs, Fails, TypeOK, AttributesIn, Attributes
  <2>2. StatInv' /\ DoneInv'
        BY <1>4 DEF ListAttrs, Fails, TypeOK, StatInv, DoneInv, UserDone
  <2>3. StatIsSnapshot' /\ TimeComesLast'
        BY <1>4 DEF ListAttrs, Fails, DoneInv, StatIsSnapshot, TimeComesLast
  <2> QED BY <2>1, <2>2, <2>3
<1>5. ASSUME NEW a \in Attr, CopyAttr(a) PROVE Inv'
  <2>1. TypeOK'
        BY <1>5 DEF CopyAttr, TypeOK, AttributesIn, Attributes
  <2>2. StatInv'
        BY <1>5 DEF CopyAttr, StatInv
  <2>3. DoneInv'
        BY <1>5 DEF CopyAttr, TypeOK, StatInv, DoneInv, UserDone, AttributesIn
  <2>4. StatIsSnapshot' /\ TimeComesLast'
        BY <1>5 DEF CopyAttr, TypeOK, DoneInv, StatIsSnapshot, TimeComesLast, AttributesIn
  <2> QED BY <2>1, <2>2, <2>3, <2>4
<1>6. CASE AttrsCopied
  <2>1. TypeOK'
        BY <1>6 DEF AttrsCopied, TypeOK, AttributesIn, Attributes
  <2>2. StatInv' /\ DoneInv'
        BY <1>6 DEF AttrsCopied, TypeOK, StatInv, DoneInv, UserDone
  <2>3. StatIsSnapshot' /\ TimeComesLast'
        BY <1>6 DEF AttrsCopied, DoneInv, StatIsSnapshot, TimeComesLast
  <2> QED BY <2>1, <2>2, <2>3
<1>7. CASE Lstat
  <2>1. TypeOK'
        BY <1>7 DEF Lstat, Fails, TypeOK, AttributesIn, Attributes
  <2>2. StatInv' /\ DoneInv'
        BY <1>7 DEF Lstat, Fails, TypeOK, StatInv, DoneInv, UserDone
  <2>3. StatIsSnapshot' /\ TimeComesLast'
        BY <1>7 DEF Lstat, Fails, DoneInv, StatIsSnapshot, TimeComesLast
  <2> QED BY <2>1, <2>2, <2>3
<1>8. CASE Chmod
  <2>1. /\ dest' \in AttributesIn(Value \union {New}) /\ dest'.reg
        /\ dest'.acl = dest.acl /\ dest'.owner = dest.owner
        /\ dest'.time = dest.time /\ dest'.user = dest.user
        /\ \/ rc' = rc /\ pc' = "lchown" /\ dest'.perm = st.perm
           \/ rc' = "ERROR" /\ pc' = "idle" /\ dest' = dest
        BY <1>8, ZenonT(40) DEF Chmod, Fails, TypeOK, AttributesIn
  <2>2. UNCHANGED <<orig, acl, names, st, seen, changes>>
        BY <1>8 DEF Chmod
  <2>3. TypeOK'
        BY <1>8, <2>1, <2>2 DEF Chmod, TypeOK
  <2>4. StatInv'
        BY <1>8, <2>1, <2>2 DEF Chmod, StatInv
  <2>5. DoneInv'
        BY <1>8, <2>1, <2>2 DEF Chmod, DoneInv, UserDone
  <2>6. StatIsSnapshot' /\ TimeComesLast'
        BY <1>8, <2>1, <2>2
        DEF Chmod, StatInv, DoneInv, UserDone, StatIsSnapshot, TimeComesLast
  <2> QED BY <2>3, <2>4, <2>5, <2>6
<1>9. CASE Lchown
  <2>1. /\ dest' \in AttributesIn(Value \union {New}) /\ dest'.reg
        /\ dest'.acl = dest.acl /\ dest'.perm = dest.perm
        /\ dest'.time = dest.time /\ dest'.user = dest.user
        /\ \/ rc' = rc /\ pc' = "lutimes" /\ dest'.owner = st.owner
           \/ rc' = "ERROR" /\ pc' = "idle" /\ dest' = dest
        BY <1>9, SetIdTypes, ZenonT(40) DEF Lchown, Fails, TypeOK, AttributesIn
  <2>2. UNCHANGED <<orig, acl, names, st, seen, changes>>
        BY <1>9 DEF Lchown
  <2>3. TypeOK'
        BY <1>9, <2>1, <2>2 DEF Lchown, TypeOK
  <2>4. StatInv'
        BY <1>9, <2>1, <2>2 DEF Lchown, StatInv
  <2>5. DoneInv'
        BY <1>9, <2>1, <2>2 DEF Lchown, DoneInv, UserDone
  <2>6. StatIsSnapshot' /\ TimeComesLast'
        BY <1>9, <2>1, <2>2
        DEF Lchown, StatInv, DoneInv, UserDone, StatIsSnapshot, TimeComesLast
  <2> QED BY <2>3, <2>4, <2>5, <2>6
<1>10. CASE Lutimes
  <2>1. /\ dest' \in AttributesIn(Value \union {New}) /\ dest'.reg
        /\ dest'.acl = dest.acl /\ dest'.perm = dest.perm
        /\ dest'.owner = dest.owner /\ dest'.user = dest.user
        /\ \/ rc' = rc /\ pc' = After("lstat") /\ dest'.time = Micro(st.time)
           \/ rc' = "ERROR" /\ pc' = "idle" /\ dest' = dest
        BY <1>10, MicroType DEF Lutimes, Fails, TypeOK, AttributesIn
  <2>2. UNCHANGED <<orig, acl, names, st, seen, changes>>
        BY <1>10 DEF Lutimes
  <2>3. TypeOK'
        BY <1>10, <2>1, <2>2 DEF Lutimes, TypeOK
  <2>4. StatInv'
        BY <1>10, <2>1, <2>2 DEF Lutimes, StatInv
  <2>5. DoneInv'
        BY <1>10, <2>1, <2>2 DEF Lutimes, DoneInv, UserDone
  <2>6. StatIsSnapshot' /\ TimeComesLast'
        BY <1>10, <2>1, <2>2
        DEF Lutimes, StatInv, DoneInv, UserDone, StatIsSnapshot, TimeComesLast
  <2> QED BY <2>3, <2>4, <2>5, <2>6
<1>11. CASE Change
  <2>1. orig' \in Attributes /\ changes' \in Value
    <3>0. changes \in Value /\ changes < MaxChanges
          BY <1>11 DEF Change, TypeOK
    <3>1. changes + 1 \in Value
          BY <3>0, BoundAssumption DEF Value
    <3>2. orig \in Attributes
          BY DEF TypeOK
    <3> DEFINE v == changes + 1
    <3>3. \A b \in SetIds : [orig EXCEPT !.perm = v, !.setid = b] \in Attributes
          BY <3>1, <3>2 DEF Attributes, AttributesIn
    <3>4. /\ [orig EXCEPT !.perm = v, !.acl = v] \in Attributes
          /\ [orig EXCEPT !.owner = v, !.setid = Chowned(@)] \in Attributes
          /\ [orig EXCEPT !.time = v] \in Attributes
          BY <3>1, <3>2, SetIdTypes DEF Attributes, AttributesIn
    <3>5. \A a \in Attr, w \in {v, None} : [orig EXCEPT !.user[a] = w] \in Attributes
          BY <3>1, <3>2 DEF Attributes, AttributesIn
    <3>6. \A reg \in BOOLEAN : All(v, {}, [a \in Attr |-> v], reg) \in Attributes
          BY <3>1, SetIdTypes DEF All, Attributes, AttributesIn
    <3> QED BY <1>11, <3>1, <3>3, <3>4, <3>5, <3>6 DEF Change
  <2>2. UNCHANGED <<dest, pc, acl, names, st, rc>>
        BY <1>11 DEF Change, localVars
  <2>3. /\ seen \subseteq seen'
        /\ pc # "idle" => orig' \in seen'
        /\ seen' \subseteq Attributes
        BY <1>11, <2>1 DEF Change, TypeOK
  <2>4. TypeOK'
        BY <2>1, <2>2, <2>3 DEF TypeOK
  <2>5. StatInv'
        BY <2>2, <2>3 DEF StatInv
  <2>6. DoneInv'
        BY <2>2, <2>3 DEF DoneInv, UserDone
  <2>7. StatIsSnapshot' /\ TimeComesLast'
        BY <2>2, <2>3 DEF StatIsSnapshot, TimeComesLast
  <2> QED BY <2>4, <2>5, <2>6, <2>7
<1>12. CASE UNCHANGED vars
  BY <1>12 DEF vars, localVars, TypeOK, StatInv, DoneInv, UserDone, StatIsSnapshot,
               TimeComesLast
<1> QED
  BY <1>1, <1>2, <1>3, <1>4, <1>5, <1>6, <1>7, <1>8, <1>9, <1>10, <1>11, <1>12
  DEF Next, Step

-----------------------------------------------------------------------------
(* The invariant holds in every state of every behaviour. *)
THEOREM Invariance == Spec => []Inv
  BY InitInv, NextInv, PTL DEF Spec

(* Every variable keeps its type, and what lstat() and acl_get_file() tell  *)
(* is there when it is used (TypeOK).                                       *)
THEOREM TypeCorrect == Spec => []TypeOK
<1>1. Inv => TypeOK
      BY DEF Inv
<1> QED BY <1>1, Invariance, PTL

(* However many attributes the owner changes meanwhile: after a success     *)
(* mode, owner and time of the copy are those of one moment                 *)
(* (StatIsSnapshot).                                                        *)
THEOREM StatFromOneMoment == Spec => []StatIsSnapshot
<1>1. Inv => StatIsSnapshot
      BY DEF Inv
<1> QED BY <1>1, Invariance, PTL

(* Wherever a call fails: a copy that has its time from the original has    *)
(* everything else from it, too (TimeComesLast).                            *)
THEOREM TimeIsLast == Spec => []TimeComesLast
<1>1. Inv => TimeComesLast
      BY DEF Inv
<1> QED BY <1>1, Invariance, PTL
-----------------------------------------------------------------------------
(* What is already like a, the attributes of an original that keeps still.  *)
ImageOf(a) ==
  /\ pc # "idle" => orig = a
  /\ pc = "setacl" => acl.acl = a.acl
  /\ pc \in {"list", "copy", "lstat", "chmod", "lchown", "lutimes"} => dest.acl = a.acl
  /\ pc = "copy" /\ rc = "SUCCESS" => \A n \in Attr \ names : dest.user[n] = a.user[n]
  /\ pc \in {"lstat", "chmod", "lchown", "lutimes"} => dest.user = a.user
  /\ pc \in {"chmod", "lchown", "lutimes"} =>
       /\ a.reg
       /\ st.perm = a.perm /\ st.setid = a.setid /\ st.owner = a.owner /\ st.time = a.time
  /\ pc \in {"lchown", "lutimes"} => dest.perm = a.perm
  /\ pc = "lchown" => dest.setid = a.setid
  /\ pc = "lutimes" => dest.owner = a.owner /\ dest.setid = Chowned(a.setid)
  /\ pc = "idle" /\ rc = "SUCCESS" => dest = Image(a)

ImageInv == \A a \in seen : seen = {a} => ImageOf(a)

(* A copy that agrees with a in everything is the image of a. *)
LEMMA ImageByFields ==
  ASSUME NEW a \in Attributes, NEW d \in AttributesIn(Value \union {New}), d.reg, a.reg,
         d.perm = a.perm, d.setid = Chowned(a.setid), d.acl = a.acl, d.owner = a.owner,
         d.time = Micro(a.time), d.user = a.user
  PROVE  d = Image(a)
  BY DEF Image, Attributes, AttributesIn

LEMMA ImageInit == Init => ImageInv
  BY DEF Init, ImageInv

(* While the owner keeps still each call brings the copy nearer to the      *)
(* original, and none undoes what an earlier one has done, but for chmod()  *)
(* and chown(), which come in the order that leaves the set-user and        *)
(* set-group bits off.                                                      *)
LEMMA ImageStep ==
  ASSUME Inv, Step, NEW a \in seen, ImageOf(a), a \in Attributes
  PROVE  ImageOf(a)'
<1> USE PhaseOrder
<1>1. CASE GetAcl
  BY <1>1 DEF GetAcl, Fails, ImageOf
<1>2. CASE SetAcl
  <2>1. \/ rc' = rc /\ pc' = "list" /\ dest'.acl = acl.acl
        \/ rc' = "ERROR" /\ pc' = "idle"
        BY <1>2 DEF SetAcl, Fails, Inv, TypeOK, AttributesIn
  <2> QED BY <1>2, <2>1 DEF SetAcl, ImageOf
<1>3. CASE ListAttrs
  BY <1>3 DEF ListAttrs, Fails, ImageOf, Inv, DoneInv
<1>4. ASSUME NEW m \in Attr, CopyAttr(m) PROVE ImageOf(a)'
  <2>1. /\ pc = "copy" /\ pc' = "copy" /\ orig' = orig /\ names' = names \ {m}
        /\ dest'.acl = dest.acl
        /\ \/ rc' = rc /\ dest'.user = [dest.user EXCEPT ![m] = orig.user[m]]
           \/ rc' = "ERROR"
        BY <1>4 DEF CopyAttr, Inv, TypeOK, AttributesIn
  <2>2. dest.user \in [Attr -> Value \union {None}]
        BY DEF Inv, TypeOK, AttributesIn
  <2>3. rc' = "SUCCESS" => \A n \in Attr \ names' : dest'.user[n] = a.user[n]
        BY <2>1, <2>2 DEF ImageOf
  <2> QED BY <2>1, <2>3 DEF ImageOf
<1>5. CASE AttrsCopied
  <2>1. /\ dest.user \in [Attr -> Value \union {None}]
        /\ a.user \in [Attr -> Value \union {None}]
        BY DEF Inv, TypeOK, AttributesIn, Attributes
  <2>2. rc = "SUCCESS" => dest.user = a.user
        BY <1>5, <2>1 DEF AttrsCopied, ImageOf
  <2> QED BY <1>5, <2>2 DEF AttrsCopied, ImageOf
<1>6. CASE Lstat
  BY <1>6 DEF Lstat, Fails, ImageOf
<1>7. CASE Chmod
  <2>1. /\ dest'.acl = dest.acl /\ dest'.user = dest.user
        /\ \/ rc' = rc /\ pc' = "lchown" /\ dest'.perm = st.perm /\ dest'.setid = st.setid
           \/ rc' = "ERROR" /\ pc' = "idle"
        BY <1>7 DEF Chmod, Fails, Inv, TypeOK, AttributesIn
  <2> QED BY <1>7, <2>1 DEF Chmod, ImageOf
<1>8. CASE Lchown
  <2>1. /\ dest'.acl = dest.acl /\ dest'.user = dest.user /\ dest'.perm = dest.perm
        /\ \/ /\ rc' = rc /\ pc' = "lutimes"
              /\ dest'.owner = st.owner /\ dest'.setid = Chowned(dest.setid)
           \/ rc' = "ERROR" /\ pc' = "idle"
        BY <1>8 DEF Lchown, Fails, Inv, TypeOK, AttributesIn
  <2> QED BY <1>8, <2>1 DEF Lchown, ImageOf
<1>9. CASE Lutimes
  <2>1. CASE rc' = "SUCCESS"
    <3>1. /\ dest'.acl = dest.acl /\ dest'.user = dest.user /\ dest'.perm = dest.perm
          /\ dest'.owner = dest.owner /\ dest'.setid = dest.setid
          /\ dest'.time = Micro(st.time)
          BY <1>9, <2>1 DEF Lutimes, Fails, Inv, TypeOK, AttributesIn
    <3>2. dest' \in AttributesIn(Value \union {New}) /\ dest'.reg
          BY <1>9, <3>1, MicroType DEF Lutimes, Fails, Inv, TypeOK, AttributesIn
    <3>3. dest' = Image(a)
          BY <1>9, <3>1, <3>2, ImageByFields DEF Lutimes, ImageOf
    <3> QED BY <1>9, <2>1, <3>3 DEF Lutimes, Fails, ImageOf
  <2> QED BY <1>9, <2>1 DEF Lutimes, Fails, ImageOf, Inv, DoneInv
<1> QED
  BY <1>1, <1>2, <1>3, <1>4, <1>5, <1>6, <1>7, <1>8, <1>9 DEF Step

LEMMA ImageNext == Inv /\ ImageInv /\ [Next]_vars => ImageInv'
<1> SUFFICES ASSUME Inv, ImageInv, [Next]_vars, NEW a \in seen', seen' = {a}
             PROVE  ImageOf(a)'
    BY DEF ImageInv
<1>1. CASE Start
  BY <1>1, PhaseOrder DEF Start, ImageOf
<1>2. CASE Step
  <2>1. seen' = seen
        BY <1>2 DEF Step, GetAcl, SetAcl, ListAttrs, CopyAttr, AttrsCopied, Lstat, Chmod,
                    Lchown, Lutimes
  <2>2. ImageOf(a) /\ a \in Attributes
        BY <2>1 DEF ImageInv, Inv, TypeOK
  <2> QED BY <1>2, <2>1, <2>2, ImageStep
(* A change that is seen makes the original one that has not kept still.    *)
<1>3. CASE Change
  <2>1. UNCHANGED <<dest, pc, acl, names, st, rc>>
        BY <1>3 DEF Change, localVars
  <2>2. CASE pc = "idle"
    <3>1. ImageOf(a)
          BY <1>3, <2>2 DEF Change, ImageInv
    <3> QED BY <2>1, <2>2, <3>1 DEF ImageOf
  <2>3. CASE pc # "idle"
    <3>1. seen' = seen \union {orig'} /\ orig \in seen
          BY <1>3, <2>3 DEF Change, Inv, StatInv
    <3>2. seen = {a} /\ orig' = a
          BY <3>1
    <3>3. ImageOf(a)
          BY <3>2 DEF ImageInv
    <3> QED BY <2>1, <2>3, <3>2, <3>3 DEF ImageOf
  <2> QED BY <2>2, <2>3
<1>4. CASE UNCHANGED vars
  BY <1>4 DEF vars, localVars, ImageInv, ImageOf
<1> QED BY <1>1, <1>2, <1>3, <1>4 DEF Next

(* If the owner has kept still, a success means that the copy has all the   *)
(* attributes of the original, but for the nanoseconds, the set-user bit    *)
(* and the set-group bit of a file its group may execute (SyncedIsImage).   *)
THEOREM StillIsImage == Spec => []SyncedIsImage
<1>1. ImageInv => SyncedIsImage
      BY DEF ImageInv, ImageOf, SyncedIsImage
<1> QED BY <1>1, InitInv, NextInv, ImageInit, ImageNext, PTL DEF Spec
=============================================================================
