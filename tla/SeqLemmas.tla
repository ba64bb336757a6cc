----------------------------- MODULE SeqLemmas -----------------------------
(***************************************************************************)
(* Facts about the sequence operators that the job list is built from:     *)
(* appending a job (cJSON_AddItemToArray), finding the first one with a    *)
(* name (the loop of demo_del_job_from_ctx) and deleting one               *)
(* (cJSON_DeleteItemFromArray); and about the blocks of a file that is     *)
(* written to (fwrite, fclose).                                            *)
(***************************************************************************)
EXTENDS Integers, Sequences, SequencesExt, SequenceTheorems, WellFoundedInduction, Stdio, TLAPS

(* A nonempty set of naturals has a least element: Min of the set. *)
LEMMA LeastElement ==
  ASSUME NEW I, I \subseteq Nat, I # {}
  PROVE  Min(I) \in I /\ \A i \in I : Min(I) <= i
<1> DEFINE R == OpToRel(<, Nat)
<1>1. PICK m \in I : \A i \in I : ~ (<<i, m>> \in R)
  BY NatLessThanWellFounded, WFMin
<1>2. \A i \in I : m <= i
  <2> TAKE i \in I
  <2>1. i \in Nat /\ m \in Nat
    OBVIOUS
  <2>2. ~ (i < m)
    BY <1>1, <2>1 DEF OpToRel
  <2> QED BY <2>1, <2>2
<1> HIDE DEF R
<1> QED BY <1>2 DEF Min

(* Deleting one entry moves those behind it up by one. *)
LEMMA RemoveAtEntries ==
  ASSUME NEW S, NEW s \in Seq(S), NEW i \in 1..Len(s)
  PROVE  /\ RemoveAt(s, i) \in Seq(S)
         /\ Len(RemoveAt(s, i)) = Len(s) - 1
         /\ \A j \in 1..(Len(s) - 1) :
              RemoveAt(s, i)[j] = IF j < i THEN s[j] ELSE s[j + 1]
<1> DEFINE l == SubSeq(s, 1, i - 1)
           r == SubSeq(s, i + 1, Len(s))
<1>1. /\ l \in Seq(S)
      /\ Len(l) = i - 1
      /\ \A j \in 1..(i - 1) : l[j] = s[j]
  <2>1. \A j \in 1..(i - 1) : s[j] \in S
    BY ElementOfSeq
  <2> QED BY <2>1, SubSeqProperties
<1>2. /\ r \in Seq(S)
      /\ Len(r) = Len(s) - i
      /\ \A j \in 1..(Len(s) - i) : r[j] = s[i + j]
  <2>1. \A j \in (i + 1)..Len(s) : s[j] \in S
    BY ElementOfSeq
  <2>2. /\ r \in Seq(S)
        /\ Len(r) = IF i + 1 <= Len(s) THEN Len(s) - (i + 1) + 1 ELSE 0
        /\ \A j \in 1..(Len(s) - (i + 1) + 1) : r[j] = s[i + 1 + j - 1]
    BY <2>1, SubSeqProperties
  <2> QED BY <2>2
<1>3. RemoveAt(s, i) = l \o r
  BY DEF RemoveAt
<1> HIDE DEF l, r
<1>4. Len(s) \in Nat /\ DOMAIN s = 1..Len(s)
  BY LenProperties
<1>5. /\ l \o r \in Seq(S)
      /\ Len(l \o r) = Len(s) - 1
      /\ DOMAIN (l \o r) = 1..(Len(s) - 1)
  <2>1. l \o r \in Seq(S) /\ Len(l \o r) = Len(l) + Len(r)
    BY <1>1, <1>2, ConcatProperties
  <2>2. Len(l) + Len(r) = Len(s) - 1
    BY <1>1, <1>2, <1>4
  <2> QED BY <2>1, <2>2, LenProperties
<1>6. \A j \in 1..(Len(s) - 1) : (l \o r)[j] = IF j <= i - 1 THEN l[j] ELSE r[j - (i - 1)]
  <2>1. \A j \in 1..(Len(l) + Len(r)) :
          (l \o r)[j] = IF j <= Len(l) THEN l[j] ELSE r[j - Len(l)]
    BY <1>1, <1>2, ConcatProperties
  <2>2. Len(l) + Len(r) = Len(s) - 1 /\ Len(l) = i - 1
    BY <1>1, <1>2, <1>4
  <2> QED BY <2>1, <2>2
<1>7. ASSUME NEW j \in 1..(Len(s) - 1)
      PROVE  (l \o r)[j] = IF j < i THEN s[j] ELSE s[j + 1]
  <2>1. CASE j < i
    <3>1. j <= i - 1 /\ j \in 1..(i - 1)
      BY <1>4, <2>1
    <3> QED BY <1>1, <1>6, <2>1, <3>1
  <2>2. CASE ~(j < i)
    <3>1. /\ ~(j <= i - 1) /\ j - (i - 1) \in 1..(Len(s) - i)
          /\ i + (j - (i - 1)) = j + 1
      BY <1>4, <2>2
    <3> QED BY <1>2, <1>6, <2>2, <3>1
  <2> QED BY <2>1, <2>2
<1> QED BY <1>3, <1>5, <1>7

(* It shortens the list by one and keeps every other entry. *)
LEMMA RemoveAtProperties ==
  ASSUME NEW S, NEW s \in Seq(S), NEW i \in 1..Len(s)
  PROVE  /\ RemoveAt(s, i) \in Seq(S)
         /\ Len(RemoveAt(s, i)) = Len(s) - 1
         /\ ToSet(s) \subseteq ToSet(RemoveAt(s, i)) \union {s[i]}
<1> DEFINE r == RemoveAt(s, i)
<1>1. /\ r \in Seq(S) /\ Len(r) = Len(s) - 1
      /\ \A j \in 1..(Len(s) - 1) : r[j] = IF j < i THEN s[j] ELSE s[j + 1]
  BY RemoveAtEntries
<1> HIDE DEF r
<1>2. Len(s) \in Nat /\ DOMAIN s = 1..Len(s) /\ DOMAIN r = 1..(Len(s) - 1)
  BY <1>1, LenProperties
<1>3. ASSUME NEW j \in 1..Len(s), j # i
      PROVE  \E k \in DOMAIN r : r[k] = s[j]
  <2>1. CASE j < i
    <3>1. j \in 1..(Len(s) - 1)
      BY <1>2, <2>1
    <3> QED BY <1>1, <1>2, <2>1, <3>1
  <2>2. CASE j > i
    <3>1. j - 1 \in 1..(Len(s) - 1) /\ ~(j - 1 < i) /\ (j - 1) + 1 = j
      BY <1>2, <2>2
    <3> QED BY <1>1, <1>2, <3>1
  <2> QED BY <1>2, <1>3, <2>1, <2>2
<1>4. ToSet(s) \subseteq ToSet(r) \union {s[i]}
  BY <1>2, <1>3 DEF ToSet
<1> QED BY <1>1, <1>4 DEF r

(* The entry at the head is deleted by taking the tail. *)
LEMMA RemoveHeadIsTail ==
  ASSUME NEW S, NEW s \in Seq(S), s # <<>>
  PROVE  RemoveAt(s, 1) = Tail(s)
<1>1. Tail(s) = SubSeq(s, 2, Len(s)) /\ Tail(s) \in Seq(S)
  BY TailIsSubSeq, HeadTailProperties
<1>2. SubSeq(s, 1, 0) = <<>>
  BY SubSeqEmpty
<1>3. <<>> \o Tail(s) = Tail(s)
  BY <1>1, ConcatEmptySeq
<1>4. 1 - 1 = 0 /\ 1 + 1 = 2
  OBVIOUS
<1> QED BY <1>1, <1>2, <1>3, <1>4 DEF RemoveAt

(* s is the end of t. *)
EndOf(s, t) ==
  /\ Len(s) <= Len(t)
  /\ \A k \in 1..Len(s) : s[k] = t[Len(t) - Len(s) + k]

LEMMA EndOfItself ==
  ASSUME NEW S, NEW s \in Seq(S)
  PROVE  EndOf(s, s)
BY LenProperties DEF EndOf

(* Without its first entry, the end of t is still the end of t. *)
LEMMA EndWithoutHead ==
  ASSUME NEW S, NEW s \in Seq(S), NEW t \in Seq(S), s # <<>>, EndOf(s, t)
  PROVE  EndOf(RemoveAt(s, 1), t) /\ s[1] = t[Len(t) - Len(s) + 1]
<1> DEFINE r == SubSeq(s, 2, Len(s))
<1>1. Len(s) \in Nat /\ Len(s) > 0 /\ Len(t) \in Nat
  BY EmptySeq, LenProperties
<1>2. \A j \in 2..Len(s) : s[j] \in S
  BY ElementOfSeq
<1>3. /\ r \in Seq(S) /\ Len(r) = Len(s) - 1
      /\ \A j \in 1..(Len(s) - 1) : r[j] = s[j + 1]
  <2>1. /\ r \in Seq(S)
        /\ Len(r) = IF 2 <= Len(s) THEN Len(s) - 2 + 1 ELSE 0
        /\ \A j \in 1..(Len(s) - 2 + 1) : r[j] = s[2 + j - 1]
    BY <1>1, <1>2, SubSeqProperties
  <2> HIDE DEF r
  <2>2. Len(r) = Len(s) - 1
    <3>1. CASE 2 <= Len(s)
      BY <1>1, <2>1, <3>1
    <3>2. CASE ~ (2 <= Len(s))
      <4>1. \A l \in Nat : l # 0 /\ ~ (2 <= l) => l = 1
        OBVIOUS
      <4>2. Len(s) # 0
        BY EmptySeq
      <4>3. Len(s) = 1
        BY <1>1, <3>2, <4>1, <4>2
      <4>4. Len(r) = 0
        BY <2>1, <3>2
      <4> QED BY <4>3, <4>4
    <3> QED BY <3>1, <3>2
  <2>3. ASSUME NEW j \in 1..(Len(s) - 1)
        PROVE  r[j] = s[j + 1]
    <3>1. j \in 1..(Len(s) - 2 + 1) /\ 2 + j - 1 = j + 1
      BY <1>1
    <3> QED BY <2>1, <3>1
  <2> QED BY <2>1, <2>2, <2>3
<1>4. SubSeq(s, 1, 0) = <<>>
  BY SubSeqEmpty
<1>5. RemoveAt(s, 1) = r
  BY <1>3, <1>4, ConcatEmptySeq DEF RemoveAt
<1> HIDE DEF r
<1>6. EndOf(r, t)
  <2>1. ASSUME NEW k \in 1..Len(r)
        PROVE  r[k] = t[Len(t) - Len(r) + k]
    <3>1. k \in 1..(Len(s) - 1) /\ k + 1 \in 1..Len(s)
      BY <1>1, <1>3
    <3>2. s[k + 1] = t[Len(t) - Len(s) + (k + 1)]
      BY <3>1 DEF EndOf
    <3>3. Len(t) - Len(s) + (k + 1) = Len(t) - Len(r) + k
      BY <1>1, <1>3
    <3> QED BY <1>3, <3>1, <3>2, <3>3
  <2> QED BY <1>1, <1>3, <2>1 DEF EndOf
<1> QED BY <1>1, <1>5, <1>6 DEF EndOf

(* Appending adds exactly the new entry. *)
LEMMA AppendToSet ==
  ASSUME NEW S, NEW s \in Seq(S), NEW e \in S
  PROVE  /\ Append(s, e) \in Seq(S)
         /\ ToSet(Append(s, e)) = ToSet(s) \union {e}
<1>1. /\ Append(s, e) \in Seq(S)
      /\ Len(Append(s, e)) = Len(s) + 1
      /\ \A i \in 1..Len(s) : Append(s, e)[i] = s[i]
      /\ Append(s, e)[Len(s) + 1] = e
  BY AppendProperties
<1>2. DOMAIN Append(s, e) = DOMAIN s \union {Len(s) + 1}
  BY <1>1
<1> QED BY <1>1, <1>2 DEF ToSet

-----------------------------------------------------------------------------
(* What is written to a file, for FileCopy.tla and DataSync.tla.            *)

(* fwrite() and fclose() turn blocks into blocks. *)
LEMMA WrittenType ==
  ASSUME NEW S, NEW s \in Seq(S), NEW b \in Seq(S), NEW n \in Int, NEW z \in S
  PROVE  Written(s, n, b, z) \in Seq(S)
<1> DEFINE l == IF b # <<>> /\ n + Len(b) > Len(s) THEN n + Len(b) ELSE Len(s)
<1>1. Len(s) \in Nat /\ Len(b) \in Nat
  BY LenProperties
<1>2. l \in Nat
  BY <1>1
<1>3. ASSUME NEW k \in 1..l
      PROVE  (IF k \in (n + 1)..(n + Len(b)) THEN b[k - n]
              ELSE IF k \in DOMAIN s THEN s[k] ELSE z) \in S
  <2>1. CASE k \in (n + 1)..(n + Len(b))
    <3>1. k - n \in 1..Len(b)
      BY <1>1, <2>1
    <3> QED BY <2>1, <3>1, ElementOfSeq
  <2>2. CASE k \notin (n + 1)..(n + Len(b)) /\ k \in DOMAIN s
    BY <2>2, ElementOfSeq, LenProperties
  <2> QED BY <2>1, <2>2
<1> HIDE DEF l
<1>4. Written(s, n, b, z) \in [1..l -> S]
  BY <1>3 DEF Written, l
<1> QED BY <1>2, <1>4, SeqDef

(* Blocks written at the end of a file are appended to it. *)
LEMMA WrittenAppends ==
  ASSUME NEW S, NEW s \in Seq(S), NEW b \in Seq(S), NEW z
  PROVE  Written(s, Len(s), b, z) = s \o b
<1>1. Len(s) \in Nat /\ Len(b) \in Nat /\ DOMAIN s = 1..Len(s)
  BY LenProperties
<1>2. b # <<>> => Len(b) > 0
  BY EmptySeq
<1>3. b = <<>> => Len(b) = 0
  BY EmptySeq
<1>4. s \o b \in Seq(S) /\ Len(s \o b) = Len(s) + Len(b)
      /\ \A i \in 1..(Len(s) + Len(b)) :
           (s \o b)[i] = IF i <= Len(s) THEN s[i] ELSE b[i - Len(s)]
  BY ConcatProperties
<1>5. (IF b # <<>> /\ Len(s) + Len(b) > Len(s) THEN Len(s) + Len(b) ELSE Len(s)) = Len(s) + Len(b)
  BY <1>1, <1>2, <1>3
<1>6. Written(s, Len(s), b, z) =
        [k \in 1..(Len(s) + Len(b)) |-> IF k <= Len(s) THEN s[k] ELSE b[k - Len(s)]]
  <2>1. \A k \in 1..(Len(s) + Len(b)) :
          /\ k \in (Len(s) + 1)..(Len(s) + Len(b)) <=> ~(k <= Len(s))
          /\ k \in 1..Len(s) <=> k <= Len(s)
    BY <1>1
  <2> QED BY <1>1, <1>5, <2>1 DEF Written
<1>7. s \o b = [k \in 1..(Len(s) + Len(b)) |-> (s \o b)[k]]
  BY <1>4, LenProperties
<1> QED BY <1>4, <1>6, <1>7

(* Blocks written behind the end of a file leave what it holds alone. *)
LEMMA WrittenBehind ==
  ASSUME NEW S, NEW s \in Seq(S), NEW b \in Seq(S), NEW n \in Nat, NEW z \in S, Len(s) <= n
  PROVE  /\ Len(Written(s, n, b, z)) \in Nat /\ Len(s) <= Len(Written(s, n, b, z))
         /\ \A k \in 1..Len(s) : Written(s, n, b, z)[k] = s[k]
<1> DEFINE l == IF b # <<>> /\ n + Len(b) > Len(s) THEN n + Len(b) ELSE Len(s)
<1>1. Len(s) \in Nat /\ Len(b) \in Nat /\ DOMAIN s = 1..Len(s)
  BY LenProperties
<1>2. l \in Nat /\ Len(s) <= l
  BY <1>1
<1>3. /\ DOMAIN Written(s, n, b, z) = 1..l
      /\ \A k \in 1..l : Written(s, n, b, z)[k] =
           IF k \in (n + 1)..(n + Len(b)) THEN b[k - n] ELSE IF k \in DOMAIN s THEN s[k] ELSE z
  BY DEF Written
<1> HIDE DEF l
<1>4. Written(s, n, b, z) \in Seq(S)
  BY WrittenType
<1>5. Len(Written(s, n, b, z)) = l
  BY <1>2, <1>3, <1>4, LenProperties
<1>6. \A k \in 1..Len(s) : k \in 1..l /\ k \in DOMAIN s /\ k \notin (n + 1)..(n + Len(b))
  BY <1>1, <1>2
<1> QED BY <1>2, <1>3, <1>5, <1>6

(* A file grows by the block that is put into its buffer. *)
LEMMA ConcatAppend ==
  ASSUME NEW S, NEW s \in Seq(S), NEW b \in Seq(S), NEW x \in S
  PROVE  s \o Append(b, x) = Append(s \o b, x)
<1>1. <<x>> \in Seq(S) /\ s \o b \in Seq(S)
  BY ConcatProperties
<1>2. Append(b, x) = b \o <<x>> /\ Append(s \o b, x) = (s \o b) \o <<x>>
  BY <1>1, AppendIsConcat
<1> QED BY <1>1, <1>2, ConcatAssociative
=============================================================================
