----------------------------- MODULE CJsonProofs -----------------------------
(***************************************************************************)
(* What cJSON.c does with memory, for any number of elements, names and    *)
(* bytes.                                                                  *)
(*                                                                         *)
(* The list of JobContext.tla: whatever is appended, taken out, read or    *)
(* released, and whatever allocation fails, its pointers make a ring, and  *)
(* they do to the jobs what JobArray.tla says.  Every call is shown to     *)
(* turn one Chain of elements into another; that walking along a chain     *)
(* finds its elements, and nothing else, is ChainIsElements.               *)
(*                                                                         *)
(* The buffer of PrintBuffer.tla: nobody who writes what ensure has        *)
(* answered for writes outside it.                                         *)
(***************************************************************************)
EXTENDS JobContext, PrintBuffer, SeqLemmas, FiniteSetTheorems

(* The pointers lead along the elements of s and back. *)
Chain(s) ==
  /\ s \in Seq(Node) /\ IsInjective(s)
  /\ child = IF s = <<>> THEN NULL ELSE s[1]
  /\ \A k \in 1..Len(s) : next[s[k]] = IF k = Len(s) THEN NULL ELSE s[k + 1]
  /\ \A k \in 1..Len(s) : prev[s[k]] = IF k = 1 THEN s[Len(s)] ELSE s[k - 1]

(* A sequence of different elements is no longer than there are elements. *)
LEMMA InjectiveLength ==
  ASSUME NEW s \in Seq(Node), IsInjective(s)
  PROVE  Len(s) <= Cardinality(Node) /\ Cardinality(Node) \in Nat
<1>1. Len(s) \in Nat /\ s \in Injection(1..Len(s), Node)
  BY LenProperties DEF Injection
<1>2. Cardinality(1..Len(s)) = Len(s)
  <2>1. Cardinality(1..Len(s)) = IF 1 > Len(s) THEN 0 ELSE Len(s) - 1 + 1
    BY <1>1, FS_Interval, SMTT(20)
  <2> QED BY <1>1, <2>1
<1>3. Cardinality(1..Len(s)) <= Cardinality(Node)
  BY <1>1, FS_Injection, NodeAssumption
<1> QED BY <1>2, <1>3, FS_CardinalityType, NodeAssumption

(* Who walks along a chain finds its elements. *)
LEMMA ChainIsElements == \A s : Chain(s) => Elements = s
<1> SUFFICES ASSUME NEW s, Chain(s) PROVE Elements = s
  OBVIOUS
<1> DEFINE N == Cardinality(Node)
           L == Len(s)
           Step(f) == [k \in 0..N |->
             IF k = 0 THEN child ELSE IF f[k - 1] = NULL THEN NULL ELSE next[f[k - 1]]]
           at == CHOOSE f : f = Step(f)
           g == [k \in 0..N |-> IF k < L THEN s[k + 1] ELSE NULL]
<1>1. Elements = [k \in 1..Cardinality({m \in DOMAIN at : at[m] # NULL}) |-> at[k - 1]]
  BY Zenon DEF Elements, Walk
<1>2. L \in Nat /\ N \in Nat /\ L <= N /\ s \in [1..L -> Node] /\ NULL \notin Node
  BY InjectiveLength, LenProperties, NullAssumption DEF Chain
<1>a. s = <<>> <=> L = 0
  BY EmptySeq DEF Chain
<1>b. \A k \in 1..L : s[k] # NULL /\ next[s[k]] = IF k = L THEN NULL ELSE s[k + 1]
  <2>1. \A k \in 1..L : s[k] # NULL
    BY <1>2
  <2>2. \A k \in 1..L : next[s[k]] = IF k = L THEN NULL ELSE s[k + 1]
    BY Zenon DEF Chain
  <2> QED BY <2>1, <2>2
<1> HIDE DEF at, N, L
<1>3. g = Step(g)
  <2>1. ASSUME NEW k \in 0..N
        PROVE  g[k] = IF k = 0 THEN child
                      ELSE IF g[k - 1] = NULL THEN NULL ELSE next[g[k - 1]]
    <3>1. CASE k = 0
      <4>1. child = IF L = 0 THEN NULL ELSE s[1]
        BY <1>a DEF Chain
      <4> QED BY <1>2, <3>1, <4>1
    <3>2. CASE k # 0 /\ k < L
      <4>1. k - 1 \in 0..N /\ k - 1 < L /\ (k - 1) + 1 = k /\ k \in 1..L /\ k # L
        BY <1>2, <3>2
      <4>2. s[k] # NULL /\ next[s[k]] = s[k + 1]
        BY <1>b, <4>1
      <4>3. g[k - 1] = s[k]
        BY <4>1
      <4> QED BY <3>2, <4>2, <4>3
    <3>3. CASE k # 0 /\ k = L
      <4>1. k - 1 \in 0..N /\ k - 1 < L /\ (k - 1) + 1 = k /\ k \in 1..L /\ ~(k < L)
        BY <1>2, <3>3
      <4>2. s[k] # NULL /\ next[s[k]] = NULL
        BY <1>b, <3>3, <4>1
      <4>3. g[k - 1] = s[k]
        BY <4>1
      <4> QED BY <3>3, <4>1, <4>2, <4>3
    <3>4. CASE k # 0 /\ k > L
      <4>1. k - 1 \in 0..N /\ ~(k - 1 < L) /\ ~(k < L)
        BY <1>2, <3>4
      <4> QED BY <3>4, <4>1
    <3> QED BY <1>2, <3>1, <3>2, <3>3, <3>4
  <2> QED BY <2>1
<1>4. at = Step(at)
  BY <1>3, Zenon DEF at
<1> HIDE DEF g
<1>5. at = g
  <2>1. ASSUME NEW k \in 0..N
        PROVE  /\ at[k] = IF k = 0 THEN child
                          ELSE IF at[k - 1] = NULL THEN NULL ELSE next[at[k - 1]]
               /\ g[k] = IF k = 0 THEN child
                         ELSE IF g[k - 1] = NULL THEN NULL ELSE next[g[k - 1]]
    BY <1>3, <1>4
  <2> DEFINE D == {k \in 0..N : at[k] # g[k]}
  <2>2. ASSUME D # {} PROVE FALSE
    <3>1. D \subseteq Nat
      BY <1>2
    <3>2. Min(D) \in D /\ \A k \in D : Min(D) <= k
      BY <2>2, <3>1, LeastElement
    <3> DEFINE k == Min(D)
    <3> HIDE DEF k
    <3>3. k \in 0..N /\ at[k] # g[k] /\ \A j \in 0..N : at[j] # g[j] => k <= j
      BY <3>2 DEF k
    <3>4. k # 0
      BY <2>1, <3>3
    <3>5. k - 1 \in 0..N /\ ~(k <= k - 1)
      BY <1>2, <3>3, <3>4
    <3> QED BY <2>1, <3>3, <3>4, <3>5
  <2>3. DOMAIN at = 0..N /\ DOMAIN g = 0..N
    BY <1>3, <1>4
  <2>4. at = [k \in 0..N |-> at[k]] /\ g = [k \in 0..N |-> g[k]]
    BY <1>3, <1>4
  <2> QED BY <2>2, <2>4
<1>6. Cardinality({m \in DOMAIN at : at[m] # NULL}) = L
  <2>1. {m \in DOMAIN at : at[m] # NULL} = 0..(L - 1)
    BY <1>2, <1>5 DEF g
  <2>2. Cardinality(0..(L - 1)) = IF 0 > L - 1 THEN 0 ELSE (L - 1) - 0 + 1
    BY <1>2, FS_Interval
  <2>3. Cardinality(0..(L - 1)) = L
    BY <1>2, <2>2
  <2> QED BY <2>1, <2>3
<1>7. \A k \in 1..L : at[k - 1] = s[k]
  BY <1>2, <1>5 DEF g
<1> QED BY <1>1, <1>2, <1>6, <1>7

(* The pointers have their types. *)
LinksTyped ==
  /\ child \in Node \union {NULL}
  /\ next \in [Node -> Node \union {NULL}]
  /\ prev \in [Node -> Node \union {NULL}]

(* add_item_to_array: the chain with one more element at its end. *)
LEMMA AttachAppends ==
  ASSUME NEW s, Chain(s), LinksTyped, NEW i \in Node, i \notin ToSet(s), next[i] = NULL,
         Attach(i)
  PROVE  Chain(Append(s, i))' /\ LinksTyped'
<1> DEFINE t == Append(s, i)
           L == Len(s)
<1>1. /\ t \in Seq(Node) /\ Len(t) = L + 1 /\ t[L + 1] = i
      /\ \A j \in 1..L : t[j] = s[j]
      /\ t # <<>>
  BY AppendProperties DEF Chain
<1>2. /\ L \in Nat /\ DOMAIN s = 1..L /\ DOMAIN t = 1..(L + 1) /\ NULL \notin Node
      /\ s = <<>> <=> L = 0
      /\ \A j \in 1..L : s[j] \in Node /\ s[j] # i
  BY <1>1, LenProperties, EmptySeq, ElementOfSeq, NullAssumption DEF Chain, ToSet
<1>3. \A j, k \in 1..L : s[j] = s[k] => j = k
  BY <1>2 DEF Chain, IsInjective
<1>4. /\ child = IF L = 0 THEN NULL ELSE s[1]
      /\ \A k \in 1..L : next[s[k]] = IF k = L THEN NULL ELSE s[k + 1]
      /\ \A k \in 1..L : prev[s[k]] = IF k = 1 THEN s[L] ELSE s[k - 1]
  BY <1>2 DEF Chain
<1> HIDE DEF t, L
<1>5. IsInjective(t)
  <2> SUFFICES ASSUME NEW j \in 1..(L + 1), NEW k \in 1..(L + 1), t[j] = t[k]
               PROVE  j = k
    BY <1>2 DEF IsInjective
  <2>1. \A m \in 1..(L + 1) : m \in 1..L \/ m = L + 1
    BY <1>2
  <2> QED BY <1>1, <1>2, <1>3, <2>1
<1>6. /\ child' = t[1]
      /\ \A k \in 1..(L + 1) : next'[t[k]] = IF k = L + 1 THEN NULL ELSE t[k + 1]
      /\ \A k \in 1..(L + 1) : prev'[t[k]] = IF k = 1 THEN t[L + 1] ELSE t[k - 1]
      /\ LinksTyped'
  <2>1. CASE child = NULL
    <3>1. L = 0
      <4>1. L # 0 => 1 \in 1..L
        BY <1>2
      <4> QED BY <1>2, <1>4, <2>1, <4>1
    <3>2. t[1] = i /\ L + 1 = 1
      BY <1>1, <3>1
    <3> QED BY <2>1, <3>1, <3>2 DEF Attach, LinksTyped
  <2>2. CASE child # NULL
    <3>1. L > 0 /\ child = s[1] /\ 1 \in 1..L /\ L \in 1..L /\ prev[child] = s[L]
      <4>1. L # 0
        BY <1>4, <2>2
      <4>2. L > 0 /\ 1 \in 1..L /\ L \in 1..L
        BY <1>2, <4>1
      <4> QED BY <1>4, <4>1, <4>2
    <3>2. /\ next' = [next EXCEPT ![s[L]] = i]
          /\ prev' = [prev EXCEPT ![i] = s[L], ![s[1]] = i]
          /\ child' = child
      BY <2>2, <3>1 DEF Attach
    <3>3. \A j \in 1..L : next'[s[j]] = IF j = L THEN i ELSE next[s[j]]
      BY <1>2, <1>3, <3>1, <3>2 DEF LinksTyped
    <3>4. next'[i] = NULL /\ prev'[i] = s[L]
      BY <1>2, <3>1, <3>2 DEF LinksTyped
    <3>5. \A j \in 1..L : prev'[s[j]] = IF j = 1 THEN i ELSE prev[s[j]]
      BY <1>2, <1>3, <3>1, <3>2 DEF LinksTyped
    <3>6. child' = t[1]
      BY <1>1, <3>1, <3>2
    <3>7. ASSUME NEW k \in 1..(L + 1)
          PROVE  /\ next'[t[k]] = IF k = L + 1 THEN NULL ELSE t[k + 1]
                 /\ prev'[t[k]] = IF k = 1 THEN t[L + 1] ELSE t[k - 1]
      <4>1. CASE k = L + 1
        <5>1. k # 1 /\ k - 1 = L
          BY <1>2, <3>1, <4>1
        <5> QED BY <1>1, <3>1, <3>4, <4>1, <5>1
      <4>2. CASE k # L + 1
        <5>1. k \in 1..L /\ t[k] = s[k]
          BY <1>1, <1>2, <4>2
        <5>2. next'[s[k]] = t[k + 1]
          <6>1. k # L => k + 1 \in 1..L
            BY <1>2, <5>1
          <6> QED BY <1>1, <1>4, <3>3, <5>1, <6>1
        <5>3. prev'[s[k]] = IF k = 1 THEN t[L + 1] ELSE t[k - 1]
          <6>1. k # 1 => k - 1 \in 1..L
            BY <1>2, <5>1
          <6> QED BY <1>1, <1>4, <3>5, <5>1, <6>1
        <5> QED BY <4>2, <5>1, <5>2, <5>3
      <4> QED BY <4>1, <4>2
    <3>8. LinksTyped'
      BY <1>2, <3>1, <3>2 DEF LinksTyped
    <3> QED BY <3>6, <3>7, <3>8
  <2> QED BY <2>1, <2>2
<1>7. Chain(t)'
  BY <1>1, <1>5, <1>6 DEF Chain
<1> QED BY <1>6, <1>7 DEF t

(* cJSON_DetachItemViaPointer: the chain without the element, which forgets *)
(* what followed it.                                                        *)
LEMMA DetachRemoves ==
  ASSUME NEW s, Chain(s), LinksTyped, NEW d \in 1..Len(s), Detach(s[d])
  PROVE  /\ Chain(RemoveAt(s, d))' /\ LinksTyped'
         /\ next'[s[d]] = NULL
         /\ \A i \in Node : i \notin ToSet(s) => next'[i] = next[i]
<1> DEFINE r == RemoveAt(s, d)
           L == Len(s)
           i == s[d]
<1>1. /\ r \in Seq(Node) /\ Len(r) = L - 1
      /\ \A j \in 1..(L - 1) : r[j] = IF j < d THEN s[j] ELSE s[j + 1]
  BY RemoveAtEntries DEF Chain
<1>2. /\ L \in Nat /\ DOMAIN s = 1..L /\ DOMAIN r = 1..(L - 1) /\ NULL \notin Node
      /\ s # <<>> /\ (r = <<>> <=> L - 1 = 0) /\ d \in 1..L
      /\ \A j \in 1..L : s[j] \in Node
  BY <1>1, LenProperties, EmptySeq, ElementOfSeq, NullAssumption DEF Chain
<1>3. \A j, k \in 1..L : s[j] = s[k] => j = k
  BY <1>2 DEF Chain, IsInjective
<1>4. /\ child = s[1]
      /\ \A k \in 1..L : next[s[k]] = IF k = L THEN NULL ELSE s[k + 1]
      /\ \A k \in 1..L : prev[s[k]] = IF k = 1 THEN s[L] ELSE s[k - 1]
  BY <1>2 DEF Chain
<1> DEFINE n == IF i = child THEN next ELSE [next EXCEPT ![prev[i]] = next[i]]
           p == IF next[i] = NULL THEN prev ELSE [prev EXCEPT ![next[i]] = prev[i]]
           q == IF i # child /\ next[i] = NULL THEN [p EXCEPT ![child] = prev[i]] ELSE p
<1>5. /\ child' = IF i = child THEN next[i] ELSE child
      /\ prev' = [q EXCEPT ![i] = NULL]
      /\ next' = [n EXCEPT ![i] = NULL]
  BY DEF Detach
<1> HIDE DEF r, L
<1>6. /\ i \in Node
      /\ i = child <=> d = 1
      /\ next[i] = IF d = L THEN NULL ELSE s[d + 1]
      /\ prev[i] = IF d = 1 THEN s[L] ELSE s[d - 1]
      /\ next[i] = NULL <=> d = L
      /\ 1 \in 1..L /\ L \in 1..L
      /\ (d # L => d + 1 \in 1..L /\ s[d + 1] \in Node)
      /\ (d # 1 => d - 1 \in 1..L /\ s[d - 1] \in Node)
  <2>1. /\ 1 \in 1..L /\ L \in 1..L
        /\ (d # L => d + 1 \in 1..L)
        /\ (d # 1 => d - 1 \in 1..L)
    BY <1>2
  <2>2. i = child <=> d = 1
    BY <1>2, <1>3, <1>4, <2>1
  <2>3. /\ next[i] = IF d = L THEN NULL ELSE s[d + 1]
        /\ prev[i] = IF d = 1 THEN s[L] ELSE s[d - 1]
    BY <1>2, <1>4
  <2> QED BY <1>2, <2>1, <2>2, <2>3
<1> HIDE DEF i
<1>7. /\ n \in [Node -> Node \union {NULL}] /\ next' \in [Node -> Node \union {NULL}]
      /\ \A x \in Node : next'[x] = IF x = i THEN NULL
                                    ELSE IF d # 1 /\ x = s[d - 1] THEN next[i] ELSE next[x]
  <2>1. CASE d = 1
    BY <1>5, <1>6, <2>1 DEF LinksTyped
  <2>2. CASE d # 1
    <3>1. n = [next EXCEPT ![s[d - 1]] = next[i]]
      BY <1>6, <2>2
    <3> HIDE DEF n
    <3> QED BY <1>5, <1>6, <2>2, <3>1 DEF LinksTyped
  <2> QED BY <2>1, <2>2
<1>8. /\ prev' \in [Node -> Node \union {NULL}]
      /\ \A x \in Node : prev'[x] = IF x = i THEN NULL
                                    ELSE IF d # L /\ x = s[d + 1] THEN prev[i]
                                    ELSE IF d # 1 /\ d = L /\ x = child THEN prev[i]
                                    ELSE prev[x]
  <2>1. CASE d # L
    <3>1. q = [prev EXCEPT ![s[d + 1]] = prev[i]]
      BY <1>6, <2>1
    <3>2. prev[i] \in Node \union {NULL}
      BY <1>6 DEF LinksTyped
    <3> HIDE DEF q
    <3> QED BY <1>5, <1>6, <2>1, <3>1, <3>2 DEF LinksTyped
  <2>2. CASE d = L
    <3>1. q = IF d # 1 THEN [prev EXCEPT ![child] = prev[i]] ELSE prev
      BY <1>6, <2>2
    <3>2. prev[i] \in Node \union {NULL} /\ child \in Node
      BY <1>2, <1>4, <1>6 DEF LinksTyped
    <3> HIDE DEF q
    <3> QED BY <1>5, <1>6, <2>2, <3>1, <3>2 DEF LinksTyped
  <2> QED BY <2>1, <2>2
<1> HIDE DEF n, p, q
<1>9. IsInjective(r)
  <2> SUFFICES ASSUME NEW j \in 1..(L - 1), NEW k \in 1..(L - 1), r[j] = r[k]
               PROVE  j = k
    BY <1>2 DEF IsInjective
  <2>1. j \in 1..L /\ k \in 1..L /\ j + 1 \in 1..L /\ k + 1 \in 1..L
    BY <1>2
  <2> QED BY <1>1, <1>2, <1>3, <2>1
<1>10. child' = IF r = <<>> THEN NULL ELSE r[1]
  <2>1. CASE L = 1
    BY <1>2, <1>5, <1>6, <2>1
  <2>2. CASE L # 1
    <3>1. 1 \in 1..(L - 1) /\ r # <<>>
      BY <1>2, <2>2
    <3>2. r[1] = IF d = 1 THEN s[2] ELSE s[1]
      <4>1. d = 1 <=> ~(1 < d)
        BY <1>2
      <4> QED BY <1>1, <3>1, <4>1
    <3>3. d = 1 => d # L /\ d + 1 = 2
      BY <2>2
    <3> QED BY <1>4, <1>5, <1>6, <3>1, <3>2, <3>3
  <2> QED BY <2>1, <2>2
<1>11. ASSUME NEW k \in 1..(L - 1)
       PROVE  next'[r[k]] = IF k = L - 1 THEN NULL ELSE r[k + 1]
  <2>1. CASE k < d
    <3>1. /\ k \in 1..L /\ k + 1 \in 1..L /\ k # d /\ k # L /\ r[k] = s[k] /\ s[k] \in Node
          /\ s[k] # i
      BY <1>1, <1>2, <1>3, <2>1 DEF i
    <3>2. CASE k + 1 = d
      <4>1. d # 1 /\ d - 1 = k
        BY <3>2, <1>2
      <4>2. next'[s[k]] = next[i]
        BY <1>7, <3>1, <4>1
      <4>3. k = L - 1 <=> d = L
        BY <1>2, <3>2
      <4>4. d # L => k + 1 \in 1..(L - 1) /\ ~(k + 1 < d) /\ (k + 1) + 1 = d + 1
        BY <1>2, <3>2
      <4> QED BY <1>1, <1>6, <3>1, <4>2, <4>3, <4>4
    <3>3. CASE k + 1 # d
      <4>1. k + 1 < d /\ k # L - 1 /\ k + 1 \in 1..(L - 1)
        BY <1>2, <2>1, <3>3
      <4>2. d # 1 => s[k] # s[d - 1]
        <5>1. d # 1 => d - 1 # k
          BY <1>2, <3>3
        <5> QED BY <1>3, <1>6, <3>1, <5>1
      <4> QED BY <1>1, <1>4, <1>7, <3>1, <4>1, <4>2
    <3> QED BY <3>2, <3>3
  <2>2. CASE ~(k < d)
    <3>1. /\ k + 1 \in 1..L /\ k + 1 # d /\ r[k] = s[k + 1] /\ s[k + 1] \in Node
          /\ s[k + 1] # i
      BY <1>1, <1>2, <1>3, <2>2 DEF i
    <3>2. d # 1 => s[k + 1] # s[d - 1]
      <4>1. d # 1 => d - 1 # k + 1
        BY <1>2, <2>2
      <4> QED BY <1>3, <1>6, <3>1, <4>1
    <3>3. next'[r[k]] = next[s[k + 1]]
      BY <1>7, <3>1, <3>2
    <3>4. k + 1 = L <=> k = L - 1
      BY <1>2
    <3>5. k # L - 1 => k + 1 \in 1..(L - 1) /\ ~(k + 1 < d)
      BY <1>2, <2>2
    <3> QED BY <1>1, <1>4, <3>1, <3>3, <3>4, <3>5
  <2> QED BY <2>1, <2>2
<1>12. ASSUME NEW k \in 1..(L - 1)
       PROVE  prev'[r[k]] = IF k = 1 THEN r[L - 1] ELSE r[k - 1]
  <2>1. r[L - 1] = IF d = L THEN s[L - 1] ELSE s[L]
    <3>1. L - 1 \in 1..(L - 1) /\ (d = L <=> L - 1 < d) /\ (L - 1) + 1 = L
      BY <1>2
    <3> QED BY <1>1, <3>1
  <2>2. CASE k < d
    <3>1. /\ k \in 1..L /\ k # d /\ r[k] = s[k] /\ s[k] \in Node /\ s[k] # i
          /\ (d # L => s[k] # s[d + 1]) /\ d # 1
      <4>1. k \in 1..L /\ k # d /\ k # d + 1 /\ d # 1
        BY <1>2, <2>2
      <4> QED BY <1>1, <1>2, <1>3, <1>6, <2>2, <4>1 DEF i
    <3>2. CASE k = 1
      <4>1. d = L => prev'[s[1]] = s[L - 1]
        BY <1>4, <1>6, <1>8, <3>1, <3>2
      <4>2. d # L => prev'[s[1]] = s[L]
        BY <1>4, <1>8, <3>1, <3>2
      <4> QED BY <2>1, <3>1, <3>2, <4>1, <4>2
    <3>3. CASE k # 1
      <4>1. k - 1 \in 1..(L - 1) /\ k - 1 < d
        BY <1>2, <2>2, <3>3
      <4>2. s[k] # child
        BY <1>3, <1>4, <1>6, <3>1, <3>3
      <4> QED BY <1>1, <1>4, <1>8, <3>1, <3>3, <4>1, <4>2
    <3> QED BY <3>2, <3>3
  <2>3. CASE ~(k < d)
    <3>1. /\ k + 1 \in 1..L /\ k + 1 # d /\ r[k] = s[k + 1] /\ s[k + 1] \in Node
          /\ s[k + 1] # i /\ d # L /\ k + 1 # 1
      <4>1. k + 1 \in 1..L /\ k + 1 # d /\ d # L /\ k + 1 # 1
        BY <1>2, <2>3
      <4> QED BY <1>1, <1>2, <1>3, <2>3, <4>1 DEF i
    <3>2. CASE k = d
      <4>1. prev'[s[k + 1]] = prev[i]
        BY <1>8, <3>1, <3>2
      <4>2. k # 1 => k - 1 \in 1..(L - 1) /\ k - 1 < d
        BY <1>2, <3>2
      <4> QED BY <1>1, <1>6, <2>1, <3>1, <3>2, <4>1, <4>2
    <3>3. CASE k # d
      <4>1. /\ k # 1 /\ k - 1 \in 1..(L - 1) /\ ~(k - 1 < d) /\ (k - 1) + 1 = k
            /\ (k + 1) - 1 = k /\ k + 1 # d + 1
        BY <1>2, <2>3, <3>3
      <4>2. s[k + 1] # s[d + 1]
        BY <1>3, <1>6, <3>1, <4>1
      <4>3. prev'[s[k + 1]] = prev[s[k + 1]]
        BY <1>8, <3>1, <4>2
      <4> QED BY <1>1, <1>4, <3>1, <4>1, <4>3
    <3> QED BY <3>2, <3>3
  <2> QED BY <2>2, <2>3
<1>13. Chain(r)'
  BY <1>1, <1>9, <1>10, <1>11, <1>12 DEF Chain
<1>14. LinksTyped'
  BY <1>2, <1>4, <1>5, <1>6, <1>7, <1>8 DEF LinksTyped
<1>15. \A x \in Node : x \notin ToSet(s) => next'[x] = next[x]
  BY <1>2, <1>6, <1>7 DEF ToSet, i
<1> QED BY <1>6, <1>7, <1>13, <1>14, <1>15 DEF r, i

(* What holds after every call: the pointers make a chain of elements that  *)
(* are all allocated, and all that is allocated unless memory has run out.  *)
(* An element that is not has no successor when it is given out.            *)
MemoryInv ==
  /\ TypeOK
  /\ Chain(Elements)
  /\ ToSet(Elements) \subseteq live
  /\ starved \/ live = ToSet(Elements)
  /\ \A i \in Node \ live : next[i] = NULL

(* The jobs of a chain. *)
JobsOf(s) == [k \in DOMAIN s |-> entry[s[k]]]

LEMMA JobsTyped ==
  ASSUME NEW s \in Seq(Node), entry \in [Node -> Entry]
  PROVE  JobsOf(s) \in Seq(Entry) /\ Len(JobsOf(s)) = Len(s) /\ DOMAIN JobsOf(s) = 1..Len(s)
<1>1. Len(s) \in Nat /\ DOMAIN s = 1..Len(s) /\ \A k \in 1..Len(s) : s[k] \in Node
  BY LenProperties, ElementOfSeq
<1>2. JobsOf(s) \in [1..Len(s) -> Entry]
  BY <1>1 DEF JobsOf
<1>3. JobsOf(s) \in Seq(Entry)
  BY <1>1, <1>2, SeqDef
<1>4. DOMAIN JobsOf(s) = 1..Len(s)
  BY <1>2
<1>5. Len(JobsOf(s)) = Len(s)
  BY <1>1, <1>3, <1>4, LenProperties
<1> QED BY <1>3, <1>4, <1>5

(* In the state after a step, too, a chain is what a walk finds. *)
LEMMA ChainIsElementsAfter == (\A s : Chain(s) => Elements = s)'
BY ChainIsElements, PTL

(* It is enough to know some chain of the state after a step. *)
LEMMA ChainAfter ==
  ASSUME NEW s, Chain(s)', TypeOK', ToSet(s) \subseteq live',
         starved' \/ live' = ToSet(s), \A i \in Node \ live' : next'[i] = NULL
  PROVE  MemoryInv' /\ Elements' = s /\ Jobs' = JobsOf(s)'
<1>1. Elements' = s
  BY ChainIsElementsAfter
<1>2. Jobs' = JobsOf(s)'
  BY <1>1 DEF Jobs, JobsOf
<1> QED BY <1>1, <1>2 DEF MemoryInv

(* Where no pointer of the list changes, the chain stays. *)
LEMMA SameChain ==
  ASSUME NEW s, Chain(s), UNCHANGED <<child, next, prev>>
  PROVE  Chain(s)'
BY DEF Chain

(* An element is there, with or without its name. *)
LEMMA NewElement ==
  ASSUME NEW s, Chain(s), TypeOK, ToSet(s) \subseteq live, NEW i \in Node \ live,
         NEW e \in Entry, NewEntry(i, e)
  PROVE  /\ live' \subseteq Node /\ entry' \in [Node -> Entry]
         /\ JobsOf(s)' = JobsOf(s)
         /\ entry'[i] = e
<1>1. DOMAIN s = 1..Len(s) /\ \A k \in DOMAIN s : s[k] \in Node /\ s[k] # i
  BY LenProperties, ElementOfSeq DEF Chain, ToSet
<1> QED BY <1>1 DEF NewEntry, TypeOK, JobsOf

(* demo_add_job_to_ctx when there is memory for an element in an array. *)
LEMMA AddedElement ==
  ASSUME NEW s, Chain(s), LinksTyped, ToSet(s) \subseteq live, entry \in [Node -> Entry],
         NEW i \in Node \ live, next[i] = NULL, NEW e \in Entry, NewEntry(i, e), Attach(i)
  PROVE  /\ Chain(Append(s, i))' /\ LinksTyped'
         /\ ToSet(Append(s, i)) = ToSet(s) \union {i}
         /\ \A j \in Node \ live' : next'[j] = next[j]
         /\ JobsOf(Append(s, i))' = Append(JobsOf(s), e)
<1>1. i \notin ToSet(s) /\ s \in Seq(Node)
  BY DEF Chain
<1>2. Chain(Append(s, i))' /\ LinksTyped'
  BY <1>1, AttachAppends
<1>3. Append(s, i) \in Seq(Node) /\ ToSet(Append(s, i)) = ToSet(s) \union {i}
  BY <1>1, AppendToSet
<1>4. \A j \in Node \ live' : next'[j] = next[j]
  <2>1. CASE child = NULL
    BY <2>1 DEF Attach
  <2>2. CASE child # NULL
    <3>1. prev[child] \in live
      <4>1. s # <<>> /\ Len(s) \in 1..Len(s) /\ 1 \in 1..Len(s) /\ DOMAIN s = 1..Len(s)
        BY <1>1, <2>2, EmptySeq, LenProperties DEF Chain
      <4>2. prev[child] = s[Len(s)]
        BY <4>1 DEF Chain
      <4> QED BY <4>1, <4>2 DEF ToSet
    <3> QED BY <2>2, <3>1 DEF Attach, LinksTyped, NewEntry
  <2> QED BY <2>1, <2>2
<1>5. JobsOf(Append(s, i))' = Append(JobsOf(s), e)
  <2>1. /\ JobsOf(s) \in Seq(Entry) /\ Len(JobsOf(s)) = Len(s) /\ Len(s) \in Nat
        /\ DOMAIN s = 1..Len(s)
    BY <1>1, JobsTyped, LenProperties
  <2>2. /\ Append(JobsOf(s), e) \in Seq(Entry)
        /\ Len(Append(JobsOf(s), e)) = Len(s) + 1
        /\ \A k \in 1..Len(s) : Append(JobsOf(s), e)[k] = JobsOf(s)[k]
        /\ Append(JobsOf(s), e)[Len(s) + 1] = e
    BY <2>1, AppendProperties
  <2>3. /\ Len(Append(s, i)) = Len(s) + 1
        /\ DOMAIN Append(s, i) = 1..(Len(s) + 1)
        /\ \A k \in 1..Len(s) : Append(s, i)[k] = s[k]
        /\ Append(s, i)[Len(s) + 1] = i
    BY <1>1, <1>3, AppendProperties, LenProperties
  <2>4. \A k \in 1..Len(s) : s[k] \in Node /\ s[k] # i
    BY <1>1, <2>1, ElementOfSeq DEF ToSet
  <2>5. ASSUME NEW k \in 1..(Len(s) + 1)
        PROVE  entry'[Append(s, i)[k]] = Append(JobsOf(s), e)[k]
    <3>1. CASE k = Len(s) + 1
      BY <2>2, <2>3, <3>1 DEF NewEntry
    <3>2. CASE k # Len(s) + 1
      <4>1. k \in 1..Len(s)
        BY <2>1, <3>2
      <4> QED BY <2>1, <2>2, <2>3, <2>4, <4>1 DEF NewEntry, JobsOf
    <3> QED BY <3>1, <3>2
  <2>6. Append(JobsOf(s), e) = [k \in 1..(Len(s) + 1) |-> Append(JobsOf(s), e)[k]]
    BY <2>2, LenProperties
  <2>7. JobsOf(Append(s, i))' = [k \in 1..(Len(s) + 1) |-> entry'[Append(s, i)[k]]]
    BY <2>3 DEF JobsOf
  <2> QED BY <2>5, <2>6, <2>7
<1> QED BY <1>2, <1>3, <1>4, <1>5

(* cJSON_DeleteItemFromArray. *)
LEMMA DeletedElement ==
  ASSUME NEW s, Chain(s), LinksTyped, ToSet(s) \subseteq live, entry \in [Node -> Entry],
         starved \/ live = ToSet(s), \A i \in Node \ live : next[i] = NULL,
         NEW d \in 1..Len(s), DeleteItem(s[d])
  PROVE  LET r == RemoveAt(s, d) IN
         /\ Chain(r)' /\ LinksTyped'
         /\ live' \subseteq live /\ ToSet(r) \subseteq live'
         /\ starved \/ live' = ToSet(r)
         /\ \A i \in Node \ live' : next'[i] = NULL
         /\ JobsOf(r)' = RemoveAt(JobsOf(s), d)
<1> DEFINE r == RemoveAt(s, d)
           L == Len(s)
<1>1. /\ s \in Seq(Node) /\ L \in Nat /\ DOMAIN s = 1..L
      /\ \A j, k \in 1..L : s[j] = s[k] => j = k
      /\ \A j \in 1..L : s[j] \in Node
  BY LenProperties, ElementOfSeq DEF Chain, IsInjective
<1>2. /\ Chain(r)' /\ LinksTyped'
      /\ next'[s[d]] = NULL
      /\ \A i \in Node : i \notin ToSet(s) => next'[i] = next[i]
  BY DetachRemoves DEF DeleteItem
<1>3. live' = live \ {s[d]} /\ UNCHANGED entry
  BY <1>2 DEF DeleteItem
<1>4. /\ r \in Seq(Node) /\ Len(r) = L - 1 /\ DOMAIN r = 1..(L - 1)
      /\ \A j \in 1..(L - 1) : r[j] = IF j < d THEN s[j] ELSE s[j + 1]
  <2>1. /\ r \in Seq(Node) /\ Len(r) = L - 1
        /\ \A j \in 1..(L - 1) : r[j] = IF j < d THEN s[j] ELSE s[j + 1]
    BY <1>1, RemoveAtEntries
  <2> QED BY <2>1, LenProperties
<1>5. ToSet(s) \subseteq ToSet(r) \union {s[d]}
  BY <1>1, RemoveAtProperties
<1>6. JobsOf(r)' = RemoveAt(JobsOf(s), d)
  <2>1. /\ JobsOf(s) \in Seq(Entry) /\ Len(JobsOf(s)) = L
    BY <1>1, JobsTyped
  <2> DEFINE q == RemoveAt(JobsOf(s), d)
  <2>2. /\ q \in Seq(Entry) /\ Len(q) = L - 1
        /\ \A j \in 1..(L - 1) : q[j] = IF j < d THEN JobsOf(s)[j] ELSE JobsOf(s)[j + 1]
    BY <2>1, RemoveAtEntries
  <2> HIDE DEF q, r, L
  <2>3. ASSUME NEW j \in 1..(L - 1)
        PROVE  q[j] = entry[r[j]]
    <3>1. j \in 1..L /\ j + 1 \in 1..L
      BY <1>1
    <3> QED BY <1>1, <1>4, <2>2, <3>1, ZenonT(40) DEF JobsOf
  <2>4. q = [j \in 1..(L - 1) |-> q[j]]
    BY <2>2, LenProperties
  <2>5. JobsOf(r)' = [j \in 1..(L - 1) |-> entry[r[j]]]
    BY <1>3, <1>4 DEF JobsOf
  <2>6. JobsOf(r)' = q
    BY <2>3, <2>4, <2>5
  <2> QED BY <2>6 DEF q, r
<1> HIDE DEF r, L
<1>7. ToSet(r) = ToSet(s) \ {s[d]}
  <2>1. ASSUME NEW j \in 1..(L - 1)
        PROVE  r[j] \in ToSet(s) /\ r[j] # s[d]
    <3>1. j \in 1..L /\ j + 1 \in 1..L /\ d \in 1..L /\ (j < d => j # d) /\ (~(j < d) => j + 1 # d)
      BY <1>1 DEF L
    <3> QED BY <1>1, <1>4, <3>1, ZenonT(40) DEF ToSet
  <2>2. ToSet(r) \subseteq ToSet(s) \ {s[d]}
    BY <1>4, <2>1 DEF ToSet
  <2> QED BY <1>5, <2>2
<1>8. /\ live' \subseteq live /\ ToSet(r) \subseteq live'
      /\ starved \/ live' = ToSet(r)
  BY <1>3, <1>7
<1>9. ASSUME NEW i \in Node \ live'
      PROVE  next'[i] = NULL
  <2>1. CASE i = s[d]
    BY <1>2, <2>1
  <2>2. CASE i # s[d]
    BY <1>2, <1>3, <2>2
  <2> QED BY <2>1, <2>2
<1> QED BY <1>2, <1>6, <1>8, <1>9 DEF r

-----------------------------------------------------------------------------
(* The calls, one by one: each keeps the invariant and does to the jobs     *)
(* what it is there for.                                                    *)

(* Whoever leaves links and entries alone leaves the jobs alone. *)
LEMMA SameLinks ==
  ASSUME MemoryInv, TypeOK', UNCHANGED <<child, next, prev, entry, live>>, starved => starved'
  PROVE  MemoryInv' /\ Jobs' = Jobs
<1> PICK s : s = Elements
  OBVIOUS
<1>1. /\ Chain(s) /\ ToSet(s) \subseteq live /\ (starved \/ live = ToSet(s))
      /\ \A i \in Node \ live : next[i] = NULL
  BY DEF MemoryInv
<1>2. Chain(s)' /\ JobsOf(s)' = JobsOf(s) /\ Jobs = JobsOf(s)
  BY <1>1, SameChain DEF JobsOf, Jobs
<1> QED BY <1>1, <1>2, ChainAfter

(* No array, no jobs. *)
LEMMA NoChild ==
  ASSUME MemoryInv, child = NULL
  PROVE  Elements = <<>> /\ Jobs = <<>>
<1>1. Elements = <<>>
  <2>1. Elements # <<>> => Elements[1] \in Node
    BY EmptySeq, ElementOfSeq DEF MemoryInv, Chain
  <2> QED BY <2>1, NullAssumption DEF MemoryInv, Chain
<1>2. Jobs = JobsOf(<<>>)
  BY <1>1 DEF Jobs, JobsOf
<1>3. JobsOf(<<>>) \in Seq(Entry) /\ Len(JobsOf(<<>>)) = 0
  BY EmptySeq, JobsTyped DEF MemoryInv, TypeOK
<1> QED BY <1>1, <1>2, <1>3, EmptySeq

LEMMA LoadJobs ==
  ASSUME MemoryInv, NEW s \in BoundedSeq(Entry, MaxLoad), Load(s)
  PROVE  MemoryInv' /\ Jobs = <<>> /\ Jobs' = s /\ s \in Seq(Entry)
<1>1. Jobs = <<>>
  BY NoChild DEF MemoryInv, TypeOK, Load
<1>2. s \in Seq(Entry)
  <2>1. MaxLoad \in Nat
    BY FS_CardinalityType, NodeAssumption
  <2> QED BY <2>1, SeqDef DEF BoundedSeq, SeqOf
<1> DEFINE L == Len(s)
<1>3. L \in Nat /\ DOMAIN s = 1..L /\ (s = <<>> <=> L = 0)
      /\ \A k \in 1..L : s[k] \in Entry
  BY <1>2, LenProperties, EmptySeq, ElementOfSeq
<1> HIDE DEF L
<1>4. PICK nodes \in [1..L -> Node] :
       /\ IsInjective(nodes)
       /\ array' = TRUE
       /\ child' = IF s = <<>> THEN NULL ELSE nodes[1]
       /\ live' = ToSet(nodes)
       /\ next' = [i \in Node |->
            IF \E k \in 1..(L - 1) : nodes[k] = i
              THEN nodes[(CHOOSE k \in 1..L : nodes[k] = i) + 1] ELSE NULL]
       /\ prev' = [i \in Node |->
            IF i \notin ToSet(nodes) THEN NULL
            ELSE IF i = nodes[1] THEN nodes[L]
            ELSE nodes[(CHOOSE k \in 1..L : nodes[k] = i) - 1]]
       /\ entry' = [i \in Node |->
            IF i \in ToSet(nodes) THEN s[CHOOSE k \in 1..L : nodes[k] = i]
            ELSE Job(NULL)]
  BY DEF Load, L
<1>5. /\ nodes \in Seq(Node) /\ DOMAIN nodes = 1..L /\ Len(nodes) = L
      /\ \A j, k \in 1..L : nodes[j] = nodes[k] => j = k
      /\ \A j \in 1..L : nodes[j] \in Node
      /\ (nodes = <<>> <=> L = 0)
      /\ ToSet(nodes) = {nodes[k] : k \in 1..L}
  <2>1. nodes \in Seq(Node) /\ DOMAIN nodes = 1..L
    BY <1>3, SeqDef
  <2>2. Len(nodes) = L
    BY <1>3, <2>1, LenProperties
  <2>3. \A j, k \in 1..L : nodes[j] = nodes[k] => j = k
    BY <1>4, <2>1 DEF IsInjective
  <2>4. nodes = <<>> <=> L = 0
    BY <2>1, <2>2, EmptySeq
  <2> QED BY <2>1, <2>2, <2>3, <2>4 DEF ToSet
<1> DEFINE At(i) == CHOOSE k \in 1..L : nodes[k] = i
<1>b. \A i \in Node :
        /\ next'[i] = IF \E k \in 1..(L - 1) : nodes[k] = i THEN nodes[At(i) + 1] ELSE NULL
        /\ prev'[i] = IF i \notin ToSet(nodes) THEN NULL
                      ELSE IF i = nodes[1] THEN nodes[L] ELSE nodes[At(i) - 1]
        /\ entry'[i] = IF i \in ToSet(nodes) THEN s[At(i)] ELSE Job(NULL)
  BY <1>4
<1>6. \A k \in 1..L : At(nodes[k]) = k
  BY <1>5
<1> HIDE DEF At
<1>7. ASSUME NEW k \in 1..L
      PROVE  /\ next'[nodes[k]] = IF k = L THEN NULL ELSE nodes[k + 1]
             /\ prev'[nodes[k]] = IF k = 1 THEN nodes[L] ELSE nodes[k - 1]
             /\ entry'[nodes[k]] = s[k]
  <2>1. (\E j \in 1..(L - 1) : nodes[j] = nodes[k]) <=> k # L
    <3>1. k # L => k \in 1..(L - 1)
      BY <1>3
    <3>2. \A j \in 1..(L - 1) : j \in 1..L /\ j # L
      BY <1>3
    <3> QED BY <1>5, <3>1, <3>2
  <2>2. nodes[k] \in ToSet(nodes) /\ nodes[k] \in Node /\ (nodes[k] = nodes[1] <=> k = 1)
    <3>1. 1 \in 1..L
      BY <1>3
    <3> QED BY <1>5, <3>1
  <2>3. next'[nodes[k]] = IF k = L THEN NULL ELSE nodes[k + 1]
    <3>1. next'[nodes[k]] = IF k # L THEN nodes[At(nodes[k]) + 1] ELSE NULL
      BY <1>b, <2>1, <2>2
    <3> QED BY <1>6, <3>1
  <2>4. prev'[nodes[k]] = IF k = 1 THEN nodes[L] ELSE nodes[k - 1]
    <3>1. prev'[nodes[k]] = IF k = 1 THEN nodes[L] ELSE nodes[At(nodes[k]) - 1]
      BY <1>b, <2>2
    <3> QED BY <1>6, <3>1
  <2>5. entry'[nodes[k]] = s[k]
    BY <1>b, <1>6, <2>2
  <2> QED BY <2>3, <2>4, <2>5
<1>8. Chain(nodes)'
  <2>1. child' = IF nodes = <<>> THEN NULL ELSE nodes[1]
    BY <1>3, <1>4, <1>5
  <2>2. /\ \A k \in 1..L : next'[nodes[k]] = IF k = L THEN NULL ELSE nodes[k + 1]
        /\ \A k \in 1..L : prev'[nodes[k]] = IF k = 1 THEN nodes[L] ELSE nodes[k - 1]
    BY <1>7
  <2> QED BY <1>4, <1>5, <2>1, <2>2 DEF Chain
<1>9. ASSUME NEW i \in Node
      PROVE  /\ next'[i] \in Node \union {NULL} /\ prev'[i] \in Node \union {NULL}
             /\ entry'[i] \in Entry
             /\ i \notin live' => next'[i] = NULL
  <2>1. CASE i \in ToSet(nodes)
    <3>1. PICK k \in 1..L : i = nodes[k]
      BY <1>5, <2>1
    <3>2. (k # L => k + 1 \in 1..L) /\ (k # 1 => k - 1 \in 1..L) /\ L \in 1..L
      BY <1>3
    <3>3. next'[i] \in Node \union {NULL} /\ prev'[i] \in Node \union {NULL}
      BY <1>5, <1>7, <3>1, <3>2
    <3> QED BY <1>3, <1>4, <1>7, <2>1, <3>1, <3>3
  <2>2. CASE i \notin ToSet(nodes)
    <3>1. ~ \E k \in 1..(L - 1) : nodes[k] = i
      <4>1. \A k \in 1..(L - 1) : k \in 1..L
        BY <1>3
      <4> QED BY <1>5, <2>2, <4>1
    <3> QED BY <1>4, <2>2, <3>1 DEF Entry
  <2> QED BY <2>1, <2>2
<1>10. TypeOK'
  <2>1. /\ next' \in [Node -> Node \union {NULL}] /\ prev' \in [Node -> Node \union {NULL}]
        /\ entry' \in [Node -> Entry]
    BY <1>4, <1>9
  <2>2. child' \in Node \union {NULL}
    <3>1. L # 0 => 1 \in 1..L
      BY <1>3
    <3> QED BY <1>3, <1>4, <1>5, <3>1
  <2>3. live' \subseteq Node
    BY <1>4, <1>5
  <2>4. /\ array' \in BOOLEAN /\ rc' \in {"SUCCESS", "ERROR"} /\ array'
        /\ type' # "UNKNOWO" /\ type' \in Types /\ loop' \in BOOLEAN /\ starved' \in BOOLEAN
    BY <1>4 DEF Load, MemoryInv, TypeOK
  <2> QED BY <2>1, <2>2, <2>3, <2>4 DEF TypeOK
<1>11. JobsOf(nodes)' = s
  <2>1. s = [k \in 1..L |-> s[k]]
    BY <1>2, <1>3, LenProperties
  <2>2. JobsOf(nodes)' = [k \in 1..L |-> entry'[nodes[k]]]
    BY <1>5 DEF JobsOf
  <2> QED BY <1>7, <2>1, <2>2
<1>12. MemoryInv' /\ Jobs' = JobsOf(nodes)'
  BY <1>4, <1>8, <1>9, <1>10, ChainAfter
<1> QED BY <1>1, <1>2, <1>11, <1>12

LEMMA AddJobs ==
  ASSUME MemoryInv, NEW n \in Name, NEW t \in Types, AddJob(n, t)
  PROVE  /\ MemoryInv'
         /\ Jobs' = Jobs \/ \E e \in Entry : Jobs' = Append(Jobs, e)
         /\ rc' = "SUCCESS" /\ ~starved' => Jobs' = Append(Jobs, Job(n))
<1> PICK s : s = Elements
  OBVIOUS
<1>1. /\ Chain(s) /\ ToSet(s) \subseteq live /\ (starved \/ live = ToSet(s))
      /\ \A i \in Node \ live : next[i] = NULL
      /\ Jobs = JobsOf(s) /\ LinksTyped /\ TypeOK
      /\ entry \in [Node -> Entry] /\ live \subseteq Node
  BY DEF MemoryInv, Jobs, JobsOf, TypeOK, LinksTyped
<1>2. Job(n) \in Entry /\ Job(NULL) \in Entry
  BY DEF Entry
<1>3. CASE ~Fits(t)
  <2>1. rc' = "ERROR" /\ UNCHANGED <<links, type, starved, loop>>
    BY <1>3 DEF AddJob
  <2>2. TypeOK'
    BY <1>1, <2>1 DEF TypeOK, links
  <2> QED BY <2>1, <2>2, SameLinks DEF links
<1>4. CASE Fits(t)
  <2>1. /\ rc' = "SUCCESS" /\ type' = t /\ t # "UNKNOWO" /\ loop' = loop
        /\ loop \in BOOLEAN /\ array \in BOOLEAN /\ starved \in BOOLEAN
    BY <1>1, <1>4 DEF AddJob, Fits, TypeOK
  <2>2. ASSUME NEW i \in Node \ live, NEW e \in {Job(n), Job(NULL)},
               array' = TRUE, NewEntry(i, e), Attach(i), starved' = (starved \/ e # Job(n))
        PROVE  /\ MemoryInv' /\ Jobs' = Append(Jobs, e)
               /\ ~starved' => e = Job(n)
    <3>1. e \in Entry
      BY <1>2
    <3>2. /\ Chain(Append(s, i))' /\ LinksTyped'
          /\ ToSet(Append(s, i)) = ToSet(s) \union {i}
          /\ \A j \in Node \ live' : next'[j] = next[j]
          /\ JobsOf(Append(s, i))' = Append(JobsOf(s), e)
      BY <1>1, <2>2, <3>1, AddedElement
    <3>3. live' = live \union {i} /\ live' \subseteq Node /\ entry' \in [Node -> Entry]
      BY <1>1, <2>2, <3>1 DEF NewEntry
    <3>4. starved' \in BOOLEAN
      BY <2>1, <2>2
    <3>5. TypeOK'
      BY <2>1, <2>2, <3>2, <3>3, <3>4 DEF TypeOK, LinksTyped
    <3>6. /\ ToSet(Append(s, i)) \subseteq live'
          /\ starved' \/ live' = ToSet(Append(s, i))
          /\ \A j \in Node \ live' : next'[j] = NULL
      BY <1>1, <2>2, <3>2, <3>3
    <3> QED BY <1>1, <2>2, <3>2, <3>5, <3>6, ChainAfter
  <2>3. ASSUME NEW i \in Node \ live, ~array, NEW e \in Entry, NewEntry(i, e), starved' = TRUE,
               UNCHANGED <<array, child, next, prev>>
        PROVE  MemoryInv' /\ Jobs' = Jobs
    <3>1. /\ live' \subseteq Node /\ live' = live \union {i} /\ entry' \in [Node -> Entry]
          /\ JobsOf(s)' = JobsOf(s)
      BY <1>1, <2>3, NewElement DEF NewEntry
    <3>2. TypeOK'
      BY <1>1, <2>1, <2>3, <3>1 DEF TypeOK
    <3>3. Chain(s)'
      BY <1>1, <2>3, SameChain
    <3>4. ToSet(s) \subseteq live' /\ \A j \in Node \ live' : next'[j] = NULL
      BY <1>1, <2>3, <3>1
    <3> QED BY <1>1, <2>3, <3>1, <3>2, <3>3, <3>4, ChainAfter
  <2>4. ASSUME array' \in {array, TRUE}, starved' = TRUE,
               UNCHANGED <<child, next, prev, entry, live>>
        PROVE  MemoryInv' /\ Jobs' = Jobs
    <3>1. TypeOK'
      BY <1>1, <2>1, <2>4 DEF TypeOK
    <3> QED BY <2>4, <3>1, SameLinks
  <2>5. \/ \E i \in Node \ live, e \in {Job(n), Job(NULL)} :
             /\ array' = TRUE /\ NewEntry(i, e) /\ Attach(i)
             /\ starved' = (starved \/ e # Job(n))
        \/ \E i \in Node \ live :
             /\ ~array /\ NewEntry(i, Job(n)) /\ starved' = TRUE
             /\ UNCHANGED <<array, child, next, prev>>
        \/ /\ array' \in {array, TRUE} /\ starved' = TRUE
           /\ UNCHANGED <<child, next, prev, entry, live>>
    BY <1>4 DEF AddJob
  <2> QED BY <1>2, <2>2, <2>3, <2>4, <2>5
<1> QED BY <1>3, <1>4

LEMMA DeleteJobs ==
  ASSUME MemoryInv, NEW d \in 1..Len(Elements), DeleteItem(Elements[d]),
         UNCHANGED <<type, loop, starved>>, rc' \in {"SUCCESS", "ERROR"}
  PROVE  MemoryInv' /\ Jobs' = RemoveAt(Jobs, d)
<1> PICK s : s = Elements
  OBVIOUS
<1>1. /\ Chain(s) /\ ToSet(s) \subseteq live /\ (starved \/ live = ToSet(s))
      /\ \A i \in Node \ live : next[i] = NULL
      /\ Jobs = JobsOf(s) /\ LinksTyped /\ TypeOK
      /\ entry \in [Node -> Entry] /\ live \subseteq Node
  BY DEF MemoryInv, Jobs, JobsOf, TypeOK, LinksTyped
<1> DEFINE r == RemoveAt(s, d)
<1>2. d \in 1..Len(s) /\ DeleteItem(s[d])
  OBVIOUS
<1>3. /\ Chain(r)' /\ LinksTyped'
      /\ live' \subseteq live /\ ToSet(r) \subseteq live'
      /\ starved \/ live' = ToSet(r)
      /\ \A i \in Node \ live' : next'[i] = NULL
      /\ JobsOf(r)' = RemoveAt(JobsOf(s), d)
  BY <1>1, <1>2, DeletedElement
<1> HIDE DEF r
<1>4. child' # NULL => array
  <2>1. child # NULL
    <3>1. s \in Seq(Node) /\ 1 \in 1..Len(s) /\ s # <<>>
      BY <1>1, <1>2, EmptySeq, LenProperties DEF Chain
    <3> QED BY <1>1, <3>1, ElementOfSeq, NullAssumption DEF Chain
  <2> QED BY <1>1, <2>1 DEF TypeOK
<1>5. TypeOK'
  BY <1>1, <1>2, <1>3, <1>4 DEF TypeOK, LinksTyped, DeleteItem
<1> QED BY <1>1, <1>3, <1>5, ChainAfter DEF r

(* The first job with the name is one of the list. *)
LEMMA NamedIsThere ==
  ASSUME MemoryInv, NEW n, Named(n) # 0
  PROVE  Named(n) \in 1..Len(Elements)
<1> DEFINE I == {k \in 1..Len(Jobs) : Jobs[k].object /\ Jobs[k].name = n}
<1>1. Named(n) = IF I # {} THEN Min(I) ELSE 0
  BY Zenon DEF Named, SelectInSeq
<1>2. Elements \in Seq(Node) /\ Len(Jobs) = Len(Elements)
  BY JobsTyped DEF MemoryInv, TypeOK, Chain, Jobs, JobsOf
<1>3. I \subseteq Nat /\ I \subseteq 1..Len(Jobs)
  BY <1>2, LenProperties
<1> QED BY <1>1, <1>2, <1>3, LeastElement

LEMMA DeleteNamedJobs ==
  ASSUME MemoryInv, NEW n \in Name, DeleteNamed(n)
  PROVE  /\ MemoryInv'
         /\ Jobs' = Jobs \/ (Named(n) # 0 /\ Jobs' = RemoveAt(Jobs, Named(n)))
<1>1. CASE Named(n) # 0 /\ DeleteItem(Elements[Named(n)]) /\ rc' = "SUCCESS"
  BY <1>1, NamedIsThere, DeleteJobs DEF DeleteNamed
<1>2. CASE rc' = "ERROR" /\ UNCHANGED links
  <2>1. UNCHANGED <<type, loop, starved>>
    BY DEF DeleteNamed
  <2>2. TypeOK'
    BY <1>2, <2>1 DEF MemoryInv, TypeOK, links
  <2> QED BY <1>2, <2>1, <2>2, SameLinks DEF links
<1> QED BY <1>1, <1>2 DEF DeleteNamed

LEMMA RoundJobs ==
  ASSUME MemoryInv, Round
  PROVE  /\ MemoryInv'
         /\ Jobs' = Jobs \/ (Jobs # <<>> /\ Head(Jobs).object /\ Jobs' = Tail(Jobs))
<1>1. CASE entry[child].object /\ DeleteItem(child) /\ UNCHANGED <<loop, rc>>
  <2>1. /\ Elements \in Seq(Node) /\ Elements # <<>> /\ 1 \in 1..Len(Elements)
        /\ child = Elements[1]
    BY EmptySeq DEF Round, MemoryInv, Chain
  <2>2. MemoryInv' /\ Jobs' = RemoveAt(Jobs, 1)
    BY <1>1, <2>1, DeleteJobs DEF Round, MemoryInv, TypeOK
  <2>3. Jobs \in Seq(Entry) /\ Len(Jobs) = Len(Elements) /\ DOMAIN Elements = 1..Len(Elements)
    BY <2>1, JobsTyped, LenProperties DEF MemoryInv, TypeOK, Jobs, JobsOf
  <2>4. Jobs # <<>> /\ Head(Jobs) = entry[child]
    <3>1. Jobs # <<>>
      BY <2>1, <2>3, EmptySeq
    <3> QED BY <2>1, <2>3, <3>1 DEF Jobs
  <2> QED BY <1>1, <2>2, <2>3, <2>4, RemoveHeadIsTail
<1>2. CASE UNCHANGED links /\ loop' \in BOOLEAN /\ rc' \in {"SUCCESS", "ERROR"}
  <2>1. UNCHANGED <<type, starved>>
    BY DEF Round
  <2>2. TypeOK'
    BY <1>2, <2>1 DEF MemoryInv, TypeOK, links
  <2> QED BY <1>2, <2>1, <2>2, SameLinks DEF links
<1> QED BY <1>1, <1>2 DEF Round, MemoryInv, TypeOK

LEMMA ReleaseJobs ==
  ASSUME MemoryInv, Release
  PROVE  MemoryInv' /\ Jobs' = <<>>
<1>1. ToSet(Elements) \subseteq live /\ live' = live \ ToSet(Elements)
  BY DEF Release, Free, Elements, MemoryInv
<1>2. Chain(<<>>)' /\ ToSet(<<>>) = {}
  <2>1. <<>> \in Seq(Node) /\ Len(<<>>) = 0 /\ DOMAIN <<>> = {}
    BY EmptySeq, LenProperties
  <2> QED BY <2>1 DEF Chain, Release, ToSet, IsInjective
<1>3. entry' \in [Node -> Entry]
  BY DEF Release, Entry, MemoryInv, TypeOK
<1>4. TypeOK'
  BY <1>1, <1>3 DEF TypeOK, Release, MemoryInv
<1>5. starved' \/ live' = {}
  BY <1>1 DEF Release, MemoryInv
<1>6. MemoryInv' /\ child' = NULL
  BY <1>2, <1>4, <1>5, ChainAfter DEF Release
<1>7. (MemoryInv /\ child = NULL => Jobs = <<>>)'
  BY NoChild, PTL
<1> QED BY <1>6, <1>7

LEMMA InitMemory == Init => MemoryInv /\ Jobs = <<>>
<1> SUFFICES ASSUME Init PROVE MemoryInv /\ Jobs = <<>>
  OBVIOUS
<1>1. <<>> \in Seq(Node) /\ Len(<<>>) = 0 /\ DOMAIN <<>> = {}
  BY EmptySeq, LenProperties
<1>2. Chain(<<>>) /\ ToSet(<<>>) = {}
  BY <1>1 DEF Chain, Init, ToSet, IsInjective
<1>3. Elements = <<>>
  BY <1>2, ChainIsElements
<1>4. TypeOK
  BY DEF Init, TypeOK, Entry
<1>5. MemoryInv
  BY <1>2, <1>3, <1>4 DEF MemoryInv, Init
<1> QED BY <1>5, NoChild DEF Init

(* The loop begins or ends, or nothing happens. *)
LEMMA OtherJobs ==
  ASSUME MemoryInv, DeleteAll \/ LoopEnd \/ UNCHANGED vars
  PROVE  MemoryInv' /\ Jobs' = Jobs
<1>1. /\ UNCHANGED <<links, type, starved>>
      /\ loop' \in BOOLEAN /\ rc' \in {"SUCCESS", "ERROR"}
  BY DEF DeleteAll, LoopEnd, vars, MemoryInv, TypeOK
<1>2. TypeOK'
  BY <1>1 DEF MemoryInv, TypeOK, links
<1> QED BY <1>1, <1>2, SameLinks DEF links

LEMMA NextMemory == MemoryInv /\ [Next]_vars => MemoryInv'
BY LoadJobs, AddJobs, DeleteNamedJobs, RoundJobs, ReleaseJobs, OtherJobs DEF Next

LEMMA MemoryInvariance == Spec => []MemoryInv
BY InitMemory, NextMemory, PTL DEF Spec

-----------------------------------------------------------------------------
(* Theorems about one FJOB_CTX.                                             *)

(* No pointer leads anywhere but to an element, whatever allocation fails;  *)
(* what has elements is an array and has their type.                        *)
THEOREM TypeCorrect == Spec => []TypeOK
<1>1. MemoryInv => TypeOK
  BY DEF MemoryInv
<1> QED BY <1>1, MemoryInvariance, PTL

(* After any sequence of calls the list can be walked in both directions,   *)
(* and the first element's prev is the last one, on which                   *)
(* add_item_to_array relies.                                                *)
THEOREM ListIsARing == Spec => []RingOK
<1>1. MemoryInv => RingOK
  <2> SUFFICES ASSUME MemoryInv PROVE RingOK
    OBVIOUS
  <2>1. DOMAIN Elements = 1..Len(Elements)
    BY LenProperties DEF MemoryInv, Chain
  <2> QED BY <2>1 DEF MemoryInv, Chain, RingOK, Last
<1> QED BY <1>1, MemoryInvariance, PTL

(* Unless memory has run out, what is allocated is what is in the list:     *)
(* cJSON_DeleteItemFromArray frees one element and not those behind it.     *)
THEOREM NothingLeaks == Spec => []NoLeak
<1>1. MemoryInv => NoLeak
  BY DEF MemoryInv, NoLeak
<1> QED BY <1>1, MemoryInvariance, PTL

(* Unless memory has run out, a job answered with success has been appended *)
(* to the list, whose other jobs are as they were (demo_add_job_to_ctx).    *)
THEOREM AddedJobsAreLast == Spec => AddAppends
<1> DEFINE Claim == \A n \in Name, t \in Types :
             AddJob(n, t) /\ rc' = "SUCCESS" /\ ~starved' => Jobs' = Append(Jobs, Job(n))
<1>1. MemoryInv => Claim
  BY AddJobs
<1>2. MemoryInv => [Claim]_vars
  BY <1>1
<1> QED BY <1>2, MemoryInvariance, PTL DEF AddAppends

(* What the pointers do implements JobArray.tla: one FJOB_CTX is a sequence *)
(* of jobs.                                                                 *)
THEOREM ContextIsAnArray == Spec => ImplementsArray
<1>1. Init => Sequence!Init
  BY InitMemory DEF Sequence!Init
<1>2. MemoryInv /\ [Next]_vars => [Sequence!Next]_Jobs
  <2> SUFFICES ASSUME MemoryInv, [Next]_vars PROVE [Sequence!Next]_Jobs
    OBVIOUS
  <2>1. ASSUME NEW s \in BoundedSeq(Entry, MaxLoad), Load(s) PROVE Sequence!Load
    BY <2>1, LoadJobs DEF Sequence!Load
  <2>2. ASSUME NEW n \in Name, NEW t \in Types, AddJob(n, t)
        PROVE  Jobs' = Jobs \/ \E e \in Entry : Sequence!Add(e)
    BY <2>2, AddJobs DEF Sequence!Add
  <2>3. ASSUME NEW n \in Name, DeleteNamed(n)
        PROVE  Jobs' = Jobs \/ Sequence!RemoveNamed(n)
    <3>1. Named(n) = Sequence!Find(n)
      BY Zenon DEF Named, Sequence!Find, SelectInSeq, Min, Sequence!SelectInSeq, Sequence!Min
    <3>2. RemoveAt(Jobs, Named(n)) = Sequence!RemoveAt(Jobs, Named(n))
      BY Zenon DEF RemoveAt, Sequence!RemoveAt
    <3> QED BY <2>3, <3>1, <3>2, DeleteNamedJobs DEF Sequence!RemoveNamed
  <2>4. ASSUME Round PROVE Jobs' = Jobs \/ Sequence!RemoveHead
    BY <2>4, RoundJobs DEF Sequence!RemoveHead
  <2>5. ASSUME Release PROVE Sequence!Clear
    BY <2>5, ReleaseJobs DEF Sequence!Clear
  <2>6. ASSUME DeleteAll \/ LoopEnd \/ UNCHANGED vars PROVE Jobs' = Jobs
    BY <2>6, OtherJobs
  <2> QED BY <2>1, <2>2, <2>3, <2>4, <2>5, <2>6 DEF Next, Sequence!Next
<1> QED BY <1>1, <1>2, MemoryInvariance, PTL DEF Spec, ImplementsArray, Sequence!Spec

-----------------------------------------------------------------------------
(* The print buffer.                                                        *)

(* Growing gives enough, and never more than INT_MAX. *)
LEMMA NewSizeFits ==
  ASSUME NEW wanted \in Nat, NewSize(wanted) > 0
  PROVE  NewSize(wanted) \in 0..IntMax /\ (wanted > 0 => wanted <= NewSize(wanted))
BY SizeAssumption DEF NewSize

LEMMA EnsureInside ==
  ASSUME InsideBuffer, NEW needed \in Nat, Ensure(needed)
  PROVE  InsideBuffer'
<1> DEFINE wanted == needed + offset + 1
<1>1. wanted \in Nat /\ wanted > 0 /\ offset' = offset
  BY DEF Ensure, InsideBuffer
<1>2. CASE Refuse
  BY <1>1, <1>2 DEF Refuse, InsideBuffer
<1>3. CASE wanted <= length /\ granted' = needed + 1 /\ UNCHANGED length
  BY <1>1, <1>3 DEF InsideBuffer
<1>4. CASE NewSize(wanted) > 0 /\ length' = NewSize(wanted) /\ granted' = needed + 1
  <2>1. length' \in 0..IntMax /\ wanted <= length'
    BY <1>1, <1>4, NewSizeFits
  <2> QED BY <1>1, <1>4, <2>1, SizeAssumption DEF InsideBuffer
<1>5. CASE length' = 0 /\ granted' = 0
  BY <1>1, <1>5, SizeAssumption DEF InsideBuffer
<1> QED BY <1>2, <1>3, <1>4, <1>5 DEF Ensure

(* InsideBuffer is inductive: ensure grants only what lies in the buffer    *)
(* (cJSON.c, ensure), and a write ends in front of the last byte granted.   *)
THEOREM WritesStayInside == BufferSpec => []InsideBuffer
<1>1. BufferInit => InsideBuffer
  BY SizeAssumption DEF BufferInit, InsideBuffer
<1>2. InsideBuffer /\ [BufferNext]_bufferVars => InsideBuffer'
  <2> SUFFICES ASSUME InsideBuffer, [BufferNext]_bufferVars PROVE InsideBuffer'
    OBVIOUS
  <2>1. CASE Open
    BY <2>1, SizeAssumption DEF Open, InsideBuffer
  <2>2. ASSUME NEW n \in Needs, Ensure(n) PROVE InsideBuffer'
    <3>1. n \in Nat
      BY SizeAssumption DEF Needs
    <3> QED BY <2>2, <3>1, EnsureInside
  <2>3. ASSUME NEW step \in 0..IntMax, Put(step) PROVE InsideBuffer'
    BY <2>3, SizeAssumption DEF Put, InsideBuffer
  <2>4. CASE Close
    BY <2>4, SizeAssumption DEF Close, InsideBuffer
  <2>5. CASE UNCHANGED bufferVars
    BY <2>5 DEF bufferVars, InsideBuffer
  <2> QED BY <2>1, <2>2, <2>3, <2>4, <2>5 DEF BufferNext
<1> QED BY <1>1, <1>2, PTL DEF BufferSpec
=============================================================================
