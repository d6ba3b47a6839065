---------------------------- MODULE LinkedListProofs ---------------------------
(******************************************************************************)
(* The list of list.c is a sequence, for any addresses, data and length.      *)
(*                                                                            *)
(* The invariant ListInv has a sequence of elements without repetition that   *)
(* are all there is in the heap, each leading to the next one.  Both walks    *)
(* meet it (WalkIs, ElementAt), and each call makes a longer, a shorter or    *)
(* another one of it: an element put in at a place (Inserted), taken out of   *)
(* one (Without), or a number of them off the front.                          *)
(******************************************************************************)
EXTENDS LinkedList, SequenceTheorems, FiniteSetTheorems, TLAPS

\* What Walk looks for: elements that next leads through to NULL, from hd on.
Follows(s, h, hd) ==
  /\ hd = IF s = <<>> THEN Null ELSE s[1]
  /\ \A i \in DOMAIN s : h[s[i]].next = IF i = Len(s) THEN Null ELSE s[i + 1]

\* They are all different and all there is.
Chained(s, h, hd) ==
  /\ s \in Seq(DOMAIN h)
  /\ Follows(s, h, hd)
  /\ \A i, j \in 1 .. Len(s) : s[i] = s[j] => i = j
  /\ \A e \in DOMAIN h : \E i \in 1 .. Len(s) : s[i] = e

HeapOK(h) ==
  /\ DOMAIN h \subseteq Node
  /\ h \in [DOMAIN h -> [data : Data, next : Node \cup {Null}]]

IsList(s) ==
  /\ HeapOK(heap)
  /\ Chained(s, heap, head)
  /\ elements_count = Len(s)

ListInv ==
  /\ \E s : IsList(s)
  /\ live \in BOOLEAN
  /\ live \/ elements_count = 0

--------------------------------------------------------------------------------
(******************************************************************************)
(* The two walks.                                                             *)
(******************************************************************************)

LEMMA LeastNatural ==
  ASSUME NEW T \in SUBSET Nat, T # {}
  PROVE  \E m \in T : \A k \in T : m <= k
<1>1. IsWellFoundedOn(OpToRel(<, Nat), Nat)
  BY NatLessThanWellFounded
<1>2. PICK m \in T : \A k \in T : ~ (<<k, m>> \in OpToRel(<, Nat))
  BY <1>1, WFMin
<1>3. \A k \in T : k \in Nat /\ m \in Nat
  BY <1>2
<1>4. \A k \in T : ~ (k < m)
  BY <1>2, <1>3 DEF OpToRel
<1>5. QED
  BY <1>3, <1>4

LEMMA Induction ==
  ASSUME NEW T, 0 \in T, \A n \in Nat : n \in T => n + 1 \in T
  PROVE  Nat \subseteq T
<1> SUFFICES ASSUME Nat \ T # {} PROVE FALSE
  OBVIOUS
<1>1. PICK m \in Nat \ T : \A k \in Nat \ T : m <= k
  BY LeastNatural
<1>2. m # 0 /\ m - 1 \in Nat /\ m - 1 \notin Nat \ T
  BY <1>1
<1>3. QED
  BY <1>1, <1>2

\* What is known of the elements of a chain, in the form it is used.
LEMMA ChainTypes ==
  ASSUME NEW h, NEW hd, NEW s, HeapOK(h), Chained(s, h, hd)
  PROVE  /\ Len(s) \in Nat /\ DOMAIN s = 1 .. Len(s) /\ s \in [1 .. Len(s) -> DOMAIN h]
         /\ \A i \in 1 .. Len(s) : s[i] \in DOMAIN h /\ s[i] \in Node /\ s[i] # Null
         /\ Len(s) = 0 <=> s = <<>>
<1>1. s \in Seq(DOMAIN h)
  BY DEF Chained
<1>2. Len(s) \in Nat /\ DOMAIN s = 1 .. Len(s) /\ s \in [1 .. Len(s) -> DOMAIN h]
  BY <1>1, LenProperties
<1>3. \A i \in 1 .. Len(s) : s[i] \in DOMAIN h /\ s[i] \in Node /\ s[i] # Null
  BY <1>2, LinkedListAssumption DEF HeapOK
<1>4. Len(s) = 0 <=> s = <<>>
  BY <1>1
<1>5. QED
  BY <1>2, <1>3, <1>4

\* There is one way to follow next to NULL.
LEMMA OneWay ==
  ASSUME NEW h, NEW hd, NEW s, HeapOK(h), Chained(s, h, hd),
         NEW t \in Seq(DOMAIN h), Follows(t, h, hd)
  PROVE  t = s
<1> DEFINE N == Len(s)
           M == Len(t)
           T == {n \in Nat : n < N => (n < M /\ t[n + 1] = s[n + 1])}
<1>1. /\ N \in Nat /\ DOMAIN s = 1 .. N
      /\ \A i \in 1 .. N : s[i] \in DOMAIN h /\ s[i] # Null
      /\ (N = 0 <=> s = <<>>)
  BY ChainTypes
<1>2. /\ M \in Nat /\ DOMAIN t = 1 .. M
      /\ \A i \in 1 .. M : t[i] \in DOMAIN h
      /\ (M = 0 <=> t = <<>>)
  BY LenProperties
<1>3. \A e \in DOMAIN h : e # Null
  BY LinkedListAssumption DEF HeapOK
<1>4. hd = (IF N = 0 THEN Null ELSE s[1]) /\ hd = (IF M = 0 THEN Null ELSE t[1])
  BY <1>1, <1>2 DEF Chained, Follows
<1>5. \A i \in 1 .. N : h[s[i]].next = IF i = N THEN Null ELSE s[i + 1]
  BY <1>1 DEF Chained, Follows
<1>6. \A i \in 1 .. M : h[t[i]].next = IF i = M THEN Null ELSE t[i + 1]
  BY <1>2 DEF Follows
<1>0. s \in Seq(DOMAIN h)
  BY DEF Chained
<1> HIDE DEF N, M
<1>7. 0 \in T
  <2> SUFFICES ASSUME 0 < N PROVE 0 < M /\ t[1] = s[1]
    OBVIOUS
  <2>1. hd = s[1] /\ s[1] # Null
    BY <1>1, <1>4
  <2>2. QED
    BY <1>2, <1>4, <2>1
<1>8. ASSUME NEW n \in Nat, n \in T PROVE n + 1 \in T
  <2> SUFFICES ASSUME n + 1 < N
               PROVE  n + 1 < M /\ t[(n + 1) + 1] = s[(n + 1) + 1]
    OBVIOUS
  <2>0. n < M /\ t[n + 1] = s[n + 1]
    BY <1>1, <1>8
  <2>1. /\ n + 1 \in 1 .. N /\ (n + 1) + 1 \in 1 .. N /\ n + 1 # N
        /\ n + 1 \in 1 .. M
    BY <1>1, <1>2, <2>0
  <2>2. h[s[n + 1]].next = s[(n + 1) + 1] /\ s[(n + 1) + 1] # Null
    BY <1>1, <1>5, <2>1
  <2>3. n + 1 # M /\ t[(n + 1) + 1] = s[(n + 1) + 1]
    BY <1>6, <2>0, <2>1, <2>2
  <2>4. QED
    BY <1>2, <2>0, <2>3
<1>9. Nat \subseteq T
  <2> HIDE DEF T
  <2> QED
    BY <1>7, <1>8, Induction
<1>10. \A i \in 1 .. N : i <= M /\ t[i] = s[i]
  <2> SUFFICES ASSUME NEW i \in 1 .. N PROVE i <= M /\ t[i] = s[i]
    OBVIOUS
  <2>1. i - 1 \in Nat /\ i - 1 < N /\ (i - 1) + 1 = i
    BY <1>1
  <2>2. i - 1 < M /\ t[i] = s[i]
    BY <1>9, <2>1
  <2>3. QED
    BY <1>1, <1>2, <2>2
<1>11. M = N
  <2> SUFFICES ASSUME M # N PROVE FALSE
    OBVIOUS
  <2>1. N # 0 => N \in 1 .. N
    BY <1>1
  <2>2. N < M /\ N + 1 \in 1 .. M
    BY <1>1, <1>2, <1>10, <2>1
  <2>3. CASE N = 0
    <3>1. hd = Null /\ hd = t[1] /\ t[1] \in DOMAIN h
      BY <1>2, <1>4, <2>2, <2>3
    <3>2. QED
      BY <1>3, <3>1
  <2>4. CASE N # 0
    <3>1. N \in 1 .. N /\ N \in 1 .. M
      BY <1>1, <1>2, <2>2, <2>4
    <3>2. h[s[N]].next = Null /\ t[N] = s[N]
      BY <1>5, <1>10, <3>1
    <3>3. h[t[N]].next = t[N + 1] /\ t[N + 1] \in DOMAIN h
      BY <1>2, <1>6, <2>2, <3>1
    <3>4. QED
      BY <1>3, <3>2, <3>3
  <2>5. QED
    BY <2>3, <2>4
<1>12. Len(t) = Len(s) /\ \A i \in 1 .. Len(t) : t[i] = s[i]
  BY <1>10, <1>11 DEF N, M
<1>13. QED
  BY <1>0, <1>12, SeqEqual

\* A chain is no longer than its heap.
LEMMA ChainSize ==
  ASSUME NEW h, NEW hd, NEW s, HeapOK(h), Chained(s, h, hd)
  PROVE  s \in SeqOf(DOMAIN h, Cardinality(DOMAIN h))
<1> DEFINE N == Len(s)
<1>1. N \in Nat /\ s \in [1 .. N -> DOMAIN h]
  BY ChainTypes
<1>2. /\ \A i, j \in 1 .. N : s[i] = s[j] => i = j
      /\ \A e \in DOMAIN h : \E i \in 1 .. N : s[i] = e
  BY DEF Chained
<1>3. IsFiniteSet(1 .. N) /\ Cardinality(1 .. N) = N
  BY <1>1, FS_Interval
<1> HIDE DEF N
<1>4. s \in Injection(1 .. N, DOMAIN h)
  BY <1>1, <1>2 DEF Injection, IsInjective
<1>5. s \in Surjection(1 .. N, DOMAIN h)
  BY <1>1, <1>2 DEF Surjection
<1>6. ExistsBijection(1 .. N, DOMAIN h)
  BY <1>4, <1>5 DEF ExistsBijection, Bijection
<1>7. Cardinality(DOMAIN h) = N
  BY <1>3, <1>6, FS_Bijection
<1>8. QED
  BY <1>1, <1>7 DEF SeqOf

LEMMA WalkIs ==
  \A s : HeapOK(heap) /\ Chained(s, heap, head) => Walk = s
<1> SUFFICES ASSUME NEW s, HeapOK(heap), Chained(s, heap, head) PROVE Walk = s
  OBVIOUS
<1> DEFINE S == SeqOf(DOMAIN heap, Cardinality(DOMAIN heap))
<1>1. s \in S /\ Follows(s, heap, head)
  BY ChainSize DEF Chained
<1>2. Walk = CHOOSE t \in S : Follows(t, heap, head)
  BY DEF Walk, Follows
<1>3. \A t \in S : t \in Seq(DOMAIN heap)
  BY DEF SeqOf
<1> HIDE DEF S
<1>4. Walk \in S /\ Follows(Walk, heap, head)
  BY <1>1, <1>2
<1>5. QED
  BY <1>3, <1>4, OneWay

LEMMA WalkIsNext ==
  (\A s : HeapOK(heap) /\ Chained(s, heap, head) => Walk = s)'
BY WalkIs, PTL

\* Following next from the head, as far as the count goes.
LEMMA AfterIs ==
  ASSUME NEW s, HeapOK(heap), Chained(s, heap, head), elements_count = Len(s),
         NEW i \in 0 .. Len(s) - 1
  PROVE  After[i] = s[i + 1]
<1> DEFINE N == Len(s)
           Is(f) == f = [k \in 0 .. N |-> IF k = 0 THEN head ELSE heap[f[k - 1]].next]
           chain == [k \in 0 .. N |-> IF k = N THEN Null ELSE s[k + 1]]
           T == {n \in Nat : n < N => After[n] = s[n + 1]}
<1>1. N \in Nat /\ DOMAIN s = 1 .. N /\ (N = 0 <=> s = <<>>)
  BY ChainTypes
<1>2. head = IF N = 0 THEN Null ELSE s[1]
  BY <1>1 DEF Chained, Follows
<1>3. \A k \in 1 .. N : heap[s[k]].next = IF k = N THEN Null ELSE s[k + 1]
  BY <1>1 DEF Chained, Follows
<1>4. After = CHOOSE f : Is(f)
  BY DEF After
<1> HIDE DEF N
<1>5. Is(chain)
  <2>1. ASSUME NEW k \in 0 .. N
        PROVE  chain[k] = IF k = 0 THEN head ELSE heap[chain[k - 1]].next
    <3>1. CASE k = 0
      BY <1>1, <1>2, <3>1
    <3>2. CASE k # 0
      <4>1. k \in 1 .. N /\ k - 1 \in 0 .. N /\ k - 1 # N /\ (k - 1) + 1 = k
        BY <1>1, <3>2
      <4>2. chain[k - 1] = s[k]
        BY <4>1
      <4>3. QED
        BY <1>3, <3>2, <4>1, <4>2
    <3>3. QED
      BY <3>1, <3>2
  <2>2. QED
    BY <2>1
<1> HIDE DEF chain
<1>6. Is(After)
  BY <1>4, <1>5
<1>7. 0 \in T
  BY <1>1, <1>2, <1>6
<1>8. ASSUME NEW n \in Nat, n \in T PROVE n + 1 \in T
  <2> SUFFICES ASSUME n + 1 < N PROVE After[n + 1] = s[(n + 1) + 1]
    OBVIOUS
  <2>1. /\ n + 1 \in 0 .. N /\ n + 1 # 0 /\ (n + 1) - 1 = n
        /\ n + 1 \in 1 .. N /\ n + 1 # N /\ After[n] = s[n + 1]
    BY <1>1, <1>8
  <2>2. After[n + 1] = heap[After[n]].next
    BY <1>6, <2>1
  <2>3. QED
    BY <1>3, <2>1, <2>2
<1>9. Nat \subseteq T
  <2> HIDE DEF T
  <2> QED
    BY <1>7, <1>8, Induction
<1>10. QED
  BY <1>1, <1>9 DEF N

\* list_get_element(i) is the element at place i, counted from 0.
LEMMA ElementAt ==
  ASSUME NEW s, HeapOK(heap), Chained(s, heap, head), elements_count = Len(s),
         NEW i \in Int
  PROVE  list_get_element(i) = IF 0 <= i /\ i < Len(s) THEN s[i + 1] ELSE Null
<1>1. Len(s) \in Nat
  BY ChainTypes
<1>2. 0 <= i /\ i < Len(s) => After[i] = s[i + 1]
  BY <1>1, AfterIs
<1>3. QED
  BY <1>1, <1>2 DEF list_get_element

--------------------------------------------------------------------------------
(******************************************************************************)
(* What the calls make of a chain: g and gd are the heap and the head after.  *)
(******************************************************************************)

\* The data of the elements of a chain.
Contents(s, h) == [i \in 1 .. Len(s) |-> h[s[i]].data]

LEMMA IsSequence ==
  ASSUME NEW S, NEW n \in Nat, NEW f \in [1 .. n -> S]
  PROVE  f \in Seq(S) /\ Len(f) = n /\ (n = 0 <=> f = <<>>)
<1>1. f \in Seq(S)
  BY SeqDef
<1>2. Len(f) = n
  BY <1>1, LenProperties
<1>3. QED
  BY <1>1, <1>2

LEMMA ContentsType ==
  ASSUME NEW h, NEW hd, NEW s, HeapOK(h), Chained(s, h, hd)
  PROVE  Contents(s, h) \in Seq(Data) /\ Len(Contents(s, h)) = Len(s)
<1>1. Len(s) \in Nat /\ \A i \in 1 .. Len(s) : s[i] \in DOMAIN h
  BY ChainTypes
<1>2. \A n \in DOMAIN h : h[n].data \in Data
  BY DEF HeapOK
<1>3. Contents(s, h) \in [1 .. Len(s) -> Data]
  BY <1>1, <1>2 DEF Contents
<1>4. QED
  BY <1>1, <1>3, IsSequence

\* A chain of n elements, place by place.
Places(t, n, h, hd) ==
  /\ t \in [1 .. n -> DOMAIN h]
  /\ hd = IF n = 0 THEN Null ELSE t[1]
  /\ \A i \in 1 .. n : h[t[i]].next = IF i = n THEN Null ELSE t[i + 1]
  /\ \A i, j \in 1 .. n : t[i] = t[j] => i = j
  /\ \A e \in DOMAIN h : \E i \in 1 .. n : t[i] = e

LEMMA PlacesChain ==
  ASSUME NEW h, NEW hd, NEW n \in Nat, NEW t, Places(t, n, h, hd)
  PROVE  Chained(t, h, hd) /\ Len(t) = n
<1> USE DEF Places
<1>1. t \in Seq(DOMAIN h) /\ Len(t) = n /\ (n = 0 <=> t = <<>>)
  BY IsSequence
<1>2. DOMAIN t = 1 .. n
  OBVIOUS
<1>3. hd = IF t = <<>> THEN Null ELSE t[1]
  BY <1>1
<1>4. \A i \in DOMAIN t : h[t[i]].next = IF i = Len(t) THEN Null ELSE t[i + 1]
  BY <1>1, <1>2
<1>5. Follows(t, h, hd)
  BY <1>3, <1>4 DEF Follows
<1>6. QED
  BY <1>1, <1>5 DEF Chained

LEMMA ChainPlaces ==
  ASSUME NEW h, NEW hd, NEW s, HeapOK(h), Chained(s, h, hd)
  PROVE  Len(s) \in Nat /\ Places(s, Len(s), h, hd)
<1>1. /\ Len(s) \in Nat /\ DOMAIN s = 1 .. Len(s) /\ s \in [1 .. Len(s) -> DOMAIN h]
      /\ (Len(s) = 0 <=> s = <<>>)
  BY ChainTypes
<1>2. hd = IF Len(s) = 0 THEN Null ELSE s[1]
  BY <1>1 DEF Chained, Follows
<1>3. \A i \in 1 .. Len(s) : h[s[i]].next = IF i = Len(s) THEN Null ELSE s[i + 1]
  BY <1>1 DEF Chained, Follows
<1>4. QED
  BY <1>1, <1>2, <1>3 DEF Chained, Places

\* The heap that Link makes, and the chain with an element of data d behind the
\* first k of s.
Linked(h, e, d, previous, next) ==
  [n \in DOMAIN h \cup {e} |->
     IF n = e THEN [data |-> d, next |-> next]
     ELSE IF n = previous THEN [h[n] EXCEPT !.next = e] ELSE h[n]]

Longer(t, g, gd, s, h, k, d) ==
  /\ Chained(t, g, gd)
  /\ Len(t) = Len(s) + 1
  /\ \A j \in 1 .. Len(t) : g[t[j]].data =
       IF j <= k THEN h[s[j]].data ELSE IF j = k + 1 THEN d ELSE h[s[j - 1]].data

LEMMA Inserted ==
  ASSUME NEW h, NEW hd, NEW s, HeapOK(h), Chained(s, h, hd),
         NEW k \in 0 .. Len(s), NEW e \in Node \ DOMAIN h, NEW d \in Data, NEW g, NEW gd,
         NEW previous, previous = IF k = 0 THEN Null ELSE s[k],
         NEW next, next = IF k = Len(s) THEN Null ELSE s[k + 1],
         g = Linked(h, e, d, previous, next),
         gd = IF previous = Null THEN e ELSE hd
  PROVE  HeapOK(g) /\ \E t : Longer(t, g, gd, s, h, k, d)
<1> DEFINE N == Len(s)
           t == [j \in 1 .. N + 1 |-> IF j <= k THEN s[j] ELSE IF j = k + 1 THEN e ELSE s[j - 1]]
<1>1. /\ N \in Nat
      /\ \A i \in 1 .. N : s[i] \in DOMAIN h /\ s[i] \in Node /\ s[i] # Null
      /\ (N = 0 <=> s = <<>>) /\ DOMAIN s = 1 .. N
  BY ChainTypes
<1>2. \A i, j \in 1 .. N : s[i] = s[j] => i = j
  BY DEF Chained
<1>3. \A n \in DOMAIN h : \E i \in 1 .. N : s[i] = n
  BY DEF Chained
<1>4. \A i \in 1 .. N : h[s[i]].next = IF i = N THEN Null ELSE s[i + 1]
  BY <1>1 DEF Chained, Follows
<1>5. hd = IF N = 0 THEN Null ELSE s[1]
  BY <1>1 DEF Chained, Follows
<1>6. DOMAIN h \subseteq Node /\ \A n \in DOMAIN h : h[n] \in [data : Data, next : Node \cup {Null}]
  BY DEF HeapOK
<1>7. e \in Node /\ e \notin DOMAIN h /\ e # Null /\ Null \notin DOMAIN h
  BY <1>6, LinkedListAssumption
<1> HIDE DEF N
<1>8. next \in Node \cup {Null} /\ k \in Nat /\ k <= N
  <2>1. k \in 0 .. N /\ next = IF k = N THEN Null ELSE s[k + 1]
    BY DEF N
  <2>2. k \in Nat /\ k <= N /\ (k # N => k + 1 \in 1 .. N)
    BY <1>1, <2>1
  <2>3. next \in Node \cup {Null}
    BY <1>1, <2>1, <2>2
  <2>4. QED
    BY <2>2, <2>3
<1>g. g = [n \in DOMAIN h \cup {e} |->
             IF n = e THEN [data |-> d, next |-> next]
             ELSE IF n = previous THEN [h[n] EXCEPT !.next = e] ELSE h[n]]
  BY DEF Linked
<1>9. DOMAIN g = DOMAIN h \cup {e} /\ g[e] = [data |-> d, next |-> next]
  BY <1>g
<1>10. \A i \in 1 .. N : /\ g[s[i]].data = h[s[i]].data
                         /\ g[s[i]].next = IF i = k THEN e ELSE h[s[i]].next
  <2> SUFFICES ASSUME NEW i \in 1 .. N
               PROVE  /\ g[s[i]].data = h[s[i]].data
                      /\ g[s[i]].next = IF i = k THEN e ELSE h[s[i]].next
    OBVIOUS
  <2>1. s[i] \in DOMAIN h /\ s[i] # e /\ h[s[i]] \in [data : Data, next : Node \cup {Null}]
    BY <1>1, <1>6, <1>7
  <2>2. s[i] = previous <=> i = k
    BY <1>1, <1>2, <1>8
  <2>3. g[s[i]] = IF i = k THEN [h[s[i]] EXCEPT !.next = e] ELSE h[s[i]]
    BY <1>g, <2>1, <2>2
  <2>4. QED
    BY <2>1, <2>3
<1>11. HeapOK(g)
  <2>1. ASSUME NEW n \in DOMAIN g PROVE g[n] \in [data : Data, next : Node \cup {Null}]
    BY <1>6, <1>7, <1>8, <1>9, <1>g
  <2>2. QED
    BY <1>6, <1>9, <1>g, <2>1 DEF HeapOK
<1>12. t \in [1 .. N + 1 -> DOMAIN g]
  BY <1>1, <1>8, <1>9
<1>13. t \in Seq(DOMAIN g) /\ Len(t) = N + 1 /\ t # <<>> /\ DOMAIN t = 1 .. N + 1
  BY <1>1, <1>12, IsSequence
<1>14. \A j \in 1 .. N + 1 :
         t[j] = IF j <= k THEN s[j] ELSE IF j = k + 1 THEN e ELSE s[j - 1]
  OBVIOUS
<1> HIDE DEF t
<1>15. \A i, j \in 1 .. N + 1 : t[i] = t[j] => i = j
  <2> DEFINE at(j) == IF j <= k THEN j ELSE j - 1
  <2>1. \A j \in 1 .. N + 1 : j # k + 1 => at(j) \in 1 .. N /\ t[j] = s[at(j)] /\ t[j] # e
    BY <1>1, <1>7, <1>8, <1>14
  <2>2. t[k + 1] = e
    BY <1>1, <1>8, <1>14
  <2>3. \A i, j \in 1 .. N + 1 : i # k + 1 /\ j # k + 1 /\ at(i) = at(j) => i = j
    BY <1>1, <1>8
  <2> HIDE DEF at
  <2>4. QED
    BY <1>2, <2>1, <2>2, <2>3
<1>16. \A n \in DOMAIN g : \E j \in 1 .. N + 1 : t[j] = n
  <2> SUFFICES ASSUME NEW n \in DOMAIN g PROVE \E j \in 1 .. N + 1 : t[j] = n
    OBVIOUS
  <2>1. CASE n = e
    <3>1. k + 1 \in 1 .. N + 1 /\ t[k + 1] = e
      BY <1>1, <1>8, <1>14
    <3>2. QED
      BY <2>1, <3>1
  <2>2. CASE n # e
    <3>1. PICK i \in 1 .. N : s[i] = n
      BY <1>3, <1>9, <2>2
    <3>2. CASE i <= k
      <4>1. i \in 1 .. N + 1 /\ t[i] = s[i]
        BY <1>1, <1>14, <3>2
      <4>2. QED
        BY <3>1, <4>1
    <3>3. CASE ~ (i <= k)
      <4>1. i + 1 \in 1 .. N + 1 /\ ~ (i + 1 <= k) /\ i + 1 # k + 1 /\ (i + 1) - 1 = i
        BY <1>1, <1>8, <3>3
      <4>2. t[i + 1] = s[i]
        BY <1>14, <4>1
      <4>3. QED
        BY <3>1, <4>1, <4>2
    <3>4. QED
      BY <3>2, <3>3
  <2>3. QED
    BY <2>1, <2>2
<1>17. gd = t[1]
  <2>1. CASE k = 0
    <3>1. 1 \in 1 .. N + 1 /\ t[1] = e
      BY <1>1, <1>14, <2>1
    <3>2. QED
      BY <2>1, <3>1
  <2>2. CASE k # 0
    <3>1. /\ 1 \in 1 .. N + 1 /\ 1 <= k /\ N # 0 /\ k \in 1 .. N
      BY <1>1, <1>8, <2>2
    <3>2. previous # Null /\ t[1] = s[1]
      BY <1>1, <1>14, <2>2, <3>1
    <3>3. QED
      BY <1>5, <3>1, <3>2
  <2>3. QED
    BY <2>1, <2>2
<1>18. ASSUME NEW j \in 1 .. N + 1
       PROVE  g[t[j]].next = IF j = N + 1 THEN Null ELSE t[j + 1]
  <2>1. CASE j < k
    <3>1. j \in 1 .. N /\ j # k /\ j # N /\ j # N + 1 /\ j <= k /\ j + 1 \in 1 .. N + 1 /\ j + 1 <= k
      BY <1>1, <1>8, <2>1
    <3>2. t[j] = s[j] /\ t[j + 1] = s[j + 1]
      BY <1>14, <3>1
    <3>3. QED
      BY <1>4, <1>10, <3>1, <3>2
  <2>2. CASE j = k
    <3>1. /\ j \in 1 .. N /\ j # N + 1 /\ j <= k
          /\ j + 1 \in 1 .. N + 1 /\ ~ (j + 1 <= k) /\ j + 1 = k + 1
      BY <1>1, <1>8, <2>2
    <3>2. t[j] = s[j] /\ t[j + 1] = e
      BY <1>14, <3>1
    <3>3. QED
      BY <1>10, <2>2, <3>1, <3>2
  <2>3. CASE j = k + 1
    <3>1. ~ (j <= k) /\ t[j] = e
      BY <1>8, <1>14, <2>3
    <3>2. g[t[j]].next = IF k = N THEN Null ELSE s[k + 1]
      BY <1>9, <3>1 DEF N
    <3>3. k # N => /\ j + 1 \in 1 .. N + 1 /\ ~ (j + 1 <= k) /\ j + 1 # k + 1
                   /\ (j + 1) - 1 = k + 1
      BY <1>1, <1>8, <2>3
    <3>4. k # N => t[j + 1] = s[k + 1]
      BY <1>14, <3>3
    <3>5. k = N <=> j = N + 1
      BY <1>1, <1>8, <2>3
    <3>6. QED
      BY <3>2, <3>4, <3>5
  <2>4. CASE j > k + 1
    <3>1. PICK i \in 1 .. N : /\ i = j - 1 /\ i # k /\ ~ (j <= k) /\ j # k + 1
                              /\ (i = N <=> j = N + 1) /\ i + 1 = j
      BY <1>1, <1>8, <2>4
    <3>2. t[j] = s[i]
      BY <1>14, <3>1
    <3>3. h[s[i]].next = IF i = N THEN Null ELSE s[i + 1]
      BY <1>4
    <3>4. g[s[i]].next = h[s[i]].next
      BY <1>10, <3>1
    <3>5. g[t[j]].next = IF j = N + 1 THEN Null ELSE s[j]
      BY <3>1, <3>2, <3>3, <3>4
    <3>6. ASSUME j # N + 1 PROVE t[j + 1] = s[j]
      <4>1. PICK m \in 1 .. N + 1 : m = j + 1 /\ ~ (m <= k) /\ m # k + 1 /\ m - 1 = j
        BY <1>1, <1>8, <2>4, <3>6
      <4>2. t[m] = s[m - 1]
        BY <1>14, <4>1
      <4>3. QED
        BY <4>1, <4>2
    <3>7. QED
      BY <3>5, <3>6
  <2>5. QED
    BY <1>8, <2>1, <2>2, <2>3, <2>4
<1>19. Chained(t, g, gd)
  <2>1. N + 1 \in Nat /\ N + 1 # 0
    BY <1>1
  <2>2. \A i \in 1 .. N + 1 : g[t[i]].next = IF i = N + 1 THEN Null ELSE t[i + 1]
    BY <1>18
  <2>3. gd = IF N + 1 = 0 THEN Null ELSE t[1]
    BY <1>17, <2>1
  <2>4. Places(t, N + 1, g, gd)
    BY <1>12, <1>15, <1>16, <2>2, <2>3 DEF Places
  <2>5. QED
    BY <2>1, <2>4, PlacesChain
<1>20. \A j \in 1 .. N + 1 : g[t[j]].data =
         IF j <= k THEN h[s[j]].data ELSE IF j = k + 1 THEN d ELSE h[s[j - 1]].data
  <2> SUFFICES ASSUME NEW j \in 1 .. N + 1
               PROVE  g[t[j]].data = IF j <= k THEN h[s[j]].data
                                     ELSE IF j = k + 1 THEN d ELSE h[s[j - 1]].data
    OBVIOUS
  <2>1. CASE j <= k
    <3>1. j \in 1 .. N /\ t[j] = s[j]
      BY <1>1, <1>8, <1>14, <2>1
    <3>2. g[s[j]].data = h[s[j]].data
      BY <1>10, <3>1
    <3>3. QED
      BY <2>1, <3>1, <3>2
  <2>2. CASE j = k + 1
    <3>1. ~ (j <= k) /\ t[j] = e
      BY <1>8, <1>14, <2>2
    <3>2. QED
      BY <1>9, <2>2, <3>1
  <2>3. CASE ~ (j <= k) /\ j # k + 1
    <3>1. PICK i \in 1 .. N : i = j - 1
      BY <1>1, <1>8, <2>3
    <3>2. t[j] = s[i]
      BY <1>14, <2>3, <3>1
    <3>3. g[s[i]].data = h[s[i]].data
      BY <1>10
    <3>4. QED
      BY <2>3, <3>1, <3>2, <3>3
  <2>4. QED
    BY <2>1, <2>2, <2>3
<1>21. QED
  BY <1>11, <1>13, <1>19, <1>20 DEF N, Longer

\* The heap that Unlink makes, and the chain without the element at place k.
Unlinked(h, s, k) ==
  [n \in DOMAIN h \ {s[k]} |->
     IF k # 1 /\ n = s[k - 1] THEN [h[n] EXCEPT !.next = h[s[k]].next] ELSE h[n]]

Shorter(t, g, gd, s, h, k) ==
  /\ Chained(t, g, gd)
  /\ Len(t) = Len(s) - 1
  /\ \A j \in 1 .. Len(t) : g[t[j]].data =
       IF j < k THEN h[s[j]].data ELSE h[s[j + 1]].data

LEMMA Without ==
  ASSUME NEW h, NEW hd, NEW s, HeapOK(h), Chained(s, h, hd),
         NEW k \in 1 .. Len(s), NEW g, NEW gd,
         g = Unlinked(h, s, k),
         gd = IF k = 1 THEN h[s[k]].next ELSE hd
  PROVE  HeapOK(g) /\ \E t : Shorter(t, g, gd, s, h, k)
<1> DEFINE N == Len(s)
           at(j) == IF j < k THEN j ELSE j + 1
           t == [j \in 1 .. N - 1 |-> s[at(j)]]
<1>1. /\ N \in Nat /\ s \in [1 .. N -> DOMAIN h]
      /\ hd = IF N = 0 THEN Null ELSE s[1]
      /\ \A i \in 1 .. N : h[s[i]].next = IF i = N THEN Null ELSE s[i + 1]
      /\ \A i, j \in 1 .. N : s[i] = s[j] => i = j
      /\ \A n \in DOMAIN h : \E i \in 1 .. N : s[i] = n
  BY ChainPlaces DEF Places
<1>2. \A i \in 1 .. N : s[i] \in DOMAIN h
  BY <1>1
<1>3. DOMAIN h \subseteq Node /\ \A n \in DOMAIN h : h[n] \in [data : Data, next : Node \cup {Null}]
  BY DEF HeapOK
<1> HIDE DEF N
<1>4. k \in 1 .. N /\ k \in Nat /\ s[k] \in DOMAIN h
  <2>1. k \in 1 .. N
    BY DEF N
  <2>2. QED
    BY <1>1, <1>2, <2>1
<1>5. /\ DOMAIN g = DOMAIN h \ {s[k]}
      /\ \A n \in DOMAIN g : g[n] = IF k # 1 /\ n = s[k - 1]
                                    THEN [h[n] EXCEPT !.next = h[s[k]].next] ELSE h[n]
  BY DEF Unlinked
<1>6. h[s[k]].next \in Node \cup {Null}
  BY <1>3, <1>4
<1>7. HeapOK(g)
  <2>1. ASSUME NEW n \in DOMAIN g PROVE g[n] \in [data : Data, next : Node \cup {Null}]
    <3>1. h[n] \in [data : Data, next : Node \cup {Null}]
      BY <1>3, <1>5
    <3>2. QED
      BY <1>5, <1>6, <3>1
  <2>2. g = [n \in DOMAIN g |-> g[n]]
    BY DEF Unlinked
  <2>3. QED
    BY <1>3, <1>5, <2>1, <2>2 DEF HeapOK
<1>8. \A i \in 1 .. N : i # k =>
        /\ s[i] \in DOMAIN g
        /\ g[s[i]].data = h[s[i]].data
        /\ g[s[i]].next = IF i + 1 = k THEN h[s[k]].next ELSE h[s[i]].next
  <2> SUFFICES ASSUME NEW i \in 1 .. N, i # k
               PROVE  /\ s[i] \in DOMAIN g
                      /\ g[s[i]].data = h[s[i]].data
                      /\ g[s[i]].next = IF i + 1 = k THEN h[s[k]].next ELSE h[s[i]].next
    OBVIOUS
  <2>1. s[i] \in DOMAIN g /\ h[s[i]] \in [data : Data, next : Node \cup {Null}]
    BY <1>1, <1>2, <1>3, <1>4, <1>5
  <2>2. (k # 1 /\ s[i] = s[k - 1]) <=> i + 1 = k
    <3>1. CASE k = 1
      BY <3>1
    <3>2. CASE k # 1
      <4>1. PICK m \in 1 .. N : m = k - 1
        BY <1>1, <1>4, <3>2
      <4>2. s[i] = s[m] <=> i = m
        BY <1>1
      <4>3. QED
        BY <1>4, <3>2, <4>1, <4>2
    <3>3. QED
      BY <3>1, <3>2
  <2>3. g[s[i]] = IF i + 1 = k THEN [h[s[i]] EXCEPT !.next = h[s[k]].next] ELSE h[s[i]]
    BY <1>5, <2>1, <2>2
  <2>4. QED
    BY <2>1, <2>3
<1>9. \A j \in 1 .. N - 1 : at(j) \in 1 .. N /\ at(j) # k
  BY <1>1, <1>4
<1>10. \A i, j \in 1 .. N - 1 : at(i) = at(j) => i = j
  BY <1>1, <1>4
<1>11. \A i \in 1 .. N : i # k => \E j \in 1 .. N - 1 : at(j) = i
  <2> SUFFICES ASSUME NEW i \in 1 .. N, i # k PROVE \E j \in 1 .. N - 1 : at(j) = i
    OBVIOUS
  <2>1. CASE i < k
    <3>1. i \in 1 .. N - 1 /\ at(i) = i
      BY <1>1, <1>4, <2>1
    <3>2. QED
      BY <3>1
  <2>2. CASE ~ (i < k)
    <3>1. i - 1 \in 1 .. N - 1 /\ at(i - 1) = i
      BY <1>1, <1>4, <2>2
    <3>2. QED
      BY <3>1
  <2>3. QED
    BY <2>1, <2>2
<1>12. \A j \in 1 .. N - 1 : /\ (j = N - 1 /\ at(j) + 1 = k => k = N)
                             /\ (j # N - 1 /\ at(j) + 1 = k => k # N /\ at(j + 1) = k + 1)
                             /\ (j = N - 1 /\ at(j) + 1 # k => at(j) = N)
                             /\ (j # N - 1 /\ at(j) + 1 # k => at(j) # N /\ at(j + 1) = at(j) + 1)
                             /\ (j # N - 1 => j + 1 \in 1 .. N - 1)
  BY <1>1, <1>4
<1>13. \A j \in 1 .. N - 1 : at(j) = IF j < k THEN j ELSE j + 1
  OBVIOUS
<1>14. N - 1 \in Nat /\ (N - 1 # 0 => /\ 1 \in 1 .. N - 1
                                      /\ (k = 1 => N # 1 /\ at(1) = k + 1)
                                      /\ (k # 1 => at(1) = 1 /\ N # 0))
                     /\ (N - 1 = 0 => k = 1 /\ k = N)
  BY <1>1, <1>4
<1> HIDE DEF at
<1>15. t \in [1 .. N - 1 -> DOMAIN g] /\ \A j \in 1 .. N - 1 : t[j] = s[at(j)]
  BY <1>8, <1>9
<1> HIDE DEF t
<1>16. \A i, j \in 1 .. N - 1 : t[i] = t[j] => i = j
  BY <1>1, <1>9, <1>10, <1>15
<1>17. \A n \in DOMAIN g : \E j \in 1 .. N - 1 : t[j] = n
  BY <1>1, <1>5, <1>11, <1>15
<1>18. \A j \in 1 .. N - 1 : g[t[j]].next = IF j = N - 1 THEN Null ELSE t[j + 1]
  <2> SUFFICES ASSUME NEW j \in 1 .. N - 1
               PROVE  g[t[j]].next = IF j = N - 1 THEN Null ELSE t[j + 1]
    OBVIOUS
  <2>1. PICK i \in 1 .. N : i = at(j) /\ i # k
    BY <1>9
  <2>2. t[j] = s[i] /\ g[s[i]].next = IF i + 1 = k THEN h[s[k]].next ELSE h[s[i]].next
    BY <1>8, <1>15, <2>1
  <2>3. /\ h[s[i]].next = IF i = N THEN Null ELSE s[i + 1]
        /\ h[s[k]].next = IF k = N THEN Null ELSE s[k + 1]
    BY <1>1, <1>4
  <2>4. /\ (j = N - 1 /\ i + 1 = k => k = N)
        /\ (j # N - 1 /\ i + 1 = k => k # N /\ at(j + 1) = k + 1)
        /\ (j = N - 1 /\ i + 1 # k => i = N)
        /\ (j # N - 1 /\ i + 1 # k => i # N /\ at(j + 1) = i + 1)
    BY <1>12, <2>1
  <2>5. j # N - 1 => t[j + 1] = s[at(j + 1)]
    BY <1>12, <1>15
  <2>6. QED
    BY <2>2, <2>3, <2>4, <2>5
<1>19. gd = IF N - 1 = 0 THEN Null ELSE t[1]
  <2>1. h[s[k]].next = IF k = N THEN Null ELSE s[k + 1]
    BY <1>1, <1>4
  <2>2. N - 1 # 0 => t[1] = s[at(1)]
    BY <1>14, <1>15
  <2>3. CASE k = 1
    <3>1. gd = h[s[k]].next
      BY <2>3
    <3>2. k = N <=> N - 1 = 0
      BY <1>1, <2>3
    <3>3. QED
      BY <1>14, <2>1, <2>2, <2>3, <3>1, <3>2
  <2>4. CASE k # 1
    <3>1. gd = hd /\ N - 1 # 0 /\ N # 0 /\ at(1) = 1
      BY <1>14, <2>4
    <3>2. QED
      BY <1>1, <2>2, <3>1
  <2>5. QED
    BY <2>3, <2>4
<1>20. Chained(t, g, gd) /\ Len(t) = N - 1
  <2>1. Places(t, N - 1, g, gd)
    BY <1>15, <1>16, <1>17, <1>18, <1>19 DEF Places
  <2>2. QED
    BY <1>14, <2>1, PlacesChain
<1>21. \A j \in 1 .. N - 1 : g[t[j]].data = IF j < k THEN h[s[j]].data ELSE h[s[j + 1]].data
  <2> SUFFICES ASSUME NEW j \in 1 .. N - 1
               PROVE  g[t[j]].data = IF j < k THEN h[s[j]].data ELSE h[s[j + 1]].data
    OBVIOUS
  <2>1. t[j] = s[at(j)] /\ g[s[at(j)]].data = h[s[at(j)]].data
    BY <1>8, <1>9, <1>15
  <2>2. at(j) = IF j < k THEN j ELSE j + 1
    BY <1>13
  <2>3. QED
    BY <2>1, <2>2
<1>22. QED
  BY <1>7, <1>20, <1>21 DEF N, Shorter

\* The first n elements taken off, as list_take_and_remove does.
FrontOff(t, g, gd, s, h, n) ==
  /\ t \in [1 .. Len(s) - n -> DOMAIN h]
  /\ \A j \in 1 .. Len(s) - n : t[j] = s[j + n]
  /\ g = [e \in DOMAIN h \cap {t[j] : j \in 1 .. Len(s) - n} |-> h[e]]
  /\ gd = IF Len(s) - n = 0 THEN Null ELSE t[1]

LEMMA Shortened ==
  ASSUME NEW h, NEW hd, NEW s, HeapOK(h), Chained(s, h, hd), NEW n \in 0 .. Len(s),
         NEW t, NEW g, NEW gd, FrontOff(t, g, gd, s, h, n)
  PROVE  /\ HeapOK(g) /\ Chained(t, g, gd) /\ Len(t) = Len(s) - n
         /\ \A j \in 1 .. Len(t) : g[t[j]].data = h[s[j + n]].data
<1> DEFINE N == Len(s)
           M == N - n
<1>1. /\ N \in Nat /\ s \in [1 .. N -> DOMAIN h]
      /\ \A i \in 1 .. N : h[s[i]].next = IF i = N THEN Null ELSE s[i + 1]
      /\ \A i, j \in 1 .. N : s[i] = s[j] => i = j
  BY ChainPlaces DEF Places
<1>2. DOMAIN h \subseteq Node /\ \A e \in DOMAIN h : h[e] \in [data : Data, next : Node \cup {Null}]
  BY DEF HeapOK
<1>n. N \in Nat /\ n \in 0 .. N /\ M = N - n
  BY <1>1
<1> HIDE DEF N, M
<1>3. M \in Nat /\ M = N - n /\ n \in Nat
  BY <1>n
<1>4. \A j \in 1 .. M : /\ j + n \in 1 .. N /\ (j + n = N <=> j = M)
                        /\ (j # M => j + 1 \in 1 .. M /\ (j + 1) + n = (j + n) + 1)
  BY <1>n, <1>3
<1>5. \A j \in 1 .. M : t[j] = s[j + n] /\ t[j] \in DOMAIN h
  BY DEF M, N, FrontOff
<1>6. DOMAIN g = DOMAIN h \cap {t[j] : j \in 1 .. M} /\ \A e \in DOMAIN g : g[e] = h[e]
  BY DEF M, N, FrontOff
<1>7. t \in [1 .. M -> DOMAIN h] /\ gd = IF M = 0 THEN Null ELSE t[1]
  BY DEF M, N, FrontOff
<1>8. HeapOK(g)
  <2>1. g = [e \in DOMAIN g |-> g[e]]
    BY DEF FrontOff
  <2>2. QED
    BY <1>2, <1>6, <2>1 DEF HeapOK
<1>9. \A j \in 1 .. M : t[j] \in DOMAIN g /\ g[t[j]] = h[s[j + n]]
  BY <1>5, <1>6
<1>10. t \in [1 .. M -> DOMAIN g]
  BY <1>7, <1>9
<1>11. \A j \in 1 .. M : g[t[j]].next = IF j = M THEN Null ELSE t[j + 1]
  <2> SUFFICES ASSUME NEW j \in 1 .. M
               PROVE  g[t[j]].next = IF j = M THEN Null ELSE t[j + 1]
    OBVIOUS
  <2>1. PICK i \in 1 .. N : i = j + n
    BY <1>4
  <2>2. g[t[j]].next = IF i = N THEN Null ELSE s[i + 1]
    BY <1>1, <1>9, <2>1
  <2>3. j # M => t[j + 1] = s[i + 1]
    BY <1>4, <1>5, <2>1
  <2>4. QED
    BY <1>4, <2>1, <2>2, <2>3
<1>12. \A i, j \in 1 .. M : t[i] = t[j] => i = j
  <2> SUFFICES ASSUME NEW i \in 1 .. M, NEW j \in 1 .. M, t[i] = t[j] PROVE i = j
    OBVIOUS
  <2>1. i + n = j + n
    BY <1>1, <1>4, <1>5
  <2>2. QED
    BY <1>3, <2>1
<1>13. \A e \in DOMAIN g : \E j \in 1 .. M : t[j] = e
  BY <1>6
<1>14. Places(t, M, g, gd)
  BY <1>7, <1>10, <1>11, <1>12, <1>13 DEF Places
<1>15. Chained(t, g, gd) /\ Len(t) = M
  BY <1>3, <1>14, PlacesChain
<1>16. QED
  BY <1>8, <1>9, <1>15 DEF M, N

LEMMA NoElements ==
  ASSUME NEW g, DOMAIN g = {}, g = [e \in DOMAIN g |-> g[e]]
  PROVE  HeapOK(g) /\ Chained(<<>>, g, Null) /\ Len(<<>>) = 0
<1>1. DOMAIN g = {} /\ g = [e \in DOMAIN g |-> g[e]]
  OBVIOUS
<1>2. HeapOK(g)
  BY <1>1 DEF HeapOK
<1>3. <<>> \in Seq(DOMAIN g) /\ Len(<<>>) = 0 /\ DOMAIN <<>> = {} /\ 1 .. 0 = {}
  OBVIOUS
<1>4. Follows(<<>>, g, Null)
  BY <1>3 DEF Follows
<1>5. QED
  BY <1>1, <1>2, <1>3, <1>4 DEF Chained

\* The heap that Replace makes, with the data at place k replaced.
WithData(h, s, k, d) == [h EXCEPT ![s[k]].data = d]

LEMMA Replaced ==
  ASSUME NEW h, NEW hd, NEW s, HeapOK(h), Chained(s, h, hd),
         NEW k \in 1 .. Len(s), NEW d \in Data, NEW g, g = WithData(h, s, k, d)
  PROVE  /\ HeapOK(g) /\ Chained(s, g, hd)
         /\ \A j \in 1 .. Len(s) : g[s[j]].data = IF j = k THEN d ELSE h[s[j]].data
<1> DEFINE N == Len(s)
<1>1. N \in Nat /\ Places(s, N, h, hd)
  BY ChainPlaces
<1>2. DOMAIN h \subseteq Node /\ \A n \in DOMAIN h : h[n] \in [data : Data, next : Node \cup {Null}]
  BY DEF HeapOK
<1> HIDE DEF N
<1>3. /\ DOMAIN g = DOMAIN h
      /\ \A n \in DOMAIN h : g[n] = IF n = s[k] THEN [h[n] EXCEPT !.data = d] ELSE h[n]
  BY DEF WithData
<1>4. g = [n \in DOMAIN g |-> g[n]]
  BY DEF WithData
<1>5. \A n \in DOMAIN h : /\ g[n] \in [data : Data, next : Node \cup {Null}]
                          /\ g[n].next = h[n].next
                          /\ g[n].data = IF n = s[k] THEN d ELSE h[n].data
  BY <1>2, <1>3
<1>6. HeapOK(g)
  BY <1>2, <1>3, <1>4, <1>5 DEF HeapOK
<1>7. Places(s, N, g, hd)
  BY <1>1, <1>3, <1>5 DEF Places
<1>8. Chained(s, g, hd)
  BY <1>1, <1>7, PlacesChain
<1>9. k \in 1 .. N /\ \A j \in 1 .. N : s[j] \in DOMAIN h /\ (s[j] = s[k] <=> j = k)
  BY <1>1 DEF N, Places
<1>10. QED
  BY <1>5, <1>6, <1>8, <1>9 DEF N

--------------------------------------------------------------------------------
(******************************************************************************)
(* The sequence of ListSequence, and what the calls read of it.               *)
(******************************************************************************)

\* After the step the list is the chain t, which holds c.
Becomes(t, c) ==
  /\ HeapOK(heap') /\ Chained(t, heap', head') /\ elements_count' = Len(t)
  /\ c \in Seq(Data) /\ Len(c) = Len(t)
  /\ \A j \in 1 .. Len(t) : heap'[t[j]].data = c[j]

LEMMA Iterated ==
  ASSUME NEW s, IsList(s)
  PROVE  /\ Walk = s /\ s \in Seq(DOMAIN heap) /\ DOMAIN s = 1 .. Len(s)
         /\ list_iterate = Contents(s, heap)
         /\ list_iterate \in Seq(Data)
         /\ elements_count \in Nat /\ Len(s) = elements_count
         /\ Len(list_iterate) = elements_count
         /\ \A i \in 1 .. elements_count : list_iterate[i] = heap[s[i]].data
         /\ head = Null <=> elements_count = 0
<1>1. /\ HeapOK(heap) /\ Chained(s, heap, head) /\ elements_count = Len(s)
  BY DEF IsList
<1>2. Walk = s
  BY <1>1, WalkIs
<1>3. /\ Len(s) \in Nat /\ DOMAIN s = 1 .. Len(s) /\ (Len(s) = 0 <=> s = <<>>)
      /\ \A i \in 1 .. Len(s) : s[i] # Null
  BY <1>1, ChainTypes
<1>4. list_iterate = Contents(s, heap)
  BY <1>2, <1>3 DEF list_iterate, Contents
<1>5. list_iterate \in Seq(Data) /\ Len(list_iterate) = Len(s)
  BY <1>1, <1>4, ContentsType
<1>6. \A i \in 1 .. Len(s) : list_iterate[i] = heap[s[i]].data
  BY <1>4 DEF Contents
<1>7. s \in Seq(DOMAIN heap) /\ head = IF s = <<>> THEN Null ELSE s[1]
  BY <1>1 DEF Chained, Follows
<1>8. Len(s) # 0 => 1 \in 1 .. Len(s)
  BY <1>3
<1>9. head = Null <=> Len(s) = 0
  BY <1>3, <1>7, <1>8
<1>10. QED
  BY <1>1, <1>2, <1>3, <1>4, <1>5, <1>6, <1>7, <1>9

LEMMA Becoming ==
  ASSUME NEW t, NEW c, Becomes(t, c)
  PROVE  list_iterate' = c /\ IsList(t)'
<1>1. /\ HeapOK(heap') /\ Chained(t, heap', head') /\ elements_count' = Len(t)
      /\ c \in Seq(Data) /\ Len(c) = Len(t)
      /\ \A j \in 1 .. Len(t) : heap'[t[j]].data = c[j]
  BY DEF Becomes
<1>2. IsList(t)'
  BY <1>1 DEF IsList
<1>3. (\A s : HeapOK(heap) /\ Chained(s, heap, head) => Walk = s)'
  BY WalkIsNext
<1>4. Walk' = t
  BY <1>1, <1>3
<1>5. DOMAIN t = 1 .. Len(t)
  BY <1>1, ChainTypes
<1>6. list_iterate' = [i \in 1 .. Len(t) |-> heap'[t[i]].data]
  BY <1>4, <1>5 DEF list_iterate
<1>7. c = [i \in 1 .. Len(t) |-> c[i]]
  BY <1>1
<1>8. QED
  BY <1>1, <1>2, <1>6, <1>7

\* The data at an index counted from 0, NULL outside the list.
LEMMA Gets ==
  ASSUME NEW s, IsList(s)
  PROVE  /\ \A i \in Int : list_get_element(i) =
              IF 0 <= i /\ i < elements_count THEN s[i + 1] ELSE Null
         /\ \A i \in Int : Sequence!InRange(i) <=> list_get_element(i) # Null
         /\ \A i \in Int : Sequence!InRange(i) <=> 0 <= i /\ i < elements_count
         /\ \A i \in Int : list_get(i) = Sequence!At(i)
         /\ \A n \in Int : Taken(n) = Sequence!Firsts(n)
<1>1. /\ HeapOK(heap) /\ Chained(s, heap, head) /\ elements_count = Len(s)
  BY DEF IsList
<1>2. /\ elements_count \in Nat /\ Len(list_iterate) = elements_count
      /\ \A i \in 1 .. elements_count : list_iterate[i] = heap[s[i]].data
  BY Iterated
<1>3. \A i \in 1 .. elements_count : s[i] # Null
  BY <1>1, ChainTypes
<1>4. ASSUME NEW i \in Int
      PROVE  list_get_element(i) = IF 0 <= i /\ i < elements_count THEN s[i + 1] ELSE Null
  BY <1>1, ElementAt
<1>5. \A i \in Int : Sequence!InRange(i) <=> 0 <= i /\ i < elements_count
  BY <1>2 DEF Sequence!InRange
<1>6. ASSUME NEW i \in Int
      PROVE  Sequence!InRange(i) => i + 1 \in 1 .. elements_count
  BY <1>2, <1>5
<1>7. \A i \in Int : Sequence!InRange(i) <=> list_get_element(i) # Null
  BY <1>3, <1>4, <1>5, <1>6
<1>8. ASSUME NEW i \in Int PROVE list_get(i) = Sequence!At(i)
  <2>1. CASE Sequence!InRange(i)
    <3>1. list_get_element(i) = s[i + 1] /\ s[i + 1] # Null
      BY <1>3, <1>4, <1>5, <1>6, <2>1
    <3>2. list_get(i) = heap[s[i + 1]].data
      BY <3>1 DEF list_get, DataOf
    <3>3. list_iterate[i + 1] = heap[s[i + 1]].data
      BY <1>2, <1>6, <2>1
    <3>4. QED
      BY <2>1, <3>2, <3>3 DEF Sequence!At
  <2>2. CASE ~ Sequence!InRange(i)
    <3>1. list_get_element(i) = Null
      BY <1>7, <2>2
    <3>2. QED
      BY <2>2, <3>1 DEF list_get, DataOf, Sequence!At
  <2>3. QED
    BY <2>1, <2>2
<1>9. ASSUME NEW n \in Int PROVE Taken(n) = Sequence!Firsts(n)
  <2>1. \A i \in 1 .. n : list_get(i - 1) = Sequence!At(i - 1)
    BY <1>8
  <2>2. QED
    BY <2>1 DEF Taken, Sequence!Firsts
<1>10. QED
  BY <1>4, <1>5, <1>7, <1>8, <1>9

LEMMA MinOf ==
  ASSUME NEW S \in SUBSET Nat, S # {}
  PROVE  Min(S) \in S
<1>1. \E m \in S : \A k \in S : m <= k
  BY LeastNatural
<1>2. QED
  BY <1>1 DEF Min

\* The first element of a condition, NULL if there is none.
LEMMA Finds ==
  ASSUME NEW s, IsList(s), NEW c
  PROVE  /\ Found(c) = Sequence!FirstMatch(c)
         /\ Position(c) \in 0 .. elements_count
         /\ Position(c) = 0 <=> ~ \E i \in 1 .. Len(list_iterate) : list_iterate[i] \in c
<1> DEFINE P == {i \in 1 .. Len(list_iterate) : list_iterate[i] \in c}
<1>1. Position(c) = IF P # {} THEN Min(P) ELSE 0
  BY DEF Position, SelectInSeq
<1>2. Len(list_iterate) = elements_count /\ elements_count \in Nat
  BY Iterated
<1>3. P \in SUBSET Nat /\ P \subseteq 1 .. elements_count
  BY <1>2
<1>4. P # {} => Min(P) \in P
  BY <1>3, MinOf
<1>5. Position(c) = 0 <=> P = {}
  BY <1>1, <1>3, <1>4
<1>6. Sequence!FirstMatch(c) = IF P = {} THEN Null ELSE list_iterate[Min(P)]
  BY DEF Sequence!FirstMatch, Sequence!Min, Min
<1>7. Found(c) = Sequence!FirstMatch(c)
  BY <1>1, <1>5, <1>6 DEF Found
<1>8. Position(c) \in 0 .. elements_count
  BY <1>1, <1>2, <1>3, <1>4
<1>9. QED
  BY <1>5, <1>7, <1>8

LEMMA Outcomes ==
  \A op, c, v, l, x : /\ Outcome(op, c, v, l, x) = Sequence!Outcome(op, c, v, l, x)
                      /\ Result(op, v) = Sequence!Result(op, v)
BY DEF Outcome, Result, Sequence!Outcome, Sequence!Result

LEMMA Insertion ==
  ASSUME NEW q \in Seq(Data), NEW k \in 0 .. Len(q), NEW d \in Data
  PROVE  /\ Sequence!InsertAt(q, k + 1, d) \in Seq(Data)
         /\ Len(Sequence!InsertAt(q, k + 1, d)) = Len(q) + 1
         /\ \A j \in 1 .. Len(q) + 1 : Sequence!InsertAt(q, k + 1, d)[j] =
              IF j <= k THEN q[j] ELSE IF j = k + 1 THEN d ELSE q[j - 1]
<1> DEFINE N == Len(q)
           front == SubSeq(q, 1, (k + 1) - 1)
           back == SubSeq(q, k + 1, N)
           whole == (front \o <<d>>) \o back
<1>1. N \in Nat /\ \A i \in 1 .. N : q[i] \in Data
  OBVIOUS
<1> HIDE DEF N
<1>2. k \in Nat /\ k <= N /\ k \in Int /\ k + 1 \in Int /\ (k + 1) - 1 = k /\ 1 \in Int /\ N \in Int
  BY <1>1 DEF N
<1>3. /\ \A i \in 1 .. k : q[i] \in Data
      /\ \A i \in k + 1 .. N : q[i] \in Data
  BY <1>1, <1>2
<1>4. front \in Seq(Data) /\ Len(front) = k /\ \A i \in 1 .. k : front[i] = q[i]
  <2>1. /\ SubSeq(q, 1, k) \in Seq(Data)
        /\ Len(SubSeq(q, 1, k)) = IF 1 <= k THEN k - 1 + 1 ELSE 0
        /\ \A i \in 1 .. k - 1 + 1 : SubSeq(q, 1, k)[i] = q[1 + i - 1]
    BY <1>2, <1>3, SubSeqProperties
  <2>2. front = SubSeq(q, 1, k)
    BY <1>2
  <2> HIDE DEF front
  <2>3. QED
    BY <1>2, <2>1, <2>2
<1>5. back \in Seq(Data) /\ Len(back) = N - k /\ \A i \in 1 .. N - k : back[i] = q[k + i]
  <2>1. /\ back \in Seq(Data)
        /\ Len(back) = IF k + 1 <= N THEN N - (k + 1) + 1 ELSE 0
        /\ \A i \in 1 .. N - (k + 1) + 1 : back[i] = q[(k + 1) + i - 1]
    BY <1>2, <1>3, SubSeqProperties
  <2> HIDE DEF back
  <2>2. QED
    BY <1>1, <1>2, <2>1
<1>6. Sequence!InsertAt(q, k + 1, d) = whole
  BY DEF Sequence!InsertAt, N
<1> HIDE DEF front, back
<1>7. /\ front \o <<d>> \in Seq(Data) /\ Len(front \o <<d>>) = k + 1
      /\ \A i \in 1 .. k + 1 : (front \o <<d>>)[i] = IF i <= k THEN q[i] ELSE d
  <2>1. <<d>> \in Seq(Data) /\ Len(<<d>>) = 1 /\ <<d>>[1] = d
    OBVIOUS
  <2>2. /\ front \o <<d>> \in Seq(Data) /\ Len(front \o <<d>>) = k + 1
        /\ \A i \in 1 .. k + 1 : (front \o <<d>>)[i] =
             IF i <= k THEN front[i] ELSE <<d>>[i - k]
    BY <1>2, <1>4, <2>1, ConcatProperties
  <2>3. \A i \in 1 .. k + 1 : ~ (i <= k) => i - k = 1
    BY <1>2
  <2>4. \A i \in 1 .. k + 1 : i <= k => front[i] = q[i]
    BY <1>2, <1>4
  <2>5. \A i \in 1 .. k + 1 : ~ (i <= k) => <<d>>[i - k] = d
    BY <2>1, <2>3
  <2>6. QED
    BY <2>2, <2>4, <2>5
<1> DEFINE first == front \o <<d>>
<1> HIDE DEF first
<1>8. /\ whole \in Seq(Data) /\ Len(whole) = (k + 1) + (N - k)
      /\ \A j \in 1 .. (k + 1) + (N - k) : whole[j] =
           IF j <= k + 1 THEN first[j] ELSE back[j - (k + 1)]
  <2>1. first \in Seq(Data) /\ Len(first) = k + 1
    BY <1>7 DEF first
  <2>2. whole = first \o back
    BY DEF first
  <2> HIDE DEF whole
  <2>3. /\ whole \in Seq(Data) /\ Len(whole) = Len(first) + Len(back)
        /\ \A j \in 1 .. Len(first) + Len(back) : whole[j] =
             IF j <= Len(first) THEN first[j] ELSE back[j - Len(first)]
    BY <1>5, <2>1, <2>2, ConcatProperties
  <2>4. QED
    BY <1>5, <2>1, <2>3
<1> HIDE DEF whole
<1>9. (k + 1) + (N - k) = N + 1
  BY <1>1, <1>2
<1>10. ASSUME NEW j \in 1 .. N + 1
       PROVE  whole[j] = IF j <= k THEN q[j] ELSE IF j = k + 1 THEN d ELSE q[j - 1]
  <2>1. CASE j <= k + 1
    <3>1. whole[j] = first[j] /\ j \in 1 .. k + 1
      BY <1>1, <1>2, <1>8, <1>9, <2>1
    <3>2. first[j] = IF j <= k THEN q[j] ELSE d
      BY <1>7, <3>1 DEF first
    <3>3. ~ (j <= k) => j = k + 1
      BY <1>2, <2>1
    <3>4. QED
      BY <3>1, <3>2, <3>3
  <2>2. CASE ~ (j <= k + 1)
    <3>1. whole[j] = back[j - (k + 1)]
      BY <1>8, <1>9, <2>2
    <3>2. j - (k + 1) \in 1 .. N - k /\ k + (j - (k + 1)) = j - 1 /\ ~ (j <= k) /\ j # k + 1
      BY <1>1, <1>2, <2>2
    <3>3. QED
      BY <1>5, <3>1, <3>2
  <2>3. QED
    BY <2>1, <2>2
<1>11. QED
  BY <1>6, <1>8, <1>9, <1>10 DEF N

LEMMA Removal ==
  ASSUME NEW q \in Seq(Data), NEW k \in 1 .. Len(q)
  PROVE  /\ Sequence!RemoveAt(q, k) \in Seq(Data)
         /\ Len(Sequence!RemoveAt(q, k)) = Len(q) - 1
         /\ \A j \in 1 .. Len(q) - 1 :
              Sequence!RemoveAt(q, k)[j] = IF j < k THEN q[j] ELSE q[j + 1]
<1> DEFINE N == Len(q)
           front == SubSeq(q, 1, k - 1)
           back == SubSeq(q, k + 1, N)
           whole == front \o back
<1>1. N \in Nat /\ \A i \in 1 .. N : q[i] \in Data
  OBVIOUS
<1> HIDE DEF N
<1>2. k \in Nat /\ k <= N /\ 1 <= k /\ k - 1 \in Int /\ k + 1 \in Int /\ 1 \in Int /\ N \in Int
  BY <1>1 DEF N
<1>3. /\ \A i \in 1 .. k - 1 : q[i] \in Data
      /\ \A i \in k + 1 .. N : q[i] \in Data
  BY <1>1, <1>2
<1>4. front \in Seq(Data) /\ Len(front) = k - 1 /\ \A i \in 1 .. k - 1 : front[i] = q[i]
  <2>1. /\ front \in Seq(Data)
        /\ Len(front) = IF 1 <= k - 1 THEN (k - 1) - 1 + 1 ELSE 0
        /\ \A i \in 1 .. (k - 1) - 1 + 1 : front[i] = q[1 + i - 1]
    BY <1>2, <1>3, SubSeqProperties
  <2> HIDE DEF front
  <2>2. QED
    BY <1>2, <2>1
<1>5. back \in Seq(Data) /\ Len(back) = N - k /\ \A i \in 1 .. N - k : back[i] = q[k + i]
  <2>1. /\ back \in Seq(Data)
        /\ Len(back) = IF k + 1 <= N THEN N - (k + 1) + 1 ELSE 0
        /\ \A i \in 1 .. N - (k + 1) + 1 : back[i] = q[(k + 1) + i - 1]
    BY <1>2, <1>3, SubSeqProperties
  <2> HIDE DEF back
  <2>2. QED
    BY <1>1, <1>2, <2>1
<1>6. Sequence!RemoveAt(q, k) = whole
  BY DEF Sequence!RemoveAt, N
<1> HIDE DEF front, back
<1>7. /\ whole \in Seq(Data) /\ Len(whole) = (k - 1) + (N - k)
      /\ \A j \in 1 .. (k - 1) + (N - k) : whole[j] =
           IF j <= k - 1 THEN front[j] ELSE back[j - (k - 1)]
  <2>1. /\ whole \in Seq(Data) /\ Len(whole) = Len(front) + Len(back)
        /\ \A j \in 1 .. Len(front) + Len(back) : whole[j] =
             IF j <= Len(front) THEN front[j] ELSE back[j - Len(front)]
    BY <1>4, <1>5, ConcatProperties
  <2> HIDE DEF whole
  <2>2. QED
    BY <1>4, <1>5, <2>1
<1> HIDE DEF whole
<1>8. (k - 1) + (N - k) = N - 1
  BY <1>1, <1>2
<1>9. ASSUME NEW j \in 1 .. N - 1
      PROVE  whole[j] = IF j < k THEN q[j] ELSE q[j + 1]
  <2>1. CASE j < k
    <3>1. j <= k - 1 /\ j \in 1 .. k - 1
      BY <1>2, <2>1
    <3>2. QED
      BY <1>4, <1>7, <1>8, <2>1, <3>1
  <2>2. CASE ~ (j < k)
    <3>1. ~ (j <= k - 1) /\ j - (k - 1) \in 1 .. N - k /\ k + (j - (k - 1)) = j + 1
      BY <1>1, <1>2, <2>2
    <3>2. whole[j] = back[j - (k - 1)]
      BY <1>7, <1>8, <3>1
    <3>3. QED
      BY <1>5, <2>2, <3>1, <3>2
  <2>3. QED
    BY <2>1, <2>2
<1>10. QED
  BY <1>6, <1>7, <1>8, <1>9 DEF N

--------------------------------------------------------------------------------
(******************************************************************************)
(* Each call keeps the chain, and is a call of ListSequence.                  *)
(******************************************************************************)

LEMMA Unchanged ==
  ASSUME NEW s, IsList(s), UNCHANGED list
  PROVE  Becomes(s, list_iterate) /\ list_iterate' = list_iterate
<1>1. /\ HeapOK(heap) /\ Chained(s, heap, head) /\ elements_count = Len(s)
  BY DEF IsList
<1>2. /\ list_iterate \in Seq(Data) /\ Len(list_iterate) = Len(s)
      /\ \A i \in 1 .. Len(s) : list_iterate[i] = heap[s[i]].data
  BY Iterated
<1>3. heap' = heap /\ head' = head /\ elements_count' = elements_count
  BY DEF list
<1>4. Becomes(s, list_iterate)
  BY <1>1, <1>2, <1>3 DEF Becomes
<1>5. QED
  BY <1>4, Becoming

LEMMA Calls ==
  ASSUME NEW c, NEW o, Returns(o), list_iterate' = c
  PROVE  Sequence!Call(c, o)
BY DEF Returns, Sequence!Call

LEMMA IndicesAreIntegers ==
  /\ Indices = Sequence!Indices /\ \A i \in Indices : i \in Int
  /\ Conditions = Sequence!Conditions /\ Transformers = Sequence!Transformers
BY LinkedListAssumption
   DEF Indices, Sequence!Indices, Conditions, Sequence!Conditions, Transformers, Sequence!Transformers

LEMMA LookStep ==
  ASSUME NEW s, IsList(s), Look
  PROVE  IsList(s)' /\ Sequence!Look
<1>1. UNCHANGED list
  BY DEF Look
<1>2. list_iterate' = list_iterate /\ IsList(s)'
  BY <1>1, Becoming, Unchanged
<1>3. CASE Returns(Result("list_size", elements_count))
  <2>1. Len(list_iterate) = elements_count
    BY Iterated
  <2>2. Sequence!Call(list_iterate, Sequence!Result("list_size", Len(list_iterate)))
    BY <1>2, <1>3, <2>1, Calls, Outcomes
  <2>3. QED
    BY <1>2, <2>2 DEF Sequence!Look
<1>4. ASSUME NEW i \in Indices, Returns(Result("list_get", list_get(i)))
      PROVE  Sequence!Look
  <2>1. list_get(i) = Sequence!At(i)
    BY Gets, IndicesAreIntegers
  <2>2. Sequence!Call(list_iterate, Sequence!Result("list_get", Sequence!At(i)))
    BY <1>2, <1>4, <2>1, Calls, Outcomes
  <2>3. QED
    BY <2>2, IndicesAreIntegers DEF Sequence!Look
<1>5. ASSUME NEW c \in Conditions, Returns(Outcome("list_find", c, Found(c), <<>>, <<>>))
      PROVE  Sequence!Look
  <2>1. Found(c) = Sequence!FirstMatch(c)
    BY Finds
  <2>2. Sequence!Call(list_iterate,
          Sequence!Outcome("list_find", c, Sequence!FirstMatch(c), <<>>, <<>>))
    BY <1>2, <1>5, <2>1, Calls, Outcomes
  <2>3. QED
    BY <2>2, IndicesAreIntegers DEF Sequence!Look
<1>6. ASSUME NEW c \in Conditions,
             Returns(Outcome("list_filter", c, Null,
               SelectSeq(list_iterate, LAMBDA d : d \in c), <<>>))
      PROVE  Sequence!Look
  <2>1. SelectSeq(list_iterate, LAMBDA d : d \in c) = Sequence!Matches(c)
    BY Zenon DEF Sequence!Matches
  <2>2. Returns(Outcome("list_filter", c, Null, Sequence!Matches(c), <<>>))
    BY <1>6, <2>1, Zenon
  <2>3. Sequence!Call(list_iterate,
          Sequence!Outcome("list_filter", c, Null, Sequence!Matches(c), <<>>))
    BY <1>2, <2>2, Calls, Outcomes
  <2>4. QED
    BY <2>3, IndicesAreIntegers DEF Sequence!Look
<1>7. ASSUME NEW f \in Transformers,
             Returns(Outcome("list_map", {}, Null,
               [i \in DOMAIN list_iterate |-> f[list_iterate[i]]], <<>>))
      PROVE  Sequence!Look
  <2>1. Sequence!Call(list_iterate,
          Sequence!Outcome("list_map", {}, Null,
            [i \in DOMAIN list_iterate |-> f[list_iterate[i]]], <<>>))
    BY <1>2, <1>7, Calls, Outcomes
  <2>2. QED
    BY <2>1, IndicesAreIntegers DEF Sequence!Look
<1>8. ASSUME NEW n \in Indices, Returns(Outcome("list_take", {}, Null, Taken(n), <<>>))
      PROVE  Sequence!Look
  <2>1. Taken(n) = Sequence!Firsts(n)
    BY Gets, IndicesAreIntegers
  <2>2. Sequence!Call(list_iterate,
          Sequence!Outcome("list_take", {}, Null, Sequence!Firsts(n), <<>>))
    BY <1>2, <1>8, <2>1, Calls, Outcomes
  <2>3. QED
    BY <2>2, IndicesAreIntegers DEF Sequence!Look
<1>9. CASE Returns(Result("list_is_empty", elements_count = 0))
  <2>1. list_iterate \in Seq(Data) /\ Len(list_iterate) = elements_count
    BY Iterated
  <2>2. (elements_count = 0) = (list_iterate = <<>>)
    BY <2>1
  <2>3. Returns(Result("list_is_empty", list_iterate = <<>>))
    BY <1>9, <2>2
  <2>4. Sequence!Call(list_iterate, Sequence!Result("list_is_empty", list_iterate = <<>>))
    BY <1>2, <2>3, Calls, Outcomes
  <2>5. QED
    BY <1>2, <2>4 DEF Sequence!Look
<1>10. QED
  BY <1>2, <1>3, <1>4, <1>5, <1>6, <1>7, <1>8, <1>9 DEF Look

\* A new element behind the first k.
LEMMA LinkStep ==
  ASSUME NEW s, IsList(s), NEW k \in 0 .. elements_count, NEW d \in Data,
         NEW previous, previous = IF k = 0 THEN Null ELSE s[k],
         NEW next, next = IF k = elements_count THEN Null ELSE s[k + 1],
         Link(d, previous, next)
  PROVE  /\ list_iterate' = Sequence!InsertAt(list_iterate, k + 1, d)
         /\ \E t : IsList(t)'
<1> DEFINE c == Sequence!InsertAt(list_iterate, k + 1, d)
<1>1. /\ HeapOK(heap) /\ Chained(s, heap, head) /\ elements_count = Len(s)
  BY DEF IsList
<1>2. /\ list_iterate \in Seq(Data) /\ Len(list_iterate) = Len(s) /\ Len(s) \in Nat
      /\ \A i \in 1 .. Len(s) : list_iterate[i] = heap[s[i]].data
  BY Iterated
<1>3. k \in 0 .. Len(s)
  BY <1>1
<1>4. /\ c \in Seq(Data) /\ Len(c) = Len(s) + 1
      /\ \A j \in 1 .. Len(s) + 1 : c[j] =
           IF j <= k THEN list_iterate[j] ELSE IF j = k + 1 THEN d ELSE list_iterate[j - 1]
  <2>1. k \in 0 .. Len(list_iterate)
    BY <1>2, <1>3
  <2>2. /\ c \in Seq(Data) /\ Len(c) = Len(list_iterate) + 1
        /\ \A j \in 1 .. Len(list_iterate) + 1 : c[j] =
             IF j <= k THEN list_iterate[j] ELSE IF j = k + 1 THEN d ELSE list_iterate[j - 1]
    BY <1>2, <2>1, Insertion
  <2> HIDE DEF c
  <2>3. QED
    BY <1>2, <2>2
<1> HIDE DEF c
<1>5. PICK e \in Node \ DOMAIN heap :
        /\ heap' = Linked(heap, e, d, previous, next)
        /\ head' = IF previous = Null THEN e ELSE head
        /\ elements_count' = elements_count + 1
  BY DEF Link, Linked
<1>6. previous = (IF k = 0 THEN Null ELSE s[k]) /\ next = (IF k = Len(s) THEN Null ELSE s[k + 1])
  BY <1>1
<1>7. HeapOK(heap') /\ \E t : Longer(t, heap', head', s, heap, k, d)
  BY <1>1, <1>3, <1>5, <1>6, Inserted
<1>8. PICK t : /\ Chained(t, heap', head') /\ Len(t) = Len(s) + 1
               /\ \A j \in 1 .. Len(t) : heap'[t[j]].data =
                    IF j <= k THEN heap[s[j]].data
                    ELSE IF j = k + 1 THEN d ELSE heap[s[j - 1]].data
  BY <1>7 DEF Longer
<1>9. \A j \in 1 .. Len(s) + 1 : heap'[t[j]].data = c[j]
  <2> SUFFICES ASSUME NEW j \in 1 .. Len(s) + 1 PROVE heap'[t[j]].data = c[j]
    OBVIOUS
  <2>1. heap'[t[j]].data = IF j <= k THEN heap[s[j]].data
                           ELSE IF j = k + 1 THEN d ELSE heap[s[j - 1]].data
    BY <1>8
  <2>2. c[j] = IF j <= k THEN list_iterate[j] ELSE IF j = k + 1 THEN d ELSE list_iterate[j - 1]
    BY <1>4
  <2>3. j <= k => list_iterate[j] = heap[s[j]].data
    BY <1>2, <1>3
  <2>4. ~ (j <= k) /\ j # k + 1 => list_iterate[j - 1] = heap[s[j - 1]].data
    <3>1. ~ (j <= k) /\ j # k + 1 => j - 1 \in 1 .. Len(s)
      BY <1>2, <1>3
    <3>2. QED
      BY <1>2, <3>1
  <2>5. QED
    BY <2>1, <2>2, <2>3, <2>4
<1>10. Becomes(t, c)
  BY <1>1, <1>4, <1>5, <1>7, <1>8, <1>9 DEF Becomes
<1>11. QED
  BY <1>10, Becoming DEF c

\* The element at place k, from 1, taken out.
LEMMA UnlinkStep ==
  ASSUME NEW s, IsList(s), NEW i \in Int, 0 <= i, i < elements_count, Unlink(i)
  PROVE  /\ list_iterate' = Sequence!RemoveAt(list_iterate, i + 1)
         /\ \E t : IsList(t)'
<1> DEFINE k == i + 1
           c == Sequence!RemoveAt(list_iterate, k)
<1>1. /\ HeapOK(heap) /\ Chained(s, heap, head) /\ elements_count = Len(s)
  BY DEF IsList
<1>2. /\ list_iterate \in Seq(Data) /\ Len(list_iterate) = Len(s) /\ Len(s) \in Nat
      /\ \A j \in 1 .. Len(s) : list_iterate[j] = heap[s[j]].data
  BY Iterated
<1>3. k \in 1 .. Len(s) /\ k \in 1 .. Len(list_iterate)
  BY <1>1, <1>2
<1>4. /\ c \in Seq(Data) /\ Len(c) = Len(s) - 1
      /\ \A j \in 1 .. Len(s) - 1 : c[j] = IF j < k THEN list_iterate[j] ELSE list_iterate[j + 1]
  <2> HIDE DEF k
  <2>1. QED
    BY <1>2, <1>3, Removal
<1>5. list_get_element(i) = s[k] /\ (i # 0 => list_get_element(i - 1) = s[k - 1])
  <2>1. /\ list_get_element(i) = IF 0 <= i /\ i < elements_count THEN s[i + 1] ELSE Null
        /\ i - 1 \in Int
        /\ list_get_element(i - 1) =
             IF 0 <= i - 1 /\ i - 1 < elements_count THEN s[(i - 1) + 1] ELSE Null
    BY Gets
  <2>2. elements_count \in Nat /\ (i - 1) + 1 = k - 1 /\ (i # 0 => 0 <= i - 1 /\ i - 1 < elements_count)
    BY <1>1, <1>2
  <2>3. QED
    BY <2>1, <2>2
<1>6. i = 0 <=> k = 1
  OBVIOUS
<1> HIDE DEF c, k
<1>7. /\ heap' = Unlinked(heap, s, k)
      /\ head' = IF k = 1 THEN heap[s[k]].next ELSE head
      /\ elements_count' = elements_count - 1
  BY <1>5, <1>6 DEF Unlink, Unlinked
<1>8. HeapOK(heap') /\ \E t : Shorter(t, heap', head', s, heap, k)
  BY <1>1, <1>3, <1>7, Without
<1>9. PICK t : /\ Chained(t, heap', head') /\ Len(t) = Len(s) - 1
               /\ \A j \in 1 .. Len(t) : heap'[t[j]].data =
                    IF j < k THEN heap[s[j]].data ELSE heap[s[j + 1]].data
  BY <1>8 DEF Shorter
<1>10. \A j \in 1 .. Len(s) - 1 : heap'[t[j]].data = c[j]
  <2> SUFFICES ASSUME NEW j \in 1 .. Len(s) - 1 PROVE heap'[t[j]].data = c[j]
    OBVIOUS
  <2>1. heap'[t[j]].data = IF j < k THEN heap[s[j]].data ELSE heap[s[j + 1]].data
    BY <1>9
  <2>2. c[j] = IF j < k THEN list_iterate[j] ELSE list_iterate[j + 1]
    BY <1>4
  <2>3. j \in 1 .. Len(s) /\ j + 1 \in 1 .. Len(s)
    BY <1>2
  <2>4. list_iterate[j] = heap[s[j]].data /\ list_iterate[j + 1] = heap[s[j + 1]].data
    BY <1>2, <2>3
  <2>5. QED
    BY <2>1, <2>2, <2>4
<1>11. Becomes(t, c)
  BY <1>1, <1>4, <1>7, <1>8, <1>9, <1>10 DEF Becomes
<1>12. QED
  BY <1>11, Becoming DEF c, k

LEMMA AddStep ==
  ASSUME NEW s, IsList(s), NEW d \in Data, list_add(d)
  PROVE  (\E t : IsList(t)') /\ Sequence!Insert
<1> DEFINE previous == IF elements_count = 0 THEN Null ELSE list_get_element(elements_count - 1)
           q == list_iterate
<1>1. /\ q \in Seq(Data) /\ Len(q) = elements_count /\ elements_count \in Nat
  BY Iterated
<1>2. previous = IF elements_count = 0 THEN Null ELSE s[elements_count]
  <2>1. elements_count - 1 \in Int /\ (elements_count - 1) + 1 = elements_count
    BY <1>1
  <2>2. list_get_element(elements_count - 1) =
          IF 0 <= elements_count - 1 /\ elements_count - 1 < elements_count
          THEN s[(elements_count - 1) + 1] ELSE Null
    BY <2>1, Gets
  <2>3. elements_count # 0 => 0 <= elements_count - 1 /\ elements_count - 1 < elements_count
    BY <1>1
  <2>4. QED
    BY <2>1, <2>2, <2>3
<1>3. elements_count < MaxLength /\ Link(d, previous, Null)
      /\ Returns(Result("list_add", elements_count))
  BY DEF list_add
<1> HIDE DEF previous
<1>4. elements_count \in 0 .. elements_count
      /\ Null = IF elements_count = elements_count THEN Null ELSE s[elements_count + 1]
  BY <1>1
<1>5. /\ q' = Sequence!InsertAt(q, elements_count + 1, d)
      /\ \E t : IsList(t)'
  BY <1>2, <1>3, <1>4, LinkStep
<1>6. /\ Sequence!InsertAt(q, Len(q) + 1, d) \in Seq(Data)
      /\ Len(Sequence!InsertAt(q, Len(q) + 1, d)) = Len(q) + 1
      /\ \A j \in 1 .. Len(q) + 1 : Sequence!InsertAt(q, Len(q) + 1, d)[j] =
           IF j <= Len(q) THEN q[j] ELSE IF j = Len(q) + 1 THEN d ELSE q[j - 1]
  <2>1. Len(q) \in 0 .. Len(q)
    BY <1>1
  <2>2. QED
    BY <1>1, <2>1, Insertion
<1>7. /\ Append(q, d) \in Seq(Data) /\ Len(Append(q, d)) = Len(q) + 1
      /\ \A j \in 1 .. Len(q) : Append(q, d)[j] = q[j]
      /\ Append(q, d)[Len(q) + 1] = d
  BY <1>1, AppendProperties
<1>8. Sequence!InsertAt(q, Len(q) + 1, d) = Append(q, d)
  <2> DEFINE u == Sequence!InsertAt(q, Len(q) + 1, d)
             v == Append(q, d)
  <2>1. u \in Seq(Data) /\ v \in Seq(Data) /\ Len(u) = Len(v)
    BY <1>6, <1>7
  <2>2. \A j \in 1 .. Len(u) : u[j] = v[j]
    <3> SUFFICES ASSUME NEW j \in 1 .. Len(u) PROVE u[j] = v[j]
      OBVIOUS
    <3>1. j \in 1 .. Len(q) + 1
      BY <1>6
    <3>2. u[j] = IF j <= Len(q) THEN q[j] ELSE IF j = Len(q) + 1 THEN d ELSE q[j - 1]
      BY <1>6, <3>1
    <3>3. v[j] = IF j <= Len(q) THEN q[j] ELSE d
      BY <1>1, <1>7, <3>1
    <3>4. ~ (j <= Len(q)) => j = Len(q) + 1
      BY <1>1, <3>1
    <3>5. QED
      BY <3>2, <3>3, <3>4
  <2> HIDE DEF u, v
  <2>3. u = v
    BY <2>1, <2>2, SeqEqual
  <2>4. QED
    BY <2>3 DEF u, v
<1>9. q' = Append(q, d)
  BY <1>1, <1>5, <1>8
<1>10. Sequence!Call(Append(q, d), Sequence!Result("list_add", Len(q)))
  BY <1>1, <1>3, <1>9, Calls, Outcomes
<1>11. Sequence!Insert
  BY <1>1, <1>3, <1>10 DEF Sequence!Insert
<1>12. QED
  BY <1>5, <1>11

LEMMA AddInIndexStep ==
  ASSUME NEW s, IsList(s), NEW d \in Data, NEW i \in Indices, list_add_in_index(i, d)
  PROVE  (\E t : IsList(t)') /\ Sequence!Insert
<1> DEFINE q == list_iterate
           inserted == IF Sequence!InRange(i) THEN Sequence!InsertAt(q, i + 1, d) ELSE q
<1>1. /\ q \in Seq(Data) /\ Len(q) = elements_count /\ elements_count \in Nat
  BY Iterated
<1>2. i \in Int /\ i \in Sequence!Indices /\ (Sequence!InRange(i) <=> 0 <= i /\ i < elements_count)
  BY Gets, IndicesAreIntegers
<1>3. elements_count < MaxLength /\ Returns(Result("list_add_in_index", Null))
  BY DEF list_add_in_index
<1>4. q' = inserted /\ \E t : IsList(t)'
  <2>1. CASE Sequence!InRange(i)
    <3>1. /\ i \in 0 .. elements_count /\ i # elements_count
          /\ (i # 0 => 0 <= i - 1 /\ i - 1 < elements_count) /\ i - 1 \in Int /\ (i - 1) + 1 = i
          /\ (i = 0 => ~ (0 <= i - 1))
      BY <1>1, <1>2, <2>1
    <3>2. /\ list_get_element(i) = IF 0 <= i /\ i < elements_count THEN s[i + 1] ELSE Null
          /\ list_get_element(i - 1) =
               IF 0 <= i - 1 /\ i - 1 < elements_count THEN s[(i - 1) + 1] ELSE Null
      BY <1>2, <3>1, Gets
    <3>3. list_get_element(i - 1) = IF i = 0 THEN Null ELSE s[i]
      BY <3>1, <3>2
    <3>4. list_get_element(i) = IF i = elements_count THEN Null ELSE s[i + 1]
      BY <1>2, <2>1, <3>1, <3>2
    <3>5. Link(d, list_get_element(i - 1), list_get_element(i))
      BY <1>2, <2>1 DEF list_add_in_index
    <3>6. /\ q' = Sequence!InsertAt(q, i + 1, d)
          /\ \E t : IsList(t)'
      BY <3>1, <3>3, <3>4, <3>5, LinkStep
    <3>7. QED
      BY <2>1, <3>6
  <2>2. CASE ~ Sequence!InRange(i)
    <3>1. UNCHANGED list
      BY <1>1, <1>2, <2>2 DEF list_add_in_index
    <3>2. q' = q /\ IsList(s)'
      BY <3>1, Unchanged, Becoming
    <3>3. QED
      BY <2>2, <3>2
  <2>3. QED
    BY <2>1, <2>2
<1>5. Sequence!Call(inserted, Sequence!Result("list_add_in_index", Null))
  BY <1>3, <1>4, Calls, Outcomes
<1>6. Sequence!Insert
  BY <1>1, <1>2, <1>3, <1>5 DEF Sequence!Insert
<1>7. QED
  BY <1>4, <1>6

LEMMA ReplaceStep ==
  ASSUME NEW s, IsList(s), NEW d \in Data, NEW i \in Indices, Replace(i, d)
  PROVE  (\E t : IsList(t)') /\ Sequence!Replace
<1> DEFINE q == list_iterate
           replaced == IF Sequence!InRange(i) THEN Sequence!ReplaceAt(q, i + 1, d) ELSE q
<1>1. /\ q \in Seq(Data) /\ Len(q) = elements_count /\ elements_count \in Nat
      /\ Len(s) = elements_count
      /\ \A j \in 1 .. elements_count : q[j] = heap[s[j]].data
  BY Iterated
<1>2. /\ i \in Int /\ i \in Sequence!Indices
      /\ (Sequence!InRange(i) <=> 0 <= i /\ i < elements_count)
      /\ (Sequence!InRange(i) <=> list_get_element(i) # Null)
      /\ list_get_element(i) = IF 0 <= i /\ i < elements_count THEN s[i + 1] ELSE Null
      /\ list_get(i) = Sequence!At(i)
  BY Gets, IndicesAreIntegers
<1>3. list_get(i) = DataOf(list_get_element(i))
  BY DEF list_get
<1>4. q' = replaced /\ \E t : IsList(t)'
  <2>1. CASE Sequence!InRange(i)
    <3> DEFINE k == i + 1
    <3>1. k \in 1 .. Len(s) /\ k \in 1 .. Len(q) /\ list_get_element(i) = s[k]
      BY <1>1, <1>2, <2>1
    <3>2. replaced = [q EXCEPT ![k] = d]
      BY <2>1 DEF Sequence!ReplaceAt
    <3> HIDE DEF k, replaced
    <3>3. /\ heap' = WithData(heap, s, k, d)
          /\ head' = head /\ elements_count' = elements_count
      BY <1>2, <2>1, <3>1 DEF Replace, WithData
    <3>4. HeapOK(heap) /\ Chained(s, heap, head)
      BY DEF IsList
    <3>5. /\ HeapOK(heap') /\ Chained(s, heap', head)
          /\ \A j \in 1 .. Len(s) : heap'[s[j]].data = IF j = k THEN d ELSE heap[s[j]].data
      BY <3>1, <3>3, <3>4, Replaced
    <3>6. replaced \in Seq(Data) /\ Len(replaced) = Len(q)
      BY <1>1, <3>1, <3>2, ExceptSeq
    <3>7. \A j \in 1 .. Len(q) : replaced[j] = IF j = k THEN d ELSE q[j]
      BY <1>1, <3>2
    <3>8. \A j \in 1 .. Len(s) : heap'[s[j]].data = replaced[j]
      BY <1>1, <3>5, <3>7
    <3>9. Becomes(s, replaced)
      BY <1>1, <3>3, <3>5, <3>6, <3>8 DEF Becomes
    <3>10. QED
      BY <3>9, Becoming
  <2>2. CASE ~ Sequence!InRange(i)
    <3>1. UNCHANGED list
      BY <1>2, <2>2 DEF Replace, list
    <3>2. q' = q /\ IsList(s)'
      BY <3>1, Unchanged, Becoming
    <3>3. QED
      BY <2>2, <3>2
  <2>3. QED
    BY <2>1, <2>2
<1>5. \/ Returns(Result("list_replace", Sequence!At(i)))
      \/ Returns(Outcome("list_replace_and_destroy_element", {}, Null, <<>>, <<Sequence!At(i)>>))
  BY <1>2, <1>3 DEF Replace
<1>6. \/ Sequence!Call(replaced, Sequence!Result("list_replace", Sequence!At(i)))
      \/ Sequence!Call(replaced, Sequence!Outcome("list_replace_and_destroy_element", {}, Null,
                                                  <<>>, <<Sequence!At(i)>>))
  <2> HIDE DEF replaced
  <2>1. QED
    BY <1>4, <1>5, Calls, Outcomes
<1>7. Sequence!Replace
  BY <1>2, <1>6 DEF Sequence!Replace
<1>8. QED
  BY <1>4, <1>7

LEMMA RemovedStep ==
  ASSUME NEW s, IsList(s), NEW i \in Int, Removed(i)
  PROVE  /\ list_iterate = <<>> \/ Sequence!InRange(i)
         /\ list_iterate' = IF Sequence!InRange(i) THEN Sequence!RemoveAt(list_iterate, i + 1)
                            ELSE list_iterate
         /\ \E t : IsList(t)'
<1>1. /\ list_iterate \in Seq(Data) /\ Len(list_iterate) = elements_count
      /\ elements_count \in Nat /\ (head = Null <=> elements_count = 0)
  BY Iterated
<1>2. /\ Sequence!InRange(i) <=> list_get_element(i) # Null
      /\ Sequence!InRange(i) <=> 0 <= i /\ i < elements_count
  BY Gets
<1>3. CASE head = Null /\ UNCHANGED list
  <2>1. list_iterate = <<>>
    BY <1>1, <1>3
  <2>2. ~ Sequence!InRange(i)
    BY <1>1, <1>2, <1>3
  <2>3. list_iterate' = list_iterate /\ IsList(s)'
    BY <1>3, Unchanged, Becoming
  <2>4. QED
    BY <2>1, <2>2, <2>3
<1>4. CASE list_get_element(i) # Null /\ Unlink(i)
  <2>1. Sequence!InRange(i) /\ 0 <= i /\ i < elements_count
    BY <1>2, <1>4
  <2>2. /\ list_iterate' = Sequence!RemoveAt(list_iterate, i + 1)
        /\ \E t : IsList(t)'
    BY <1>4, <2>1, UnlinkStep
  <2>3. QED
    BY <2>1, <2>2
<1>5. QED
  BY <1>3, <1>4 DEF Removed

LEMMA RemoveStep ==
  ASSUME NEW s, IsList(s), NEW i \in Indices, list_remove(i)
  PROVE  (\E t : IsList(t)') /\ Sequence!RemoveOne
<1> DEFINE q == list_iterate
           removed == IF Sequence!InRange(i) THEN Sequence!RemoveAt(q, i + 1) ELSE q
<1>1. i \in Int /\ i \in Sequence!Indices /\ list_get(i) = Sequence!At(i)
  BY Gets, IndicesAreIntegers
<1>2. (q = <<>> \/ Sequence!InRange(i)) /\ q' = removed /\ \E t : IsList(t)'
  <2>1. Removed(i)
    BY DEF list_remove
  <2>2. QED
    BY <1>1, <2>1, RemovedStep
<1>3. \/ Returns(Result("list_remove", Sequence!At(i)))
      \/ Returns(Outcome("list_remove_and_destroy_element", {}, Null, <<>>, <<Sequence!At(i)>>))
  BY <1>1 DEF list_remove
<1>4. \/ Sequence!Call(removed, Sequence!Result("list_remove", Sequence!At(i)))
      \/ Sequence!Call(removed, Sequence!Outcome("list_remove_and_destroy_element", {}, Null,
                                                 <<>>, <<Sequence!At(i)>>))
  <2> HIDE DEF removed
  <2>1. QED
    BY <1>2, <1>3, Calls, Outcomes
<1>5. Sequence!RemoveOne
  BY <1>1, <1>2, <1>4 DEF Sequence!RemoveOne
<1>6. QED
  BY <1>2, <1>5

LEMMA RemoveMatchStep ==
  ASSUME NEW s, IsList(s), NEW c \in Conditions, list_remove_by_condition(c)
  PROVE  (\E t : IsList(t)') /\ Sequence!RemoveMatch
<1> DEFINE q == list_iterate
           removed == Sequence!RemoveFirstMatch(q, LAMBDA d : d \in c)
<1>1. /\ q \in Seq(Data) /\ Len(q) = elements_count /\ elements_count \in Nat
  BY Iterated
<1>2. /\ Found(c) = Sequence!FirstMatch(c) /\ Position(c) \in 0 .. elements_count
      /\ (Position(c) = 0 <=> ~ \E i \in 1 .. Len(q) : q[i] \in c)
  BY Finds
<1>3. removed = IF \E i \in 1 .. Len(q) : q[i] \in c
                THEN Sequence!RemoveAt(q, Position(c)) ELSE q
  BY DEF Sequence!RemoveFirstMatch, Sequence!SelectInSeq, Sequence!Min, Position, SelectInSeq, Min
<1>4. c \in Sequence!Conditions
  BY IndicesAreIntegers
<1> HIDE DEF removed
<1>5. q' = removed /\ \E t : IsList(t)'
  <2>1. CASE Position(c) # 0
    <3>1. /\ Position(c) - 1 \in Int /\ (Position(c) - 1) + 1 = Position(c)
          /\ 0 <= Position(c) - 1 /\ Position(c) - 1 < elements_count
      BY <1>1, <1>2, <2>1
    <3>2. Sequence!InRange(Position(c) - 1)
      BY <3>1, Gets
    <3>3. Removed(Position(c) - 1)
      BY <2>1 DEF list_remove_by_condition
    <3>4. /\ q' = IF Sequence!InRange(Position(c) - 1)
                  THEN Sequence!RemoveAt(q, (Position(c) - 1) + 1) ELSE q
          /\ \E t : IsList(t)'
      BY <3>1, <3>3, RemovedStep
    <3>5. QED
      BY <1>2, <1>3, <2>1, <3>1, <3>2, <3>4
  <2>2. CASE Position(c) = 0
    <3>1. UNCHANGED list
      BY <2>2 DEF list_remove_by_condition
    <3>2. q' = q /\ IsList(s)'
      BY <3>1, Unchanged, Becoming
    <3>3. QED
      BY <1>2, <1>3, <2>2, <3>2
  <2>3. QED
    BY <2>1, <2>2
<1>6. \/ Returns(Outcome("list_remove_by_condition", c, Sequence!FirstMatch(c), <<>>, <<>>))
      \/ Returns(Outcome("list_remove_and_destroy_by_condition", c, Null, <<>>,
                         <<Sequence!FirstMatch(c)>>))
  BY <1>2 DEF list_remove_by_condition
<1>7. \/ Sequence!Call(removed, Sequence!Outcome("list_remove_by_condition", c,
                                                 Sequence!FirstMatch(c), <<>>, <<>>))
      \/ Sequence!Call(removed, Sequence!Outcome("list_remove_and_destroy_by_condition", c, Null,
                                                 <<>>, <<Sequence!FirstMatch(c)>>))
  BY <1>5, <1>6, Calls, Outcomes
<1>8. Sequence!RemoveMatch
  BY <1>4, <1>7, Zenon DEF removed, Sequence!RemoveMatch
<1>9. QED
  BY <1>5, <1>8

\* The elements that are left of a chain when i are gone from its front.
LeftHeap(s, i) ==
  [e \in DOMAIN heap \cap {s[j] : j \in i + 1 .. Len(s)} |-> heap[e]]

LeftOver(s, i) ==
  [heap |-> LeftHeap(s, i),
   head |-> IF i < Len(s) THEN s[i + 1] ELSE Null,
   elements_count |-> IF i < Len(s) THEN Len(s) - i ELSE 0,
   data |-> IF 1 <= i /\ i <= Len(s) THEN heap[s[i]].data ELSE Null]

\* One more removal from what is left.
LEMMA LeftOverStep ==
  ASSUME NEW s, IsList(s), NEW i \in Nat
  PROVE  LET was == LeftOver(s, i) IN
         LeftOver(s, i + 1) =
           IF was.head = Null THEN [was EXCEPT !.data = Null]
           ELSE [heap |-> Restrict(was.heap, DOMAIN was.heap \ {was.head}),
                 head |-> was.heap[was.head].next,
                 elements_count |-> was.elements_count - 1,
                 data |-> was.heap[was.head].data]
<1> DEFINE N == Len(s)
           was == LeftOver(s, i)
           is == LeftOver(s, i + 1)
           at(k) == DOMAIN heap \cap {s[j] : j \in k + 1 .. N}
<1>1. /\ N \in Nat /\ DOMAIN s = 1 .. N
      /\ \A j \in 1 .. N : s[j] \in DOMAIN heap /\ s[j] # Null
      /\ \A j \in 1 .. N : heap[s[j]].next = IF j = N THEN Null ELSE s[j + 1]
      /\ \A j, k \in 1 .. N : s[j] = s[k] => j = k
  <2>1. HeapOK(heap) /\ Chained(s, heap, head)
    BY DEF IsList
  <2>2. N \in Nat /\ DOMAIN s = 1 .. N /\ \A j \in 1 .. N : s[j] \in DOMAIN heap /\ s[j] # Null
    BY <2>1, ChainTypes
  <2>3. QED
    BY <2>1, <2>2 DEF Chained, Follows
<1>2. /\ was.heap = [e \in at(i) |-> heap[e]] /\ DOMAIN was.heap = at(i)
      /\ was.head = IF i < N THEN s[i + 1] ELSE Null
      /\ was.elements_count = IF i < N THEN N - i ELSE 0
  BY DEF LeftOver, LeftHeap
<1>3. is = [heap |-> [e \in at(i + 1) |-> heap[e]],
            head |-> IF i + 1 < N THEN s[(i + 1) + 1] ELSE Null,
            elements_count |-> IF i + 1 < N THEN N - (i + 1) ELSE 0,
            data |-> IF 1 <= i + 1 /\ i + 1 <= N THEN heap[s[i + 1]].data ELSE Null]
  BY DEF LeftOver, LeftHeap
<1>4. was = [heap |-> [e \in at(i) |-> heap[e]],
             head |-> IF i < N THEN s[i + 1] ELSE Null,
             elements_count |-> IF i < N THEN N - i ELSE 0,
             data |-> was.data]
  BY DEF LeftOver, LeftHeap
<1> HIDE DEF N, was, is
<1>5. CASE i < N
  <2>1. i + 1 \in 1 .. N /\ ~ (i >= N)
    BY <1>1, <1>5
  <2>2. was.head = s[i + 1] /\ was.head # Null
    BY <1>1, <1>2, <1>5, <2>1
  <2>3. s[i + 1] \in at(i)
    <3>1. i + 1 \in i + 1 .. N
      BY <1>1, <2>1
    <3>2. QED
      BY <1>1, <2>1, <3>1
  <2>4. at(i) \ {s[i + 1]} = at(i + 1)
    <3>1. ASSUME NEW e, e \in at(i), e # s[i + 1] PROVE e \in at(i + 1)
      <4>1. PICK j \in i + 1 .. N : e = s[j]
        BY <3>1
      <4>2. j \in (i + 1) + 1 .. N
        BY <1>1, <3>1, <4>1
      <4>3. QED
        BY <3>1, <4>1, <4>2
    <3>2. ASSUME NEW e, e \in at(i + 1) PROVE e \in at(i) /\ e # s[i + 1]
      <4>1. PICK j \in (i + 1) + 1 .. N : e = s[j]
        BY <3>2
      <4>2. j \in i + 1 .. N /\ j \in 1 .. N /\ j # i + 1
        BY <1>1, <4>1
      <4>3. e # s[i + 1]
        BY <1>1, <2>1, <4>1, <4>2
      <4>4. QED
        BY <3>2, <4>1, <4>2, <4>3
    <3> HIDE DEF at
    <3>3. QED
      BY <3>1, <3>2
  <2> HIDE DEF at
  <2>5. Restrict(was.heap, DOMAIN was.heap \ {was.head}) = [e \in at(i + 1) |-> heap[e]]
    <3>1. \A e \in at(i + 1) : e \in at(i)
      BY <2>4
    <3>2. Restrict(was.heap, DOMAIN was.heap \ {was.head}) = [e \in at(i + 1) |-> was.heap[e]]
      BY <1>2, <2>2, <2>4 DEF Restrict
    <3>3. \A e \in at(i + 1) : was.heap[e] = heap[e]
      BY <1>2, <3>1
    <3>4. QED
      BY <3>2, <3>3
  <2>6. was.heap[was.head] = heap[s[i + 1]]
    BY <1>2, <2>2, <2>3
  <2>7. was.heap[was.head].next = IF i + 1 < N THEN s[(i + 1) + 1] ELSE Null
    BY <1>1, <2>1, <2>6
  <2>8. was.elements_count - 1 = IF i + 1 < N THEN N - (i + 1) ELSE 0
    BY <1>1, <1>2, <1>5
  <2>9. 1 <= i + 1 /\ i + 1 <= N
    BY <1>1, <2>1
  <2>10. is = [heap |-> Restrict(was.heap, DOMAIN was.heap \ {was.head}),
               head |-> was.heap[was.head].next,
               elements_count |-> was.elements_count - 1,
               data |-> was.heap[was.head].data]
    BY <1>3, <2>5, <2>6, <2>7, <2>8, <2>9
  <2>11. QED
    BY <2>2, <2>10 DEF was, is
<1>6. CASE ~ (i < N)
  <2>1. was.head = Null
    BY <1>2, <1>6
  <2>2. at(i) = {} /\ at(i + 1) = {}
    <3>1. i + 1 .. N = {} /\ (i + 1) + 1 .. N = {}
      BY <1>1, <1>6
    <3>2. QED
      BY <3>1
  <2>3. ~ (i + 1 < N) /\ ~ (i + 1 <= N)
    BY <1>1, <1>6
  <2> HIDE DEF at
  <2>4. is = [heap |-> [e \in {} |-> heap[e]], head |-> Null, elements_count |-> 0, data |-> Null]
    BY <1>3, <2>2, <2>3
  <2>5. was = [heap |-> [e \in {} |-> heap[e]], head |-> Null, elements_count |-> 0,
               data |-> was.data]
    BY <1>4, <1>6, <2>2
  <2>6. [was EXCEPT !.data = Null] = is
    BY <2>4, <2>5
  <2>7. QED
    BY <2>1, <2>6 DEF was, is
<1>7. QED
  BY <1>5, <1>6

\* What list_remove(self, 0) has left of the list when it was called i times.
LEMMA RemovedFirstIs ==
  ASSUME NEW s, IsList(s), NEW i \in 0 .. MaxLength + 1
  PROVE  RemovedFirst[i] = LeftOver(s, i)
<1> DEFINE M == MaxLength + 1
           Less(was) ==
             IF was.head = Null THEN [was EXCEPT !.data = Null]
             ELSE [heap |-> Restrict(was.heap, DOMAIN was.heap \ {was.head}),
                   head |-> was.heap[was.head].next,
                   elements_count |-> was.elements_count - 1,
                   data |-> was.heap[was.head].data]
           none == [heap |-> heap, head |-> head, elements_count |-> elements_count,
                    data |-> Null]
           Is(f) == f = [k \in 0 .. M |-> IF k = 0 THEN none ELSE Less(f[k - 1])]
           left == [k \in 0 .. M |-> LeftOver(s, k)]
           T == {n \in Nat : n <= M => RemovedFirst[n] = LeftOver(s, n)}
<1>1. M \in Nat
  BY LinkedListAssumption
<1>2. LeftOver(s, 0) = none
  <2>1. HeapOK(heap) /\ Chained(s, heap, head) /\ elements_count = Len(s) /\ Len(s) \in Nat
    BY ChainTypes DEF IsList
  <2>2. DOMAIN heap \cap {s[j] : j \in 0 + 1 .. Len(s)} = DOMAIN heap
    <3>1. \A e \in DOMAIN heap : \E j \in 1 .. Len(s) : s[j] = e
      BY <2>1 DEF Chained
    <3>2. 0 + 1 = 1
      OBVIOUS
    <3>3. QED
      BY <3>1, <3>2
  <2>3. heap = [e \in DOMAIN heap |-> heap[e]]
    BY <2>1 DEF HeapOK
  <2>4. LeftHeap(s, 0) = heap
    BY <2>2, <2>3 DEF LeftHeap
  <2>5. head = IF 0 < Len(s) THEN s[0 + 1] ELSE Null
    BY <2>1, ChainTypes DEF Chained, Follows
  <2>6. elements_count = IF 0 < Len(s) THEN Len(s) - 0 ELSE 0
    BY <2>1
  <2>7. QED
    BY <2>4, <2>5, <2>6 DEF LeftOver
<1>3. \A k \in Nat : LeftOver(s, k + 1) = Less(LeftOver(s, k))
  BY LeftOverStep
<1>4. RemovedFirst = CHOOSE f : Is(f)
  BY DEF RemovedFirst
<1> HIDE DEF M, none, Less
<1>5. Is(left)
  <2>1. ASSUME NEW k \in 0 .. M
        PROVE  left[k] = IF k = 0 THEN none ELSE Less(left[k - 1])
    <3>1. CASE k = 0
      BY <1>2, <3>1
    <3>2. CASE k # 0
      <4>1. k - 1 \in Nat /\ k - 1 \in 0 .. M /\ (k - 1) + 1 = k
        BY <1>1, <3>2
      <4>2. left[k - 1] = LeftOver(s, k - 1) /\ left[k] = LeftOver(s, k)
        BY <4>1
      <4>3. LeftOver(s, (k - 1) + 1) = Less(LeftOver(s, k - 1))
        BY <1>3, <4>1
      <4>4. QED
        BY <3>2, <4>1, <4>2, <4>3
    <3>3. QED
      BY <3>1, <3>2
  <2>2. QED
    BY <2>1
<1> HIDE DEF left
<1>6. Is(RemovedFirst)
  BY <1>4, <1>5
<1>7. 0 \in T
  BY <1>1, <1>2, <1>6
<1>8. ASSUME NEW n \in Nat, n \in T PROVE n + 1 \in T
  <2> SUFFICES ASSUME n + 1 <= M PROVE RemovedFirst[n + 1] = LeftOver(s, n + 1)
    OBVIOUS
  <2>1. n + 1 \in 0 .. M /\ n + 1 # 0 /\ (n + 1) - 1 = n /\ RemovedFirst[n] = LeftOver(s, n)
    BY <1>1, <1>8
  <2>2. RemovedFirst[n + 1] = Less(RemovedFirst[n])
    BY <1>6, <2>1
  <2>3. QED
    BY <1>3, <2>1, <2>2
<1>9. Nat \subseteq T
  <2> HIDE DEF T
  <2> QED
    BY <1>7, <1>8, Induction
<1>10. QED
  BY <1>1, <1>9 DEF M

LEMMA TakeStep ==
  ASSUME NEW s, IsList(s), NEW n \in Indices, list_take_and_remove(n)
  PROVE  (\E t : IsList(t)') /\ Sequence!TakeAndRemove
<1> DEFINE q == list_iterate
           N == Len(s)
           from == IF n < 0 THEN 1 ELSE n + 1
           keep == SubSeq(s, from, N)
           m == Sequence!Least(IF n < 0 THEN 0 ELSE n, Len(q))
           rest == SubSeq(q, m + 1, Len(q))
<1>1. /\ q \in Seq(Data) /\ Len(q) = N /\ N \in Nat
      /\ Walk = s /\ s \in Seq(DOMAIN heap) /\ DOMAIN s = 1 .. N
      /\ \A j \in 1 .. N : q[j] = heap[s[j]].data
  BY Iterated
<1>2. n \in Int /\ n \in Sequence!Indices /\ IsList(s) /\ MaxLength \in Nat
  BY IndicesAreIntegers, LinkedListAssumption
<1>3. \A i \in 1 .. N : s[i] \in DOMAIN heap /\ q[i] \in Data
  BY <1>1
<1>4. m = IF n < 0 THEN 0 ELSE IF n < N THEN n ELSE N
  BY <1>1, <1>2 DEF Sequence!Least
<1>5. /\ heap' = LeftHeap(s, m)
      /\ head' = IF m < N THEN s[m + 1] ELSE Null
      /\ elements_count' = N - m
      /\ Returns(Outcome("list_take_and_remove", {}, Null, Sequence!Firsts(n), <<>>))
  <2> DEFINE i == IF n < 0 THEN 0 ELSE n
  <2>1. /\ i \in 0 .. MaxLength + 1 /\ i \in Nat
        /\ (n < 0 => i = 0) /\ (~ (n < 0) => i = n)
    BY <1>2 DEF Indices
  <2>2. /\ heap' = RemovedFirst[i].heap /\ head' = RemovedFirst[i].head
        /\ elements_count' = RemovedFirst[i].elements_count
        /\ Returns(Outcome("list_take_and_remove", {}, Null,
                           [k \in 1 .. n |-> RemovedFirst[k].data], <<>>))
    BY DEF list_take_and_remove
  <2> HIDE DEF i, N, m
  <2>3. RemovedFirst[i] = LeftOver(s, i)
    BY <1>2, <2>1, RemovedFirstIs
  <2>4. /\ heap' = LeftHeap(s, i) /\ head' = IF i < N THEN s[i + 1] ELSE Null
        /\ elements_count' = IF i < N THEN N - i ELSE 0
    BY <2>2, <2>3 DEF LeftOver, N
  <2>5. Returns(Outcome("list_take_and_remove", {}, Null, Sequence!Firsts(n), <<>>))
    <3>1. ASSUME NEW k \in 1 .. n PROVE RemovedFirst[k].data = Sequence!At(k - 1)
      <4>1. k \in Int /\ k \in 0 .. MaxLength + 1 /\ 1 <= k /\ k - 1 \in Int
        BY <1>2 DEF Indices
      <4>2. RemovedFirst[k] = LeftOver(s, k)
        BY <1>2, <4>1, RemovedFirstIs
      <4>3. RemovedFirst[k].data = IF k <= N THEN heap[s[k]].data ELSE Null
        BY <4>1, <4>2 DEF LeftOver, N
      <4>4. Sequence!At(k - 1) = IF k <= N THEN q[k] ELSE Null
        BY <1>1, <4>1 DEF Sequence!At, Sequence!InRange
      <4>5. k <= N => q[k] = heap[s[k]].data
        BY <1>1, <4>1
      <4>6. QED
        BY <4>3, <4>4, <4>5
    <3>2. [k \in 1 .. n |-> RemovedFirst[k].data] = Sequence!Firsts(n)
      BY <3>1 DEF Sequence!Firsts
    <3>3. QED
      BY <2>2, <3>2
  <2>6. CASE i < N
    <3>1. i = m
      BY <1>1, <1>2, <1>4, <2>1, <2>6
    <3>2. QED
      BY <2>4, <2>6, <3>1, <2>5
  <2>7. CASE ~ (i < N)
    <3>1. m = N
      BY <1>1, <1>2, <1>4, <2>1, <2>7
    <3>2. i + 1 .. N = {} /\ N + 1 .. N = {}
      BY <1>1, <2>1, <2>7
    <3>3. LeftHeap(s, i) = LeftHeap(s, N)
      BY <3>2 DEF LeftHeap, N
    <3>4. QED
      BY <1>1, <2>4, <2>5, <2>7, <3>1, <3>3
  <2>8. QED
    BY <2>6, <2>7
<1> HIDE DEF N, m
<1>6. m \in 0 .. N /\ m \in Nat /\ N - m \in Nat
  BY <1>1, <1>2, <1>4
<1>7. keep \in Seq(DOMAIN heap) /\ Len(keep) = N - m /\ \A j \in 1 .. N - m : keep[j] = s[j + m]
  <2>1. from \in Int /\ \A i \in from .. N : s[i] \in DOMAIN heap
    BY <1>1, <1>2, <1>3
  <2>2. /\ keep \in Seq(DOMAIN heap)
        /\ Len(keep) = IF from <= N THEN N - from + 1 ELSE 0
        /\ \A i \in 1 .. N - from + 1 : keep[i] = s[from + i - 1]
    <3>1. N \in Int
      BY <1>1
    <3> HIDE DEF from
    <3>2. QED
      BY <2>1, <3>1, SubSeqProperties
  <2>3. /\ N - m = IF from <= N THEN N - from + 1 ELSE 0
        /\ \A j \in 1 .. N - m : j \in 1 .. N - from + 1 /\ from + j - 1 = j + m
    BY <1>1, <1>2, <1>4
  <2> HIDE DEF keep, from
  <2>4. QED
    BY <2>2, <2>3
<1>8. rest \in Seq(Data) /\ Len(rest) = N - m /\ \A j \in 1 .. N - m : rest[j] = q[j + m]
  <2>1. m + 1 \in Int /\ Len(q) \in Int /\ \A i \in m + 1 .. Len(q) : q[i] \in Data
    BY <1>1, <1>3, <1>6
  <2>2. /\ rest \in Seq(Data)
        /\ Len(rest) = IF m + 1 <= Len(q) THEN Len(q) - (m + 1) + 1 ELSE 0
        /\ \A i \in 1 .. Len(q) - (m + 1) + 1 : rest[i] = q[(m + 1) + i - 1]
    BY <2>1, SubSeqProperties
  <2>3. /\ N - m = IF m + 1 <= Len(q) THEN Len(q) - (m + 1) + 1 ELSE 0
        /\ \A j \in 1 .. N - m : j \in 1 .. Len(q) - (m + 1) + 1 /\ (m + 1) + j - 1 = j + m
    BY <1>1, <1>6
  <2> HIDE DEF rest
  <2>4. QED
    BY <2>2, <2>3
<1> HIDE DEF keep, rest
<1>9. /\ keep \in [1 .. N - m -> DOMAIN heap] /\ DOMAIN keep = 1 .. N - m
      /\ (keep = <<>> <=> N - m = 0)
  BY <1>6, <1>7
<1>10. heap' = [e \in DOMAIN heap \cap {keep[j] : j \in 1 .. N - m} |-> heap[e]]
  <2>1. ASSUME NEW j \in m + 1 .. N PROVE \E k \in 1 .. N - m : keep[k] = s[j]
    <3>1. j - m \in 1 .. N - m /\ (j - m) + m = j
      BY <1>1, <1>6
    <3>2. QED
      BY <1>7, <3>1
  <2>2. ASSUME NEW k \in 1 .. N - m PROVE \E j \in m + 1 .. N : s[j] = keep[k]
    <3>1. k + m \in m + 1 .. N
      BY <1>1, <1>6
    <3>2. QED
      BY <1>7, <3>1
  <2>3. {s[j] : j \in m + 1 .. N} = {keep[j] : j \in 1 .. N - m}
    BY <2>1, <2>2
  <2>4. QED
    BY <1>5, <2>3 DEF LeftHeap, N
<1>11. head' = IF N - m = 0 THEN Null ELSE keep[1]
  <2>1. m < N <=> N - m # 0
    BY <1>1, <1>6
  <2>2. N - m # 0 => 1 \in 1 .. N - m /\ keep[1] = s[m + 1]
    BY <1>1, <1>6, <1>7
  <2>3. QED
    BY <1>5, <2>1, <2>2
<1>12. /\ HeapOK(heap') /\ Chained(keep, heap', head') /\ Len(keep) = N - m
       /\ \A j \in 1 .. N - m : heap'[keep[j]].data = heap[s[j + m]].data
  <2>1. HeapOK(heap) /\ Chained(s, heap, head)
    BY DEF IsList
  <2>2. m \in 0 .. Len(s) /\ keep \in [1 .. Len(s) - m -> DOMAIN heap]
    BY <1>6, <1>9 DEF N
  <2>3. \A j \in 1 .. Len(s) - m : keep[j] = s[j + m]
    BY <1>7 DEF N
  <2>4. heap' = [e \in DOMAIN heap \cap {keep[j] : j \in 1 .. Len(s) - m} |-> heap[e]]
    BY <1>10 DEF N
  <2>5. head' = IF Len(s) - m = 0 THEN Null ELSE keep[1]
    BY <1>11 DEF N
  <2>6. FrontOff(keep, heap', head', s, heap, m)
    BY <2>2, <2>3, <2>4, <2>5 DEF FrontOff
  <2>7. /\ HeapOK(heap') /\ Chained(keep, heap', head') /\ Len(keep) = Len(s) - m
        /\ \A j \in 1 .. Len(keep) : heap'[keep[j]].data = heap[s[j + m]].data
    BY <2>1, <2>2, <2>6, Shortened
  <2>8. QED
    BY <2>7 DEF N
<1>13. \A j \in 1 .. N - m : heap'[keep[j]].data = rest[j]
  <2> SUFFICES ASSUME NEW j \in 1 .. N - m PROVE heap'[keep[j]].data = rest[j]
    OBVIOUS
  <2>1. j + m \in 1 .. N
    BY <1>1, <1>6
  <2>2. rest[j] = heap[s[j + m]].data
    BY <1>1, <1>8, <2>1
  <2>3. QED
    BY <1>12, <2>2
<1>14. Becomes(keep, rest)
  BY <1>5, <1>7, <1>8, <1>12, <1>13 DEF Becomes
<1>15. q' = rest /\ IsList(keep)'
  BY <1>14, Becoming
<1>16. Sequence!Call(rest, Sequence!Outcome("list_take_and_remove", {}, Null,
                                            Sequence!Firsts(n), <<>>))
  BY <1>5, <1>15, Calls, Outcomes
<1>17. Sequence!TakeAndRemove
  BY <1>2, <1>16 DEF Sequence!TakeAndRemove, rest, m
<1>18. QED
  BY <1>15, <1>17

LEMMA EmptyStep ==
  ASSUME DOMAIN heap' = {}, heap' = [e \in DOMAIN heap' |-> heap'[e]],
         head' = Null, elements_count' = 0
  PROVE  list_iterate' = <<>> /\ IsList(<<>>)'
<1>1. HeapOK(heap') /\ Chained(<<>>, heap', Null) /\ Len(<<>>) = 0
  BY NoElements
<1>2. <<>> \in Seq(Data) /\ 1 .. 0 = {}
  OBVIOUS
<1>3. Becomes(<<>>, <<>>)
  BY <1>1, <1>2 DEF Becomes
<1>4. QED
  BY <1>3, Becoming

LEMMA EmptiedStep ==
  ASSUME NEW s, IsList(s), Emptied
  PROVE  list_iterate' = <<>> /\ IsList(<<>>)'
<1>1. Walk = s /\ DOMAIN s = 1 .. Len(s)
  BY Iterated
<1>2. s \in Seq(DOMAIN heap) /\ \A e \in DOMAIN heap : \E i \in 1 .. Len(s) : s[i] = e
  BY DEF IsList, Chained
<1>3. DOMAIN heap \ ToSet(Walk) = {}
  BY <1>1, <1>2 DEF ToSet
<1>4. heap' = [e \in {} |-> heap[e]] /\ head' = Null /\ elements_count' = 0
  BY <1>3 DEF Emptied, Restrict
<1>5. QED
  BY <1>4, EmptyStep

LEMMA CleanStep ==
  ASSUME NEW s, IsList(s), Clean
  PROVE  IsList(<<>>)' /\ Sequence!Clean
<1>1. list_iterate' = <<>> /\ IsList(<<>>)'
  BY EmptiedStep DEF Clean
<1>2. \/ Returns(Result("list_clean", Null))
      \/ Returns(Outcome("list_clean_and_destroy_elements", {}, Null, <<>>, list_iterate))
  BY DEF Clean
<1>3. Sequence!Clean
  BY <1>1, <1>2, Calls, Outcomes DEF Sequence!Clean
<1>4. QED
  BY <1>1, <1>3

LEMMA DestroyStep ==
  ASSUME NEW s, IsList(s), Destroy
  PROVE  IsList(<<>>)' /\ Sequence!Destroy
<1>1. list_iterate' = <<>> /\ IsList(<<>>)'
  BY EmptiedStep DEF Destroy
<1>2. /\ live /\ live' = FALSE
      /\ \/ last' = Result("list_destroy", Null)
         \/ last' = Outcome("list_destroy_and_destroy_elements", {}, Null, <<>>, list_iterate)
  BY DEF Destroy
<1>3. Sequence!Destroy
  BY <1>1, <1>2, Outcomes DEF Sequence!Destroy, Sequence!LastCall
<1>4. QED
  BY <1>1, <1>3

LEMMA FaultStep ==
  ASSUME NEW s, IsList(s), NEW i \in Indices, RemoveFault(i)
  PROVE  IsList(<<>>)' /\ Sequence!Fault
<1>1. heap' = [e \in {} |-> heap[e]] /\ head' = Null /\ elements_count' = 0
  BY DEF RemoveFault, Restrict
<1>2. list_iterate' = <<>> /\ IsList(<<>>)'
  BY <1>1, EmptyStep
<1>3. /\ list_iterate \in Seq(Data) /\ Len(list_iterate) = elements_count
      /\ (head = Null <=> elements_count = 0)
  BY Iterated
<1>4. list_iterate # <<>>
  BY <1>3 DEF RemoveFault
<1>5. live /\ live' = FALSE /\ last' = Result("fault", Null)
  BY DEF RemoveFault
<1>6. Sequence!Fault
  BY <1>2, <1>4, <1>5, Outcomes DEF Sequence!Fault, Sequence!LastCall
<1>7. QED
  BY <1>2, <1>6

LEMMA CreateStep ==
  ASSUME Create
  PROVE  IsList(<<>>)' /\ Sequence!Create
<1>1. /\ heap' = [e \in {} |-> heap[e]] /\ head' = Null /\ elements_count' = 0
      /\ ~ live /\ live' = TRUE /\ last' = Result("list_create", Null)
  BY DEF Create, Restrict
<1>2. list_iterate' = <<>> /\ IsList(<<>>)'
  BY <1>1, EmptyStep
<1>3. QED
  BY <1>1, <1>2, Outcomes DEF Sequence!Create

--------------------------------------------------------------------------------
(******************************************************************************)
(* The theorems.                                                              *)
(******************************************************************************)

LEMMA ListInitial == ListInit => ListInv /\ Sequence!Init
<1> SUFFICES ASSUME ListInit PROVE ListInv /\ Sequence!Init
  OBVIOUS
<1>1. /\ heap = [n \in {} |-> Null] /\ head = Null /\ elements_count = 0
      /\ live = FALSE /\ last = Result("none", Null)
  BY DEF ListInit
<1>2. HeapOK(heap) /\ Chained(<<>>, heap, Null) /\ Len(<<>>) = 0
  BY <1>1, NoElements
<1>3. IsList(<<>>)
  BY <1>1, <1>2 DEF IsList
<1>4. list_iterate \in Seq(Data) /\ Len(list_iterate) = 0
  BY <1>1, <1>3, Iterated
<1>5. list_iterate = <<>>
  BY <1>4
<1>6. Sequence!Init
  BY <1>1, <1>5, Outcomes DEF Sequence!Init
<1>7. QED
  BY <1>1, <1>3, <1>6 DEF ListInv

LEMMA ListStep ==
  ListInv /\ [ListNext]_listVars => ListInv' /\ [Sequence!Next]_(Sequence!vars)
<1> SUFFICES ASSUME ListInv, [ListNext]_listVars
             PROVE  ListInv' /\ [Sequence!Next]_(Sequence!vars)
  OBVIOUS
<1>1. PICK s : IsList(s)
  BY DEF ListInv
<1>2. live \in BOOLEAN /\ (live \/ elements_count = 0)
  BY DEF ListInv
<1>3. ASSUME \E t : IsList(t)', live' = live, live PROVE ListInv'
  BY <1>3 DEF ListInv
<1>4. ASSUME IsList(<<>>)', live' \in BOOLEAN PROVE ListInv'
  <2>1. elements_count' = 0
    BY <1>4 DEF IsList
  <2>2. QED
    BY <1>4, <2>1 DEF ListInv
<1>5. CASE Create
  <2>1. IsList(<<>>)' /\ Sequence!Create
    BY <1>5, CreateStep
  <2>2. live' \in BOOLEAN
    BY <1>5 DEF Create
  <2>3. QED
    BY <1>4, <2>1, <2>2 DEF Sequence!Next
<1>6. CASE Look
  <2>1. IsList(s)' /\ Sequence!Look
    BY <1>1, <1>6, LookStep
  <2>2. live /\ live' = live
    BY <1>6 DEF Look, Returns
  <2>3. QED
    BY <1>3, <2>1, <2>2 DEF Sequence!Next
<1>7. CASE Clean
  <2>1. IsList(<<>>)' /\ Sequence!Clean
    BY <1>1, <1>7, CleanStep
  <2>2. live /\ live' = live
    BY <1>7 DEF Clean, Returns
  <2>3. QED
    BY <1>3, <2>1, <2>2 DEF Sequence!Next
<1>8. CASE Destroy
  <2>1. IsList(<<>>)' /\ Sequence!Destroy
    BY <1>1, <1>8, DestroyStep
  <2>2. live' \in BOOLEAN
    BY <1>8 DEF Destroy
  <2>3. QED
    BY <1>4, <2>1, <2>2 DEF Sequence!Next
<1>9. ASSUME NEW d \in Data, list_add(d)
      PROVE  ListInv' /\ [Sequence!Next]_(Sequence!vars)
  <2>1. (\E t : IsList(t)') /\ Sequence!Insert
    BY <1>1, <1>9, AddStep
  <2>2. live /\ live' = live
    BY <1>9 DEF list_add, Returns
  <2>3. QED
    BY <1>3, <2>1, <2>2 DEF Sequence!Next
<1>10. ASSUME NEW d \in Data, NEW i \in Indices, list_add_in_index(i, d)
       PROVE  ListInv' /\ [Sequence!Next]_(Sequence!vars)
  <2>1. (\E t : IsList(t)') /\ Sequence!Insert
    BY <1>1, <1>10, AddInIndexStep
  <2>2. live /\ live' = live
    BY <1>10 DEF list_add_in_index, Returns
  <2>3. QED
    BY <1>3, <2>1, <2>2 DEF Sequence!Next
<1>11. ASSUME NEW d \in Data, NEW i \in Indices, Replace(i, d)
       PROVE  ListInv' /\ [Sequence!Next]_(Sequence!vars)
  <2>1. (\E t : IsList(t)') /\ Sequence!Replace
    BY <1>1, <1>11, ReplaceStep
  <2>2. live /\ live' = live
    BY <1>11 DEF Replace, Returns
  <2>3. QED
    BY <1>3, <2>1, <2>2 DEF Sequence!Next
<1>12. ASSUME NEW i \in Indices, list_remove(i)
       PROVE  ListInv' /\ [Sequence!Next]_(Sequence!vars)
  <2>1. (\E t : IsList(t)') /\ Sequence!RemoveOne
    BY <1>1, <1>12, RemoveStep
  <2>2. live /\ live' = live
    BY <1>12 DEF list_remove, Returns
  <2>3. QED
    BY <1>3, <2>1, <2>2 DEF Sequence!Next
<1>13. ASSUME NEW i \in Indices, RemoveFault(i)
       PROVE  ListInv' /\ [Sequence!Next]_(Sequence!vars)
  <2>1. IsList(<<>>)' /\ Sequence!Fault
    BY <1>1, <1>13, FaultStep
  <2>2. live' \in BOOLEAN
    BY <1>13 DEF RemoveFault
  <2>3. QED
    BY <1>4, <2>1, <2>2 DEF Sequence!Next
<1>14. ASSUME NEW i \in Indices, list_take_and_remove(i)
       PROVE  ListInv' /\ [Sequence!Next]_(Sequence!vars)
  <2>1. (\E t : IsList(t)') /\ Sequence!TakeAndRemove
    BY <1>1, <1>14, TakeStep
  <2>2. live /\ live' = live
    BY <1>14 DEF list_take_and_remove, Returns
  <2>3. QED
    BY <1>3, <2>1, <2>2 DEF Sequence!Next
<1>15. ASSUME NEW c \in Conditions, list_remove_by_condition(c)
       PROVE  ListInv' /\ [Sequence!Next]_(Sequence!vars)
  <2>1. (\E t : IsList(t)') /\ Sequence!RemoveMatch
    BY <1>1, <1>15, RemoveMatchStep
  <2>2. live /\ live' = live
    BY <1>15 DEF list_remove_by_condition, Returns
  <2>3. QED
    BY <1>3, <2>1, <2>2 DEF Sequence!Next
<1>16. CASE UNCHANGED listVars
  <2>1. UNCHANGED list /\ live' = live /\ last' = last
    BY <1>16 DEF listVars
  <2>2. IsList(s)' /\ list_iterate' = list_iterate
    BY <1>1, <2>1, Unchanged, Becoming
  <2>3. elements_count' = elements_count
    BY <2>1 DEF list
  <2>4. ListInv'
    BY <1>2, <2>1, <2>2, <2>3 DEF ListInv
  <2>5. UNCHANGED Sequence!vars
    BY <2>1, <2>2 DEF Sequence!vars
  <2>6. QED
    BY <2>4, <2>5
<1>17. QED
  BY <1>5, <1>6, <1>7, <1>8, <1>9, <1>10, <1>11, <1>12, <1>13, <1>14, <1>15, <1>16 DEF ListNext

(******************************************************************************)
(* In every state the elements of the heap form one chain from the head to    *)
(* NULL, as long as elements_count says (list.c:314-355).                     *)
(******************************************************************************)
THEOREM ListIsAChain == ListSpec => []ListInv
<1>1. ListInit => ListInv
  BY ListInitial
<1>2. ListInv /\ [ListNext]_listVars => ListInv'
  BY ListStep
<1>3. QED
  BY <1>1, <1>2, PTL DEF ListSpec

(******************************************************************************)
(* After any calls of the list, following next until NULL and counting up to  *)
(* elements_count meet the same elements (list.c:127-133, 327-339).           *)
(******************************************************************************)
THEOREM WalksAlwaysAgree == ListSpec => []WalksAgree
<1>1. ListInv => WalksAgree
  <2> SUFFICES ASSUME ListInv PROVE WalksAgree
    OBVIOUS
  <2>1. PICK s : IsList(s)
    BY DEF ListInv
  <2>2. Walk = s /\ DOMAIN s = 1 .. Len(s) /\ Len(s) = elements_count /\ elements_count \in Nat
    BY <2>1, Iterated
  <2>3. ASSUME NEW i \in DOMAIN s PROVE list_get_element(i - 1) = s[i]
    <3>1. i - 1 \in Int /\ (i - 1) + 1 = i /\ 0 <= i - 1 /\ i - 1 < elements_count
      BY <2>2
    <3>2. list_get_element(i - 1) =
            IF 0 <= i - 1 /\ i - 1 < elements_count THEN s[(i - 1) + 1] ELSE Null
      BY <2>1, <3>1, Gets
    <3>3. QED
      BY <3>1, <3>2
  <2>4. QED
    BY <2>2, <2>3 DEF WalksAgree
<1>2. QED
  BY <1>1, ListIsAChain, PTL

(******************************************************************************)
(* No call loses an element it allocated or keeps one it freed: the elements  *)
(* in the heap are those of the list, and none when there is no list          *)
(* (list.c:31-355).                                                           *)
(******************************************************************************)
THEOREM NoElementIsLost == ListSpec => []NothingLost
<1>1. ListInv => NothingLost
  <2> SUFFICES ASSUME ListInv PROVE NothingLost
    OBVIOUS
  <2>1. PICK s : IsList(s)
    BY DEF ListInv
  <2>2. /\ Walk = s /\ DOMAIN s = 1 .. Len(s) /\ Len(s) = elements_count
        /\ s \in Seq(DOMAIN heap)
    BY <2>1, Iterated
  <2>3. \A e \in DOMAIN heap : \E i \in 1 .. Len(s) : s[i] = e
    BY <2>1 DEF IsList, Chained
  <2>4. DOMAIN heap = ToSet(s)
    <3>1. \A i \in 1 .. Len(s) : s[i] \in DOMAIN heap
      BY <2>2
    <3>2. ToSet(s) = {s[i] : i \in 1 .. Len(s)}
      BY <2>2 DEF ToSet
    <3>3. QED
      BY <2>3, <3>1, <3>2
  <2>5. ~ live => DOMAIN heap = {}
    <3> SUFFICES ASSUME ~ live PROVE DOMAIN heap = {}
      OBVIOUS
    <3>1. Len(s) = 0
      BY <2>2 DEF ListInv
    <3>2. 1 .. 0 = {}
      OBVIOUS
    <3>3. QED
      BY <2>3, <3>1, <3>2
  <2>6. QED
    BY <2>2, <2>4, <2>5, Zenon DEF NothingLost
<1>2. QED
  BY <1>1, ListIsAChain, PTL

(******************************************************************************)
(* Every call of the list is the call of ListSequence on the data its         *)
(* elements point to: it returns, hands to the destroyer, puts in the sublist *)
(* and leaves in the list what a sequence would (list.c:31-355).              *)
(******************************************************************************)
THEOREM ListIsItsSequence == ListSpec => ImplementsSequence
<1>1. ListInit => ListInv /\ Sequence!Init
  BY ListInitial
<1>2. ListInv /\ [ListNext]_listVars => ListInv' /\ [Sequence!Next]_(Sequence!vars)
  BY ListStep
<1>3. QED
  BY <1>1, <1>2, PTL DEF ListSpec, ImplementsSequence, Sequence!Spec

================================================================================
