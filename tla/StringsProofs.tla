----------------------------- MODULE StringsProofs -----------------------------
(******************************************************************************)
(* The loops of string.c compute what their definitions say, for strings of   *)
(* any length over any characters.                                            *)
(*                                                                            *)
(* Each loop is a function defined by recursion on a position.  That there is *)
(* one such function is shown by giving it (ForwardExists, BackwardExists) or *)
(* by induction from the end of the string (SplitExists).  What a call leaves *)
(* depends on the string before it alone, so that strings of characters are   *)
(* all the invariant there is (TextInv).                                      *)
(******************************************************************************)
EXTENDS Strings, FiniteSetTheorems, SequenceTheorems, TLAPS

TextInv ==
  /\ text \in Seq(Char) /\ call.before \in Seq(Char) /\ call.with \in Seq(Char)
  /\ LoopsMeetDefinitions

--------------------------------------------------------------------------------
(******************************************************************************)
(* Induction, as in the other proofs: from the least number of a set.         *)
(******************************************************************************)

LEMMA LeastNatural ==
  ASSUME NEW T \in SUBSET Nat, T # {}
  PROVE  \E m \in T : \A k \in T : m <= k
<1>1. IsWellFoundedOn(OpToRel(<, Nat), Nat)
  BY NatLessThanWellFounded
<1>2. PICK m \in T : \A k \in T : ~ (<<k, m>> \in OpToRel(<, Nat))
  BY <1>1, WFMin
<1>3. \A k \in T : k \in Nat /\ m \in Nat
  BY <1>2
<1>4. \A k \in T : ~ (k < m)
  BY <1>2, <1>3 DEF OpToRel
<1>5. QED
  BY <1>3, <1>4

LEMMA Induction ==
  ASSUME NEW T, 0 \in T, \A n \in Nat : n \in T => n + 1 \in T
  PROVE  Nat \subseteq T
<1> SUFFICES ASSUME Nat \ T # {} PROVE FALSE
  OBVIOUS
<1>1. PICK m \in Nat \ T : \A k \in Nat \ T : m <= k
  BY LeastNatural
<1>2. m # 0 /\ m - 1 \in Nat /\ m - 1 \notin Nat \ T
  BY <1>1
<1>3. m - 1 \in T /\ (m - 1) + 1 = m
  BY <1>2
<1>4. m \in T
  BY <1>2, <1>3
<1>5. QED
  BY <1>1, <1>4

--------------------------------------------------------------------------------
(******************************************************************************)
(* A part of a string.                                                        *)
(******************************************************************************)

LEMMA Part ==
  ASSUME NEW S, NEW t \in Seq(S), NEW a \in 1 .. Len(t) + 1, NEW b \in a - 1 .. Len(t)
  PROVE  /\ SubSeq(t, a, b) \in Seq(S) /\ Len(SubSeq(t, a, b)) = b - a + 1
         /\ DOMAIN SubSeq(t, a, b) = 1 .. b - a + 1
         /\ \A k \in 1 .. b - a + 1 : SubSeq(t, a, b)[k] = t[a + k - 1]
<1>1. Len(t) \in Nat /\ a \in Int /\ b \in Int
  OBVIOUS
<1>2. \A k \in a .. b : k \in 1 .. Len(t) /\ t[k] \in S
  BY <1>1
<1>3. SubSeq(t, a, b) \in Seq(S) /\ Len(SubSeq(t, a, b)) = IF a <= b THEN b - a + 1 ELSE 0
  BY <1>1, <1>2, SubSeqProperties
<1>4. Len(SubSeq(t, a, b)) = b - a + 1
  BY <1>1, <1>3
<1>5. \A k \in 1 .. b - a + 1 : SubSeq(t, a, b)[k] = t[a + k - 1]
  BY <1>1, <1>2, SubSeqProperties
<1>6. QED
  BY <1>3, <1>4, <1>5

LEMMA PartHolds ==
  ASSUME NEW S, NEW t \in Seq(S), NEW a \in 1 .. Len(t) + 1, NEW b \in a - 1 .. Len(t),
         NEW chars, \A k \in a .. b : t[k] \in chars
  PROVE  AllIn(SubSeq(t, a, b), chars)
<1>1. /\ DOMAIN SubSeq(t, a, b) = 1 .. b - a + 1
      /\ \A k \in 1 .. b - a + 1 : SubSeq(t, a, b)[k] = t[a + k - 1]
  BY Part
<1>2. \A k \in 1 .. b - a + 1 : a + k - 1 \in a .. b
  OBVIOUS
<1>3. \A k \in DOMAIN SubSeq(t, a, b) : SubSeq(t, a, b)[k] \in chars
  BY <1>1, <1>2
<1>4. QED
  BY <1>3 DEF AllIn, Range

--------------------------------------------------------------------------------
(******************************************************************************)
(* Loops that go on from a position as long as they meet certain characters.  *)
(******************************************************************************)

\* The first position from i on, up to one beyond the end, that is not in S.
FirstOut(t, S, i, j) ==
  /\ j \in i .. Len(t) + 1
  /\ \A k \in i .. j - 1 : t[k] \in S
  /\ j <= Len(t) => t[j] \notin S

\* The last position up to i, or 0, that is not in S.
LastOut(t, S, i, j) ==
  /\ j \in 0 .. i
  /\ \A k \in j + 1 .. i : t[k] \in S
  /\ j > 0 => t[j] \notin S

IsForward(f, t, S, m) ==
  f = [i \in m .. Len(t) + 1 |-> IF i <= Len(t) /\ t[i] \in S THEN f[i + 1] ELSE i]

IsBackward(f, t, S) ==
  f = [i \in 0 .. Len(t) |-> IF i > 0 /\ t[i] \in S THEN f[i - 1] ELSE i]

LEMMA FirstIsOne ==
  ASSUME NEW S, NEW t \in Seq(Char), NEW i \in 1 .. Len(t) + 1,
         NEW j, FirstOut(t, S, i, j), NEW k, FirstOut(t, S, i, k)
  PROVE  j = k
<1>1. Len(t) \in Nat /\ j \in i .. Len(t) + 1 /\ k \in i .. Len(t) + 1
  BY DEF FirstOut
<1>2. ~ (j < k)
  <2> SUFFICES ASSUME j < k PROVE FALSE
    OBVIOUS
  <2>1. j \in i .. k - 1 /\ j <= Len(t)
    BY <1>1
  <2>2. QED
    BY <2>1 DEF FirstOut
<1>3. ~ (k < j)
  <2> SUFFICES ASSUME k < j PROVE FALSE
    OBVIOUS
  <2>1. k \in i .. j - 1 /\ k <= Len(t)
    BY <1>1
  <2>2. QED
    BY <2>1 DEF FirstOut
<1>4. QED
  BY <1>1, <1>2, <1>3

LEMMA FirstSteps ==
  ASSUME NEW S, NEW t \in Seq(Char), NEW i \in 1 .. Len(t) + 1
  PROVE  /\ ~ (i <= Len(t) /\ t[i] \in S) => FirstOut(t, S, i, i)
         /\ i <= Len(t) /\ t[i] \in S =>
              \A j : FirstOut(t, S, i + 1, j) => FirstOut(t, S, i, j)
<1>1. Len(t) \in Nat
  OBVIOUS
<1>2. ASSUME ~ (i <= Len(t) /\ t[i] \in S) PROVE FirstOut(t, S, i, i)
  BY <1>1, <1>2 DEF FirstOut
<1>3. ASSUME i <= Len(t), t[i] \in S, NEW j, FirstOut(t, S, i + 1, j) PROVE FirstOut(t, S, i, j)
  <2>1. j \in i .. Len(t) + 1
    BY <1>1, <1>3 DEF FirstOut
  <2>2. ASSUME NEW k \in i .. j - 1 PROVE t[k] \in S
    <3>1. CASE k = i
      BY <1>3, <3>1
    <3>2. CASE k # i
      <4>1. k \in i + 1 .. j - 1
        BY <1>1, <2>1, <3>2
      <4>2. QED
        BY <1>3, <4>1 DEF FirstOut
    <3>3. QED
      BY <3>1, <3>2
  <2>3. QED
    BY <1>3, <2>1, <2>2 DEF FirstOut
<1>4. QED
  BY <1>2, <1>3

LEMMA FirstExists ==
  ASSUME NEW S, NEW t \in Seq(Char), NEW i \in 1 .. Len(t) + 1
  PROVE  \E j : FirstOut(t, S, i, j)
<1> DEFINE N == Len(t)
           T == {n \in Nat : n <= N => \E j : FirstOut(t, S, N + 1 - n, j)}
<1>1. N \in Nat
  OBVIOUS
<1>2. 0 \in T
  <2>1. PICK k : k = N + 1
    OBVIOUS
  <2>2. k \in 1 .. Len(t) + 1 /\ ~ (k <= Len(t)) /\ N + 1 - 0 = k
    BY <1>1, <2>1
  <2>3. FirstOut(t, S, k, k)
    BY <2>2, FirstSteps
  <2>4. QED
    BY <2>2, <2>3
<1>3. ASSUME NEW n \in Nat, n \in T PROVE n + 1 \in T
  <2> SUFFICES ASSUME n + 1 <= N PROVE \E j : FirstOut(t, S, N + 1 - (n + 1), j)
    OBVIOUS
  <2>1. PICK m : m = N + 1 - (n + 1)
    OBVIOUS
  <2>2. m \in 1 .. Len(t) + 1 /\ m <= Len(t) /\ N + 1 - n = m + 1 /\ n <= N
    BY <1>1, <2>1
  <2>3. \E j : FirstOut(t, S, m + 1, j)
    BY <1>3, <2>2
  <2>4. \E j : FirstOut(t, S, m, j)
    BY <2>2, <2>3, FirstSteps
  <2>5. QED
    BY <2>1, <2>4
<1>4. Nat \subseteq T
  <2> HIDE DEF T
  <2> QED
    BY <1>2, <1>3, Induction
<1>5. CASE i = N + 1
  <2>1. ~ (i <= Len(t))
    BY <1>1, <1>5
  <2>2. QED
    BY <2>1, FirstSteps
<1>6. CASE i # N + 1
  <2>1. N + 1 - i \in Nat /\ N + 1 - i <= N /\ N + 1 - (N + 1 - i) = i
    BY <1>1
  <2>2. QED
    BY <1>4, <2>1
<1>7. QED
  BY <1>5, <1>6

LEMMA ForwardExists ==
  ASSUME NEW S, NEW t \in Seq(Char), NEW m \in 1 .. Len(t) + 1
  PROVE  \E f : IsForward(f, t, S, m)
<1> DEFINE N == Len(t)
           first(i) == CHOOSE j : FirstOut(t, S, i, j)
           f == [i \in m .. N + 1 |-> first(i)]
<1>1. N \in Nat /\ m \in Nat /\ \A i \in m .. N + 1 : i \in 1 .. Len(t) + 1
  OBVIOUS
<1>2. \A i \in m .. N + 1 : FirstOut(t, S, i, first(i))
  BY <1>1, FirstExists
<1>3. ASSUME NEW i \in m .. N + 1
      PROVE  f[i] = IF i <= Len(t) /\ t[i] \in S THEN f[i + 1] ELSE i
  <2>1. CASE i <= Len(t) /\ t[i] \in S
    <3>1. i + 1 \in m .. N + 1
      BY <1>1, <2>1
    <3>2. PICK k : k = i + 1
      OBVIOUS
    <3>3. FirstOut(t, S, k, first(k))
      BY <1>2, <3>1, <3>2
    <3>4. FirstOut(t, S, i, first(k))
      BY <1>1, <2>1, <3>2, <3>3, FirstSteps
    <3>5. first(i) = first(k)
      BY <1>1, <1>2, <3>4, FirstIsOne
    <3>6. f[i] = first(i) /\ f[k] = first(k)
      BY <3>1, <3>2
    <3>7. QED
      BY <2>1, <3>2, <3>5, <3>6
  <2>2. CASE ~ (i <= Len(t) /\ t[i] \in S)
    <3>1. FirstOut(t, S, i, i)
      BY <1>1, <2>2, FirstSteps
    <3>2. first(i) = i
      BY <1>1, <1>2, <3>1, FirstIsOne
    <3>3. QED
      BY <2>2, <3>2
  <2>3. QED
    BY <2>1, <2>2
<1>4. f = [i \in m .. N + 1 |-> IF i <= Len(t) /\ t[i] \in S THEN f[i + 1] ELSE i]
  <2> HIDE DEF first
  <2> QED
    BY <1>3
<1> HIDE DEF f
<1>5. IsForward(f, t, S, m)
  BY <1>4 DEF IsForward
<1>6. QED
  BY <1>5

LEMMA ForwardIs ==
  ASSUME NEW S, NEW t \in Seq(Char), NEW m \in 1 .. Len(t) + 1, NEW f, IsForward(f, t, S, m)
  PROVE  FirstOut(t, S, m, f[m])
<1> DEFINE N == Len(t)
           T == {n \in Nat : n <= N + 1 - m => FirstOut(t, S, N + 1 - n, f[N + 1 - n])}
<1>1. N \in Nat /\ m \in Nat /\ \A i \in m .. N + 1 : i \in 1 .. Len(t) + 1
  OBVIOUS
<1>2. \A i \in m .. N + 1 : f[i] = IF i <= Len(t) /\ t[i] \in S THEN f[i + 1] ELSE i
  BY DEF IsForward
<1>3. 0 \in T
  <2>1. PICK k : k = N + 1
    OBVIOUS
  <2>2. k \in m .. N + 1 /\ ~ (k <= Len(t)) /\ N + 1 - 0 = k
    BY <1>1, <2>1
  <2>3. FirstOut(t, S, k, k) /\ f[k] = k
    BY <1>1, <1>2, <2>2, FirstSteps
  <2>4. QED
    BY <2>2, <2>3
<1>4. ASSUME NEW n \in Nat, n \in T PROVE n + 1 \in T
  <2> SUFFICES ASSUME n + 1 <= N + 1 - m
               PROVE  FirstOut(t, S, N + 1 - (n + 1), f[N + 1 - (n + 1)])
    OBVIOUS
  <2>1. PICK k : k = N + 1 - (n + 1)
    OBVIOUS
  <2>2. k \in m .. N + 1 /\ N + 1 - n = k + 1 /\ n <= N + 1 - m
    BY <1>1, <2>1
  <2>3. FirstOut(t, S, k + 1, f[k + 1])
    BY <1>4, <2>2
  <2>4. FirstOut(t, S, k, f[k])
    BY <1>1, <1>2, <2>2, <2>3, FirstSteps
  <2>5. QED
    BY <2>1, <2>4
<1>5. Nat \subseteq T
  <2> HIDE DEF T
  <2> QED
    BY <1>3, <1>4, Induction
<1>6. N + 1 - m \in Nat /\ N + 1 - (N + 1 - m) = m
  BY <1>1
<1>7. PICK n : n = N + 1 - m
  OBVIOUS
<1>8. n \in Nat /\ n <= N + 1 - m /\ N + 1 - n = m
  BY <1>1, <1>6, <1>7
<1>9. n \in T
  <2> HIDE DEF T
  <2> QED
    BY <1>5, <1>8
<1>10. QED
  BY <1>8, <1>9

LEMMA LastSteps ==
  ASSUME NEW S, NEW t \in Seq(Char), NEW i \in 0 .. Len(t)
  PROVE  /\ ~ (i > 0 /\ t[i] \in S) => LastOut(t, S, i, i)
         /\ i > 0 /\ t[i] \in S =>
              \A j : LastOut(t, S, i - 1, j) => LastOut(t, S, i, j)
<1>1. Len(t) \in Nat
  OBVIOUS
<1>2. ASSUME ~ (i > 0 /\ t[i] \in S) PROVE LastOut(t, S, i, i)
  BY <1>1, <1>2 DEF LastOut
<1>3. ASSUME i > 0, t[i] \in S, NEW j, LastOut(t, S, i - 1, j) PROVE LastOut(t, S, i, j)
  <2>1. j \in 0 .. i /\ j \in Nat
    BY <1>1, <1>3 DEF LastOut
  <2>2. ASSUME NEW k \in j + 1 .. i PROVE t[k] \in S
    <3>1. CASE k = i
      BY <1>3, <3>1
    <3>2. CASE k # i
      <4>1. k \in j + 1 .. i - 1
        BY <1>1, <2>1, <3>2
      <4>2. QED
        BY <1>3, <4>1 DEF LastOut
    <3>3. QED
      BY <3>1, <3>2
  <2>3. QED
    BY <1>3, <2>1, <2>2 DEF LastOut
<1>4. QED
  BY <1>2, <1>3

\* What the loop comes to, from one position after the other.
LEMMA BackwardExists ==
  ASSUME NEW S, NEW t \in Seq(Char)
  PROVE  \E f : IsBackward(f, t, S)
<1> DEFINE Is(f, n) == f = [i \in 0 .. n |-> IF i > 0 /\ t[i] \in S THEN f[i - 1] ELSE i]
           T == {n \in Nat : \E f : Is(f, n)}
<1>1. 0 \in T
  <2> DEFINE f == [i \in 0 .. 0 |-> 0]
  <2>1. \A i \in 0 .. 0 : f[i] = IF i > 0 /\ t[i] \in S THEN f[i - 1] ELSE i
    OBVIOUS
  <2>2. Is(f, 0)
    BY <2>1
  <2> HIDE DEF f, Is
  <2>3. QED
    BY <2>2
<1>2. ASSUME NEW n \in Nat, n \in T PROVE n + 1 \in T
  <2>1. PICK f : Is(f, n)
    BY <1>2
  <2> DEFINE last == IF t[n + 1] \in S THEN f[n] ELSE n + 1
             g == [i \in 0 .. n + 1 |-> IF i <= n THEN f[i] ELSE last]
  <2>2. ASSUME NEW i \in 0 .. n + 1
        PROVE  g[i] = IF i > 0 /\ t[i] \in S THEN g[i - 1] ELSE i
    <3>1. CASE i <= n
      <4>1. i \in 0 .. n /\ (i > 0 => i - 1 \in 0 .. n + 1 /\ i - 1 <= n)
        BY <3>1
      <4>2. f[i] = IF i > 0 /\ t[i] \in S THEN f[i - 1] ELSE i
        BY <2>1, <4>1
      <4> HIDE DEF last
      <4>3. g[i] = f[i] /\ (i > 0 => g[i - 1] = f[i - 1])
        BY <3>1, <4>1
      <4> HIDE DEF g
      <4>4. QED
        BY <4>2, <4>3
    <3>2. CASE ~ (i <= n)
      <4>1. i = n + 1 /\ i - 1 = n /\ i > 0 /\ n \in 0 .. n + 1
        BY <3>2
      <4> HIDE DEF last
      <4>2. g[i] = last /\ g[i - 1] = f[n]
        BY <4>1
      <4> HIDE DEF g
      <4>3. QED
        BY <4>1, <4>2 DEF last
    <3>3. QED
      BY <3>1, <3>2
  <2>3. Is(g, n + 1)
    <3> HIDE DEF last
    <3>1. QED
      BY <2>2
  <2> HIDE DEF g, Is
  <2>4. \E h : Is(h, n + 1)
    BY <2>3
  <2>5. QED
    BY <2>4
<1>3. Nat \subseteq T
  <2> HIDE DEF T
  <2> QED
    BY <1>1, <1>2, Induction
<1>4. Len(t) \in Nat
  OBVIOUS
<1>5. \E f : Is(f, Len(t))
  BY <1>3, <1>4
<1>6. QED
  BY <1>5 DEF IsBackward

LEMMA BackwardIs ==
  ASSUME NEW S, NEW t \in Seq(Char), NEW f, IsBackward(f, t, S)
  PROVE  LastOut(t, S, Len(t), f[Len(t)])
<1> DEFINE N == Len(t)
           T == {n \in Nat : n <= N => LastOut(t, S, n, f[n])}
<1>1. N \in Nat
  OBVIOUS
<1>2. \A i \in 0 .. N : f[i] = IF i > 0 /\ t[i] \in S THEN f[i - 1] ELSE i
  BY DEF IsBackward
<1>3. 0 \in T
  <2>1. PICK k : k = 0
    OBVIOUS
  <2>2. k \in 0 .. N /\ ~ (k > 0)
    BY <1>1, <2>1
  <2>3. LastOut(t, S, k, k) /\ f[k] = k
    BY <1>2, <2>2, LastSteps
  <2>4. QED
    BY <2>1, <2>3
<1>4. ASSUME NEW n \in Nat, n \in T PROVE n + 1 \in T
  <2> SUFFICES ASSUME n + 1 <= N PROVE LastOut(t, S, n + 1, f[n + 1])
    OBVIOUS
  <2>1. PICK k : k = n + 1
    OBVIOUS
  <2>2. k \in 0 .. N /\ k - 1 = n /\ n <= N /\ k > 0
    BY <1>1, <2>1
  <2>3. LastOut(t, S, k - 1, f[k - 1])
    BY <1>4, <2>2
  <2>4. LastOut(t, S, k, f[k])
    BY <1>2, <2>2, <2>3, LastSteps
  <2>5. QED
    BY <2>1, <2>4
<1>5. Nat \subseteq T
  <2> HIDE DEF T
  <2> QED
    BY <1>3, <1>4, Induction
<1>6. QED
  BY <1>1, <1>5

--------------------------------------------------------------------------------
(******************************************************************************)
(* The trims.                                                                 *)
(******************************************************************************)

LEMMA TrimLeft ==
  ASSUME NEW t \in Seq(Char)
  PROVE  \E j : FirstOut(t, Blank, 1, j) /\ string_trim_left(t) = SubSeq(t, j, Len(t))
<1>1. PICK f : f = CHOOSE g : IsForward(g, t, Blank, 1)
  OBVIOUS
<1>2. 1 \in 1 .. Len(t) + 1
  OBVIOUS
<1>3. IsForward(f, t, Blank, 1)
  BY <1>1, <1>2, ForwardExists
<1>4. FirstOut(t, Blank, 1, f[1])
  BY <1>2, <1>3, ForwardIs
<1>5. string_trim_left(t) = SubSeq(t, f[1], Len(t))
  BY <1>1 DEF string_trim_left, IsForward
<1>6. QED
  BY <1>4, <1>5

LEMMA TrimRight ==
  ASSUME NEW t \in Seq(Char)
  PROVE  \E j : LastOut(t, Space, Len(t), j) /\ string_trim_right(t) = SubSeq(t, 1, j)
<1>1. PICK f : f = CHOOSE g : IsBackward(g, t, Space)
  OBVIOUS
<1>2. IsBackward(f, t, Space)
  BY <1>1, BackwardExists
<1>3. LastOut(t, Space, Len(t), f[Len(t)])
  BY <1>2, BackwardIs
<1>4. string_trim_right(t) = SubSeq(t, 1, f[Len(t)])
  BY <1>1 DEF string_trim_right, IsBackward
<1>5. QED
  BY <1>3, <1>4

\* s is t without l characters before it and r behind it.
Trimmed(s, t, l, r) ==
  /\ l + Len(s) + r = Len(t)
  /\ SubSeq(t, l + 1, l + Len(s)) = s
  /\ AllIn(SubSeq(t, 1, l), Blank)
  /\ AllIn(SubSeq(t, l + Len(s) + 1, Len(t)), Space)

LEMMA TrimIs ==
  ASSUME NEW t \in Seq(Char)
  PROVE  /\ string_trim_left(t) \in Seq(Char) /\ string_trim_right(t) \in Seq(Char)
         /\ string_trim(t) \in Seq(Char)
         /\ \E l, r \in 0 .. Len(t) : Trimmed(string_trim(t), t, l, r)
         /\ string_trim(t) # <<>> =>
              /\ string_trim(t)[1] \notin Blank
              /\ string_trim(t)[Len(string_trim(t))] \notin Space
<1> DEFINE N == Len(t)
           u == string_trim_left(t)
           s == string_trim(t)
<1>1. N \in Nat
  OBVIOUS
<1>2. PICK j : FirstOut(t, Blank, 1, j) /\ u = SubSeq(t, j, N)
  BY TrimLeft
<1>3. j \in 1 .. N + 1 /\ N \in j - 1 .. N
  BY <1>1, <1>2 DEF FirstOut
<1>4. /\ u \in Seq(Char) /\ Len(u) = N - j + 1
      /\ \A k \in 1 .. N - j + 1 : u[k] = t[j + k - 1]
  BY <1>2, <1>3, Part
<1> HIDE DEF u
<1>5. PICK e : LastOut(u, Space, Len(u), e) /\ string_trim_right(u) = SubSeq(u, 1, e)
  BY <1>4, TrimRight
<1>6. s = SubSeq(u, 1, e)
  BY <1>5 DEF string_trim, u
<1> HIDE DEF s
<1>7. e \in 0 .. Len(u) /\ e \in 0 .. N - j + 1
  BY <1>4, <1>5 DEF LastOut
<1>8. s \in Seq(Char) /\ Len(s) = e /\ \A k \in 1 .. e : s[k] = u[k]
  <2>1. 1 \in 1 .. Len(u) + 1 /\ e \in 1 - 1 .. Len(u)
    BY <1>1, <1>3, <1>4, <1>7
  <2>2. /\ s \in Seq(Char) /\ Len(s) = e - 1 + 1
        /\ \A k \in 1 .. e - 1 + 1 : s[k] = u[1 + k - 1]
    BY <1>4, <1>6, <2>1, Part
  <2>3. e - 1 + 1 = e /\ \A k \in 1 .. e : 1 + k - 1 = k
    BY <1>7
  <2>4. QED
    BY <2>2, <2>3
<1>9. PICK q \in Seq(Char) : LastOut(t, Space, N, Len(q)) /\ string_trim_right(t) = q
  <2>1. PICK i : LastOut(t, Space, N, i) /\ string_trim_right(t) = SubSeq(t, 1, i)
    BY TrimRight
  <2>2. 1 \in 1 .. Len(t) + 1 /\ i \in 1 - 1 .. Len(t) /\ i - 1 + 1 = i
    BY <1>1, <2>1 DEF LastOut
  <2>3. SubSeq(t, 1, i) \in Seq(Char) /\ Len(SubSeq(t, 1, i)) = i
    BY <2>2, Part
  <2>4. QED
    BY <2>1, <2>3
<1> DEFINE l == j - 1
           r == N - l - e
<1>10. l \in 0 .. N /\ r \in 0 .. N /\ l + Len(s) + r = N
  BY <1>1, <1>3, <1>7, <1>8
<1>11. SubSeq(t, l + 1, l + e) = s
  <2>1. l + 1 \in 1 .. N + 1 /\ l + e \in (l + 1) - 1 .. N /\ (l + e) - (l + 1) + 1 = e
    BY <1>1, <1>3, <1>7
  <2>2. /\ SubSeq(t, l + 1, l + e) \in Seq(Char) /\ Len(SubSeq(t, l + 1, l + e)) = e
        /\ \A k \in 1 .. e : SubSeq(t, l + 1, l + e)[k] = t[(l + 1) + k - 1]
    BY <2>1, Part
  <2>3. \A k \in 1 .. e : s[k] = t[(l + 1) + k - 1]
    <3> TAKE k \in 1 .. e
    <3>1. k \in 1 .. N - j + 1 /\ (l + 1) + k - 1 = j + k - 1
      BY <1>1, <1>3, <1>7
    <3> HIDE DEF l
    <3>2. QED
      BY <1>4, <1>8, <3>1
  <2> DEFINE p == SubSeq(t, l + 1, l + e)
  <2>4. p \in Seq(Char) /\ Len(p) = e /\ \A k \in 1 .. e : p[k] = s[k]
    BY <2>2, <2>3
  <2> HIDE DEF p
  <2>5. p = s
    BY <1>8, <2>4
  <2>6. QED
    BY <2>5 DEF p
<1>12. AllIn(SubSeq(t, 1, l), Blank)
  <2>1. 1 \in 1 .. N + 1 /\ l \in 1 - 1 .. N /\ \A k \in 1 .. l : t[k] \in Blank
    BY <1>1, <1>2, <1>3 DEF FirstOut
  <2>2. QED
    BY <2>1, PartHolds
<1>13. AllIn(SubSeq(t, l + e + 1, N), Space)
  <2>1. \A k \in l + e + 1 .. N : t[k] \in Space
    <3> TAKE k \in l + e + 1 .. N
    <3>1. PICK m : m = k - l
      OBVIOUS
    <3>2. m \in e + 1 .. Len(u) /\ m \in 1 .. N - j + 1 /\ j + m - 1 = k
      BY <1>1, <1>3, <1>4, <1>7, <3>1
    <3>3. u[m] \in Space
      BY <1>5, <3>2 DEF LastOut
    <3>4. QED
      BY <1>4, <3>2, <3>3
  <2>2. l + e + 1 \in 1 .. N + 1 /\ N \in (l + e + 1) - 1 .. N
    BY <1>1, <1>3, <1>7
  <2>3. QED
    BY <2>1, <2>2, PartHolds
<1> HIDE DEF l, r
<1>14. Trimmed(s, t, l, r)
  BY <1>8, <1>10, <1>11, <1>12, <1>13 DEF Trimmed
<1>15. ASSUME s # <<>> PROVE s[1] \notin Blank /\ s[Len(s)] \notin Space
  <2>1. e > 0 /\ e \in 1 .. e /\ 1 \in 1 .. e /\ e \in Nat
    BY <1>7, <1>8, <1>15
  <2>2. s[1] = t[j]
    <3>1. 1 \in 1 .. N - j + 1 /\ j + 1 - 1 = j
      BY <1>1, <1>3, <1>7, <2>1
    <3>2. QED
      BY <1>4, <1>8, <2>1, <3>1
  <2>3. j <= Len(t)
    BY <1>1, <1>3, <1>7, <2>1
  <2>4. s[e] = u[e] /\ u[e] \notin Space
    BY <1>5, <1>8, <2>1 DEF LastOut
  <2>5. QED
    BY <1>2, <1>8, <2>2, <2>3, <2>4 DEF FirstOut
<1>16. QED
  BY <1>4, <1>8, <1>9, <1>10, <1>14, <1>15 DEF u, s

--------------------------------------------------------------------------------
(******************************************************************************)
(* The pieces of a string.                                                    *)
(******************************************************************************)

\* The position behind the run that position i is in.
LEMMA PieceIs ==
  ASSUME NEW t \in Seq(Char), NEW i \in 1 .. Len(t)
  PROVE  \E u : /\ FirstOut(t, Char \ {Separator}, i, u)
                /\ Piece(t, i) = SubSeq(t, i, u - 1)
                /\ Len(Piece(t, i)) = u - i
                /\ Piece(t, i) \in Seq(Char)
                /\ Separator \notin Range(Piece(t, i))
<1> DEFINE S == Char \ {Separator}
           N == Len(t)
<1>1. N \in Nat /\ i \in 1 .. N + 1 /\ i \in Nat
  OBVIOUS
<1>2. \A j \in i .. N + 1 : (j <= N /\ t[j] # Separator) <=> (j <= N /\ t[j] \in S)
  BY <1>1
<1>3. ASSUME NEW g
      PROVE  g = [j \in i .. N + 1 |-> IF j <= N /\ t[j] # Separator THEN g[j + 1] ELSE j]
             <=> IsForward(g, t, S, i)
  <2>1. [j \in i .. N + 1 |-> IF j <= N /\ t[j] # Separator THEN g[j + 1] ELSE j]
        = [j \in i .. N + 1 |-> IF j <= N /\ t[j] \in S THEN g[j + 1] ELSE j]
    <3> HIDE DEF S
    <3> QED
      BY <1>2
  <2>2. QED
    BY <2>1 DEF IsForward
<1>4. PICK f : f = CHOOSE g : IsForward(g, t, S, i)
  OBVIOUS
<1>5. IsForward(f, t, S, i)
  BY <1>1, <1>4, ForwardExists
<1>6. FirstOut(t, S, i, f[i])
  BY <1>1, <1>5, ForwardIs
<1>7. f = CHOOSE g : g = [j \in i .. N + 1 |-> IF j <= N /\ t[j] # Separator THEN g[j + 1] ELSE j]
  BY <1>3, <1>4
<1>8. Piece(t, i) = SubSeq(t, i, f[i] - 1)
  BY <1>7 DEF Piece
<1>9. f[i] \in i .. N + 1 /\ f[i] - 1 \in i - 1 .. N /\ (f[i] - 1) - i + 1 = f[i] - i
  BY <1>1, <1>6 DEF FirstOut
<1>10. Piece(t, i) \in Seq(Char) /\ Len(Piece(t, i)) = f[i] - i
  BY <1>1, <1>8, <1>9, Part
<1>11. AllIn(Piece(t, i), S)
  <2>1. \A k \in i .. f[i] - 1 : t[k] \in S
    BY <1>6 DEF FirstOut
  <2> HIDE DEF S
  <2>2. QED
    BY <1>1, <1>8, <1>9, <2>1, PartHolds
<1>12. QED
  BY <1>6, <1>8, <1>10, <1>11 DEF AllIn

--------------------------------------------------------------------------------
(******************************************************************************)
(* string_split.                                                              *)
(******************************************************************************)

IsSplit(f, t, m) ==
  f = [i \in m .. Len(t) + 1 |->
         IF i > Len(t) THEN <<>>
         ELSE IF t[i] = Separator THEN f[i + 1]
         ELSE <<Piece(t, i)>> \o f[i + Len(Piece(t, i))]]

\* The starts of runs from position i on.
StartsFrom(t, i) ==
  {j \in i .. Len(t) : t[j] # Separator /\ (j = 1 \/ t[j - 1] = Separator)}

\* No run goes on across position i.
BetweenRuns(t, i) ==
  i = 1 \/ t[i - 1] = Separator \/ i = Len(t) + 1 \/ t[i] = Separator

\* p has the runs that start at position i or behind it, in their order.
RunsFrom(t, i, p) ==
  /\ p \in Seq(Seq(Char)) /\ Len(p) = Cardinality(StartsFrom(t, i))
  /\ \A j \in StartsFrom(t, i) :
       p[Cardinality({m \in StartsFrom(t, i) : m <= j})] = Piece(t, j)

LEMMA Behind ==
  ASSUME NEW t \in Seq(Char), NEW i \in 1 .. Len(t), t[i] # Separator
  PROVE  /\ i + Len(Piece(t, i)) \in i + 1 .. Len(t) + 1
         /\ BetweenRuns(t, i + Len(Piece(t, i)))
         /\ \A k \in i .. i + Len(Piece(t, i)) - 1 : t[k] # Separator
<1>1. PICK u : FirstOut(t, Char \ {Separator}, i, u) /\ Len(Piece(t, i)) = u - i
  BY PieceIs
<1>2. Len(t) \in Nat /\ i \in Nat /\ u \in i .. Len(t) + 1
  BY <1>1 DEF FirstOut
<1>3. i + Len(Piece(t, i)) = u
  BY <1>1, <1>2
<1>4. u # i
  <2>1. t[i] \in Char \ {Separator} /\ i <= Len(t)
    OBVIOUS
  <2>2. QED
    BY <1>1, <2>1 DEF FirstOut
<1>5. u <= Len(t) => t[u] = Separator
  <2> SUFFICES ASSUME u <= Len(t) PROVE t[u] = Separator
    OBVIOUS
  <2>1. t[u] \in Char /\ t[u] \notin Char \ {Separator}
    BY <1>1, <1>2 DEF FirstOut
  <2>2. QED
    BY <2>1
<1>6. BetweenRuns(t, u)
  BY <1>2, <1>5 DEF BetweenRuns
<1>7. \A k \in i .. u - 1 : t[k] # Separator
  BY <1>1 DEF FirstOut
<1>8. u \in i + 1 .. Len(t) + 1
  BY <1>2, <1>4
<1>9. QED
  BY <1>3, <1>6, <1>7, <1>8

\* What the loop gives, from the end of the string to its start.
LEMMA SplitExists ==
  ASSUME NEW t \in Seq(Char)
  PROVE  \E f : IsSplit(f, t, 1)
<1> DEFINE N == Len(t)
           T == {n \in Nat : n <= N => \E f : IsSplit(f, t, N + 1 - n)}
<1>1. N \in Nat
  OBVIOUS
<1>2. 0 \in T
  <2> DEFINE f == [i \in N + 1 .. N + 1 |-> <<>>]
  <2>1. \A i \in N + 1 .. N + 1 :
          f[i] = IF i > N THEN <<>>
                 ELSE IF t[i] = Separator THEN f[i + 1]
                 ELSE <<Piece(t, i)>> \o f[i + Len(Piece(t, i))]
    BY <1>1
  <2>2. IsSplit(f, t, N + 1)
    BY <2>1 DEF IsSplit
  <2>3. N + 1 - 0 = N + 1
    BY <1>1
  <2> HIDE DEF f
  <2>4. QED
    BY <2>2, <2>3
<1>3. ASSUME NEW n \in Nat, n \in T PROVE n + 1 \in T
  <2> SUFFICES ASSUME n + 1 <= N PROVE \E f : IsSplit(f, t, N + 1 - (n + 1))
    OBVIOUS
  <2>1. PICK m : m = N + 1 - (n + 1)
    OBVIOUS
  <2>2. m \in 1 .. N /\ N + 1 - n = m + 1 /\ n <= N
    BY <1>1, <2>1
  <2>3. PICK f : IsSplit(f, t, m + 1)
    BY <1>3, <2>2
  <2> DEFINE first == IF t[m] = Separator THEN f[m + 1]
                      ELSE <<Piece(t, m)>> \o f[m + Len(Piece(t, m))]
             g == [i \in m .. N + 1 |-> IF i = m THEN first ELSE f[i]]
  <2>4. \A i \in m + 1 .. N + 1 : i \in m .. N + 1 /\ i # m
    BY <1>1, <2>2
  <2>5. \A i \in m + 1 .. N + 1 : g[i] = f[i]
    BY <2>4
  <2>6. m \in m .. N + 1 /\ ~ (m > N) /\ m + 1 \in m + 1 .. N + 1
    BY <1>1, <2>2
  <2>7. g[m] = first
    BY <2>6
  <2> HIDE DEF g
  <2>8. ASSUME NEW i \in m .. N + 1
        PROVE  g[i] = IF i > N THEN <<>>
                      ELSE IF t[i] = Separator THEN g[i + 1]
                      ELSE <<Piece(t, i)>> \o g[i + Len(Piece(t, i))]
    <3>1. CASE i = m
      <4>1. CASE t[m] = Separator
        BY <2>5, <2>6, <2>7, <3>1, <4>1
      <4>2. CASE t[m] # Separator
        <5>1. m + Len(Piece(t, m)) \in m + 1 .. N + 1
          BY <2>2, <4>2, Behind
        <5>2. g[m + Len(Piece(t, m))] = f[m + Len(Piece(t, m))]
          BY <2>5, <5>1
        <5>3. QED
          BY <2>6, <2>7, <3>1, <4>2, <5>2
      <4>3. QED
        BY <4>1, <4>2
    <3>2. CASE i # m
      <4>1. i \in m + 1 .. N + 1 /\ g[i] = f[i]
        BY <1>1, <2>2, <2>5, <3>2
      <4>2. f[i] = IF i > N THEN <<>>
                   ELSE IF t[i] = Separator THEN f[i + 1]
                   ELSE <<Piece(t, i)>> \o f[i + Len(Piece(t, i))]
        BY <2>3, <4>1 DEF IsSplit
      <4>3. CASE i > N
        BY <4>1, <4>2, <4>3
      <4>4. CASE ~ (i > N) /\ t[i] = Separator
        <5>1. i + 1 \in m + 1 .. N + 1
          BY <1>1, <2>2, <4>1, <4>4
        <5>2. QED
          BY <2>5, <4>1, <4>2, <4>4, <5>1
      <4>5. CASE ~ (i > N) /\ t[i] # Separator
        <5>1. i \in 1 .. N
          BY <1>1, <2>2, <4>1, <4>5
        <5>2. i + Len(Piece(t, i)) \in i + 1 .. N + 1
          BY <4>5, <5>1, Behind
        <5>3. i + Len(Piece(t, i)) \in m + 1 .. N + 1
          BY <1>1, <2>2, <4>1, <5>2
        <5>4. QED
          BY <2>5, <4>1, <4>2, <4>5, <5>3
      <4>6. QED
        BY <4>3, <4>4, <4>5
    <3>3. QED
      BY <3>1, <3>2
  <2>9. g = [i \in m .. N + 1 |->
               IF i > N THEN <<>>
               ELSE IF t[i] = Separator THEN g[i + 1]
               ELSE <<Piece(t, i)>> \o g[i + Len(Piece(t, i))]]
    <3>1. g = [i \in m .. N + 1 |-> g[i]]
      BY DEF g
    <3>2. QED
      BY <2>8, <3>1
  <2>10. IsSplit(g, t, m)
    BY <2>9 DEF IsSplit
  <2>11. QED
    BY <2>1, <2>10
<1>4. Nat \subseteq T
  <2> HIDE DEF T
  <2> QED
    BY <1>2, <1>3, Induction
<1>5. PICK n : n = N
  OBVIOUS
<1>6. n \in Nat /\ n <= N /\ N + 1 - n = 1
  BY <1>1, <1>5
<1>7. n \in T
  <2> HIDE DEF T
  <2> QED
    BY <1>4, <1>6
<1>8. QED
  BY <1>6, <1>7

\* Nothing starts behind the end.
LEMMA RunsAtTheEnd ==
  ASSUME NEW t \in Seq(Char), NEW i \in Int, i > Len(t)
  PROVE  RunsFrom(t, i, <<>>)
<1>1. StartsFrom(t, i) = {}
  BY DEF StartsFrom
<1>2. Cardinality({}) = 0
  BY FS_EmptySet
<1>3. <<>> \in Seq(Seq(Char)) /\ Len(<<>>) = 0
  OBVIOUS
<1>4. QED
  BY <1>1, <1>2, <1>3 DEF RunsFrom

\* A separator starts nothing.
LEMMA RunsOverSeparator ==
  ASSUME NEW t \in Seq(Char), NEW i \in 1 .. Len(t), t[i] = Separator,
         NEW p, RunsFrom(t, i + 1, p)
  PROVE  RunsFrom(t, i, p)
<1>1. StartsFrom(t, i) = StartsFrom(t, i + 1)
  <2>1. \A j \in i .. Len(t) : j = i \/ j \in i + 1 .. Len(t)
    OBVIOUS
  <2>2. \A j \in i + 1 .. Len(t) : j \in i .. Len(t)
    OBVIOUS
  <2>3. QED
    BY <2>1, <2>2 DEF StartsFrom
<1>2. QED
  BY <1>1 DEF RunsFrom

LEMMA StartsAreFew ==
  ASSUME NEW t \in Seq(Char), NEW i \in Nat
  PROVE  /\ IsFiniteSet(StartsFrom(t, i))
         /\ \A j : IsFiniteSet({m \in StartsFrom(t, i) : m <= j})
         /\ \A j : Cardinality({m \in StartsFrom(t, i) : m <= j}) <= Cardinality(StartsFrom(t, i))
         /\ Cardinality(StartsFrom(t, i)) \in Nat
         /\ \A j : Cardinality({m \in StartsFrom(t, i) : m <= j}) \in Nat
<1>1. IsFiniteSet(i .. Len(t)) /\ StartsFrom(t, i) \subseteq i .. Len(t)
  BY FS_Interval DEF StartsFrom
<1>2. IsFiniteSet(StartsFrom(t, i))
  BY <1>1, FS_Subset
<1>3. \A j : {m \in StartsFrom(t, i) : m <= j} \subseteq StartsFrom(t, i)
  OBVIOUS
<1>4. \A j : /\ IsFiniteSet({m \in StartsFrom(t, i) : m <= j})
             /\ Cardinality({m \in StartsFrom(t, i) : m <= j}) <= Cardinality(StartsFrom(t, i))
  BY <1>2, <1>3, FS_Subset
<1>5. QED
  BY <1>2, <1>4, FS_CardinalityType

\* The run at i comes before those behind it.
LEMMA RunsOverPiece ==
  ASSUME NEW t \in Seq(Char), NEW i \in 1 .. Len(t), t[i] # Separator, BetweenRuns(t, i),
         NEW p, RunsFrom(t, i + Len(Piece(t, i)), p)
  PROVE  RunsFrom(t, i, <<Piece(t, i)>> \o p)
<1> DEFINE u == i + Len(Piece(t, i))
           A == StartsFrom(t, u)
           q == <<Piece(t, i)>> \o p
<1>1. /\ u \in i + 1 .. Len(t) + 1 /\ \A k \in i .. u - 1 : t[k] # Separator
      /\ Len(t) \in Nat /\ i \in Nat /\ u \in Nat
  BY Behind
<1> HIDE DEF u
<1>2. StartsFrom(t, i) = A \cup {i}
  <2>1. i \in StartsFrom(t, i)
    BY DEF StartsFrom, BetweenRuns
  <2>2. ASSUME NEW j \in StartsFrom(t, i), j # i PROVE j \in A
    <3>1. j \in i + 1 .. Len(t) /\ t[j] # Separator /\ t[j - 1] = Separator
      BY <1>1, <2>2 DEF StartsFrom
    <3>2. ~ (j <= u - 1)
      <4> SUFFICES ASSUME j <= u - 1 PROVE FALSE
        OBVIOUS
      <4>1. j - 1 \in i .. u - 1
        BY <1>1, <3>1
      <4>2. QED
        BY <1>1, <3>1, <4>1
    <3>3. j \in u .. Len(t)
      BY <1>1, <3>1, <3>2
    <3>4. QED
      BY <3>1, <3>3 DEF StartsFrom
  <2>3. ASSUME NEW j \in A PROVE j \in StartsFrom(t, i)
    <3>1. j \in i .. Len(t)
      BY <1>1 DEF StartsFrom
    <3>2. QED
      BY <3>1 DEF StartsFrom
  <2>4. QED
    BY <2>1, <2>2, <2>3
<1>3. \A j \in A : j \in Nat /\ i < j
  BY <1>1 DEF StartsFrom
<1>4. /\ IsFiniteSet(A) /\ Cardinality(A) \in Nat
      /\ \A j : IsFiniteSet({m \in A : m <= j}) /\ Cardinality({m \in A : m <= j}) \in Nat
      /\ \A j : Cardinality({m \in A : m <= j}) <= Cardinality(A)
  BY <1>1, StartsAreFew
<1>5. /\ p \in Seq(Seq(Char)) /\ Len(p) = Cardinality(A)
      /\ \A j \in A : p[Cardinality({m \in A : m <= j})] = Piece(t, j)
  BY DEF RunsFrom, u
<1>6. Piece(t, i) \in Seq(Char)
  BY PieceIs
<1> DEFINE first == Piece(t, i)
<1>7. /\ q \in Seq(Seq(Char)) /\ Len(q) = Len(p) + 1 /\ q[1] = first
      /\ \A k \in 1 .. Len(p) : q[k + 1] = p[k]
  <2> HIDE DEF first
  <2>1. <<first>> \in Seq(Seq(Char)) /\ Len(<<first>>) = 1 /\ <<first>>[1] = first
    BY <1>6 DEF first
  <2>2. q = <<first>> \o p
    BY DEF first
  <2> HIDE DEF q
  <2>3. q \in Seq(Seq(Char)) /\ Len(q) = Len(p) + 1
    BY <1>5, <2>1, <2>2
  <2>4. q[1] = first
    BY <1>5, <2>1, <2>2
  <2>5. \A k \in 1 .. Len(p) : q[k + 1] = p[k]
    BY <1>5, <2>1, <2>2
  <2>6. QED
    BY <2>3, <2>4, <2>5
<1> HIDE DEF q, A, first
<1>8. i \notin A
  BY <1>1, <1>3
<1>9. Cardinality(StartsFrom(t, i)) = Cardinality(A) + 1
  BY <1>2, <1>4, <1>8, FS_AddElement
<1>10. ASSUME NEW j \in StartsFrom(t, i)
       PROVE  q[Cardinality({m \in StartsFrom(t, i) : m <= j})] = Piece(t, j)
  <2>1. CASE j = i
    <3>1. {m \in StartsFrom(t, i) : m <= j} = {i}
      BY <1>1, <1>2, <1>3, <2>1
    <3>2. Cardinality({i}) = 1
      BY FS_Singleton
    <3>3. QED
      BY <1>7, <2>1, <3>1, <3>2 DEF first
  <2>2. CASE j # i
    <3> DEFINE B == {m \in A : m <= j}
    <3>1. j \in A /\ j \in B
      BY <1>2, <1>3, <2>2
    <3>2. {m \in StartsFrom(t, i) : m <= j} = B \cup {i}
      BY <1>1, <1>2, <1>3, <3>1
    <3>3. IsFiniteSet(B) /\ Cardinality(B) \in Nat /\ Cardinality(B) <= Cardinality(A)
      BY <1>4
    <3>4. i \notin B
      BY <1>8
    <3>5. p[Cardinality(B)] = Piece(t, j)
      BY <1>5, <3>1
    <3> HIDE DEF B
    <3>6. Cardinality(B \cup {i}) = Cardinality(B) + 1
      BY <3>3, <3>4, FS_AddElement
    <3>7. Cardinality(B) # 0
      BY <3>1, <3>3, FS_EmptySet
    <3>8. Cardinality(B) \in 1 .. Len(p)
      BY <1>5, <3>3, <3>7
    <3>9. QED
      BY <1>7, <3>2, <3>5, <3>6, <3>8
  <2>3. QED
    BY <2>1, <2>2
<1>11. RunsFrom(t, i, q)
  BY <1>5, <1>7, <1>9, <1>10 DEF RunsFrom
<1>12. QED
  BY <1>11 DEF q, first

\* string_split gives the runs from the first position on.
LEMMA SplitIs ==
  ASSUME NEW t \in Seq(Char)
  PROVE  RunsFrom(t, 1, string_split(t))
<1> DEFINE N == Len(t)
<1>1. PICK f : f = CHOOSE g : IsSplit(g, t, 1)
  OBVIOUS
<1>2. IsSplit(f, t, 1)
  BY <1>1, SplitExists
<1>3. string_split(t) = f[1]
  BY <1>1 DEF string_split, IsSplit
<1>4. N \in Nat /\ \A i \in 1 .. N + 1 : i \in Nat
  OBVIOUS
<1>5. ASSUME NEW i \in 1 .. N + 1
      PROVE  f[i] = IF i > N THEN <<>>
                    ELSE IF t[i] = Separator THEN f[i + 1]
                    ELSE <<Piece(t, i)>> \o f[i + Len(Piece(t, i))]
  BY <1>2 DEF IsSplit
<1> DEFINE Given(i) == BetweenRuns(t, i) => RunsFrom(t, i, f[i])
           T == {n \in Nat : n <= N => \A i \in N + 1 - n .. N + 1 : Given(i)}
<1>6. ASSUME NEW i \in 1 .. N + 1, i > N \/ \A k \in i + 1 .. N + 1 : Given(k)
      PROVE  Given(i)
  <2> SUFFICES ASSUME BetweenRuns(t, i) PROVE RunsFrom(t, i, f[i])
    OBVIOUS
  <2>1. CASE i > N
    <3>1. i \in Int
      BY <1>4
    <3>2. f[i] = <<>>
      BY <1>5, <2>1
    <3>3. QED
      BY <2>1, <3>1, <3>2, RunsAtTheEnd
  <2>2. CASE ~ (i > N) /\ t[i] = Separator
    <3>1. i \in 1 .. N /\ i + 1 \in i + 1 .. N + 1 /\ (i + 1) - 1 = i
      BY <1>4, <2>2
    <3>2. BetweenRuns(t, i + 1)
      BY <2>2, <3>1 DEF BetweenRuns
    <3>3. RunsFrom(t, i + 1, f[i + 1])
      BY <1>6, <2>2, <3>1, <3>2
    <3>4. f[i] = f[i + 1]
      BY <1>5, <2>2
    <3>5. QED
      BY <2>2, <3>1, <3>3, <3>4, RunsOverSeparator
  <2>3. CASE ~ (i > N) /\ t[i] # Separator
    <3>1. i \in 1 .. N
      BY <1>4, <2>3
    <3>2. PICK u : u = i + Len(Piece(t, i))
      OBVIOUS
    <3>3. u \in i + 1 .. N + 1 /\ BetweenRuns(t, u)
      BY <2>3, <3>1, <3>2, Behind
    <3>4. RunsFrom(t, u, f[u])
      BY <1>6, <2>3, <3>3
    <3>5. f[i] = <<Piece(t, i)>> \o f[u]
      BY <1>5, <2>3, <3>2
    <3>6. QED
      BY <2>3, <3>1, <3>2, <3>4, <3>5, RunsOverPiece
  <2>4. QED
    BY <2>1, <2>2, <2>3
<1> HIDE DEF Given
<1>7. 0 \in T
  <2>1. \A i \in N + 1 - 0 .. N + 1 : i \in 1 .. N + 1 /\ i > N
    BY <1>4
  <2>2. QED
    BY <1>6, <2>1
<1>8. ASSUME NEW n \in Nat, n \in T PROVE n + 1 \in T
  <2> SUFFICES ASSUME n + 1 <= N, NEW i \in N + 1 - (n + 1) .. N + 1 PROVE Given(i)
    OBVIOUS
  <2>1. \A k \in N + 1 - n .. N + 1 : Given(k)
    BY <1>4, <1>8
  <2>2. i \in 1 .. N + 1 /\ \A k \in i + 1 .. N + 1 : k \in N + 1 - n .. N + 1
    BY <1>4
  <2>3. QED
    BY <1>6, <2>1, <2>2
<1>9. Nat \subseteq T
  <2> HIDE DEF T
  <2> QED
    BY <1>7, <1>8, Induction
<1>10. Given(1)
  <2>1. CASE N = 0
    <3>1. 1 \in 1 .. N + 1 /\ 1 > N
      BY <2>1
    <3>2. QED
      BY <1>6, <3>1
  <2>2. CASE N # 0
    <3>1. N \in T
      BY <1>4, <1>9
    <3>2. 1 \in N + 1 - N .. N + 1
      BY <1>4
    <3>3. QED
      BY <1>4, <3>1, <3>2
  <2>3. QED
    BY <2>1, <2>2
<1>11. QED
  BY <1>3, <1>10 DEF Given, BetweenRuns

--------------------------------------------------------------------------------
(******************************************************************************)
(* The other functions.                                                       *)
(******************************************************************************)

LEMMA AppendIs ==
  ASSUME NEW s \in Seq(Char), NEW t \in Seq(Char)
  PROVE  /\ string_append(s, t) \in Seq(Char)
         /\ string_starts_with(string_append(s, t), s)
         /\ string_ends_with(string_append(s, t), t)
<1> DEFINE a == s \o t
           tail == SubSeq(a, Len(a) - Len(t) + 1, Len(a))
<1>1. /\ a \in Seq(Char) /\ Len(a) = Len(s) + Len(t)
      /\ Len(s) \in Nat /\ Len(t) \in Nat
      /\ \A i \in 1 .. Len(s) : a[i] = s[i]
      /\ \A i \in 1 .. Len(t) : a[Len(s) + i] = t[i]
  OBVIOUS
<1>2. DOMAIN s = 1 .. Len(s)
  OBVIOUS
<1>3. string_starts_with(a, s)
  <2> HIDE DEF a
  <2> QED
    BY <1>1, <1>2 DEF string_starts_with
<1> HIDE DEF a
<1>4. Len(s) + 1 \in 1 .. Len(a) + 1 /\ Len(a) \in (Len(s) + 1) - 1 .. Len(a)
      /\ Len(a) - Len(t) + 1 = Len(s) + 1 /\ Len(a) - (Len(s) + 1) + 1 = Len(t)
  BY <1>1
<1>5. /\ tail \in Seq(Char) /\ Len(tail) = Len(t)
      /\ \A k \in 1 .. Len(t) : tail[k] = a[(Len(s) + 1) + k - 1]
  BY <1>1, <1>4, Part
<1>6. \A k \in 1 .. Len(t) : tail[k] = t[k]
  <2> TAKE k \in 1 .. Len(t)
  <2>1. (Len(s) + 1) + k - 1 = Len(s) + k
    BY <1>1
  <2> HIDE DEF tail
  <2>2. QED
    BY <1>1, <1>5, <2>1
<1> HIDE DEF tail
<1>7. tail = t
  BY <1>5, <1>6
<1>8. string_ends_with(a, t)
  BY <1>1, <1>7 DEF string_ends_with, tail
<1>9. QED
  BY <1>1, <1>3, <1>8 DEF string_append, a

\* Both conversions are forgotten by a conversion to lower case.
LEMMA CaseIs ==
  ASSUME NEW t \in Seq(Char)
  PROVE  /\ string_to_upper(t) \in Seq(Char) /\ string_to_lower(t) \in Seq(Char)
         /\ string_equals_ignore_case(string_to_upper(t), t)
         /\ string_equals_ignore_case(string_to_lower(t), t)
<1>1. /\ Upper \in [Char -> Char] /\ Lower \in [Char -> Char]
      /\ \A c \in Char : Lower[Upper[c]] = Lower[c] /\ Lower[Lower[c]] = Lower[c]
  BY StringsAssumption
<1>2. DOMAIN t = 1 .. Len(t) /\ \A i \in 1 .. Len(t) : t[i] \in Char
  OBVIOUS
<1>3. string_to_upper(t) = [i \in 1 .. Len(t) |-> Upper[t[i]]]
  BY <1>2 DEF string_to_upper
<1>4. string_to_lower(t) = [i \in 1 .. Len(t) |-> Lower[t[i]]]
  BY <1>2 DEF string_to_lower
<1>5. \A i \in 1 .. Len(t) : Upper[t[i]] \in Char /\ Lower[t[i]] \in Char
  BY <1>1, <1>2
<1>6. string_to_upper(t) \in Seq(Char) /\ string_to_lower(t) \in Seq(Char)
  BY <1>3, <1>4, <1>5
<1>7. string_to_lower(string_to_upper(t)) = string_to_lower(t)
  BY <1>1, <1>2, <1>3, <1>4 DEF string_to_lower
<1>8. string_to_lower(string_to_lower(t)) = string_to_lower(t)
  BY <1>1, <1>2, <1>4 DEF string_to_lower
<1>9. QED
  BY <1>6, <1>7, <1>8 DEF string_equals_ignore_case

LEMMA CapitalizedIs ==
  ASSUME NEW t \in Seq(Char)
  PROVE  /\ string_capitalized(t) \in Seq(Char)
         /\ string_equals_ignore_case(string_capitalized(t), t)
<1>1. CASE Len(t) = 0
  BY <1>1 DEF string_capitalized, string_is_empty, string_equals_ignore_case
<1>2. CASE Len(t) # 0
  <2>1. /\ Upper \in [Char -> Char] /\ Lower \in [Char -> Char]
        /\ \A c \in Char : Lower[Upper[c]] = Lower[c] /\ Lower[Lower[c]] = Lower[c]
    BY StringsAssumption
  <2> DEFINE h == <<Upper[Head(t)]>>
             l == string_to_lower(Tail(t))
             c == h \o l
  <2>2. /\ Len(t) \in Nat \ {0} /\ Head(t) = t[1] /\ t[1] \in Char
        /\ Tail(t) \in Seq(Char) /\ Len(Tail(t)) = Len(t) - 1
        /\ DOMAIN Tail(t) = 1 .. Len(t) - 1
        /\ \A i \in 1 .. Len(t) - 1 : Tail(t)[i] = t[i + 1]
    BY <1>2
  <2>3. h \in Seq(Char) /\ Len(h) = 1 /\ h[1] = Upper[t[1]]
    BY <2>1, <2>2
  <2>4. l = [i \in 1 .. Len(t) - 1 |-> Lower[Tail(t)[i]]] /\ l \in Seq(Char)
    BY <2>2, CaseIs DEF string_to_lower
  <2>5. DOMAIN l = 1 .. Len(t) - 1 /\ \A i \in 1 .. Len(t) - 1 : l[i] = Lower[t[i + 1]]
    <3> HIDE DEF l
    <3> QED
      BY <2>2, <2>4
  <2> HIDE DEF h, l
  <2>13. Len(l) = Len(t) - 1
    <3>1. l \in Seq(Char) /\ Len(t) \in Nat
      BY <2>2, <2>4
    <3>2. DOMAIN l = 1 .. Len(l) /\ Len(l) \in Nat
      BY <3>1, LenProperties
    <3>3. Len(t) - 1 \in Nat
      BY <2>2
    <3>4. QED
      BY <2>5, <3>2, <3>3
  <2>6. /\ c \in Seq(Char) /\ Len(c) = Len(t) /\ c[1] = h[1]
        /\ \A i \in 1 .. Len(l) : c[i + 1] = l[i]
    <3>1. c \in Seq(Char) /\ Len(c) = Len(h) + Len(l)
      BY <2>3, <2>4, ConcatProperties
    <3>2. \A i \in 1 .. Len(h) + Len(l) : c[i] = IF i <= Len(h) THEN h[i] ELSE l[i - Len(h)]
      BY <2>3, <2>4, ConcatProperties
    <3>3. Len(t) \in Nat /\ Len(l) \in Nat /\ Len(h) + Len(l) = Len(t)
      BY <2>2, <2>3, <2>13
    <3> HIDE DEF c
    <3>4. c[1] = h[1]
      BY <2>2, <2>3, <3>2, <3>3
    <3>5. \A i \in 1 .. Len(l) : c[i + 1] = l[i]
      <4> TAKE i \in 1 .. Len(l)
      <4>1. i + 1 \in 1 .. Len(h) + Len(l) /\ ~ (i + 1 <= Len(h)) /\ (i + 1) - Len(h) = i
        BY <2>3, <3>3
      <4>2. QED
        BY <3>2, <4>1
    <3>6. QED
      BY <3>1, <3>3, <3>4, <3>5
  <2>7. c[1] = Upper[t[1]]
    BY <2>3, <2>6
  <2>8. \A i \in 2 .. Len(t) : c[i] = Lower[t[i]]
    <3> TAKE i \in 2 .. Len(t)
    <3>1. i - 1 \in 1 .. Len(t) - 1 /\ (i - 1) + 1 = i
      BY <2>2
    <3> HIDE DEF c
    <3>2. c[i] = l[i - 1]
      BY <2>6, <2>13, <3>1
    <3>3. QED
      BY <2>5, <3>1, <3>2
  <2> HIDE DEF c
  <2>9. \A i \in 1 .. Len(t) : Lower[c[i]] = Lower[t[i]]
    <3> TAKE i \in 1 .. Len(t)
    <3>1. i = 1 \/ i \in 2 .. Len(t)
      BY <2>2
    <3>2. t[i] \in Char
      OBVIOUS
    <3>3. QED
      BY <2>1, <2>7, <2>8, <3>1, <3>2
  <2>10. string_to_lower(c) = string_to_lower(t)
    <3>1. DOMAIN c = 1 .. Len(t) /\ DOMAIN t = 1 .. Len(t)
      BY <2>6
    <3>2. QED
      BY <2>9, <3>1 DEF string_to_lower
  <2>11. string_capitalized(t) = c
    BY <1>2 DEF string_capitalized, string_is_empty, c, h, l
  <2>12. QED
    BY <2>6, <2>10, <2>11 DEF string_equals_ignore_case
<1>3. QED
  BY <1>1, <1>2

LEMMA RepeatIs ==
  ASSUME NEW c \in Char, NEW n \in Nat
  PROVE  string_repeat(c, n) \in Seq(Char)
BY DEF string_repeat

--------------------------------------------------------------------------------
(******************************************************************************)
(* The invariant.  A call meets its definition if what it returns and leaves  *)
(* does so for the string before it.                                          *)
(******************************************************************************)

LEMMA InitTextInv == StringsInit => TextInv
<1> SUFFICES ASSUME StringsInit PROVE TextInv
  OBVIOUS
<1>1. Texts \subseteq Seq(Char)
  BY StringsAssumption
<1>2. text \in Seq(Char) /\ call.op = "none" /\ call.before = text /\ call.with = <<>>
  BY <1>1 DEF StringsInit
<1>3. <<>> \in Seq(Char)
  OBVIOUS
<1>4. LoopsMeetDefinitions
  BY <1>2 DEF LoopsMeetDefinitions, TrimTakesTheEnds, SplitGivesTheRuns, AppendIsFoundAgain,
              CaseIsIgnored, Called
<1>5. QED
  BY <1>2, <1>3, <1>4 DEF TextInv

LEMMA DidIs ==
  ASSUME NEW op, NEW with, Did(op, with)
  PROVE  call'.op = op /\ call'.before = text /\ call'.with = with
BY DEF Did

LEMMA AppendInv == TextInv /\ (\E with \in Added : Append_(with)) => TextInv'
<1> SUFFICES ASSUME TextInv, NEW with \in Added, Append_(with) PROVE TextInv'
  OBVIOUS
<1>1. with \in Seq(Char) /\ text \in Seq(Char)
  BY StringsAssumption DEF TextInv
<1>2. text' = string_append(text, with)
      /\ call'.op = "append" /\ call'.before = text /\ call'.with = with
  BY DidIs DEF Append_, Change
<1>3. text' \in Seq(Char) /\ string_starts_with(text', text) /\ string_ends_with(text', with)
  BY <1>1, <1>2, AppendIs
<1>4. AppendIsFoundAgain'
  BY <1>2, <1>3 DEF AppendIsFoundAgain
<1>5. TrimTakesTheEnds' /\ SplitGivesTheRuns' /\ CaseIsIgnored'
  BY <1>2 DEF TrimTakesTheEnds, SplitGivesTheRuns, CaseIsIgnored, Called
<1>6. QED
  BY <1>1, <1>2, <1>3, <1>4, <1>5 DEF TextInv, LoopsMeetDefinitions

LEMMA RepeatInv == TextInv /\ Repeat => TextInv'
<1> SUFFICES ASSUME TextInv, NEW c \in Char, NEW n \in 0 .. MaxText,
                    Change("repeat", string_repeat(c, n), string_repeat(c, n))
             PROVE  TextInv'
  BY DEF Repeat
<1>1. n \in Nat /\ text \in Seq(Char)
  BY StringsAssumption DEF TextInv
<1> DEFINE r == string_repeat(c, n)
<1>2. r \in Seq(Char)
  BY <1>1, RepeatIs
<1> HIDE DEF r
<1>3. text' = r /\ call'.op = "repeat" /\ call'.before = text /\ call'.with = r
  BY DidIs DEF Change, r
<1>4. TrimTakesTheEnds' /\ SplitGivesTheRuns' /\ AppendIsFoundAgain' /\ CaseIsIgnored'
  BY <1>3 DEF TrimTakesTheEnds, SplitGivesTheRuns, AppendIsFoundAgain, CaseIsIgnored, Called
<1>5. QED
  BY <1>1, <1>2, <1>3, <1>4 DEF TextInv, LoopsMeetDefinitions

LEMMA CaseInv == TextInv /\ Case => TextInv'
<1> SUFFICES ASSUME TextInv, Case PROVE TextInv'
  OBVIOUS
<1>1. text \in Seq(Char)
  BY DEF TextInv
<1>2. /\ text' \in Seq(Char) /\ string_equals_ignore_case(text', text)
      /\ call'.op \in {"upper", "lower", "capitalized"} /\ call'.before = text /\ call'.with = <<>>
  <2>1. CASE Change("upper", <<>>, string_to_upper(text))
    BY <1>1, <2>1, DidIs, CaseIs DEF Change
  <2>2. CASE Change("lower", <<>>, string_to_lower(text))
    BY <1>1, <2>2, DidIs, CaseIs DEF Change
  <2>3. CASE Change("capitalized", <<>>, string_capitalized(text))
    BY <1>1, <2>3, DidIs, CapitalizedIs DEF Change
  <2>4. QED
    BY <2>1, <2>2, <2>3 DEF Case
<1>3. CaseIsIgnored'
  BY <1>2 DEF CaseIsIgnored
<1>4. call'.op # "trim" /\ call'.op # "split" /\ call'.op # "append"
  BY <1>2
<1>5. TrimTakesTheEnds' /\ SplitGivesTheRuns' /\ AppendIsFoundAgain'
  BY <1>4 DEF TrimTakesTheEnds, SplitGivesTheRuns, AppendIsFoundAgain, Called
<1>6. <<>> \in Seq(Char)
  OBVIOUS
<1>7. QED
  BY <1>1, <1>2, <1>3, <1>5, <1>6 DEF TextInv, LoopsMeetDefinitions

LEMMA TrimInv == TextInv /\ Trim => TextInv'
<1> SUFFICES ASSUME TextInv, Trim PROVE TextInv'
  OBVIOUS
<1>1. text \in Seq(Char) /\ <<>> \in Seq(Char)
  BY DEF TextInv
<1>2. /\ text' \in Seq(Char) /\ call'.before = text /\ call'.with = <<>>
      /\ call'.op \in {"trim_left", "trim_right", "trim"}
      /\ call'.op = "trim" => text' = string_trim(text)
  <2>1. CASE Change("trim_left", <<>>, string_trim_left(text))
    BY <1>1, <2>1, DidIs, TrimIs DEF Change
  <2>2. CASE Change("trim_right", <<>>, string_trim_right(text))
    BY <1>1, <2>2, DidIs, TrimIs DEF Change
  <2>3. CASE Change("trim", <<>>, string_trim(text))
    BY <1>1, <2>3, DidIs, TrimIs DEF Change
  <2>4. QED
    BY <2>1, <2>2, <2>3 DEF Trim
<1>3. TrimTakesTheEnds'
  <2> SUFFICES ASSUME call'.op = "trim" PROVE TrimTakesTheEnds'
    BY DEF TrimTakesTheEnds, Called
  <2>1. /\ \E l, r \in 0 .. Len(text) : Trimmed(text', text, l, r)
        /\ text' # <<>> => text'[1] \notin Blank /\ text'[Len(text')] \notin Space
    BY <1>1, <1>2, TrimIs
  <2>2. QED
    BY <1>2, <2>1 DEF TrimTakesTheEnds, Trimmed
<1>4. call'.op # "split" /\ call'.op # "append"
      /\ call'.op \notin {"upper", "lower", "capitalized"}
  BY <1>2
<1>5. SplitGivesTheRuns' /\ AppendIsFoundAgain' /\ CaseIsIgnored'
  BY <1>4 DEF SplitGivesTheRuns, AppendIsFoundAgain, CaseIsIgnored, Called
<1>6. QED
  BY <1>1, <1>2, <1>3, <1>5 DEF TextInv, LoopsMeetDefinitions

LEMMA SplitInv == TextInv /\ Split => TextInv'
<1> SUFFICES ASSUME TextInv, Split PROVE TextInv'
  OBVIOUS
<1>1. text \in Seq(Char) /\ <<>> \in Seq(Char)
  BY DEF TextInv
<1>2. /\ text' = text /\ answer' = string_split(text)
      /\ call'.op = "split" /\ call'.before = text /\ call'.with = <<>>
  BY DidIs DEF Split
<1>3. RunsFrom(text, 1, answer') /\ Starts' = StartsFrom(text, 1)
  BY <1>1, <1>2, SplitIs DEF Starts, StartsFrom
<1>4. ASSUME NEW i \in Starts'
      PROVE  LET piece == answer'[Cardinality({j \in Starts' : j <= i})]
                 end == i + Len(piece)
             IN  /\ piece = SubSeq(text, i, end - 1)
                 /\ Separator \notin Range(piece)
                 /\ end > Len(text) \/ text[end] = Separator
  <2>1. answer'[Cardinality({j \in Starts' : j <= i})] = Piece(text, i)
    BY <1>3 DEF RunsFrom
  <2>2. i \in 1 .. Len(text) /\ text[i] # Separator /\ Len(text) \in Nat
    BY <1>1, <1>3 DEF StartsFrom
  <2>3. PICK u : /\ FirstOut(text, Char \ {Separator}, i, u)
                 /\ Piece(text, i) = SubSeq(text, i, u - 1)
                 /\ Len(Piece(text, i)) = u - i
                 /\ Separator \notin Range(Piece(text, i))
    BY <1>1, <2>2, PieceIs
  <2>4. u \in i .. Len(text) + 1 /\ i + (u - i) = u
    BY <2>2, <2>3 DEF FirstOut
  <2>5. u > Len(text) \/ text[u] = Separator
    <3> SUFFICES ASSUME ~ (u > Len(text)) PROVE text[u] = Separator
      OBVIOUS
    <3>1. u \in 1 .. Len(text) /\ u <= Len(text)
      BY <2>2, <2>4
    <3>2. text[u] \in Char /\ text[u] \notin Char \ {Separator}
      BY <1>1, <2>3, <3>1 DEF FirstOut
    <3>3. QED
      BY <3>2
  <2>6. QED
    BY <2>1, <2>3, <2>4, <2>5
<1>5. SplitGivesTheRuns'
  <2>1. Len(answer') = Cardinality(Starts')
    BY <1>3 DEF RunsFrom
  <2>2. QED
    BY <1>2, <1>4, <2>1 DEF SplitGivesTheRuns
<1>6. call'.op # "trim" /\ call'.op # "append"
      /\ call'.op \notin {"upper", "lower", "capitalized"}
  BY <1>2
<1>7. TrimTakesTheEnds' /\ AppendIsFoundAgain' /\ CaseIsIgnored'
  BY <1>6 DEF TrimTakesTheEnds, AppendIsFoundAgain, CaseIsIgnored, Called
<1>8. QED
  BY <1>1, <1>2, <1>5, <1>7 DEF TextInv, LoopsMeetDefinitions

LEMMA NextTextInv == TextInv /\ [StringsNext]_stringsVars => TextInv'
<1> SUFFICES ASSUME TextInv, [StringsNext]_stringsVars PROVE TextInv'
  OBVIOUS
<1>1. CASE Repeat
  BY <1>1, RepeatInv
<1>2. CASE \E with \in Added : Append_(with)
  BY <1>2, AppendInv
<1>3. CASE Case
  BY <1>3, CaseInv
<1>4. CASE Trim
  BY <1>4, TrimInv
<1>5. CASE Split
  BY <1>5, SplitInv
<1>6. CASE UNCHANGED stringsVars
  <2>1. text' = text /\ call' = call /\ answer' = answer
    BY <1>6 DEF stringsVars
  <2>2. LoopsMeetDefinitions
    BY DEF TextInv
  <2>3. LoopsMeetDefinitions'
    <3>1. TrimTakesTheEnds' /\ AppendIsFoundAgain' /\ CaseIsIgnored'
      BY <2>1, <2>2 DEF LoopsMeetDefinitions, TrimTakesTheEnds, AppendIsFoundAgain,
                        CaseIsIgnored, Called
    <3>2. SplitGivesTheRuns'
      BY <2>1, <2>2 DEF LoopsMeetDefinitions, SplitGivesTheRuns, Called, Starts
    <3>3. QED
      BY <3>1, <3>2 DEF LoopsMeetDefinitions
  <2>4. QED
    BY <2>1, <2>3 DEF TextInv
<1>7. QED
  BY <1>1, <1>2, <1>3, <1>4, <1>5, <1>6 DEF StringsNext

(******************************************************************************)
(* Whatever functions of string.c are called, one after the other, on strings *)
(* of any length, each computes what its definition says: a trim takes the    *)
(* blanks of the ends and no more, a split gives the runs between separators, *)
(* an append keeps both strings, and a change of case keeps the letters.      *)
(******************************************************************************)
THEOREM LoopsAreRight == StringsSpec => []LoopsMeetDefinitions
<1>1. TextInv => LoopsMeetDefinitions
  BY DEF TextInv
<1>2. QED
  BY <1>1, InitTextInv, NextTextInv, PTL DEF StringsSpec
================================================================================
