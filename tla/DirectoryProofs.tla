---------------------------- MODULE DirectoryProofs ----------------------------
(******************************************************************************)
(* Where a path leads, for trees of any size and depth, paths of any length,  *)
(* and directories of any number of blocks, as long as they are whole.        *)
(*                                                                            *)
(* The names found so far lead to the inode in hand, or over one that is not  *)
(* read right, and the list in hand has the live entries of the places that   *)
(* the scan has passed, once each, unless a block was cut (DirInv).  That the *)
(* inodes gone to are the ones meant is what ServerProofs has of Layout.      *)
(******************************************************************************)
EXTENDS Directory, ServerProofs

Listing == {"block", "entry", "listed"}

Walking == {"idle", "find"} \cup Listing

Amount == block_amount(inode)

\* The live places before entry o of block k, blocks being counted from 0.
Before(t, i, k, o) ==
  {x \in LivePlaces(t, i) : x[1] <= k \/ (x[1] = k + 1 /\ x[2] < o)}

\* The list has the entries at these places, and no name twice.
Lists(t, i, entries, places) ==
  /\ entries \in Seq({EntryAt(t, i, x) : x \in places})
  /\ \A x \in places : \E n \in DOMAIN entries : entries[n] = EntryAt(t, i, x)
  /\ \A m, n \in DOMAIN entries : entries[m].name = entries[n].name => m = n

Passed == Before(tree, inode, index, IF walk = "entry" THEN offset ELSE 0)

ScanOK ==
  walk \in Listing =>
    /\ IsDirectory(inode) /\ index \in 0 .. Amount
    /\ walk = "entry" =>
         /\ index < Amount /\ tree.inodes[inode].block[index + 1] # 0
         /\ BlockRead(inode, index + 1) \in DOMAIN tree.device
         /\ offset \in DOMAIN tree.device[BlockRead(inode, index + 1)]
                      \cup {DirBlockSize}
    /\ walk = "listed" => index = Amount
    /\ Uncut(inode) => Lists(tree, inode, list, Passed)
    /\ depth = Len(path) => kind = "list" /\ found = inode

\* How far the path has led, and where.
WayOK ==
  /\ path_asked \in Seq(STRING) /\ path = string_split(path_asked)
  /\ depth \in 0 .. Len(path)
  /\ walk = "idle" => depth = 0
  /\ Leads[depth] = {inode} \/ Misread(depth)

WalkTypes ==
  /\ tree \in Trees
  /\ walk \in Walking \cup WalkEnds
  /\ kind \in {"element", "list"}
  /\ inode \in DOMAIN tree.inodes
  /\ found \in {NoInode} \cup DOMAIN tree.inodes

\* What a call that is over has found.
EndOK ==
  /\ walk \in {"found", "listing"} => depth = Len(path) /\ found = inode
  /\ walk = "listing" => /\ IsDirectory(inode)
                         /\ Uncut(inode) =>
                              Lists(tree, inode, list, LivePlaces(tree, inode))
  /\ walk = "NULL" =>
       \/ Misread(Len(path))
       \/ \A i \in Leads[Len(path)] : kind = "list" /\ ~ IsDirectory(i)
  /\ FaultsOnlyOnTheWay

DirInv == WalkTypes /\ WayOK /\ ScanOK /\ EndOK

--------------------------------------------------------------------------------
(******************************************************************************)
(* string_split gives the names of a path.                                    *)
(******************************************************************************)

Kept(a, i) == {j \in 1 .. i : a[j] # ""}

LEMMA KeptOneMore ==
  ASSUME NEW a, NEW i \in Nat
  PROVE  /\ Kept(a, i + 1) = IF a[i + 1] = "" THEN Kept(a, i) ELSE Kept(a, i) \cup {i + 1}
         /\ i + 1 \notin Kept(a, i)
<1>1. \A j : j \in 1 .. i + 1 <=> j \in 1 .. i \/ j = i + 1
  OBVIOUS
<1>2. \A j : j \in Kept(a, i + 1) <=> j \in 1 .. i + 1 /\ a[j] # ""
  BY DEF Kept
<1>3. \A j : j \in Kept(a, i) <=> j \in 1 .. i /\ a[j] # ""
  BY DEF Kept
<1>4. i + 1 \notin 1 .. i
  OBVIOUS
<1>5. i + 1 \notin Kept(a, i)
  BY <1>3, <1>4, Zenon
<1>6. QED
  BY <1>1, <1>2, <1>3, <1>5, Zenon

LEMMA KeptCounts ==
  ASSUME NEW a, NEW i \in Nat
  PROVE  /\ IsFiniteSet(Kept(a, i)) /\ Cardinality(Kept(a, i)) \in Nat
         /\ Cardinality(Kept(a, 0)) = 0
         /\ Cardinality(Kept(a, i + 1)) =
              IF a[i + 1] = "" THEN Cardinality(Kept(a, i)) ELSE Cardinality(Kept(a, i)) + 1
<1>1. IsFiniteSet(1 .. i)
  BY FS_Interval
<1>2. IsFiniteSet(Kept(a, i))
  BY <1>1, FS_Subset DEF Kept
<1>3. Cardinality(Kept(a, i)) \in Nat
  BY <1>2, FS_CardinalityType
<1>4. Kept(a, 0) = {}
  BY DEF Kept
<1>5. Cardinality(Kept(a, 0)) = 0
  BY <1>4, FS_EmptySet
<1>6. CASE a[i + 1] = ""
  <2>1. Kept(a, i + 1) = Kept(a, i)
    BY <1>6, KeptOneMore
  <2>2. QED
    BY <1>2, <1>3, <1>5, <1>6, <2>1
<1>7. CASE a[i + 1] # ""
  <2>1. Kept(a, i + 1) = Kept(a, i) \cup {i + 1} /\ i + 1 \notin Kept(a, i)
    BY <1>7, KeptOneMore
  <2>2. Cardinality(Kept(a, i + 1)) = Cardinality(Kept(a, i)) + 1
    BY <1>2, <2>1, FS_AddElement
  <2>3. QED
    BY <1>2, <1>3, <1>5, <1>7, <2>2
<1>8. QED
  BY <1>6, <1>7

\* What the loop of string_split has after i pieces.
IsSplit(f, a) ==
  f = [i \in 0 .. Len(a) |-> IF i = 0 THEN <<>>
                             ELSE IF a[i] = "" THEN f[i - 1]
                             ELSE Append(f[i - 1], a[i])]

LEMMA SplitExists ==
  ASSUME NEW a \in Seq(STRING)
  PROVE  \E f : IsSplit(f, a)
<1> DEFINE N == Len(a)
           Is(f, n) == f = [i \in 0 .. n |-> IF i = 0 THEN <<>>
                                             ELSE IF a[i] = "" THEN f[i - 1]
                                             ELSE Append(f[i - 1], a[i])]
           T == {n \in Nat : \E f : Is(f, n)}
<1>1. 0 \in T
  <2> DEFINE f == [i \in 0 .. 0 |-> <<>>]
  <2>1. Is(f, 0)
    OBVIOUS
  <2> HIDE DEF f
  <2>2. QED
    BY <2>1
<1>2. ASSUME NEW n \in Nat, n \in T PROVE n + 1 \in T
  <2>1. PICK f : Is(f, n)
    BY <1>2
  <2> DEFINE last == IF a[n + 1] = "" THEN f[n] ELSE Append(f[n], a[n + 1])
             g == [i \in 0 .. n + 1 |-> IF i <= n THEN f[i] ELSE last]
  <2>2. ASSUME NEW i \in 0 .. n + 1
        PROVE  g[i] = IF i = 0 THEN <<>> ELSE IF a[i] = "" THEN g[i - 1]
                      ELSE Append(g[i - 1], a[i])
    <3>1. CASE i <= n
      <4>1. i \in 0 .. n /\ (i # 0 => i - 1 \in 0 .. n + 1 /\ i - 1 <= n)
        BY <3>1
      <4>2. f[i] = IF i = 0 THEN <<>> ELSE IF a[i] = "" THEN f[i - 1]
                   ELSE Append(f[i - 1], a[i])
        BY <2>1, <4>1
      <4> HIDE DEF last
      <4>3. g[i] = f[i] /\ (i # 0 => g[i - 1] = f[i - 1])
        BY <3>1, <4>1
      <4> HIDE DEF g
      <4>4. QED
        BY <4>2, <4>3
    <3>2. CASE ~ (i <= n)
      <4>1. i = n + 1 /\ i - 1 = n /\ i # 0 /\ n \in 0 .. n + 1
        BY <3>2
      <4> HIDE DEF last
      <4>2. g[i] = last /\ g[i - 1] = f[n]
        BY <4>1
      <4> HIDE DEF g
      <4>3. QED
        BY <4>1, <4>2 DEF last
    <3>3. QED
      BY <3>1, <3>2
  <2>3. Is(g, n + 1)
    <3> HIDE DEF last
    <3>1. QED
      BY <2>2
  <2> HIDE DEF g, Is
  <2>4. \E h : Is(h, n + 1)
    BY <2>3
  <2>5. QED
    BY <2>4
<1>3. Nat \subseteq T
  <2> HIDE DEF T
  <2> QED
    BY <1>1, <1>2, Induction
<1>4. N \in Nat
  OBVIOUS
<1>5. \E f : Is(f, N)
  BY <1>3, <1>4
<1>6. QED
  BY <1>5 DEF IsSplit

\* The k-th of what is kept of the first n pieces.
SplitTo(s, a, n) ==
  /\ s \in Seq(STRING) /\ Len(s) = Cardinality(Kept(a, n))
  /\ \A i \in Kept(a, n) : /\ Cardinality(Kept(a, i)) \in 1 .. Len(s)
                           /\ s[Cardinality(Kept(a, i))] = a[i]
  /\ \A k \in 1 .. Len(s) : \E i \in Kept(a, n) : Cardinality(Kept(a, i)) = k

LEMMA SplitSteps ==
  ASSUME NEW a \in Seq(STRING), NEW n \in Nat, n < Len(a), NEW s, SplitTo(s, a, n)
  PROVE  SplitTo(IF a[n + 1] = "" THEN s ELSE Append(s, a[n + 1]), a, n + 1)
<1>1. /\ Cardinality(Kept(a, n)) \in Nat
      /\ Cardinality(Kept(a, n + 1)) =
           IF a[n + 1] = "" THEN Cardinality(Kept(a, n)) ELSE Cardinality(Kept(a, n)) + 1
  BY KeptCounts
<1>2. s \in Seq(STRING) /\ Len(s) = Cardinality(Kept(a, n)) /\ a[n + 1] \in STRING
  BY DEF SplitTo
<1>3. CASE a[n + 1] = ""
  <2>1. Kept(a, n + 1) = Kept(a, n)
    BY <1>3, KeptOneMore
  <2>2. QED
    BY <1>3, <2>1 DEF SplitTo
<1>4. CASE a[n + 1] # ""
  <2> DEFINE t == Append(s, a[n + 1])
             C(i) == Cardinality(Kept(a, i))
  <2>1. Kept(a, n + 1) = Kept(a, n) \cup {n + 1} /\ n + 1 \notin Kept(a, n)
    BY <1>4, KeptOneMore
  <2>2. /\ t \in Seq(STRING) /\ Len(t) = Len(s) + 1 /\ t[Len(s) + 1] = a[n + 1]
        /\ \A k \in 1 .. Len(s) : t[k] = s[k]
    BY <1>2
  <2>3. C(n + 1) = Len(s) + 1 /\ Len(s) \in Nat
    BY <1>1, <1>2, <1>4
  <2>4. /\ \A i \in Kept(a, n) : C(i) \in 1 .. Len(s) /\ s[C(i)] = a[i]
        /\ \A k \in 1 .. Len(s) : \E i \in Kept(a, n) : C(i) = k
    BY DEF SplitTo
  <2> HIDE DEF t, C
  <2>5. \A i \in Kept(a, n + 1) : C(i) \in 1 .. Len(t) /\ t[C(i)] = a[i]
    BY <2>1, <2>2, <2>3, <2>4
  <2>6. ASSUME NEW k \in 1 .. Len(t) PROVE \E i \in Kept(a, n + 1) : C(i) = k
    <3>1. CASE k = Len(s) + 1
      BY <2>1, <2>3, <3>1
    <3>2. CASE k # Len(s) + 1
      <4>1. k \in 1 .. Len(s)
        BY <2>2, <2>3, <3>2
      <4>2. QED
        BY <2>1, <2>4, <4>1
    <3>3. QED
      BY <3>1, <3>2
  <2>7. Len(t) = C(n + 1)
    BY <2>2, <2>3
  <2>8. SplitTo(t, a, n + 1)
    BY <2>2, <2>5, <2>6, <2>7 DEF SplitTo, C
  <2>9. QED
    BY <1>4, <2>8 DEF t
<1>5. QED
  BY <1>3, <1>4

LEMMA SplitIs ==
  ASSUME NEW a \in Seq(STRING)
  PROVE  SplitTo(string_split(a), a, Len(a))
<1> DEFINE N == Len(a)
<1>1. PICK f : f = CHOOSE g : IsSplit(g, a)
  OBVIOUS
<1>2. IsSplit(f, a)
  BY <1>1, SplitExists
<1>3. string_split(a) = f[N]
  BY <1>1 DEF string_split, IsSplit
<1>4. N \in Nat
  OBVIOUS
<1> HIDE DEF N
<1>5. /\ f[0] = <<>>
      /\ \A n \in 0 .. N - 1 :
           f[n + 1] = IF a[n + 1] = "" THEN f[n] ELSE Append(f[n], a[n + 1])
  <2>1. f[0] = <<>>
    <3>1. PICK i : i = 0
      OBVIOUS
    <3>2. i \in 0 .. N
      BY <1>4, <3>1
    <3>3. f[i] = IF i = 0 THEN <<>> ELSE IF a[i] = "" THEN f[i - 1]
                 ELSE Append(f[i - 1], a[i])
      BY <1>2, <3>2 DEF IsSplit, N
    <3>4. QED
      BY <3>1, <3>3
  <2>2. ASSUME NEW n \in 0 .. N - 1
        PROVE  f[n + 1] = IF a[n + 1] = "" THEN f[n] ELSE Append(f[n], a[n + 1])
    <3>1. n + 1 \in 0 .. N /\ n + 1 # 0 /\ (n + 1) - 1 = n
      BY <1>4
    <3>2. PICK i : i = n + 1
      OBVIOUS
    <3>3. f[i] = IF i = 0 THEN <<>> ELSE IF a[i] = "" THEN f[i - 1]
                 ELSE Append(f[i - 1], a[i])
      BY <1>2, <3>1, <3>2 DEF IsSplit, N
    <3>4. QED
      BY <3>1, <3>2, <3>3
  <2>3. QED
    BY <2>1, <2>2
<1> DEFINE T == {n \in Nat : n <= N => SplitTo(f[n], a, n)}
<1>6. 0 \in T
  <2>1. Kept(a, 0) = {} /\ Cardinality(Kept(a, 0)) = 0
    <3>1. 1 .. 0 = {}
      OBVIOUS
    <3>2. Kept(a, 0) = {}
      BY <3>1 DEF Kept
    <3>3. QED
      BY <3>2, FS_EmptySet
  <2>2. <<>> \in Seq(STRING) /\ Len(<<>>) = 0
    OBVIOUS
  <2>3. SplitTo(<<>>, a, 0)
    BY <2>1, <2>2 DEF SplitTo
  <2>4. QED
    BY <1>5, <2>3
<1>7. ASSUME NEW n \in Nat, n \in T PROVE n + 1 \in T
  <2> SUFFICES ASSUME n + 1 <= N PROVE SplitTo(f[n + 1], a, n + 1)
    OBVIOUS
  <2>1. n < N /\ n \in 0 .. N - 1 /\ SplitTo(f[n], a, n)
    BY <1>4, <1>7
  <2>2. SplitTo(IF a[n + 1] = "" THEN f[n] ELSE Append(f[n], a[n + 1]), a, n + 1)
    BY <2>1, SplitSteps DEF N
  <2>3. QED
    BY <1>5, <2>1, <2>2
<1>8. Nat \subseteq T
  <2> HIDE DEF T
  <2> QED
    BY <1>6, <1>7, Induction
<1>9. SplitTo(f[N], a, N)
  BY <1>4, <1>8
<1>10. QED
  BY <1>3, <1>9 DEF N

\* The names that a path is said to have are what string_split makes of it.
LEMMA SplitGivesNames ==
  path_asked \in Seq(STRING) =>
    /\ string_split(path_asked) = Names /\ Names \in Seq(STRING) /\ Len(Names) \in Nat
    /\ DOMAIN Names = 1 .. Len(Names)
<1> SUFFICES ASSUME path_asked \in Seq(STRING)
             PROVE  /\ string_split(path_asked) = Names
                    /\ Names \in Seq(STRING) /\ Len(Names) \in Nat
                    /\ DOMAIN Names = 1 .. Len(Names)
  OBVIOUS
<1> DEFINE s == string_split(path_asked)
<1>1. SplitTo(s, path_asked, Len(path_asked))
  BY SplitIs
<1>2. Len(path_asked) \in Nat /\ DOMAIN path_asked = 1 .. Len(path_asked)
  OBVIOUS
<1>3. \A i : NamesUpTo(i) = Cardinality(Kept(path_asked, i))
  BY DEF NamesUpTo, Kept
<1> HIDE DEF s
<1>4. s \in Seq(STRING) /\ Len(s) = NamesUpTo(Len(path_asked)) /\ Len(s) \in Nat
  BY <1>1, <1>3 DEF SplitTo
<1>5. DOMAIN s = 1 .. Len(s) /\ s = [k \in 1 .. Len(s) |-> s[k]]
  BY <1>4
<1>6. ASSUME NEW k \in 1 .. Len(s)
      PROVE  s[k] = path_asked[CHOOSE i \in DOMAIN path_asked : path_asked[i] # "" /\ NamesUpTo(i) = k]
  <2> DEFINE i == CHOOSE i \in DOMAIN path_asked : path_asked[i] # "" /\ NamesUpTo(i) = k
  <2>1. \E j \in DOMAIN path_asked : path_asked[j] # "" /\ NamesUpTo(j) = k
    BY <1>1, <1>2, <1>3 DEF SplitTo, Kept
  <2>2. i \in DOMAIN path_asked /\ path_asked[i] # "" /\ NamesUpTo(i) = k
    BY <2>1
  <2> HIDE DEF i
  <2>3. i \in Kept(path_asked, Len(path_asked))
    BY <1>2, <2>2 DEF Kept
  <2>4. s[Cardinality(Kept(path_asked, i))] = path_asked[i]
    BY <1>1, <2>3 DEF SplitTo
  <2>5. s[k] = path_asked[i]
    BY <1>3, <2>2, <2>4
  <2>6. QED
    BY <2>5 DEF i
<1>7. s = Names
  BY <1>4, <1>5, <1>6 DEF Names
<1>8. QED
  BY <1>4, <1>5, <1>7 DEF s

--------------------------------------------------------------------------------
(******************************************************************************)
(* Where names lead.                                                          *)
(******************************************************************************)

\* What leads from the inodes S by the n-th name.
Onwards(S, n) == UNION {Children(i, Names[n]) : i \in S}

LEMMA LeadsExists ==
  ASSUME NEW N \in Nat
  PROVE  \E f : f = [n \in 0 .. N |-> IF n = 0 THEN {Root} ELSE Onwards(f[n - 1], n)]
<1> DEFINE Is(f, m) == f = [n \in 0 .. m |-> IF n = 0 THEN {Root} ELSE Onwards(f[n - 1], n)]
           T == {m \in Nat : \E f : Is(f, m)}
<1>1. 0 \in T
  <2> DEFINE f == [n \in 0 .. 0 |-> {Root}]
  <2>1. Is(f, 0)
    OBVIOUS
  <2> HIDE DEF f
  <2>2. QED
    BY <2>1
<1>2. ASSUME NEW m \in Nat, m \in T PROVE m + 1 \in T
  <2>1. PICK f : Is(f, m)
    BY <1>2
  <2> DEFINE last == Onwards(f[m], m + 1)
             g == [n \in 0 .. m + 1 |-> IF n <= m THEN f[n] ELSE last]
  <2> HIDE DEF last
  <2>2. ASSUME NEW n \in 0 .. m + 1
        PROVE  g[n] = IF n = 0 THEN {Root} ELSE Onwards(g[n - 1], n)
    <3>1. CASE n <= m
      <4>1. n \in 0 .. m /\ (n # 0 => n - 1 \in 0 .. m + 1 /\ n - 1 <= m)
        BY <3>1
      <4>2. f[n] = IF n = 0 THEN {Root} ELSE Onwards(f[n - 1], n)
        BY <2>1, <4>1
      <4>3. g[n] = f[n] /\ (n # 0 => g[n - 1] = f[n - 1])
        BY <3>1, <4>1
      <4> HIDE DEF g
      <4>4. QED
        BY <4>2, <4>3
    <3>2. CASE ~ (n <= m)
      <4>1. n = m + 1 /\ n - 1 = m /\ n # 0 /\ m \in 0 .. m + 1
        BY <3>2
      <4>2. g[n] = last /\ g[n - 1] = f[m]
        BY <4>1
      <4> HIDE DEF g
      <4>3. QED
        BY <4>1, <4>2 DEF last
    <3>3. QED
      BY <3>1, <3>2
  <2>3. Is(g, m + 1)
    BY <2>2
  <2> HIDE DEF g, Is
  <2>4. \E h : Is(h, m + 1)
    BY <2>3
  <2>5. QED
    BY <2>4
<1>3. Nat \subseteq T
  <2> HIDE DEF T
  <2> QED
    BY <1>1, <1>2, Induction
<1>4. QED
  BY <1>3

LEMMA LeadsSteps ==
  path_asked \in Seq(STRING) =>
    /\ Leads[0] = {Root}
    /\ \A n \in 0 .. Len(Names) - 1 : Leads[n + 1] = Onwards(Leads[n], n + 1)
<1> SUFFICES ASSUME path_asked \in Seq(STRING)
             PROVE  /\ Leads[0] = {Root}
                    /\ \A n \in 0 .. Len(Names) - 1 :
                         Leads[n + 1] = Onwards(Leads[n], n + 1)
  OBVIOUS
<1> DEFINE N == Len(Names)
           Is(f) == f = [n \in 0 .. N |-> IF n = 0 THEN {Root} ELSE Onwards(f[n - 1], n)]
<1>1. N \in Nat
  BY SplitGivesNames
<1>2. Leads = CHOOSE f : Is(f)
  BY DEF Leads, Onwards
<1> HIDE DEF N
<1>3. \E f : Is(f)
  BY <1>1, LeadsExists
<1>4. Is(Leads)
  <2> HIDE DEF Is
  <2> QED
    BY <1>2, <1>3
<1>5. \A n \in 0 .. N :
        Leads[n] = IF n = 0 THEN {Root} ELSE Onwards(Leads[n - 1], n)
  BY <1>4
<1>6. Leads[0] = {Root}
  BY <1>1, <1>5
<1>7. ASSUME NEW n \in 0 .. N - 1 PROVE Leads[n + 1] = Onwards(Leads[n], n + 1)
  <2>1. n + 1 \in 0 .. N /\ n + 1 # 0 /\ (n + 1) - 1 = n
    BY <1>1
  <2>2. PICK m : m = n + 1
    OBVIOUS
  <2>3. Leads[m] = IF m = 0 THEN {Root} ELSE Onwards(Leads[m - 1], m)
    BY <1>5, <2>1, <2>2
  <2>4. QED
    BY <2>1, <2>2, <2>3
<1>8. QED
  BY <1>6, <1>7 DEF N

\* Names that lead nowhere lead nowhere with more names.
LEMMA LeadsNowhere ==
  ASSUME path_asked \in Seq(STRING), NEW n \in 0 .. Len(Names), Leads[n] = {}
  PROVE  Leads[Len(Names)] = {}
<1> DEFINE N == Len(Names)
           T == {m \in Nat : n + m <= N => Leads[n + m] = {}}
<1>1. N \in Nat /\ n \in Nat /\ n <= N
  BY SplitGivesNames
<1>2. \A m \in 0 .. N - 1 : Leads[m + 1] = Onwards(Leads[m], m + 1)
  BY LeadsSteps
<1> HIDE DEF N
<1>3. 0 \in T
  BY <1>1
<1>4. ASSUME NEW m \in Nat, m \in T PROVE m + 1 \in T
  <2> SUFFICES ASSUME n + (m + 1) <= N PROVE Leads[n + (m + 1)] = {}
    OBVIOUS
  <2>1. PICK k : k = n + m
    OBVIOUS
  <2>2. k \in 0 .. N - 1 /\ n + (m + 1) = k + 1 /\ Leads[k] = {}
    BY <1>1, <1>4, <2>1
  <2>3. Leads[k + 1] = Onwards({}, k + 1)
    BY <1>2, <2>2
  <2>4. QED
    BY <2>2, <2>3 DEF Onwards
<1>5. Nat \subseteq T
  <2> HIDE DEF T
  <2> QED
    BY <1>3, <1>4, Induction
<1>6. N - n \in Nat /\ n + (N - n) = N
  BY <1>1
<1>7. PICK m : m = N - n
  OBVIOUS
<1>8. m \in T /\ n + m = N /\ N <= N
  <2> HIDE DEF T
  <2> QED
    BY <1>1, <1>5, <1>6, <1>7
<1>9. Leads[N] = {}
  BY <1>8
<1>10. QED
  BY <1>9 DEF N

LEMMA LeadsUnchanged ==
  ASSUME UNCHANGED <<tree, path_asked>>
  PROVE  Leads' = Leads
BY DEF Leads, Names, NamesUpTo, Children, Live, BlocksOf, IsDirectory

\* What is misread on the way stays on it.
LEMMA MisreadOnwards ==
  ASSUME NEW m \in Nat, NEW n \in 0 .. m, Misread(n)
  PROVE  Misread(m)
BY DEF Misread

LEMMA LeadsFromRoot ==
  path_asked' \in Seq(STRING) => Leads'[0] = {Root}
<1>1. path_asked \in Seq(STRING) => Leads[0] = {Root}
  BY LeadsSteps
<1>2. (path_asked \in Seq(STRING) => Leads[0] = {Root})'
  BY <1>1, PTL
<1>3. QED
  BY <1>2

--------------------------------------------------------------------------------
(******************************************************************************)
(* What a scan passes of a whole directory.                                   *)
(******************************************************************************)

IsDirectoryOf(t, i) ==
  t \in Trees /\ i \in DOMAIN t.inodes /\ t.inodes[i].mode = "EXT2_IFDIR"

LEMMA IsWhole ==
  ASSUME NEW t, NEW i, IsDirectoryOf(t, i)
  PROVE  WholeDirectory(t, i)
BY TreesAssumption DEF IsDirectoryOf

\* The image of a tree is as Layout has it.
LEMMA TreeVolume ==
  ASSUME NEW t \in Trees
  PROVE  /\ SoundVolume(t.fs) /\ Root = 2 /\ Root \in DOMAIN t.inodes
         /\ \A i \in DOMAIN t.inodes : i \in Nat \ {0}
         /\ \A b \in DOMAIN t.device :
              /\ b \in Nat \ {0} /\ b < t.fs.superblock.blockcount
              /\ WholeBlock(t.device[b])
<1>1. SoundVolume(t.fs)
  BY TreesAssumption DEF SoundVolume
<1>2. t.fs.superblock.inodecount \in Nat /\ t.fs.superblock.blockcount \in Nat
  BY <1>1, VolumeTypes
<1>3. /\ DOMAIN t.inodes \subseteq 1 .. t.fs.superblock.inodecount
      /\ DOMAIN t.device \subseteq 1 .. t.fs.superblock.blockcount - 1
      /\ \A b \in DOMAIN t.device : WholeBlock(t.device[b])
      /\ Root \in DOMAIN t.inodes /\ Root = 2
  BY TreesAssumption, SizesAssumption
<1>4. QED
  BY <1>1, <1>2, <1>3

\* The blocks of a directory, counted from 1, and one of them.
LEMMA BlockList ==
  ASSUME NEW t, NEW i, IsDirectoryOf(t, i)
  PROVE  /\ t.inodes[i].blocks \div SectorsPerBlock \in Nat
         /\ DOMAIN t.inodes[i].block = 1 .. Len(t.inodes[i].block)
         /\ Len(t.inodes[i].block) \in Nat
         /\ t.inodes[i].blocks \div SectorsPerBlock <= Len(t.inodes[i].block)
<1>1. /\ t.inodes[i].block \in Seq(Nat) /\ t.inodes[i].blocks \in Nat
      /\ t.inodes[i].blocks \div SectorsPerBlock <= Len(t.inodes[i].block)
  BY IsWhole DEF WholeDirectory
<1>2. SectorsPerBlock \in Nat \ {0}
  BY SizesAssumption
<1>3. t.inodes[i].blocks \div SectorsPerBlock \in Nat
  BY <1>1, <1>2
<1>4. QED
  BY <1>1, <1>3

LEMMA PointerToBlock ==
  ASSUME NEW t, NEW i, IsDirectoryOf(t, i),
         NEW k \in DOMAIN t.inodes[i].block, t.inodes[i].block[k] # 0
  PROVE  /\ k <= t.inodes[i].blocks \div SectorsPerBlock
         /\ t.inodes[i].block[k] \in DOMAIN t.device
         /\ WholeBlock(t.device[t.inodes[i].block[k]])
<1>1. /\ k <= t.inodes[i].blocks \div SectorsPerBlock
      /\ t.inodes[i].block[k] \in DOMAIN t.device
  BY IsWhole DEF WholeDirectory
<1>2. QED
  BY <1>1, TreesAssumption DEF IsDirectoryOf

LEMMA LivePlace ==
  ASSUME NEW t, NEW i, IsDirectoryOf(t, i), NEW x
  PROVE  x \in LivePlaces(t, i) <=>
           /\ x = <<x[1], x[2]>> /\ x[1] \in DOMAIN t.inodes[i].block
           /\ x[2] \in 0 .. DirBlockSize - 1 /\ t.inodes[i].block[x[1]] # 0
           /\ x[2] \in DOMAIN t.device[t.inodes[i].block[x[1]]]
           /\ EntryAt(t, i, x).inode # 0
<1> DEFINE A == DOMAIN t.inodes[i].block
           B == 0 .. DirBlockSize - 1
           Is == /\ t.inodes[i].block[x[1]] # 0
                 /\ x[2] \in DOMAIN t.device[t.inodes[i].block[x[1]]]
                 /\ EntryAt(t, i, x).inode # 0
<1>1. x \in LivePlaces(t, i) <=> x \in A \X B /\ Is
  BY Zenon DEF LivePlaces, EntryAt
<1> HIDE DEF A, B, Is
<1>2. x \in A \X B <=> x = <<x[1], x[2]>> /\ x[1] \in A /\ x[2] \in B
  OBVIOUS
<1>3. x \in LivePlaces(t, i) <=> x = <<x[1], x[2]>> /\ x[1] \in A /\ x[2] \in B /\ Is
  BY <1>1, <1>2
<1>4. QED
  BY <1>3, Zenon DEF A, B, Is

LEMMA PlaceTypes ==
  ASSUME NEW t, NEW i, IsDirectoryOf(t, i), NEW x \in LivePlaces(t, i)
  PROVE  /\ x = <<x[1], x[2]>> /\ x[1] \in Nat \ {0} /\ x[2] \in 0 .. DirBlockSize - 1
         /\ x[1] \in DOMAIN t.inodes[i].block
         /\ x[1] <= t.inodes[i].blocks \div SectorsPerBlock
         /\ EntryAt(t, i, x).inode \in DOMAIN t.inodes
<1>1. /\ x = <<x[1], x[2]>> /\ x[1] \in DOMAIN t.inodes[i].block
      /\ x[2] \in 0 .. DirBlockSize - 1 /\ t.inodes[i].block[x[1]] # 0
  BY LivePlace
<1>2. x[1] \in Nat \ {0}
  BY <1>1, BlockList
<1>3. x[1] <= t.inodes[i].blocks \div SectorsPerBlock
  BY <1>1, PointerToBlock
<1>4. EntryAt(t, i, x).inode \in DOMAIN t.inodes
  BY IsWhole DEF WholeDirectory
<1>5. QED
  BY <1>1, <1>2, <1>3, <1>4

LEMMA BeforeStart ==
  ASSUME NEW t, NEW i, IsDirectoryOf(t, i)
  PROVE  Before(t, i, 0, 0) = {}
<1>1. DirBlockSize \in Nat
  BY SizesAssumption
<1>2. ASSUME NEW x \in LivePlaces(t, i) PROVE ~ (x[1] <= 0 \/ (x[1] = 0 + 1 /\ x[2] < 0))
  BY <1>1, PlaceTypes
<1>3. QED
  BY <1>2 DEF Before

LEMMA BeforeHole ==
  ASSUME NEW t, NEW i, IsDirectoryOf(t, i), NEW k \in Nat,
         t.inodes[i].block[k + 1] = 0
  PROVE  Before(t, i, k + 1, 0) = Before(t, i, k, 0)
<1>1. DirBlockSize \in Nat
  BY SizesAssumption
<1>2. ASSUME NEW x \in LivePlaces(t, i)
      PROVE  x[1] <= k + 1 \/ (x[1] = (k + 1) + 1 /\ x[2] < 0)
               <=> x[1] <= k \/ (x[1] = k + 1 /\ x[2] < 0)
  <2>1. x[1] # k + 1
    BY LivePlace
  <2>2. QED
    BY <1>1, <2>1, PlaceTypes
<1>3. QED
  BY <1>2 DEF Before

LEMMA BeforeEnd ==
  ASSUME NEW t, NEW i, IsDirectoryOf(t, i), NEW k \in Nat, NEW o \in Nat,
         o >= DirBlockSize
  PROVE  Before(t, i, k + 1, 0) = Before(t, i, k, o)
<1>1. DirBlockSize \in Nat
  BY SizesAssumption
<1>2. ASSUME NEW x \in LivePlaces(t, i)
      PROVE  x[1] <= k + 1 \/ (x[1] = (k + 1) + 1 /\ x[2] < 0)
               <=> x[1] <= k \/ (x[1] = k + 1 /\ x[2] < o)
  BY <1>1, PlaceTypes
<1>3. QED
  BY <1>2 DEF Before

LEMMA BeforeAll ==
  ASSUME NEW t, NEW i, IsDirectoryOf(t, i)
  PROVE  Before(t, i, t.inodes[i].blocks \div SectorsPerBlock, 0) = LivePlaces(t, i)
<1>1. \A x \in LivePlaces(t, i) : x[1] <= t.inodes[i].blocks \div SectorsPerBlock
  BY PlaceTypes
<1>2. QED
  BY <1>1 DEF Before

\* The scan passes an entry: none begins in it.
LEMMA BeforeNext ==
  ASSUME NEW t, NEW i, IsDirectoryOf(t, i), NEW k \in Nat,
         k + 1 \in DOMAIN t.inodes[i].block, t.inodes[i].block[k + 1] # 0,
         NEW o \in DOMAIN t.device[t.inodes[i].block[k + 1]],
         NEW entry, entry = EntryAt(t, i, <<k + 1, o>>)
  PROVE  /\ entry.rec_len \in Nat /\ entry.inode \in Nat
         /\ o \in 0 .. DirBlockSize - 1
         /\ o + entry.rec_len \in DOMAIN t.device[t.inodes[i].block[k + 1]]
                                  \cup {DirBlockSize}
         /\ entry.inode = 0 =>
              Before(t, i, k, o + entry.rec_len) = Before(t, i, k, o)
         /\ entry.inode # 0 =>
              /\ <<k + 1, o>> \in LivePlaces(t, i)
              /\ <<k + 1, o>> \notin Before(t, i, k, o)
              /\ Before(t, i, k, o + entry.rec_len) =
                   Before(t, i, k, o) \cup {<<k + 1, o>>}
<1> DEFINE here == <<k + 1, o>>
           entries == t.device[t.inodes[i].block[k + 1]]
           next == o + entry.rec_len
<1>1. WholeBlock(entries)
  BY PointerToBlock
<1>2. entry = entries[o]
  BY DEF EntryAt
<1>3. here[1] = k + 1 /\ here[2] = o /\ here = <<here[1], here[2]>>
  OBVIOUS
<1>4. DirBlockSize \in Nat
  BY SizesAssumption
<1> HIDE DEF entries
<1>5. /\ o \in 0 .. DirBlockSize - 1 /\ entry.rec_len \in Nat /\ entry.inode \in Nat
      /\ entry.rec_len = 0 => entry.inode = 0
      /\ next \in DOMAIN entries \cup {DirBlockSize}
      /\ \A p \in DOMAIN entries : p > o => p >= next
      /\ DOMAIN entries \subseteq 0 .. DirBlockSize - 1
  BY <1>1, <1>2 DEF WholeBlock, entries
<1>6. here \in LivePlaces(t, i) <=> entry.inode # 0
  BY <1>3, <1>5, LivePlace DEF entries
<1> HIDE DEF here
<1>7. ASSUME NEW x \in LivePlaces(t, i)
      PROVE  x[1] <= k \/ (x[1] = k + 1 /\ x[2] < next)
               <=> x[1] <= k \/ (x[1] = k + 1 /\ x[2] < o)
                   \/ (x = here /\ entry.inode # 0)
  <2>1. x = <<x[1], x[2]>> /\ x[1] \in Nat /\ x[2] \in Nat
    BY <1>4, PlaceTypes
  <2>2. CASE x[1] # k + 1
    BY <1>3, <2>2
  <2>3. CASE x[1] = k + 1
    <3>1. x[2] \in DOMAIN entries
      BY <2>3, LivePlace DEF entries
    <3>2. x[2] > o => x[2] >= next
      BY <1>5, <3>1
    <3>3. x = here <=> x[2] = o
      BY <1>3, <2>1, <2>3
    <3>4. x = here => entry.inode # 0 /\ entry.rec_len # 0
      BY <1>5, <1>6
    <3>5. o \in Nat /\ next = o + entry.rec_len /\ entry.rec_len \in Nat
      BY <1>4, <1>5
    <3>6. x[2] < next <=> x[2] < o \/ x = here
      BY <2>1, <3>2, <3>3, <3>4, <3>5
    <3>7. k \in Nat /\ ~ (x[1] <= k)
      BY <2>3
    <3>8. QED
      BY <2>3, <3>4, <3>6, <3>7
  <2>4. QED
    BY <2>2, <2>3
<1> HIDE DEF next
<1>8. \A x : x \in Before(t, i, k, next) <=>
               x \in Before(t, i, k, o) \/ (x = here /\ entry.inode # 0)
  <2>1. \A x : x \in Before(t, i, k, next) <=>
                 x \in LivePlaces(t, i) /\ (x[1] <= k \/ (x[1] = k + 1 /\ x[2] < next))
    BY DEF Before
  <2>2. \A x : x \in Before(t, i, k, o) <=>
                 x \in LivePlaces(t, i) /\ (x[1] <= k \/ (x[1] = k + 1 /\ x[2] < o))
    BY DEF Before
  <2>3. QED
    BY <1>6, <1>7, <2>1, <2>2
<1>9. entry.inode = 0 => Before(t, i, k, next) = Before(t, i, k, o)
  BY <1>8
<1>10. entry.inode # 0 => Before(t, i, k, next) = Before(t, i, k, o) \cup {here}
  BY <1>8
<1>11. here \notin Before(t, i, k, o)
  <2>1. o \in Nat
    BY <1>4, <1>5
  <2>2. ~ (here[1] <= k \/ (here[1] = k + 1 /\ here[2] < o))
    BY <1>3, <2>1
  <2>3. QED
    BY <2>2 DEF Before
<1>12. QED
  BY <1>5, <1>6, <1>9, <1>10, <1>11 DEF next, here, entries

--------------------------------------------------------------------------------
(******************************************************************************)
(* Lists of entries.                                                          *)
(******************************************************************************)

LEMMA ListsNothing ==
  ASSUME NEW t, NEW i
  PROVE  Lists(t, i, <<>>, {})
BY DEF Lists

LEMMA ListsOneMore ==
  ASSUME NEW t, NEW i, IsDirectoryOf(t, i), NEW list0, NEW places,
         Lists(t, i, list0, places), places \subseteq LivePlaces(t, i),
         NEW x \in LivePlaces(t, i), x \notin places
  PROVE  Lists(t, i, Append(list0, EntryAt(t, i, x)), places \cup {x})
<1> DEFINE e == EntryAt(t, i, x)
           S == {EntryAt(t, i, y) : y \in places}
           R == {EntryAt(t, i, y) : y \in places \cup {x}}
           list1 == Append(list0, e)
<1>1. S \subseteq R /\ e \in R
  OBVIOUS
<1>2. list0 \in Seq(S)
  BY DEF Lists
<1>3. \A y \in places : EntryAt(t, i, y).name # e.name
  BY IsWhole DEF WholeDirectory
<1>4. \A s \in S : \E y \in places : s = EntryAt(t, i, y)
  OBVIOUS
<1> HIDE DEF S, R, e
<1>5. list0 \in Seq(R)
  BY <1>1, <1>2
<1>6. /\ list1 \in Seq(R) /\ Len(list0) \in Nat
      /\ DOMAIN list0 = 1 .. Len(list0) /\ DOMAIN list1 = 1 .. Len(list0) + 1
      /\ list1[Len(list0) + 1] = e
      /\ \A n \in 1 .. Len(list0) : list1[n] = list0[n] /\ list0[n] \in S
  BY <1>1, <1>2, <1>5
<1>7. \A n \in 1 .. Len(list0) : list0[n].name # e.name
  BY <1>3, <1>4, <1>6
<1> HIDE DEF list1
<1>8. ASSUME NEW y \in places \cup {x}
      PROVE  \E n \in DOMAIN list1 : list1[n] = EntryAt(t, i, y)
  <2>1. CASE y = x
    BY <1>6, <2>1 DEF e
  <2>2. CASE y \in places
    <3>1. PICK n \in DOMAIN list0 : list0[n] = EntryAt(t, i, y)
      BY <2>2 DEF Lists
    <3>2. QED
      BY <1>6, <3>1
  <2>3. QED
    BY <2>1, <2>2
<1>9. ASSUME NEW m \in DOMAIN list1, NEW n \in DOMAIN list1, list1[m].name = list1[n].name
      PROVE  m = n
  <2>1. CASE m \in 1 .. Len(list0) /\ n \in 1 .. Len(list0)
    <3>1. list0[m].name = list0[n].name /\ m \in DOMAIN list0 /\ n \in DOMAIN list0
      BY <1>6, <1>9, <2>1
    <3>2. QED
      BY <3>1 DEF Lists
  <2>2. CASE m = Len(list0) + 1 \/ n = Len(list0) + 1
    BY <1>6, <1>7, <1>9, <2>2
  <2>3. QED
    BY <1>6, <2>1, <2>2
<1>10. QED
  BY <1>6, <1>8, <1>9 DEF Lists, list1, e, R

LEMMA ListsTypes ==
  ASSUME NEW t, NEW i, NEW entries, NEW places, Lists(t, i, entries, places)
  PROVE  /\ Len(entries) \in Nat /\ DOMAIN entries = 1 .. Len(entries)
         /\ \A n \in DOMAIN entries : \E x \in places : entries[n] = EntryAt(t, i, x)
BY DEF Lists

LEMMA FirstNamedIs ==
  ASSUME NEW entries, Len(entries) \in Nat, DOMAIN entries = 1 .. Len(entries), NEW name
  PROVE  \/ /\ FirstNamed(entries, name) = 0
            /\ \A n \in DOMAIN entries : entries[n].name # name
         \/ /\ FirstNamed(entries, name) # 0
            /\ FirstNamed(entries, name) \in DOMAIN entries
            /\ entries[FirstNamed(entries, name)].name = name
<1> DEFINE I == {n \in 1 .. Len(entries) : entries[n].name = name}
<1>1. FirstNamed(entries, name) = IF I # {} THEN Min(I) ELSE 0
  BY DEF FirstNamed, SelectInSeq
<1>2. I \in SUBSET Nat
  OBVIOUS
<1>3. \A n \in I : n \in DOMAIN entries /\ entries[n].name = name /\ n # 0
  OBVIOUS
<1>4. \A n \in DOMAIN entries : entries[n].name = name => n \in I
  OBVIOUS
<1> HIDE DEF I
<1>5. I # {} => Min(I) \in I
  BY <1>2, LeastNatural DEF Min
<1>6. QED
  BY <1>1, <1>3, <1>4, <1>5

\* What is live in a directory is what is at its live places.
LEMMA LiveEntries ==
  ASSUME NEW i, IsDirectoryOf(tree, i)
  PROVE  Live(i) = {EntryAt(tree, i, x) : x \in LivePlaces(tree, i)}
<1> DEFINE pointers == tree.inodes[i].block
<1>1. ASSUME NEW e \in Live(i)
      PROVE  \E x \in LivePlaces(tree, i) : e = EntryAt(tree, i, x)
  <2>1. PICK b \in BlocksOf(i) : e \in Range(tree.device[b]) /\ e.inode # 0
    BY DEF Live
  <2>2. PICK k \in DOMAIN pointers : b = pointers[k] /\ pointers[k] # 0
    BY DEF BlocksOf, Range
  <2>3. PICK o \in DOMAIN tree.device[b] : e = tree.device[b][o]
    BY <2>1 DEF Range
  <2>4. WholeBlock(tree.device[b])
    BY <2>2, PointerToBlock
  <2>5. o \in 0 .. DirBlockSize - 1
    BY <2>3, <2>4 DEF WholeBlock
  <2>6. PICK x : x = <<k, o>>
    OBVIOUS
  <2>7. x[1] = k /\ x[2] = o /\ x = <<x[1], x[2]>>
    BY <2>6
  <2>8. e = EntryAt(tree, i, x)
    BY <2>2, <2>3, <2>7 DEF EntryAt
  <2>9. x \in LivePlaces(tree, i)
    BY <2>1, <2>2, <2>3, <2>5, <2>7, <2>8, LivePlace
  <2>10. QED
    BY <2>8, <2>9
<1>2. ASSUME NEW x \in LivePlaces(tree, i) PROVE EntryAt(tree, i, x) \in Live(i)
  <2> DEFINE b == pointers[x[1]]
             e == EntryAt(tree, i, x)
  <2>1. /\ x[1] \in DOMAIN pointers /\ b # 0 /\ x[2] \in DOMAIN tree.device[b]
        /\ e.inode # 0
    BY LivePlace
  <2>2. b \in BlocksOf(i)
    BY <2>1 DEF BlocksOf, Range
  <2>3. e \in Range(tree.device[b])
    BY <2>1 DEF Range, EntryAt
  <2>4. QED
    BY <2>1, <2>2, <2>3 DEF Live
<1>3. QED
  BY <1>1, <1>2

\* A name leads to the inode of the first entry of that name, if there is one.
LEMMA ChildrenListed ==
  ASSUME NEW i, IsDirectoryOf(tree, i), NEW name, NEW entries,
         Lists(tree, i, entries, LivePlaces(tree, i))
  PROVE  \/ FirstNamed(entries, name) = 0 /\ Children(i, name) = {}
         \/ /\ FirstNamed(entries, name) # 0
            /\ Children(i, name) = {entries[FirstNamed(entries, name)].inode}
            /\ entries[FirstNamed(entries, name)].inode \in DOMAIN tree.inodes
<1> DEFINE at == FirstNamed(entries, name)
<1>1. /\ Len(entries) \in Nat /\ DOMAIN entries = 1 .. Len(entries)
      /\ \A n \in DOMAIN entries :
           \E x \in LivePlaces(tree, i) : entries[n] = EntryAt(tree, i, x)
  BY ListsTypes
<1>2. /\ \A e \in Live(i) : \E n \in DOMAIN entries : entries[n] = e
      /\ \A n \in DOMAIN entries :
           entries[n] \in Live(i) /\ entries[n].inode \in DOMAIN tree.inodes
      /\ \A m, n \in DOMAIN entries : entries[m].name = entries[n].name => m = n
  <2>1. Live(i) = {EntryAt(tree, i, x) : x \in LivePlaces(tree, i)}
    BY LiveEntries
  <2>2. ASSUME NEW e \in Live(i) PROVE \E n \in DOMAIN entries : entries[n] = e
    BY <2>1 DEF Lists
  <2>3. ASSUME NEW n \in DOMAIN entries
        PROVE  entries[n] \in Live(i) /\ entries[n].inode \in DOMAIN tree.inodes
    BY <1>1, <2>1, PlaceTypes
  <2>4. \A m, n \in DOMAIN entries : entries[m].name = entries[n].name => m = n
    BY DEF Lists
  <2>5. QED
    BY <2>2, <2>3, <2>4
<1>3. \/ at = 0 /\ \A n \in DOMAIN entries : entries[n].name # name
      \/ at # 0 /\ at \in DOMAIN entries /\ entries[at].name = name
  BY <1>1, FirstNamedIs
<1>4. Children(i, name) = {e.inode : e \in {x \in Live(i) : x.name = name}}
  BY DEF Children, IsDirectory, IsDirectoryOf
<1> HIDE DEF at
<1>5. CASE at = 0
  <2>1. {x \in Live(i) : x.name = name} = {}
    BY <1>2, <1>3, <1>5
  <2>2. QED
    BY <1>4, <1>5, <2>1 DEF at
<1>6. CASE at # 0
  <2>1. {x \in Live(i) : x.name = name} = {entries[at]}
    BY <1>2, <1>3, <1>6
  <2>2. Children(i, name) = {entries[at].inode}
    BY <1>4, <2>1
  <2>3. QED
    BY <1>2, <1>3, <1>6, <2>2 DEF at
<1>7. QED
  BY <1>5, <1>6

--------------------------------------------------------------------------------
(******************************************************************************)
(* Going to an inode, and reading a block of one.                             *)
(******************************************************************************)

\* A place that ext2_get_inode gives for an inode that is reached leads to it.
LEMMA GoesThere ==
  ASSUME tree \in Trees, NEW i \in DOMAIN tree.inodes, Reached(tree.fs, i),
         NEW place \in ext2_get_inode(tree.fs, i), GoTo(place)
  PROVE  walk' = "find" /\ inode' = i
<1>1. SoundVolume(tree.fs) /\ \A j \in DOMAIN tree.inodes : j \in Nat \ {0}
  BY TreeVolume
<1>2. place # Fault /\ IsAt(tree.fs.superblock, i, place)
  <2>1. i \in Nat /\ i >= 1
    BY <1>1
  <2>2. QED
    BY <1>1, <2>1, ReachedInode, Zenon
<1>3. PICK j \in DOMAIN tree.inodes :
        IsAt(tree.fs.superblock, j, place) /\ walk' = "find" /\ inode' = j
  BY <1>2 DEF GoTo
<1>4. j = i
  <2>1. i \in Nat \ {0} /\ j \in Nat \ {0}
    BY <1>1
  <2>2. QED
    BY <1>1, <1>2, <1>3, <2>1, OneInode, Zenon
<1>5. QED
  BY <1>3, <1>4

\* Wherever it leads, an inode of the tree is in hand.
LEMMA GoesSomewhere ==
  ASSUME inode \in DOMAIN tree.inodes, NEW place, GoTo(place)
  PROVE  walk' \in {"find", "fault", "astray"} /\ inode' \in DOMAIN tree.inodes
BY DEF GoTo

\* A pointer that is not cut leads to its block.
LEMMA BlockIsRead ==
  ASSUME tree \in Trees, NEW i, IsDirectoryOf(tree, i), Uncut(i),
         NEW k \in DOMAIN tree.inodes[i].block, tree.inodes[i].block[k] # 0
  PROVE  BlockRead(i, k) = tree.inodes[i].block[k]
<1> DEFINE b == tree.inodes[i].block[k]
<1>1. b \in DOMAIN tree.device /\ b < Uint16Width
  BY PointerToBlock DEF Uncut
<1> HIDE DEF b
<1>2. b \in Nat /\ b < tree.fs.superblock.blockcount /\ SoundVolume(tree.fs)
  BY <1>1, TreeVolume
<1>3. ext2_get_block(tree.fs, b) = b
  BY <1>1, <1>2, BlockOf
<1>4. QED
  BY <1>3 DEF BlockRead, b

\* An entry that faults is one of a group that was not counted.
LEMMA FaultBeyond ==
  ASSUME NEW self, SoundVolume(self), NEW n \in Nat \ {0}, Fault \in ext2_get_inode(self, n)
  PROVE  Home(self.superblock, n) >= self.number_of_block_groups
<1>1. /\ Home(self.superblock, n) \in Nat
      /\ GroupOf(self, n) = Uint16(Home(self.superblock, n))
  BY InodeNumber
<1>2. GroupOf(self, n) \in Nat /\ GroupOf(self, n) <= Home(self.superblock, n)
  BY <1>1, CutTo16, WidthAssumption
<1>3. ext2_get_block_group(self, GroupOf(self, n)) = {}
  <2> SUFFICES ASSUME ext2_get_block_group(self, GroupOf(self, n)) # {} PROVE FALSE
    OBVIOUS
  <2>1. PICK g \in ext2_get_block_group(self, GroupOf(self, n)) :
          Fault = [table |-> g.inode_table, index |-> IndexOf(self, n)]
    BY DEF ext2_get_inode, InodeIn
  <2>2. DOMAIN Fault = {"table", "index"} /\ DOMAIN Fault = {"fault"}
    <3>1. DOMAIN Fault = {"table", "index"}
      BY <2>1
    <3>2. DOMAIN Fault = {"fault"}
      BY DEF Fault
    <3>3. QED
      BY <3>1, <3>2
  <2>3. QED
    BY <2>2
<1>4. ~ (GroupOf(self, n) < self.number_of_block_groups)
  BY <1>2, <1>3, GroupExists
<1>5. self.number_of_block_groups \in Nat
  BY VolumeTypes, WidthAssumption
<1>6. QED
  BY <1>1, <1>2, <1>4, <1>5

--------------------------------------------------------------------------------
(******************************************************************************)
(* The invariant, action by action.                                           *)
(******************************************************************************)

LEMMA WayTypes ==
  ASSUME WayOK
  PROVE  /\ path = Names /\ Len(path) \in Nat /\ depth \in Nat /\ Len(Names) = Len(path)
         /\ path_asked \in Seq(STRING) /\ depth \in 0 .. Len(Names)
BY SplitGivesNames DEF WayOK

\* The inode in hand is read right, or there is one on the way that is not.
LEMMA OnTheWay ==
  ASSUME WayOK
  PROVE  /\ inode \in Leads[depth] \/ Misread(depth)
         /\ ReadRight(inode) \/ Misread(depth)
         /\ Misread(depth) => Misread(Len(Names))
<1>1. depth \in Nat /\ Len(Names) \in Nat /\ depth \in 0 .. Len(Names)
  BY WayTypes
<1>2. inode \in Leads[depth] \/ Misread(depth)
  BY DEF WayOK
<1>3. inode \in Leads[depth] /\ ~ ReadRight(inode) => Misread(depth)
  BY <1>1 DEF Misread
<1>4. Misread(depth) => Misread(Len(Names))
  BY <1>1, MisreadOnwards
<1>5. QED
  BY <1>2, <1>3, <1>4

LEMMA InitDirInv == DirectoryInit => DirInv
<1> SUFFICES ASSUME DirectoryInit PROVE DirInv
  OBVIOUS
<1>1. path_asked \in Seq(STRING) /\ path_asked = <<>> /\ Len(path_asked) = 0
  BY DEF DirectoryInit
<1>2. Kept(path_asked, 0) = {}
  BY DEF Kept
<1>3. SplitTo(string_split(path_asked), path_asked, 0)
  BY <1>1, SplitIs
<1>4. Len(string_split(path_asked)) = 0 /\ string_split(path_asked) \in Seq(STRING)
  BY <1>2, <1>3, FS_EmptySet DEF SplitTo
<1>5. path = string_split(path_asked)
  BY <1>4 DEF DirectoryInit
<1>6. Leads[0] = {Root}
  BY <1>1, LeadsSteps
<1>7. WalkTypes
  BY TreesAssumption DEF DirectoryInit, WalkTypes, Walking
<1>8. WayOK
  BY <1>1, <1>4, <1>5, <1>6 DEF DirectoryInit, WayOK
<1>9. ScanOK /\ EndOK
  BY DEF DirectoryInit, ScanOK, EndOK, Listing, FaultsOnlyOnTheWay
<1>10. QED
  BY <1>7, <1>8, <1>9 DEF DirInv

LEMMA NamesAfter == WayOK' => path' = Names' /\ Len(Names') = Len(path')
<1>1. WayOK => path = Names
  BY WayTypes
<1>2. (WayOK => path = Names)'
  BY <1>1, PTL
<1>3. QED
  BY <1>2

LEMMA OnTheWayAfter == WayOK' => (Misread(depth)' => Misread(Len(Names))')
<1>1. WayOK => (Misread(depth) => Misread(Len(Names)))
  BY OnTheWay
<1>2. (WayOK => (Misread(depth) => Misread(Len(Names))))'
  BY <1>1, PTL
<1>3. QED
  BY <1>2

\* The way stays as it is while a directory is listed, and where it has ended.
LEMMA WayStays ==
  ASSUME WayOK, UNCHANGED <<tree, path_asked, path, depth, inode>>, walk' = "idle" => walk = "idle"
  PROVE  /\ WayOK' /\ Leads' = Leads /\ Len(path') = Len(path) /\ Len(Names)' = Len(Names)
         /\ Misread(Len(Names))' = Misread(Len(Names))
<1>1. Leads' = Leads
  BY LeadsUnchanged
<1>2. string_split(path_asked)' = string_split(path_asked)
  OBVIOUS
<1>3. Names' = Names
  BY DEF Names, NamesUpTo
<1>4. Misread(depth)' = Misread(depth) /\ Misread(Len(Names))' = Misread(Len(Names))
  <2>1. \A i : ReadRight(i)' = ReadRight(i)
    BY DEF ReadRight, IsDirectory, Uncut
  <2>2. QED
    BY <1>1, <1>3, <2>1 DEF Misread
<1>5. QED
  BY <1>1, <1>2, <1>3, <1>4 DEF WayOK

\* A search that is over has found nothing out that is not so.
LEMMA EndsAstray ==
  ASSUME walk' \in {"fault", "astray"}, Misread(Len(Names))'
  PROVE  ScanOK' /\ EndOK'
BY DEF ScanOK, EndOK, Listing, FaultsOnlyOnTheWay

LEMMA LookKeeps ==
  ASSUME DirInv, NEW k \in {"element", "list"}, NEW p \in Paths, Look(k, p)
  PROVE  DirInv'
<1>1. /\ path_asked' = p /\ p \in Seq(STRING) /\ path' = string_split(p)
      /\ walk = "idle" /\ kind' = k /\ UNCHANGED <<tree, depth, found>>
  BY SizesAssumption DEF Look
<1>2. depth = 0 /\ depth' = 0 /\ tree \in Trees /\ inode \in DOMAIN tree.inodes
  BY <1>1 DEF DirInv, WalkTypes, WayOK
<1>3. Leads'[0] = {Root}
  BY <1>1, LeadsFromRoot
<1>4. PICK place \in ext2_get_root_inode(tree.fs) : GoTo(place)
  BY DEF Look
<1>5. walk' \in {"find", "fault", "astray"} /\ inode' \in DOMAIN tree.inodes
  BY <1>2, <1>4, GoesSomewhere
<1>6. (walk' = "find" /\ inode' = Root) \/ ~ Reached(tree.fs, Root)
  <2> SUFFICES ASSUME Reached(tree.fs, Root) PROVE walk' = "find" /\ inode' = Root
    OBVIOUS
  <2>1. SoundVolume(tree.fs) /\ Root = 2 /\ Root \in DOMAIN tree.inodes
    BY <1>2, TreeVolume
  <2>2. ext2_get_root_inode(tree.fs) = ext2_get_inode(tree.fs, Root)
    <3>1. Root \in Nat /\ Root >= 1
      BY <2>1
    <3>2. QED
      BY <2>1, <3>1, ReachedInode, Zenon
  <2>3. QED
    BY <1>2, <1>4, <2>1, <2>2, GoesThere
<1>7. (Leads'[depth'] = {inode'} /\ walk' = "find") \/ Misread(depth)'
  <2> SUFFICES ASSUME ~ Reached(tree.fs, Root) PROVE Misread(depth)'
    BY <1>2, <1>3, <1>6
  <2>1. ~ ReadRight(Root)'
    BY <1>1 DEF ReadRight
  <2>2. Root \in Leads'[0] /\ 0 \in 0 .. depth'
    BY <1>2, <1>3
  <2>3. QED
    BY <2>1, <2>2 DEF Misread
<1>8. Len(path') \in Nat
  BY <1>1, SplitIs DEF SplitTo
<1>9. WalkTypes'
  BY <1>1, <1>2, <1>5 DEF DirInv, WalkTypes, Walking, WalkEnds
<1>10. WayOK'
  BY <1>1, <1>2, <1>5, <1>7, <1>8 DEF WayOK
<1>11. CASE walk' = "find"
  BY <1>9, <1>10, <1>11 DEF DirInv, ScanOK, EndOK, Listing, FaultsOnlyOnTheWay
<1>12. CASE walk' # "find"
  <2>1. Misread(Len(Names))'
    BY <1>7, <1>10, <1>12, OnTheWayAfter
  <2>2. ScanOK' /\ EndOK'
    BY <1>5, <1>12, <2>1, EndsAstray
  <2>3. QED
    BY <1>9, <1>10, <2>2 DEF DirInv
<1>13. QED
  BY <1>11, <1>12

LEMMA InHand ==
  ASSUME WalkTypes
  PROVE  /\ IsDirectory(inode) <=> IsDirectoryOf(tree, inode)
         /\ Amount = tree.inodes[inode].blocks \div SectorsPerBlock
BY DEF WalkTypes, IsDirectory, IsDirectoryOf, Amount, block_amount

\* Both callers of ext2_list_inode begin a list.
LEMMA ListStarts ==
  ASSUME WalkTypes, IsDirectory(inode), walk' = "block", StartList, UNCHANGED <<tree, inode>>,
         depth' = Len(path)' => kind' = "list" /\ found' = inode'
  PROVE  ScanOK'
<1>1. IsDirectoryOf(tree, inode)
  BY InHand
<1>2. Amount \in Nat
  BY <1>1, InHand, BlockList
<1>3. Passed' = {}
  BY <1>1, BeforeStart DEF Passed, StartList
<1>4. Lists(tree, inode, <<>>, {})
  BY ListsNothing
<1>5. (IsDirectory(inode))' /\ Amount' = Amount
  BY DEF IsDirectory, Amount, block_amount
<1>6. Lists(tree, inode, list, Passed)'
  BY <1>3, <1>4 DEF StartList
<1>7. QED
  BY <1>2, <1>5, <1>6 DEF ScanOK, StartList

LEMMA FindEndsKeeps ==
  ASSUME DirInv, FindEnds
  PROVE  DirInv'
<1>1. /\ walk = "find" /\ depth = Len(path) /\ found' = inode
      /\ UNCHANGED <<tree, kind, path_asked, path, depth, inode>>
  BY DEF FindEnds
<1>2. WalkTypes /\ WayOK
  BY DEF DirInv
<1>3. walk' \in {"block", "NULL", "found"}
  BY DEF FindEnds
<1>4. WayOK' /\ Leads' = Leads /\ Len(path') = Len(path)
  BY <1>1, <1>2, <1>3, WayStays
<1>5. WalkTypes'
  BY <1>1, <1>2, <1>3 DEF WalkTypes, Walking, Listing, WalkEnds
<1>6. CASE kind = "list" /\ IsDirectory(inode)
  <2>1. walk' = "block" /\ StartList
    BY <1>6 DEF FindEnds
  <2>2. ScanOK'
    BY <1>1, <1>2, <1>6, <2>1, ListStarts
  <2>3. EndOK'
    BY <2>1 DEF EndOK, FaultsOnlyOnTheWay
  <2>4. QED
    BY <1>4, <1>5, <2>2, <2>3 DEF DirInv
<1>7. CASE ~ (kind = "list" /\ IsDirectory(inode))
  <2>1. walk' = IF kind = "list" THEN "NULL" ELSE "found"
    BY <1>7 DEF FindEnds
  <2>2. ScanOK'
    BY <2>1 DEF ScanOK, Listing
  <2>3. Leads'[Len(path')] = {inode'} \/ Misread(Len(path))'
    BY <1>1, <1>4 DEF WayOK
  <2>4. (IsDirectory(inode))' = IsDirectory(inode)
    BY <1>1 DEF IsDirectory
  <2>5. walk' = "NULL" => kind' = "list" /\ ~ IsDirectory(inode)'
    BY <1>1, <1>7, <2>1, <2>4
  <2>6. Misread(Len(path))' \/ \A i \in Leads'[Len(path')] : i = inode'
    BY <2>3
  <2>7. EndOK'
    BY <1>1, <2>1, <2>5, <2>6 DEF EndOK, FaultsOnlyOnTheWay
  <2>8. QED
    BY <1>4, <1>5, <2>2, <2>7 DEF DirInv
<1>8. QED
  BY <1>6, <1>7

LEMMA FindGoesDownKeeps ==
  ASSUME DirInv, FindGoesDown
  PROVE  DirInv'
<1>1. /\ walk = "find" /\ depth < Len(path)
      /\ UNCHANGED <<tree, kind, path_asked, path, found, depth, inode>>
  BY DEF FindGoesDown, call
<1>2. WalkTypes /\ WayOK
  BY DEF DirInv
<1>3. walk' = IF IsDirectory(inode) THEN "block" ELSE "fault"
  BY DEF FindGoesDown
<1>4. WayOK' /\ Leads' = Leads /\ Len(path') = Len(path)
  BY <1>1, <1>2, <1>3, WayStays
<1>5. WalkTypes'
  BY <1>1, <1>2, <1>3 DEF WalkTypes, Walking, Listing, WalkEnds
<1>6. Len(path) \in Nat /\ depth \in Nat
  BY <1>2, WayTypes
<1>7. CASE IsDirectory(inode)
  <2>1. walk' = "block" /\ StartList
    BY <1>7 DEF FindGoesDown
  <2>2. depth' # Len(path)'
    BY <1>1, <1>6
  <2>3. ScanOK'
    BY <1>1, <1>2, <1>7, <2>1, <2>2, ListStarts
  <2>4. EndOK'
    BY <2>1 DEF EndOK, FaultsOnlyOnTheWay
  <2>5. QED
    BY <1>4, <1>5, <2>3, <2>4 DEF DirInv
<1>8. CASE ~ IsDirectory(inode)
  <2>1. walk' = "fault"
    BY <1>3, <1>8
  <2>2. ScanOK'
    BY <2>1 DEF ScanOK, Listing
  <2>3. /\ depth' \in 0 .. Len(Names') /\ depth' < Len(Names')
        /\ inode' \in Leads'[depth'] \/ Misread(Len(Names))'
    BY <1>1, <1>4, <1>6, NamesAfter, OnTheWayAfter DEF WayOK
  <2>4. ~ IsDirectory(inode)'
    BY <1>1, <1>8 DEF IsDirectory
  <2>5. FaultsOnlyOnTheWay'
    BY <2>3, <2>4 DEF FaultsOnlyOnTheWay
  <2>6. EndOK'
    BY <2>1, <2>5 DEF EndOK
  <2>7. QED
    BY <1>4, <1>5, <2>2, <2>6 DEF DirInv
<1>9. QED
  BY <1>7, <1>8

\* The bounds that the scan keeps to.
\* The bounds that the scan keeps to.
LEMMA ScanTypes ==
  ASSUME WalkTypes, ScanOK, walk \in Listing
  PROVE  /\ IsDirectoryOf(tree, inode) /\ IsDirectory(inode) /\ tree \in Trees
         /\ Amount \in Nat /\ index \in 0 .. Amount /\ index \in Nat
         /\ DOMAIN tree.inodes[inode].block = 1 .. Len(tree.inodes[inode].block)
         /\ index < Amount => index + 1 \in DOMAIN tree.inodes[inode].block
         /\ Uncut(inode) => Lists(tree, inode, list, Passed)
         /\ depth = Len(path) => kind = "list" /\ found = inode
<1>1. IsDirectoryOf(tree, inode) /\ IsDirectory(inode) /\ tree \in Trees
  BY InHand DEF ScanOK, IsDirectoryOf
<1>2. /\ Amount \in Nat /\ Amount <= Len(tree.inodes[inode].block)
      /\ Len(tree.inodes[inode].block) \in Nat
      /\ DOMAIN tree.inodes[inode].block = 1 .. Len(tree.inodes[inode].block)
  BY <1>1, InHand, BlockList
<1>3. index \in 0 .. Amount
  BY DEF ScanOK
<1>4. index < Amount => index + 1 \in DOMAIN tree.inodes[inode].block
  BY <1>2, <1>3
<1>5. QED
  BY <1>1, <1>2, <1>3, <1>4 DEF ScanOK

\* What every step of a listing leaves alone, and what it has to show.
Scans ==
  /\ UNCHANGED <<tree, kind, path_asked, path, found, depth, inode>>
  /\ walk \in Listing /\ walk' \in Listing

LEMMA ScanGoesOn ==
  ASSUME DirInv, Scans, index' \in 0 .. Amount,
         walk' = "entry" =>
           /\ index' < Amount /\ tree.inodes[inode].block[index' + 1] # 0
           /\ BlockRead(inode, index' + 1) \in DOMAIN tree.device
           /\ offset' \in DOMAIN tree.device[BlockRead(inode, index' + 1)]
                         \cup {DirBlockSize},
         walk' = "listed" => index' = Amount,
         Uncut(inode) =>
           Lists(tree, inode, list',
                 Before(tree, inode, index', IF walk' = "entry" THEN offset' ELSE 0))
  PROVE  DirInv'
<1>1. WalkTypes /\ WayOK /\ ScanOK
  BY DEF DirInv
<1>2. walk' \notin WalkEnds /\ walk' # "idle"
  BY DEF Scans, Listing, WalkEnds
<1>3. WayOK' /\ Leads' = Leads /\ Len(path') = Len(path)
  BY <1>1, <1>2, WayStays DEF Scans
<1>4. WalkTypes'
  BY <1>1 DEF WalkTypes, Scans, Walking
<1>5. IsDirectory(inode) /\ (depth = Len(path) => kind = "list" /\ found = inode)
  BY <1>1, ScanTypes DEF Scans
<1>6. /\ IsDirectory(inode)' /\ Amount' = Amount /\ Uncut(inode)' = Uncut(inode)
      /\ BlockRead(inode, index + 1)' = BlockRead(inode, index' + 1)
  BY <1>5 DEF Scans, IsDirectory, Amount, block_amount, Uncut, BlockRead
<1>7. Uncut(inode) => Lists(tree, inode, list, Passed)'
  BY DEF Scans, Passed
<1>8. ScanOK'
  BY <1>3, <1>5, <1>6, <1>7 DEF Scans, ScanOK
<1>9. EndOK'
  BY <1>2 DEF EndOK, FaultsOnlyOnTheWay, WalkEnds
<1>10. QED
  BY <1>3, <1>4, <1>8, <1>9 DEF DirInv

\* A directory that is cut is one that is not read right.
LEMMA CutOnTheWay ==
  ASSUME WayOK, IsDirectory(inode), ~ Uncut(inode)
  PROVE  Misread(Len(Names)) /\ Misread(depth)
BY OnTheWay DEF ReadRight

LEMMA NextBlockKeeps ==
  ASSUME DirInv, NextBlock
  PROVE  DirInv'
<1>1. /\ walk = "block" /\ walk \in Listing /\ list' = list
      /\ UNCHANGED <<tree, kind, path_asked, path, found, depth, inode>>
  BY DEF NextBlock, call, Listing
<1>2. WalkTypes /\ WayOK /\ ScanOK
  BY DEF DirInv
<1>3. /\ IsDirectoryOf(tree, inode) /\ IsDirectory(inode) /\ tree \in Trees
      /\ Amount \in Nat /\ index \in 0 .. Amount
      /\ index \in Nat /\ index < Amount => index + 1 \in DOMAIN tree.inodes[inode].block
      /\ Uncut(inode) => Lists(tree, inode, list, Before(tree, inode, index, 0))
  BY <1>1, <1>2, ScanTypes DEF Passed
<1>4. CASE index < block_amount(inode) /\ tree.inodes[inode].block[index + 1] = 0
  <2>1. index' = index + 1 /\ walk' = "block" /\ offset' = offset
    BY <1>1, <1>3, <1>4 DEF NextBlock, Amount
  <2>2. Before(tree, inode, index', 0) = Before(tree, inode, index, 0)
    BY <1>3, <1>4, <2>1, BeforeHole
  <2>3. index' \in 0 .. Amount
    BY <1>3, <1>4, <2>1 DEF Amount
  <2>4. Scans
    BY <1>1, <2>1 DEF Scans, Listing
  <2>5. QED
    BY <1>1, <1>3, <2>1, <2>2, <2>3, <2>4, ScanGoesOn
<1>5. CASE /\ index < block_amount(inode) /\ tree.inodes[inode].block[index + 1] # 0
           /\ BlockRead(inode, index + 1) \in DOMAIN tree.device
  <2>1. index' = index /\ walk' = "entry" /\ offset' = 0
    BY <1>3, <1>5 DEF NextBlock, Amount
  <2>2. WholeBlock(tree.device[BlockRead(inode, index + 1)])
    BY <1>3, <1>5, TreeVolume
  <2>3. 0 \in DOMAIN tree.device[BlockRead(inode, index + 1)]
    BY <2>2 DEF WholeBlock
  <2>4. Scans
    BY <1>1, <2>1 DEF Scans, Listing
  <2>5. index' < Amount
    BY <1>5, <2>1 DEF Amount
  <2>6. QED
    BY <1>1, <1>3, <1>5, <2>1, <2>3, <2>4, <2>5, ScanGoesOn
<1>6. CASE /\ index < block_amount(inode) /\ tree.inodes[inode].block[index + 1] # 0
           /\ BlockRead(inode, index + 1) \notin DOMAIN tree.device
  <2>1. walk' = "astray"
    BY <1>3, <1>6 DEF NextBlock, Amount
  <2>2. index + 1 \in DOMAIN tree.inodes[inode].block
    BY <1>3, <1>6 DEF Amount
  <2>3. ~ Uncut(inode)
    <3> SUFFICES ASSUME Uncut(inode) PROVE FALSE
      OBVIOUS
    <3>1. BlockRead(inode, index + 1) = tree.inodes[inode].block[index + 1]
      BY <1>3, <1>6, <2>2, BlockIsRead
    <3>2. tree.inodes[inode].block[index + 1] \in DOMAIN tree.device
      BY <1>3, <1>6, <2>2, PointerToBlock
    <3>3. QED
      BY <1>6, <3>1, <3>2
  <2>4. Misread(Len(Names))
    BY <1>2, <1>3, <2>3, CutOnTheWay
  <2>5. WayOK' /\ Misread(Len(Names))'
    BY <1>1, <1>2, <2>1, <2>4, WayStays
  <2>6. WalkTypes'
    BY <1>1, <1>2, <2>1 DEF WalkTypes, WalkEnds
  <2>7. QED
    BY <2>1, <2>5, <2>6, EndsAstray DEF DirInv
<1>7. CASE ~ (index < block_amount(inode))
  <2>1. index' = index /\ walk' = "listed" /\ offset' = offset
    <3>1. index >= block_amount(inode)
      BY <1>3, <1>7 DEF Amount
    <3>2. QED
      BY <3>1 DEF NextBlock
  <2>2. index' = Amount
    BY <1>3, <1>7, <2>1 DEF Amount
  <2>3. Scans
    BY <1>1, <2>1 DEF Scans, Listing
  <2>4. QED
    BY <1>1, <1>3, <2>1, <2>2, <2>3, ScanGoesOn
<1>8. QED
  BY <1>4, <1>5, <1>6, <1>7

\* The entry in hand, of the block that was read, and of the block that was meant.
LEMMA EntryInHand ==
  ASSUME DirInv, walk = "entry"
  PROVE  LET entries == tree.device[BlockRead(inode, index + 1)]
         IN  /\ IsDirectoryOf(tree, inode) /\ IsDirectory(inode) /\ tree \in Trees
             /\ Amount \in Nat /\ index \in Nat /\ index < Amount
             /\ index + 1 \in DOMAIN tree.inodes[inode].block
             /\ tree.inodes[inode].block[index + 1] # 0
             /\ BlockRead(inode, index + 1) \in DOMAIN tree.device
             /\ offset \in Nat /\ offset \in DOMAIN entries \cup {DirBlockSize}
             /\ offset < DirBlockSize =>
                  /\ offset \in DOMAIN entries /\ Entry.rec_len \in Nat
                  /\ offset + Entry.rec_len \in DOMAIN entries \cup {DirBlockSize}
             /\ Uncut(inode) =>
                  /\ BlockRead(inode, index + 1) = tree.inodes[inode].block[index + 1]
                  /\ Lists(tree, inode, list, Before(tree, inode, index, offset))
                  /\ Entry = EntryAt(tree, inode, <<index + 1, offset>>)
<1> DEFINE entries == tree.device[BlockRead(inode, index + 1)]
<1>1. WalkTypes /\ ScanOK /\ walk \in Listing
  BY DEF DirInv, Listing
<1>2. /\ index < Amount /\ tree.inodes[inode].block[index + 1] # 0
      /\ BlockRead(inode, index + 1) \in DOMAIN tree.device
      /\ offset \in DOMAIN entries \cup {DirBlockSize}
  BY <1>1 DEF ScanOK
<1>3. /\ IsDirectoryOf(tree, inode) /\ IsDirectory(inode) /\ tree \in Trees
      /\ Amount \in Nat /\ index \in Nat
      /\ index + 1 \in DOMAIN tree.inodes[inode].block
      /\ Uncut(inode) => Lists(tree, inode, list, Before(tree, inode, index, offset))
  BY <1>1, <1>2, ScanTypes DEF Passed
<1>4. WholeBlock(entries) /\ DirBlockSize \in Nat \ {0}
  BY <1>2, <1>3, TreeVolume, SizesAssumption
<1>5. Entry = entries[offset]
  BY DEF Entry
<1> HIDE DEF entries
<1>6. offset \in Nat
  <2>1. DOMAIN entries \subseteq 0 .. DirBlockSize - 1
    BY <1>4 DEF WholeBlock
  <2>2. QED
    BY <1>2, <1>4, <2>1
<1>7. ASSUME offset < DirBlockSize
      PROVE  /\ offset \in DOMAIN entries /\ Entry.rec_len \in Nat
             /\ offset + Entry.rec_len \in DOMAIN entries \cup {DirBlockSize}
  <2>1. offset \in DOMAIN entries
    BY <1>2, <1>4, <1>7
  <2>2. QED
    BY <1>4, <1>5, <2>1 DEF WholeBlock
<1>8. ASSUME Uncut(inode)
      PROVE  /\ BlockRead(inode, index + 1) = tree.inodes[inode].block[index + 1]
             /\ Entry = EntryAt(tree, inode, <<index + 1, offset>>)
  <2>1. BlockRead(inode, index + 1) = tree.inodes[inode].block[index + 1]
    BY <1>2, <1>3, <1>8, BlockIsRead
  <2>2. QED
    BY <1>5, <2>1 DEF EntryAt, entries
<1>9. QED
  BY <1>2, <1>3, <1>6, <1>7, <1>8 DEF entries

LEMMA NextEntryKeeps ==
  ASSUME DirInv, NextEntry
  PROVE  DirInv'
<1> DEFINE here == <<index + 1, offset>>
           entries == tree.device[BlockRead(inode, index + 1)]
<1>1. /\ walk = "entry" /\ walk \in Listing /\ offset < DirBlockSize
      /\ UNCHANGED <<tree, kind, path_asked, path, found, depth, inode, index>>
  BY DEF NextEntry, call, Listing
<1>2. /\ IsDirectoryOf(tree, inode) /\ IsDirectory(inode) /\ tree \in Trees
      /\ Amount \in Nat /\ index \in Nat /\ index < Amount
      /\ index + 1 \in DOMAIN tree.inodes[inode].block
      /\ tree.inodes[inode].block[index + 1] # 0
      /\ BlockRead(inode, index + 1) \in DOMAIN tree.device
      /\ offset \in Nat /\ offset \in DOMAIN entries /\ Entry.rec_len \in Nat
      /\ offset + Entry.rec_len \in DOMAIN entries \cup {DirBlockSize}
      /\ Uncut(inode) =>
           /\ BlockRead(inode, index + 1) = tree.inodes[inode].block[index + 1]
           /\ Lists(tree, inode, list, Before(tree, inode, index, offset))
           /\ Entry = EntryAt(tree, inode, here)
  BY <1>1, EntryInHand
<1>3. WalkTypes /\ WayOK
  BY DEF DirInv
<1>4. ASSUME Uncut(inode)
      PROVE  /\ Entry.inode = 0 =>
                  Before(tree, inode, index, offset + Entry.rec_len)
                    = Before(tree, inode, index, offset)
             /\ Entry.inode # 0 =>
                  /\ here \in LivePlaces(tree, inode)
                  /\ here \notin Before(tree, inode, index, offset)
                  /\ Before(tree, inode, index, offset + Entry.rec_len)
                       = Before(tree, inode, index, offset) \cup {here}
  <2> DEFINE e == Entry
  <2>1. offset \in DOMAIN tree.device[tree.inodes[inode].block[index + 1]]
    BY <1>2, <1>4
  <2>2. e = EntryAt(tree, inode, <<index + 1, offset>>)
    BY <1>2, <1>4
  <2> HIDE DEF e
  <2>3. /\ e.inode = 0 =>
             Before(tree, inode, index, offset + e.rec_len)
               = Before(tree, inode, index, offset)
        /\ e.inode # 0 =>
             /\ <<index + 1, offset>> \in LivePlaces(tree, inode)
             /\ <<index + 1, offset>> \notin Before(tree, inode, index, offset)
             /\ Before(tree, inode, index, offset + e.rec_len)
                  = Before(tree, inode, index, offset) \cup {<<index + 1, offset>>}
    BY <1>2, <2>1, <2>2, BeforeNext, SMTT(30)
  <2>4. QED
    BY <2>3, Zenon DEF e
<1> HIDE DEF here
<1>5. CASE Takes(Entry) /\ Fault \in ext2_get_inode(tree.fs, Entry.inode)
  <2>1. walk' = "fault"
    BY <1>5 DEF NextEntry
  <2>2. /\ WayOK' /\ Leads' = Leads /\ Len(Names)' = Len(Names)
        /\ Misread(Len(Names))' = Misread(Len(Names))
    BY <1>1, <1>3, <2>1, WayStays
  <2>3. WalkTypes'
    BY <1>1, <1>3, <2>1 DEF WalkTypes, WalkEnds
  <2>4. CASE Misread(Len(Names))
    BY <2>1, <2>2, <2>3, <2>4, EndsAstray DEF DirInv
  <2>5. CASE ~ Misread(Len(Names))
    <3>1. Uncut(inode) /\ inode \in Leads[depth] /\ depth \in 0 .. Len(Names)
      BY <1>2, <1>3, <2>5, OnTheWay, CutOnTheWay, WayTypes
    <3>2. here \in LivePlaces(tree, inode) /\ Entry = EntryAt(tree, inode, here)
      BY <1>2, <1>4, <1>5, <3>1 DEF Takes
    <3>3. Entry \in Live(inode)
      BY <1>2, <3>2, LiveEntries
    <3>4. Entry.inode \in Nat \ {0}
      <4>1. Entry.inode \in DOMAIN tree.inodes
        BY <1>2, <3>2, PlaceTypes
      <4>2. QED
        BY <1>2, <4>1, TreeVolume
    <3>5. Home(tree.fs.superblock, Entry.inode) >= tree.fs.number_of_block_groups
      BY <1>2, <1>5, <3>4, TreeVolume, FaultBeyond
    <3>6. Live(inode)' = Live(inode) /\ IsDirectory(inode)' = IsDirectory(inode)
      BY <1>1 DEF Live, BlocksOf, IsDirectory
    <3>7. \E e \in Live(inode)' :
            Home(tree.fs.superblock, e.inode)' >= tree.fs.number_of_block_groups'
      BY <1>1, <3>3, <3>5, <3>6
    <3>8. depth' \in 0 .. Len(Names') /\ inode' \in Leads'[depth']
      BY <1>1, <2>2, <3>1
    <3>9. FaultsOnlyOnTheWay'
      BY <1>2, <3>6, <3>7, <3>8 DEF FaultsOnlyOnTheWay
    <3>10. ScanOK' /\ EndOK'
      BY <2>1, <3>9 DEF ScanOK, EndOK, Listing
    <3>11. QED
      BY <2>2, <2>3, <3>10 DEF DirInv
  <2>6. QED
    BY <2>4, <2>5
<1>6. CASE ~ (Takes(Entry) /\ Fault \in ext2_get_inode(tree.fs, Entry.inode))
  <2>1. /\ list' = IF Takes(Entry) THEN Append(list, Entry) ELSE list
        /\ offset' = offset + Entry.rec_len /\ walk' = "entry"
    BY <1>1, <1>6 DEF NextEntry, StepBy
  <2>2. ASSUME Uncut(inode)
        PROVE  Lists(tree, inode, list', Before(tree, inode, index, offset'))
    <3>1. CASE Entry.inode = 0
      BY <1>2, <1>4, <2>1, <2>2, <3>1 DEF Takes
    <3>2. CASE Entry.inode # 0
      <4>1. Before(tree, inode, index, offset) \subseteq LivePlaces(tree, inode)
        BY DEF Before
      <4>2. Lists(tree, inode, Append(list, Entry),
                  Before(tree, inode, index, offset) \cup {here})
        BY <1>2, <1>4, <2>2, <3>2, <4>1, ListsOneMore
      <4>3. QED
        BY <1>4, <2>1, <2>2, <3>2, <4>2 DEF Takes
    <3>3. QED
      BY <3>1, <3>2
  <2>3. Scans
    BY <1>1, <2>1 DEF Scans, Listing
  <2>4. index' = index /\ index' \in 0 .. Amount
    BY <1>1, <1>2
  <2>5. QED
    BY <1>2, <2>1, <2>2, <2>3, <2>4, ScanGoesOn
<1>7. QED
  BY <1>5, <1>6

LEMMA BlockEndsKeeps ==
  ASSUME DirInv, BlockEnds
  PROVE  DirInv'
<1>1. /\ walk = "entry" /\ offset >= DirBlockSize /\ walk' = "block" /\ index' = index + 1
      /\ UNCHANGED <<tree, kind, path_asked, path, found, depth, inode, offset, list>>
  BY DEF BlockEnds, call
<1>2. /\ IsDirectoryOf(tree, inode) /\ Amount \in Nat /\ index \in Nat /\ index < Amount
      /\ offset \in Nat
      /\ Uncut(inode) => Lists(tree, inode, list, Before(tree, inode, index, offset))
  BY <1>1, EntryInHand
<1>3. Before(tree, inode, index + 1, 0) = Before(tree, inode, index, offset)
  BY <1>1, <1>2, BeforeEnd
<1>4. Scans
  BY <1>1 DEF Scans, Listing
<1>5. index' \in 0 .. Amount
  BY <1>1, <1>2
<1>6. QED
  BY <1>1, <1>2, <1>3, <1>4, <1>5, ScanGoesOn

\* The search goes down to the inode of an entry.
LEMMA GoesDown ==
  ASSUME DirInv, Listed, depth # Len(path), NEW at, at = FirstNamed(list, path[depth + 1]),
         at # 0
  PROVE  DirInv'
<1>1. /\ walk = "listed" /\ depth' = depth + 1
      /\ UNCHANGED <<tree, kind, path_asked, path, found, index, offset, list>>
  BY DEF Listed, call
<1>2. PICK place \in ext2_get_inode(tree.fs, list[at].inode) : GoTo(place)
  BY DEF Listed
<1>3. WalkTypes /\ WayOK
  BY DEF DirInv
<1>4. walk' \in {"find", "fault", "astray"} /\ inode' \in DOMAIN tree.inodes
  BY <1>2, <1>3, GoesSomewhere DEF WalkTypes
<1>5. WalkTypes'
  BY <1>1, <1>3, <1>4 DEF WalkTypes, Walking, WalkEnds
<1>6. /\ depth \in Nat /\ Len(path) \in Nat /\ depth \in 0 .. Len(Names) - 1
      /\ path = Names /\ depth + 1 \in 0 .. Len(Names) /\ path_asked \in Seq(STRING)
  BY <1>3, WayTypes DEF WayOK
<1>7. Leads' = Leads /\ \A i : ReadRight(i)' = ReadRight(i)
  BY <1>1, LeadsUnchanged DEF ReadRight, IsDirectory, Uncut
<1>8. (Leads[depth + 1] = {inode'} /\ walk' = "find") \/ Misread(depth + 1)
  <2>1. CASE Misread(depth)
    BY <1>6, <2>1, MisreadOnwards
  <2>2. CASE ~ Misread(depth)
    <3>1. /\ IsDirectoryOf(tree, inode) /\ IsDirectory(inode) /\ tree \in Trees
          /\ Lists(tree, inode, list, LivePlaces(tree, inode))
      <4>1. walk \in Listing /\ ScanOK /\ index = Amount
        BY <1>1 DEF DirInv, ScanOK, Listing
      <4>2. /\ IsDirectoryOf(tree, inode) /\ IsDirectory(inode) /\ tree \in Trees
            /\ Uncut(inode) => Lists(tree, inode, list, Before(tree, inode, index, 0))
        BY <1>1, <1>3, <4>1, ScanTypes DEF Passed
      <4>3. Uncut(inode)
        BY <1>3, <2>2, <4>2, CutOnTheWay
      <4>4. QED
        BY <1>3, <4>1, <4>2, <4>3, InHand, BeforeAll
    <3>2. Leads[depth] = {inode}
      BY <1>3, <2>2 DEF WayOK
    <3>3. Leads[depth + 1] = Children(inode, path[depth + 1])
      <4>1. Leads[depth + 1] = Onwards({inode}, depth + 1)
        BY <1>6, <3>2, LeadsSteps
      <4>2. QED
        BY <1>6, <4>1 DEF Onwards
    <3>4. /\ Children(inode, path[depth + 1]) = {list[at].inode}
          /\ list[at].inode \in DOMAIN tree.inodes
      BY <3>1, ChildrenListed
    <3>5. CASE ReadRight(list[at].inode)
      <4>1. walk' = "find" /\ inode' = list[at].inode
        BY <1>2, <3>1, <3>4, <3>5, GoesThere DEF ReadRight
      <4>2. QED
        BY <3>3, <3>4, <4>1
    <3>6. CASE ~ ReadRight(list[at].inode)
      <4>1. list[at].inode \in Leads[depth + 1] /\ depth + 1 \in 0 .. depth + 1
        BY <1>6, <3>3, <3>4
      <4>2. QED
        BY <3>6, <4>1 DEF Misread
    <3>7. QED
      BY <3>5, <3>6
  <2>3. QED
    BY <2>1, <2>2
<1>9. (Leads'[depth'] = {inode'} /\ walk' = "find") \/ Misread(depth)'
  BY <1>1, <1>7, <1>8 DEF Misread
<1>10. string_split(path_asked') = string_split(path_asked)
  BY <1>1
<1>11. WayOK'
  BY <1>1, <1>3, <1>4, <1>6, <1>9, <1>10 DEF WayOK
<1>12. CASE walk' = "find"
  BY <1>5, <1>11, <1>12 DEF DirInv, ScanOK, EndOK, Listing, FaultsOnlyOnTheWay
<1>13. CASE walk' # "find"
  <2>1. Misread(Len(Names))'
    BY <1>9, <1>11, <1>13, OnTheWayAfter
  <2>2. ScanOK' /\ EndOK'
    BY <1>4, <1>13, <2>1, EndsAstray
  <2>3. QED
    BY <1>5, <1>11, <2>2 DEF DirInv
<1>14. QED
  BY <1>12, <1>13

LEMMA ListedKeeps ==
  ASSUME DirInv, Listed
  PROVE  DirInv'
<1> DEFINE name == path[depth + 1]
           at == FirstNamed(list, name)
<1>1. /\ walk = "listed" /\ walk \in Listing
      /\ UNCHANGED <<tree, kind, path_asked, path, found, index, offset, list>>
  BY DEF Listed, call, Listing
<1>2. WalkTypes /\ WayOK /\ ScanOK
  BY DEF DirInv
<1>3. /\ IsDirectoryOf(tree, inode) /\ IsDirectory(inode)
      /\ Uncut(inode) => Lists(tree, inode, list, LivePlaces(tree, inode))
      /\ depth = Len(path) => kind = "list" /\ found = inode
  <2>1. index = Amount
    BY <1>1, <1>2 DEF ScanOK
  <2>2. /\ IsDirectoryOf(tree, inode) /\ IsDirectory(inode)
        /\ Uncut(inode) => Lists(tree, inode, list, Before(tree, inode, index, 0))
        /\ depth = Len(path) => kind = "list" /\ found = inode
    BY <1>1, <1>2, ScanTypes DEF Passed
  <2>3. QED
    BY <1>2, <2>1, <2>2, InHand, BeforeAll
<1>4. /\ path = Names /\ Len(path) \in Nat /\ depth \in Nat /\ depth \in 0 .. Len(path)
      /\ path_asked \in Seq(STRING) /\ Len(Names) = Len(path)
  BY <1>2, WayTypes DEF WayOK
<1>5. CASE depth = Len(path)
  <2>1. walk' = "listing" /\ UNCHANGED <<depth, inode>>
    BY <1>5 DEF Listed
  <2>2. WayOK' /\ Leads' = Leads /\ Len(path') = Len(path)
    BY <1>1, <1>2, <2>1, WayStays
  <2>3. WalkTypes'
    BY <1>1, <1>2, <2>1 DEF WalkTypes, WalkEnds
  <2>4. ScanOK'
    BY <2>1 DEF ScanOK, Listing
  <2>5. IsDirectory(inode)' /\ Uncut(inode)' = Uncut(inode)
    BY <1>1, <1>3, <2>1 DEF IsDirectory, Uncut
  <2>6. EndOK'
    BY <1>1, <1>3, <1>5, <2>1, <2>5 DEF EndOK, FaultsOnlyOnTheWay
  <2>7. QED
    BY <2>2, <2>3, <2>4, <2>6 DEF DirInv
<1>6. CASE depth # Len(path) /\ at = 0
  <2>1. depth \in 0 .. Len(Names) - 1 /\ depth + 1 \in 0 .. Len(Names)
    BY <1>4, <1>6
  <2>2. walk' = "NULL" /\ UNCHANGED <<depth, inode>>
    BY <1>6 DEF Listed
  <2> HIDE DEF at, name
  <2>3. /\ WayOK' /\ Leads' = Leads /\ Len(path') = Len(path)
        /\ Len(Names)' = Len(Names) /\ Misread(Len(Names))' = Misread(Len(Names))
    BY <1>1, <1>2, <2>2, WayStays
  <2>4. WalkTypes'
    BY <1>1, <1>2, <2>2 DEF WalkTypes, WalkEnds
  <2>5. ScanOK'
    BY <2>2 DEF ScanOK, Listing
  <2>6. Misread(Len(path))' \/ \A i \in Leads'[Len(path')] : FALSE
    <3>1. CASE Misread(Len(Names))
      <4>1. Misread(Len(Names))'
        BY <2>3, <3>1
      <4>2. Len(path)' = Len(Names)'
        BY <2>3, NamesAfter
      <4>3. QED
        BY <4>1, <4>2 DEF Misread
    <3>2. CASE ~ Misread(Len(Names))
      <4>1. Uncut(inode) /\ Leads[depth] = {inode}
        BY <1>2, <1>3, <3>2, OnTheWay, CutOnTheWay DEF WayOK
      <4>2. Leads[depth + 1] = Onwards({inode}, depth + 1)
        BY <1>4, <2>1, <4>1, LeadsSteps
      <4>3. Leads[depth + 1] = Children(inode, name)
        BY <1>4, <4>2 DEF Onwards, name
      <4>4. Children(inode, name) = {}
        BY <1>3, <1>6, <4>1, ChildrenListed DEF at
      <4>5. PICK n : n = depth + 1
        OBVIOUS
      <4>6. n \in 0 .. Len(Names) /\ Leads[n] = {}
        BY <2>1, <4>3, <4>4, <4>5
      <4>7. Leads[Len(path)] = {}
        BY <1>4, <4>6, LeadsNowhere
      <4>8. QED
        BY <2>3, <4>7
    <3>3. QED
      BY <3>1, <3>2
  <2>7. EndOK'
    BY <2>2, <2>6 DEF EndOK, FaultsOnlyOnTheWay
  <2>8. QED
    BY <2>3, <2>4, <2>5, <2>7 DEF DirInv
<1>7. CASE depth # Len(path) /\ at # 0
  BY <1>7, GoesDown
<1>8. QED
  BY <1>5, <1>6, <1>7

LEMMA NextDirInv == DirInv /\ [DirectoryNext]_directoryVars => DirInv'
<1> SUFFICES ASSUME DirInv, [DirectoryNext]_directoryVars PROVE DirInv'
  OBVIOUS
<1>1. CASE \E k \in {"element", "list"}, p \in Paths : Look(k, p)
  BY <1>1, LookKeeps
<1>2. CASE FindEnds
  BY <1>2, FindEndsKeeps
<1>3. CASE FindGoesDown
  BY <1>3, FindGoesDownKeeps
<1>4. CASE NextBlock
  BY <1>4, NextBlockKeeps
<1>5. CASE NextEntry
  BY <1>5, NextEntryKeeps
<1>6. CASE BlockEnds
  BY <1>6, BlockEndsKeeps
<1>7. CASE Listed
  BY <1>7, ListedKeeps
<1>8. CASE UNCHANGED directoryVars
  <2>1. UNCHANGED <<tree, walk, kind, path_asked, path, found, depth, inode, index, offset, list>>
    BY <1>8 DEF directoryVars, call
  <2>2. WalkTypes /\ WayOK /\ ScanOK /\ EndOK
    BY DEF DirInv
  <2>3. WayOK' /\ Leads' = Leads /\ Len(path') = Len(path)
    BY <2>1, <2>2, WayStays
  <2>4. WalkTypes'
    BY <2>1, <2>2 DEF WalkTypes
  <2>5. /\ IsDirectory(inode)' = IsDirectory(inode) /\ Amount' = Amount
        /\ Passed' = Passed /\ Uncut(inode)' = Uncut(inode)
        /\ BlockRead(inode, index + 1)' = BlockRead(inode, index + 1)
    BY <2>1 DEF IsDirectory, Amount, block_amount, Passed, Uncut, BlockRead
  <2>6. ScanOK'
    BY <2>1, <2>2, <2>3, <2>5 DEF ScanOK
  <2>7. \A i : IsDirectory(i)' = IsDirectory(i) /\ Live(i)' = Live(i)
    BY <2>1 DEF IsDirectory, Live, BlocksOf
  <2>8. Names' = Names
    BY <2>1, <2>2, <2>3, WayTypes, NamesAfter
  <2>9. \A n : Misread(n)' = Misread(n)
    <3>1. \A i : ReadRight(i)' = ReadRight(i)
      BY <2>1 DEF ReadRight, IsDirectory, Uncut
    <3>2. QED
      BY <2>3, <3>1 DEF Misread
  <2>10. EndOK'
    BY <2>1, <2>2, <2>3, <2>5, <2>7, <2>8, <2>9 DEF EndOK, FaultsOnlyOnTheWay
  <2>11. QED
    BY <2>3, <2>4, <2>6, <2>10 DEF DirInv
<1>9. QED
  BY <1>1, <1>2, <1>3, <1>4, <1>5, <1>6, <1>7, <1>8 DEF DirectoryNext, WalkStep, WalkEnded

LEMMA DirInvAlways == DirectorySpec => []DirInv
<1>1. DirectoryInit => DirInv
  BY InitDirInv
<1>2. DirInv /\ [DirectoryNext]_directoryVars => DirInv'
  BY NextDirInv
<1>3. QED
  BY <1>1, <1>2, PTL DEF DirectorySpec

--------------------------------------------------------------------------------
(******************************************************************************)
(* The types of the state: the walk never leaves the tree unnoticed, and a    *)
(* scan is at the beginning of an entry or at the end of its block.           *)
(******************************************************************************)
THEOREM TypeCorrect == DirectorySpec => []DirectoryTypeOK
<1>1. DirInv => DirectoryTypeOK
  <2> SUFFICES ASSUME DirInv PROVE DirectoryTypeOK
    OBVIOUS
  <2>1. walk = "entry" => walk \in Listing
    BY DEF Listing
  <2>2. QED
    BY <2>1 DEF DirInv, WalkTypes, WayOK, ScanOK, DirectoryTypeOK, Walking, Listing
<1>2. QED
  BY <1>1, DirInvAlways, PTL

(******************************************************************************)
(* ext2_get_element_inode finds the one inode that the names of the path lead *)
(* to, for paths of any length over trees of any depth whose inodes on the    *)
(* way are read where they are, and NULL only where there is none.            *)
(******************************************************************************)
THEOREM PathsLeadThere == DirectorySpec => []PathFindsItsInode
<1>1. DirInv => PathFindsItsInode
  <2> SUFFICES ASSUME DirInv, ~ Misread(Len(Names))
               PROVE  /\ walk \in {"found", "listing"} => Leads[Len(Names)] = {found}
                      /\ walk = "NULL" =>
                           \A i \in Leads[Len(Names)] : kind = "list" /\ ~ IsDirectory(i)
    BY DEF PathFindsItsInode
  <2>1. Len(Names) = Len(path) /\ Leads[depth] = {inode}
    BY WayTypes, OnTheWay DEF DirInv, WayOK
  <2>2. QED
    BY <2>1 DEF DirInv, EndOK
<1>2. QED
  BY <1>1, DirInvAlways, PTL

(******************************************************************************)
(* The search faults or goes astray only behind the name of a file, in a      *)
(* directory on its way with an entry of a group that was not counted, or for *)
(* an inode on its way that is not read right.                                *)
(******************************************************************************)
THEOREM FaultsAreOnTheWay == DirectorySpec => []FaultsOnlyOnTheWay
<1>1. DirInv => FaultsOnlyOnTheWay
  BY DEF DirInv, EndOK
<1>2. QED
  BY <1>1, DirInvAlways, PTL

(******************************************************************************)
(* ext2_list_dir lists each live entry of a directory once, and no other, for *)
(* directories of any number of blocks and entries, none of them cut.         *)
(******************************************************************************)
THEOREM ListingsAreComplete == DirectorySpec => []ListingIsComplete
<1>1. DirInv => ListingIsComplete
  <2> SUFFICES ASSUME DirInv, walk = "listing", Uncut(found)
               PROVE  IsInjective(list) /\ Range(list) = Live(found)
    BY DEF ListingIsComplete
  <2>1. /\ IsDirectoryOf(tree, inode) /\ found = inode
        /\ Lists(tree, inode, list, LivePlaces(tree, inode))
    BY InHand DEF DirInv, EndOK
  <2>2. Live(inode) = {EntryAt(tree, inode, x) : x \in LivePlaces(tree, inode)}
    BY <2>1, LiveEntries
  <2>3. \A n \in DOMAIN list : list[n] \in Live(inode)
    BY <2>1, <2>2, ListsTypes
  <2>4. \A e \in Live(inode) : \E n \in DOMAIN list : list[n] = e
    BY <2>1, <2>2 DEF Lists
  <2>5. Range(list) = Live(inode)
    BY <2>3, <2>4 DEF Range
  <2>6. IsInjective(list)
    BY <2>1 DEF Lists, IsInjective
  <2>7. QED
    BY <2>1, <2>5, <2>6
<1>2. QED
  BY <1>1, DirInvAlways, PTL
================================================================================
