--------------------------- MODULE FreeBlocksProofs ----------------------------
(******************************************************************************)
(* The search of free blocks, for every number of groups that the width of    *)
(* their numbers can count, size of the volume and of the bitmaps, and amount *)
(* asked for, and the bit array under it.                                     *)
(*                                                                            *)
(* A search has looked into its start and then, in turn, into the groups left *)
(* and right of it, so that the i-th group is known from i alone (Neighbour)  *)
(* if it is one of the volume, and may be any group if it is not; that is     *)
(* where the order, the faults and the blocks it has come from.               *)
(*                                                                            *)
(* In each byte of an array as many bits are seen as the volume has, for      *)
(* bytes of any width; and the array is a set of bits for bytes of 8, the     *)
(* CHAR_BIT of every system with mmap.  The masks are powers of 2, of which   *)
(* the provers know only those whose exponent is a number (Masks); what one   *)
(* mask does to the bit of another is then linear arithmetic of a byte.       *)
(******************************************************************************)
EXTENDS FreeBlocks, Bitarray, SequenceTheorems, FiniteSetTheorems, TLAPS

Neighbour(i) ==
  IF i % 2 = 0 THEN group_delta - (i \div 2) ELSE group_delta + (i \div 2)

StateTypes ==
  /\ superblock \in Superblocks
  /\ bitmap \in [0 .. Groups - 1 -> SUBSET BitmapBits]
  /\ pc \in {"idle", "start", "left", "right"} \cup Ends
  /\ group_delta \in 0 .. Groups - 1
  /\ amount \in Nat
  /\ offset \in Nat
  /\ free_blocks \in Seq(Nat)
  /\ searched \in Seq(0 .. Groups - 1)

\* How far the search is.
Positions ==
  /\ pc \in {"idle", "start"} => searched = <<>> /\ free_blocks = <<>>
  /\ pc = "left" => offset >= 1 /\ Len(searched) = 2 * offset - 1
  /\ pc = "right" => offset >= 1 /\ offset < half_groups /\ Len(searched) = 2 * offset

InTurn ==
  \A i \in 1 .. Len(searched) :
    Neighbour(i) \in 0 .. Groups - 1 => searched[i] = Neighbour(i)

SetBits(bits, groups) ==
  {superblock.first_data_block + bit : bit \in UNION {bits[g] : g \in groups}}

\* What the array holds while it is there, and what is given is what was asked.
FoundSoFar ==
  /\ pc # "NULL" => Range(free_blocks) = SetBits(bitmap, Range(searched))
  /\ pc = "given" => Len(free_blocks) = amount

SearchInv == StateTypes /\ Positions /\ InTurn /\ FoundSoFar /\ FaultsOnlyOutside

--------------------------------------------------------------------------------
(******************************************************************************)
(* The set bits of a bitmap, lowest first.                                    *)
(******************************************************************************)

\* Each place below the number of bits has its bit, and each bit its place.
LEMMA BitsInOrder ==
  ASSUME NEW S \in SUBSET Nat, IsFiniteSet(S)
  PROVE  /\ Cardinality(S) \in Nat
         /\ \A i \in 0 .. Cardinality(S) - 1 : Bit(S, i) \in S
         /\ \A bit \in S : \E i \in 0 .. Cardinality(S) - 1 : Bit(S, i) = bit
<1> DEFINE n == Cardinality(S)
           Below(bit) == {c \in S : c < bit}
           rank == [bit \in S |-> Cardinality(Below(bit))]
<1>1. n \in Nat
  BY FS_CardinalityType
<1>2. ASSUME NEW bit PROVE IsFiniteSet(Below(bit)) /\ Cardinality(Below(bit)) \in Nat
  <2>1. Below(bit) \in SUBSET S
    OBVIOUS
  <2>2. IsFiniteSet(Below(bit))
    BY <2>1, FS_Subset
  <2>3. QED
    BY <2>2, FS_CardinalityType
<1>3. ASSUME NEW bit \in S PROVE Cardinality(Below(bit)) \in 0 .. n - 1
  <2>1. IsFiniteSet(S \ {bit}) /\ Cardinality(S \ {bit}) = n - 1
    BY FS_RemoveElement
  <2>2. Below(bit) \in SUBSET (S \ {bit})
    OBVIOUS
  <2>3. Cardinality(Below(bit)) <= n - 1
    BY <2>1, <2>2, FS_Subset
  <2>4. QED
    BY <1>1, <1>2, <2>3
<1>4. ASSUME NEW a \in S, NEW b \in S, a < b
      PROVE  Cardinality(Below(a)) < Cardinality(Below(b))
  <2>1. /\ IsFiniteSet(Below(a) \cup {a})
        /\ Cardinality(Below(a) \cup {a}) = Cardinality(Below(a)) + 1
    <3>1. a \notin Below(a)
      OBVIOUS
    <3>2. QED
      BY <1>2, <3>1, FS_AddElement
  <2>2. Below(a) \cup {a} \in SUBSET Below(b)
    <3>1. a \in Nat /\ b \in Nat /\ \A c \in S : c \in Nat
      OBVIOUS
    <3>2. \A c \in S : c < a => c < b
      BY <1>4, <3>1
    <3>3. QED
      BY <1>4, <3>2
  <2>3. Cardinality(Below(a) \cup {a}) <= Cardinality(Below(b))
    BY <1>2, <2>2, FS_Subset
  <2>4. Cardinality(Below(a)) \in Nat /\ Cardinality(Below(b)) \in Nat
    BY <1>2
  <2>5. QED
    BY <2>1, <2>3, <2>4
<1> HIDE DEF n, Below
<1>5. rank \in [S -> 0 .. n - 1] /\ \A bit \in S : rank[bit] = Cardinality(Below(bit))
  BY <1>3
<1> HIDE DEF rank
<1>6. ASSUME NEW a \in S, NEW b \in S, rank[a] = rank[b] PROVE a = b
  <2>1. a \in Nat /\ b \in Nat
    OBVIOUS
  <2>2. ~ (a < b) /\ ~ (b < a)
    BY <1>2, <1>4, <1>5, <1>6
  <2>3. QED
    BY <2>1, <2>2
<1>7. rank \in Injection(S, 0 .. n - 1)
  BY <1>5, <1>6 DEF Injection, IsInjective
<1>8. IsFiniteSet(0 .. n - 1) /\ Cardinality(0 .. n - 1) = n
  BY <1>1, FS_Interval
<1>9. rank \in Surjection(S, 0 .. n - 1)
  BY <1>7, <1>8, FS_Injection DEF n
<1>10. ASSUME NEW i \in 0 .. n - 1 PROVE Bit(S, i) \in S /\ rank[Bit(S, i)] = i
  <2>1. PICK bit \in S : rank[bit] = i
    BY <1>9 DEF Surjection
  <2>2. \E b \in S : Cardinality({c \in S : c < b}) = i
    BY <1>5, <2>1 DEF Below
  <2>3. Bit(S, i) \in S /\ Cardinality({c \in S : c < Bit(S, i)}) = i
    BY <2>2, Zenon DEF Bit
  <2>4. QED
    BY <1>5, <2>3 DEF Below
<1>11. ASSUME NEW bit \in S PROVE \E i \in 0 .. n - 1 : Bit(S, i) = bit
  <2>1. rank[bit] \in 0 .. n - 1
    BY <1>5
  <2>2. Bit(S, rank[bit]) = bit
    BY <1>6, <1>10, <2>1
  <2>3. QED
    BY <2>1, <2>2
<1>12. QED
  BY <1>1, <1>10, <1>11 DEF n

LEMMA FoundInGroup ==
  ASSUME StateTypes, NEW g \in 0 .. Groups - 1
  PROVE  Found(g) \in Seq(Nat) /\ Range(Found(g)) = SetBits(bitmap, {g})
<1> DEFINE S == bitmap[g]
           n == Cardinality(S)
           first == superblock.first_data_block
<1>1. S \in SUBSET Nat /\ IsFiniteSet(S)
  <2>1. S \in SUBSET BitmapBits
    BY DEF StateTypes
  <2>2. QED
    BY <2>1, BitsAssumption, FS_Subset
<1>2. UNION {bitmap[h] : h \in {g}} = S
  OBVIOUS
<1> HIDE DEF S
<1>3. /\ n \in Nat
      /\ \A i \in 0 .. n - 1 : Bit(S, i) \in S
      /\ \A bit \in S : \E i \in 0 .. n - 1 : Bit(S, i) = bit
  BY <1>1, BitsInOrder
<1>4. Found(g) = [i \in 1 .. n |-> first + Bit(S, i - 1)]
  BY DEF Found, ext2_get_block_group_offset, S
<1> HIDE DEF n, first
<1>5. ASSUME NEW i \in 1 .. n PROVE Bit(S, i - 1) \in S
  <2>1. i - 1 \in 0 .. n - 1
    BY <1>3
  <2>2. QED
    BY <1>3, <2>1
<1>6. first \in Nat
  BY SuperblocksAssumption DEF StateTypes, first
<1>7. Found(g) \in Seq(Nat)
  <2>1. ASSUME NEW i \in 1 .. n PROVE first + Bit(S, i - 1) \in Nat
    <3>1. Bit(S, i - 1) \in Nat
      BY <1>1, <1>5
    <3>2. QED
      BY <1>6, <3>1
  <2>2. Found(g) \in [1 .. n -> Nat]
    BY <1>4, <2>1
  <2>3. QED
    BY <1>3, <2>2
<1>8. ASSUME NEW x \in Range(Found(g)) PROVE x \in {first + bit : bit \in S}
  <2>1. PICK i \in 1 .. n : x = first + Bit(S, i - 1)
    BY <1>4 DEF Range
  <2>2. QED
    BY <1>5, <2>1
<1>9. ASSUME NEW bit \in S PROVE first + bit \in Range(Found(g))
  <2>1. PICK i \in 0 .. n - 1 : Bit(S, i) = bit
    BY <1>3
  <2>2. i + 1 \in 1 .. n /\ (i + 1) - 1 = i
    BY <1>3
  <2>3. i + 1 \in DOMAIN Found(g) /\ Found(g)[i + 1] = first + bit
    BY <1>4, <2>1, <2>2
  <2>4. QED
    BY <2>3 DEF Range
<1>10. SetBits(bitmap, {g}) = {first + bit : bit \in S}
  BY <1>2 DEF SetBits, first
<1>11. QED
  BY <1>7, <1>8, <1>9, <1>10

--------------------------------------------------------------------------------
(******************************************************************************)
(* The neighbours.                                                            *)
(******************************************************************************)

\* A neighbour of the volume is the one looked into, whose number is not cut.
LEMMA Neighbours ==
  ASSUME StateTypes, NEW o \in Nat, o >= 1, o < half_groups
  PROVE  LET left == group_delta - o
             right == group_delta + o
         IN  /\ Uint16(Left(group_delta, o)) \in Nat /\ Uint16(Right(group_delta, o)) \in Nat
             /\ left \in 0 .. Groups - 1 => Uint16(Left(group_delta, o)) = left
             /\ right \in 0 .. Groups - 1 => Uint16(Right(group_delta, o)) = right
<1>1. /\ Groups \in Nat \ {0} /\ Uint16Width \in Nat /\ Groups < Uint16Width
      /\ group_delta \in Nat /\ group_delta < Groups /\ 2 * o <= Groups
      /\ superblock.blockcount \in Nat /\ 2 * Groups <= superblock.blockcount
  BY GroupsAssumption, SuperblocksAssumption DEF StateTypes, half_groups
<1>2. /\ Left(group_delta, o) \in Nat /\ Right(group_delta, o) \in Nat
      /\ group_delta - o >= 0 => Left(group_delta, o) = group_delta - o
      /\ Right(group_delta, o) = group_delta + o
  BY <1>1 DEF Left, Right
<1>3. ASSUME NEW n \in Nat
      PROVE  Uint16(n) \in Nat /\ (n < Groups => Uint16(n) = n)
  BY <1>1 DEF Uint16
<1>4. QED
  BY <1>1, <1>2, <1>3

LEMMA GroupToLook ==
  ASSUME NEW g \in Nat
  PROVE  Exists(g) <=> g \in 0 .. Groups - 1
BY GroupsAssumption DEF Exists

LEMMA LookedInto ==
  ASSUME StateTypes, NEW g \in 0 .. Groups - 1, Exists(g), superblock.inode_size # 0,
         NEW next, LookInto(g, next)
  PROVE  /\ free_blocks' \in Seq(Nat)
         /\ Range(free_blocks') = Range(free_blocks) \cup SetBits(bitmap, {g})
         /\ searched' \in Seq(0 .. Groups - 1)
         /\ Len(searched') = Len(searched) + 1
         /\ \A i \in 1 .. Len(searched) : searched'[i] = searched[i]
         /\ searched'[Len(searched) + 1] = g
         /\ Range(searched') = Range(searched) \cup {g}
         /\ pc' = Outcome(free_blocks', next)
         /\ UNCHANGED <<superblock, bitmap>>
<1>1. /\ free_blocks' = free_blocks \o Found(g)
      /\ searched' = Append(searched, g)
      /\ pc' = Outcome(free_blocks', next)
      /\ UNCHANGED <<superblock, bitmap>>
  BY DEF LookInto
<1>2. /\ free_blocks \in Seq(Nat) /\ searched \in Seq(0 .. Groups - 1)
      /\ Found(g) \in Seq(Nat) /\ Range(Found(g)) = SetBits(bitmap, {g})
  BY FoundInGroup DEF StateTypes
<1> DEFINE found == Found(g)
<1> HIDE DEF found
<1>3. /\ free_blocks' \in Seq(Nat)
      /\ Range(free_blocks') = Range(free_blocks) \cup Range(found)
  <2>1. free_blocks' = free_blocks \o found /\ found \in Seq(Nat)
    BY <1>1, <1>2 DEF found
  <2>2. free_blocks' \in Seq(Nat)
    BY <1>2, <2>1, ConcatProperties
  <2>3. Range(free_blocks') = Range(free_blocks) \cup Range(found)
    BY <1>2, <2>1, RangeConcatenation
  <2>4. QED
    BY <2>2, <2>3
<1>4. /\ searched' \in Seq(0 .. Groups - 1)
      /\ Len(searched') = Len(searched) + 1
      /\ \A i \in 1 .. Len(searched) : searched'[i] = searched[i]
      /\ searched'[Len(searched) + 1] = g
  BY <1>1, <1>2, AppendProperties
<1>5. Range(searched') = Range(searched) \cup {g}
  <2> DEFINE n == Len(searched)
  <2>1. n \in Nat /\ DOMAIN searched = 1 .. n /\ DOMAIN searched' = 1 .. n + 1
    BY <1>2, <1>4
  <2>2. 1 .. n + 1 = (1 .. n) \cup {n + 1}
    BY <2>1
  <2>3. QED
    BY <1>4, <2>1, <2>2 DEF Range
<1>6. QED
  BY <1>1, <1>2, <1>3, <1>4, <1>5 DEF found

LEMMA SetBitsOfUnion ==
  ASSUME NEW bits, NEW A, NEW B
  PROVE  SetBits(bits, A \cup B) = SetBits(bits, A) \cup SetBits(bits, B)
BY DEF SetBits

--------------------------------------------------------------------------------
(******************************************************************************)
(* The steps of a search.                                                     *)
(******************************************************************************)

LEMMA InitSearchInv == Init => SearchInv
<1> SUFFICES ASSUME Init PROVE SearchInv
  OBVIOUS
<1>1. StateTypes
  BY GroupsAssumption DEF Init, StateTypes
<1>2. Positions
  BY DEF Init, Positions
<1>3. InTurn
  BY DEF Init, InTurn
<1>4. FoundSoFar
  BY DEF Init, FoundSoFar, SetBits, Range
<1>5. FaultsOnlyOutside
  BY DEF Init, FaultsOnlyOutside
<1>6. QED
  BY <1>1, <1>2, <1>3, <1>4, <1>5 DEF SearchInv

\* A search that looks into its next neighbour keeps what is known of the groups.
LEMMA LookKeeps ==
  ASSUME SearchInv, UNCHANGED group_delta, UNCHANGED amount, pc # "NULL",
         NEW g \in 0 .. Groups - 1, Exists(g), superblock.inode_size # 0,
         NEW next \in {"left", "right"},
         Neighbour(Len(searched) + 1) \in 0 .. Groups - 1 => g = Neighbour(Len(searched) + 1),
         LookInto(g, next)
  PROVE  /\ searched' \in Seq(0 .. Groups - 1) /\ free_blocks' \in Seq(Nat)
         /\ UNCHANGED <<superblock, bitmap>>
         /\ pc' \in {"given", "overrun", next}
         /\ Len(searched') = Len(searched) + 1
         /\ InTurn' /\ FoundSoFar' /\ FaultsOnlyOutside'
<1>1. /\ free_blocks' \in Seq(Nat)
      /\ Range(free_blocks') = Range(free_blocks) \cup SetBits(bitmap, {g})
      /\ searched' \in Seq(0 .. Groups - 1)
      /\ Len(searched') = Len(searched) + 1
      /\ \A i \in 1 .. Len(searched) : searched'[i] = searched[i]
      /\ searched'[Len(searched) + 1] = g
      /\ Range(searched') = Range(searched) \cup {g}
      /\ pc' = Outcome(free_blocks', next)
      /\ UNCHANGED <<superblock, bitmap>>
  BY LookedInto DEF SearchInv
<1>2. pc' \in {"given", "overrun", next} /\ (pc' = "given" => Len(free_blocks') = amount)
  BY <1>1 DEF Outcome
<1>3. InTurn'
  <2>1. Len(searched) \in Nat
    BY DEF SearchInv, StateTypes
  <2>2. \A i : Neighbour(i)' = Neighbour(i)
    BY DEF Neighbour
  <2>3. ASSUME NEW i \in 1 .. Len(searched) + 1, Neighbour(i) \in 0 .. Groups - 1
        PROVE  searched'[i] = Neighbour(i)
    <3>1. CASE i = Len(searched) + 1
      BY <1>1, <2>3, <3>1
    <3>2. CASE i # Len(searched) + 1
      <4>1. i \in 1 .. Len(searched)
        BY <2>1, <3>2
      <4>2. QED
        BY <1>1, <2>3, <4>1 DEF SearchInv, InTurn
    <3>3. QED
      BY <3>1, <3>2
  <2>4. QED
    BY <1>1, <2>2, <2>3 DEF InTurn
<1>4. FoundSoFar'
  <2>1. Range(free_blocks) = SetBits(bitmap, Range(searched))
    BY DEF SearchInv, FoundSoFar
  <2>2. SetBits(bitmap, Range(searched) \cup {g})
          = SetBits(bitmap, Range(searched)) \cup SetBits(bitmap, {g})
    BY SetBitsOfUnion
  <2>3. SetBits(bitmap, Range(searched))' = SetBits(bitmap, Range(searched) \cup {g})
    BY <1>1 DEF SetBits
  <2>4. QED
    BY <1>1, <1>2, <2>1, <2>2, <2>3 DEF FoundSoFar
<1>5. FaultsOnlyOutside'
  BY <1>2 DEF FaultsOnlyOutside
<1>6. QED
  BY <1>1, <1>2, <1>3, <1>4, <1>5

LEMMA StartsSearch ==
  ASSUME SearchInv, NEW start \in 0 .. Groups - 1, NEW n \in Nat,
         ext2_get_free_blocks(start, n)
  PROVE  SearchInv'
<1>1. /\ pc = "idle" /\ pc' = "start" /\ group_delta' = start /\ amount' = n
      /\ UNCHANGED <<superblock, bitmap, offset, free_blocks, searched>>
  BY DEF ext2_get_free_blocks
<1>2. searched = <<>> /\ free_blocks = <<>>
  BY <1>1 DEF SearchInv, Positions
<1>3. StateTypes'
  BY <1>1 DEF SearchInv, StateTypes
<1>4. Positions'
  BY <1>1, <1>2 DEF Positions
<1>5. InTurn'
  BY <1>1, <1>2 DEF InTurn
<1>6. FoundSoFar'
  BY <1>1 DEF SearchInv, FoundSoFar, SetBits
<1>7. FaultsOnlyOutside'
  BY <1>1 DEF FaultsOnlyOutside
<1>8. QED
  BY <1>3, <1>4, <1>5, <1>6, <1>7 DEF SearchInv

\* What a fault leaves as it was.
LEMMA FaultKeeps ==
  ASSUME SearchInv, pc' = "fault", offset' \in Nat,
         UNCHANGED <<superblock, bitmap, group_delta, amount, free_blocks, searched>>,
         pc # "NULL", FaultsOnlyOutside'
  PROVE  SearchInv'
<1>1. StateTypes' /\ Positions'
  BY DEF SearchInv, StateTypes, Positions, Ends
<1>2. InTurn'
  BY DEF SearchInv, InTurn, Neighbour
<1>3. FoundSoFar'
  BY DEF SearchInv, FoundSoFar, SetBits
<1>4. QED
  BY <1>1, <1>2, <1>3 DEF SearchInv

\* The start is a group of the volume.
LEMMA LooksAtStart == SearchInv /\ LookAtStart => SearchInv'
<1> SUFFICES ASSUME SearchInv, LookAtStart PROVE SearchInv'
  OBVIOUS
<1>1. /\ pc = "start" /\ LookInto(group_delta, "left") /\ offset' = 1
      /\ UNCHANGED <<group_delta, amount>>
  BY DEF LookAtStart, call
<1>2. group_delta \in 0 .. Groups - 1 /\ searched = <<>>
  BY <1>1 DEF SearchInv, StateTypes, Positions
<1>3. Exists(group_delta) /\ group_delta = Neighbour(Len(searched) + 1)
  BY <1>2, GroupsAssumption DEF Exists, Neighbour
<1>4. CASE superblock.inode_size # 0
  <2>1. /\ searched' \in Seq(0 .. Groups - 1) /\ free_blocks' \in Seq(Nat)
        /\ UNCHANGED <<superblock, bitmap>>
        /\ pc' \in {"given", "overrun", "left"}
        /\ Len(searched') = Len(searched) + 1
        /\ InTurn' /\ FoundSoFar' /\ FaultsOnlyOutside'
    BY <1>1, <1>2, <1>3, <1>4, LookKeeps
  <2>2. StateTypes'
    BY <1>1, <2>1 DEF SearchInv, StateTypes, Ends
  <2>3. Positions'
    BY <1>1, <1>2, <2>1 DEF Positions
  <2>4. QED
    BY <2>1, <2>2, <2>3 DEF SearchInv
<1>5. CASE superblock.inode_size = 0
  BY <1>1, <1>5, FaultKeeps DEF LookInto, FaultsOnlyOutside
<1>6. QED
  BY <1>4, <1>5

LEMMA LooksLeft == SearchInv /\ LookLeft => SearchInv'
<1> SUFFICES ASSUME SearchInv, LookLeft PROVE SearchInv'
  OBVIOUS
<1> DEFINE g == Uint16(Left(group_delta, offset))
<1>1. /\ pc = "left" /\ offset < half_groups /\ LookInto(g, "right")
      /\ UNCHANGED <<group_delta, amount, offset>>
  BY DEF LookLeft, call
<1>2. /\ group_delta \in 0 .. Groups - 1 /\ offset \in Nat /\ offset >= 1
      /\ Len(searched) = 2 * offset - 1
  BY <1>1 DEF SearchInv, StateTypes, Positions
<1>3. /\ g \in Nat
      /\ group_delta - offset \in 0 .. Groups - 1 => g = group_delta - offset
  BY <1>1, <1>2, Neighbours DEF SearchInv
<1> HIDE DEF g
<1>4. CASE Exists(g) /\ superblock.inode_size # 0
  <2>1. /\ g \in 0 .. Groups - 1
        /\ Neighbour(Len(searched) + 1) = group_delta - offset
    BY <1>2, <1>3, <1>4, GroupToLook DEF Neighbour
  <2>2. /\ searched' \in Seq(0 .. Groups - 1) /\ free_blocks' \in Seq(Nat)
        /\ UNCHANGED <<superblock, bitmap>>
        /\ pc' \in {"given", "overrun", "right"}
        /\ Len(searched') = Len(searched) + 1
        /\ InTurn' /\ FoundSoFar' /\ FaultsOnlyOutside'
    BY <1>1, <1>3, <1>4, <2>1, LookKeeps
  <2>3. StateTypes'
    BY <1>1, <2>2 DEF SearchInv, StateTypes, Ends
  <2>4. Positions'
    BY <1>1, <1>2, <2>2 DEF Positions, half_groups
  <2>5. QED
    BY <2>2, <2>3, <2>4 DEF SearchInv
<1>5. CASE ~ (Exists(g) /\ superblock.inode_size # 0)
  <2>1. pc' = "fault" /\ UNCHANGED <<superblock, bitmap, group_delta, amount, offset, free_blocks, searched>>
    BY <1>1, <1>5 DEF LookInto
  <2>2. (Len(searched) + 1) \div 2 = offset
    BY <1>2
  <2>3. superblock.inode_size = 0 \/ group_delta - offset < 0
    BY <1>2, <1>3, <1>5, GroupToLook, GroupsAssumption
  <2>4. FaultsOnlyOutside'
    BY <1>1, <1>2, <2>1, <2>2, <2>3 DEF FaultsOnlyOutside
  <2>5. QED
    BY <1>1, <1>2, <2>1, <2>4, FaultKeeps
<1>6. QED
  BY <1>4, <1>5

LEMMA LooksRight == SearchInv /\ LookRight => SearchInv'
<1> SUFFICES ASSUME SearchInv, LookRight PROVE SearchInv'
  OBVIOUS
<1> DEFINE g == Uint16(Right(group_delta, offset))
<1>1. /\ pc = "right" /\ LookInto(g, "left") /\ offset' = offset + 1
      /\ UNCHANGED <<group_delta, amount>>
  BY DEF LookRight, call
<1>2. /\ group_delta \in 0 .. Groups - 1 /\ offset \in Nat /\ offset >= 1
      /\ offset < half_groups /\ Len(searched) = 2 * offset
  BY <1>1 DEF SearchInv, StateTypes, Positions
<1>3. /\ g \in Nat
      /\ group_delta + offset \in 0 .. Groups - 1 => g = group_delta + offset
  BY <1>1, <1>2, Neighbours DEF SearchInv
<1> HIDE DEF g
<1>4. CASE Exists(g) /\ superblock.inode_size # 0
  <2>1. /\ g \in 0 .. Groups - 1
        /\ Neighbour(Len(searched) + 1) = group_delta + offset
    BY <1>2, <1>3, <1>4, GroupToLook DEF Neighbour
  <2>2. /\ searched' \in Seq(0 .. Groups - 1) /\ free_blocks' \in Seq(Nat)
        /\ UNCHANGED <<superblock, bitmap>>
        /\ pc' \in {"given", "overrun", "left"}
        /\ Len(searched') = Len(searched) + 1
        /\ InTurn' /\ FoundSoFar' /\ FaultsOnlyOutside'
    BY <1>1, <1>3, <1>4, <2>1, LookKeeps
  <2>3. StateTypes'
    BY <1>1, <1>2, <2>2 DEF SearchInv, StateTypes, Ends
  <2>4. Positions'
    BY <1>1, <1>2, <2>2 DEF Positions
  <2>5. QED
    BY <2>2, <2>3, <2>4 DEF SearchInv
<1>5. CASE ~ (Exists(g) /\ superblock.inode_size # 0)
  <2>1. pc' = "fault" /\ UNCHANGED <<superblock, bitmap, free_blocks, searched>>
    BY <1>1, <1>5 DEF LookInto
  <2>2. (Len(searched) + 1) \div 2 = offset
    BY <1>2
  <2>3. superblock.inode_size = 0 \/ group_delta + offset >= Groups
    BY <1>2, <1>3, <1>5, GroupToLook, GroupsAssumption
  <2>4. FaultsOnlyOutside'
    BY <1>1, <1>2, <2>1, <2>2, <2>3 DEF FaultsOnlyOutside
  <2>5. QED
    BY <1>1, <1>2, <2>1, <2>4, FaultKeeps
<1>6. QED
  BY <1>4, <1>5

LEMMA GivesUp == SearchInv /\ GiveUp => SearchInv'
<1> SUFFICES ASSUME SearchInv, GiveUp PROVE SearchInv'
  OBVIOUS
<1>1. /\ pc = "left" /\ pc' = "NULL" /\ free_blocks' = <<>>
      /\ UNCHANGED <<superblock, bitmap, group_delta, amount, offset, searched>>
  BY DEF GiveUp, call
<1>2. StateTypes'
  BY <1>1 DEF SearchInv, StateTypes, Ends
<1>3. Positions' /\ FoundSoFar' /\ FaultsOnlyOutside'
  BY <1>1 DEF Positions, FoundSoFar, FaultsOnlyOutside
<1>4. InTurn'
  BY <1>1 DEF SearchInv, InTurn, Neighbour
<1>5. QED
  BY <1>2, <1>3, <1>4 DEF SearchInv

LEMMA NextSearchInv == SearchInv /\ [Next]_vars => SearchInv'
<1> SUFFICES ASSUME SearchInv, [Next]_vars PROVE SearchInv'
  OBVIOUS
<1>1. ASSUME NEW n \in Amounts, ext2_add_inode_free_blocks(n) PROVE SearchInv'
  BY <1>1, GroupsAssumption, AmountsAssumption, StartsSearch DEF ext2_add_inode_free_blocks
<1>2. ASSUME NEW start \in Starts, NEW n \in Amounts, ext2_get_free_blocks(start, n)
      PROVE  SearchInv'
  BY <1>2, StartsAssumption, AmountsAssumption, StartsSearch
<1>3. CASE Search
  BY <1>3, LooksAtStart, LooksLeft, LooksRight, GivesUp DEF Search
<1>4. CASE Ended \/ UNCHANGED vars
  <2>1. UNCHANGED <<superblock, bitmap, pc, group_delta, amount, offset, free_blocks, searched>>
    BY <1>4 DEF Ended, vars, call
  <2>2. StateTypes' /\ Positions'
    BY <2>1 DEF SearchInv, StateTypes, Positions
  <2>3. InTurn'
    BY <2>1 DEF SearchInv, InTurn, Neighbour
  <2>4. FoundSoFar' /\ FaultsOnlyOutside'
    BY <2>1 DEF SearchInv, FoundSoFar, SetBits, FaultsOnlyOutside
  <2>5. QED
    BY <2>2, <2>3, <2>4 DEF SearchInv
<1>5. QED
  BY <1>1, <1>2, <1>3, <1>4 DEF Next

LEMMA SearchInvAlways == Spec => []SearchInv
BY InitSearchInv, NextSearchInv, PTL DEF Spec

--------------------------------------------------------------------------------
(******************************************************************************)
(* What a search promises.                                                    *)
(******************************************************************************)

(******************************************************************************)
(* The blocks given by ext2_get_free_blocks are as many as were asked, and    *)
(* are the set bits of the groups it looked into.                             *)
(******************************************************************************)
THEOREM GivenBlocksAreSetBits == Spec => []GivenAreTheSetBits
<1>1. SearchInv => GivenAreTheSetBits
  BY DEF SearchInv, FoundSoFar, GivenAreTheSetBits, SetBits
<1>2. QED
  BY <1>1, SearchInvAlways, PTL

\* The distance of the i-th group looked into, from its start.
LEMMA DistanceOfNeighbour ==
  ASSUME SearchInv, Inside, NEW i \in 1 .. Len(searched)
  PROVE  i \in Nat /\ searched[i] = Neighbour(i) /\ Distance(searched[i]) = i \div 2
<1>1. /\ i \in Nat /\ i >= 1 /\ Len(searched) \in Nat /\ i <= Len(searched)
      /\ group_delta \in 0 .. Groups - 1 /\ Groups \in Nat
      /\ group_delta - Len(searched) \div 2 >= 0
      /\ group_delta + (Len(searched) - 1) \div 2 < Groups
  BY GroupsAssumption DEF SearchInv, StateTypes, Inside
<1> DEFINE n == Len(searched)
<1> HIDE DEF n
<1>2. searched[i] = Neighbour(i)
  <2>1. i \div 2 <= n \div 2 /\ (i % 2 # 0 => i \div 2 <= (n - 1) \div 2)
    BY <1>1 DEF n
  <2>2. Neighbour(i) \in 0 .. Groups - 1
    <3>1. CASE i % 2 = 0
      BY <1>1, <2>1, <3>1 DEF Neighbour, n
    <3>2. CASE i % 2 # 0
      BY <1>1, <2>1, <3>2 DEF Neighbour, n
    <3>3. QED
      BY <3>1, <3>2
  <2>3. QED
    BY <2>2 DEF SearchInv, InTurn
<1>3. QED
  BY <1>1, <1>2 DEF Distance, Neighbour

LEMMA InvNearestFirst == SearchInv => NearestFirst
<1> SUFFICES ASSUME SearchInv, Inside
             PROVE  /\ IsInjective(searched)
                    /\ \A i, j \in DOMAIN searched :
                          i < j => Distance(searched[i]) <= Distance(searched[j])
  BY DEF NearestFirst
<1>1. DOMAIN searched = 1 .. Len(searched)
  BY DEF SearchInv, StateTypes
<1>2. ASSUME NEW i \in DOMAIN searched, NEW j \in DOMAIN searched, searched[i] = searched[j]
      PROVE  i = j
  <2>1. /\ i \in Nat /\ j \in Nat /\ i >= 1 /\ j >= 1 /\ i \div 2 = j \div 2
        /\ group_delta \in Nat
    BY <1>1, <1>2, DistanceOfNeighbour DEF SearchInv, StateTypes
  <2>2. Neighbour(i) = Neighbour(j)
    BY <1>1, <1>2, DistanceOfNeighbour
  <2>3. QED
    BY <2>1, <2>2 DEF Neighbour
<1>3. ASSUME NEW i \in DOMAIN searched, NEW j \in DOMAIN searched, i < j
      PROVE  Distance(searched[i]) <= Distance(searched[j])
  <2>1. /\ i \in Nat /\ j \in Nat
        /\ Distance(searched[i]) = i \div 2 /\ Distance(searched[j]) = j \div 2
    BY <1>1, DistanceOfNeighbour
  <2>2. QED
    BY <1>3, <2>1
<1>4. QED
  BY <1>2, <1>3 DEF IsInjective

(******************************************************************************)
(* ext2_get_free_blocks looks into the nearer groups first and into none      *)
(* twice, whatever the number of groups and the start, as long as it has not  *)
(* left the volume.                                                           *)
(******************************************************************************)
THEOREM SearchIsNearestFirst == Spec => []NearestFirst
BY InvNearestFirst, SearchInvAlways, PTL

(******************************************************************************)
(* ext2_get_free_blocks dereferences no group that does not exist but by      *)
(* leaving the volume to the left or to the right, and divides by no length   *)
(* of an inode but by one that the volume does not say.                       *)
(******************************************************************************)
THEOREM SearchFaultsOnlyOutside == Spec => []FaultsOnlyOutside
<1>1. SearchInv => FaultsOnlyOutside
  BY DEF SearchInv
<1>2. QED
  BY <1>1, SearchInvAlways, PTL

--------------------------------------------------------------------------------
(******************************************************************************)
(* The bit array: bytes and the places in them.                               *)
(******************************************************************************)

LEMMA Division ==
  ASSUME NEW a \in Nat, NEW b \in Nat \ {0}
  PROVE  /\ a \div b \in Nat /\ a % b \in 0 .. b - 1
         /\ a = (a \div b) * b + (a % b)
OBVIOUS

LEMMA UniqueDivision ==
  ASSUME NEW b \in Nat \ {0}, NEW q \in Nat, NEW r \in 0 .. b - 1
  PROVE  (q * b + r) \div b = q /\ (q * b + r) % b = r
<1> DEFINE a == q * b + r
           p == a \div b
<1>1. a \in Nat /\ q * b \in Nat /\ a = q * b + r
  OBVIOUS
<1>2. p \in Nat /\ a % b \in 0 .. b - 1 /\ a = p * b + (a % b)
  BY <1>1, Division
<1> HIDE DEF a, p
<1>3. ~ (p < q)
  <2>1. p < q => (p + 1) * b <= q * b
    BY <1>2
  <2>2. QED
    BY <1>1, <1>2, <2>1
<1>4. ~ (p > q)
  <2>1. p > q => (q + 1) * b <= p * b
    BY <1>2
  <2>2. QED
    BY <1>1, <1>2, <2>1
<1>5. p = q
  BY <1>2, <1>3, <1>4
<1>6. a % b = r
  BY <1>1, <1>2, <1>5
<1>7. QED
  BY <1>5, <1>6 DEF a, p

\* A bit is in a byte of the array, at a place of it.
LEMMA WhereABitIs ==
  ASSUME NEW bit \in Bits
  PROVE  /\ bit \in Nat
         /\ BIT_CHAR(bit) \in 0 .. Size - 1
         /\ bit % CharBit \in 0 .. CharBit - 1
         /\ bit = BIT_CHAR(bit) * CharBit + (bit % CharBit)
<1> DEFINE q == BIT_CHAR(bit)
           r == bit % CharBit
<1>1. /\ CharBit \in Nat \ {0} /\ Size \in Nat /\ Size * CharBit \in Nat
      /\ bit \in Nat /\ bit < Size * CharBit
  BY BitarrayAssumption DEF Bits, bitarray_get_max_bit
<1>2. q \in Nat /\ r \in 0 .. CharBit - 1 /\ bit = q * CharBit + r
  BY <1>1, Division DEF BIT_CHAR
<1> HIDE DEF q, r
<1>3. q < Size
  <2>1. q >= Size => q * CharBit >= Size * CharBit
    BY <1>1, <1>2
  <2>2. q * CharBit \in Nat
    BY <1>1, <1>2
  <2>3. QED
    BY <1>1, <1>2, <2>1, <2>2
<1>4. QED
  BY <1>1, <1>2, <1>3 DEF q, r

LEMMA BitAt ==
  ASSUME NEW byte \in 0 .. Size - 1, NEW place \in 0 .. CharBit - 1
  PROVE  /\ byte * CharBit + place \in Bits
         /\ BIT_CHAR(byte * CharBit + place) = byte
         /\ (byte * CharBit + place) % CharBit = place
<1>1. CharBit \in Nat \ {0} /\ Size \in Nat /\ byte \in Nat /\ byte + 1 <= Size
  BY BitarrayAssumption
<1>2. byte * CharBit + place \in Nat /\ byte * CharBit + place < (byte + 1) * CharBit
  BY <1>1
<1>3. (byte + 1) * CharBit <= Size * CharBit
  BY <1>1
<1>4. byte * CharBit + place \in Bits
  <2>1. Size * CharBit \in Nat /\ (byte + 1) * CharBit \in Nat
    BY <1>1
  <2>2. QED
    BY <1>2, <1>3, <2>1 DEF Bits, bitarray_get_max_bit
<1>5. QED
  BY <1>1, <1>4, UniqueDivision DEF BIT_CHAR

--------------------------------------------------------------------------------
(******************************************************************************)
(* Counting.                                                                  *)
(******************************************************************************)

Mirror(byte, bit) == byte * CharBit + (CharBit - 1 - (bit % CharBit))

\* The bits of a byte, counted from the other end.
LEMMA MirrorOfBit ==
  ASSUME NEW byte \in 0 .. Size - 1,
         NEW bit \in Bits, BIT_CHAR(bit) = byte
  PROVE  /\ Mirror(byte, bit) \in Bits
         /\ BIT_CHAR(Mirror(byte, bit)) = byte
         /\ Mirror(byte, bit) % CharBit = CharBit - 1 - (bit % CharBit)
         /\ Mirror(byte, Mirror(byte, bit)) = bit
<1> DEFINE place == CharBit - 1 - (bit % CharBit)
<1>1. CharBit \in Nat \ {0} /\ byte \in Nat
  BY BitarrayAssumption
<1>2. bit % CharBit \in 0 .. CharBit - 1 /\ bit = byte * CharBit + (bit % CharBit)
  BY WhereABitIs
<1>3. place \in 0 .. CharBit - 1 /\ CharBit - 1 - place = bit % CharBit
  BY <1>1, <1>2
<1> HIDE DEF place
<1>4. Mirror(byte, bit) = byte * CharBit + place
  BY DEF Mirror, place
<1>5. /\ Mirror(byte, bit) \in Bits /\ BIT_CHAR(Mirror(byte, bit)) = byte
      /\ Mirror(byte, bit) % CharBit = place
  BY <1>3, <1>4, BitAt
<1>6. Mirror(byte, Mirror(byte, bit)) = byte * CharBit + (CharBit - 1 - place)
  BY <1>5 DEF Mirror
<1>7. QED
  BY <1>2, <1>3, <1>5, <1>6 DEF place

LEMMA SameCount ==
  ASSUME NEW byte \in 0 .. Size - 1
  PROVE  Cardinality(In(byte, Marked)) = Cardinality(In(byte, OnDisk))
<1> DEFINE S == In(byte, Marked)
           T == In(byte, OnDisk)
           f == [bit \in S |-> Mirror(byte, bit)]
<1>1. /\ \A bit : bit \in S <=> /\ bit \in Bits /\ BIT_CHAR(bit) = byte
                                /\ Masked(bytes[byte], 2 ^ (CharBit - 1 - (bit % CharBit)))
      /\ \A bit : bit \in T <=> /\ bit \in Bits /\ BIT_CHAR(bit) = byte
                                /\ Masked(bytes[byte], 2 ^ (bit % CharBit))
  BY DEF In, Marked, OnDisk, bitarray_test_bit, BIT_IN_CHAR
<1> HIDE DEF S, T
<1>2. ASSUME NEW bit \in S
      PROVE  Mirror(byte, bit) \in T /\ Mirror(byte, Mirror(byte, bit)) = bit
  <2>1. bit \in Bits /\ BIT_CHAR(bit) = byte
    BY <1>1
  <2>2. /\ Mirror(byte, bit) \in Bits /\ BIT_CHAR(Mirror(byte, bit)) = byte
        /\ Mirror(byte, bit) % CharBit = CharBit - 1 - (bit % CharBit)
        /\ Mirror(byte, Mirror(byte, bit)) = bit
    BY <2>1, MirrorOfBit
  <2>3. QED
    BY <1>1, <2>2
<1>3. ASSUME NEW bit \in T
      PROVE  Mirror(byte, bit) \in S /\ Mirror(byte, Mirror(byte, bit)) = bit
  <2>1. bit \in Bits /\ BIT_CHAR(bit) = byte
    BY <1>1
  <2>2. /\ Mirror(byte, bit) \in Bits /\ BIT_CHAR(Mirror(byte, bit)) = byte
        /\ Mirror(byte, bit) % CharBit = CharBit - 1 - (bit % CharBit)
        /\ Mirror(byte, Mirror(byte, bit)) = bit
    BY <2>1, MirrorOfBit
  <2>3. CharBit - 1 - (CharBit - 1 - (bit % CharBit)) = bit % CharBit
    BY <2>1, WhereABitIs, BitarrayAssumption
  <2>4. QED
    BY <1>1, <2>2, <2>3
<1>4. f \in Bijection(S, T)
  <2>1. f \in [S -> T]
    BY <1>2
  <2>2. \A a, b \in S : f[a] = f[b] => a = b
    BY <1>2
  <2>3. \A t \in T : \E s \in S : f[s] = t
    BY <1>3
  <2>4. QED
    BY <2>1, <2>2, <2>3 DEF Bijection, Injection, Surjection, IsInjective
<1>5. IsFiniteSet(S)
  <2>1. IsFiniteSet(Bits)
    <3>1. bitarray_get_max_bit \in Nat
      BY BitarrayAssumption DEF bitarray_get_max_bit
    <3>2. QED
      BY <3>1, FS_Interval DEF Bits
  <2>2. S \in SUBSET Bits
    BY <1>1
  <2>3. QED
    BY <2>1, <2>2, FS_Subset
<1>6. Cardinality(T) = Cardinality(S)
  BY <1>4, <1>5, FS_Bijection DEF ExistsBijection
<1>7. QED
  BY <1>6 DEF S, T

BytesThere == DOMAIN bytes = 0 .. Size - 1

LEMMA BytesThereAlways == BitarraySpec => []BytesThere
<1>1. bitarray_create => BytesThere
  BY DEF bitarray_create, BytesThere
<1>2. BytesThere /\ [BitarrayNext]_byteVars => BytesThere'
  BY DEF BytesThere, BitarrayNext, byteVars, bitarray_set_bit, bitarray_clean_bit, Test
<1>3. QED
  BY <1>1, <1>2, PTL DEF BitarraySpec

(******************************************************************************)
(* bitarray.c takes the first bit of a byte to be its highest one where ext2  *)
(* takes it to be the lowest, and still sees as many bits in each byte as are *)
(* set in the bitmap: for bytes of any width.                                 *)
(******************************************************************************)
THEOREM BitsAreCounted == BitarraySpec => []CountsAgree
<1>1. BytesThere => CountsAgree
  BY SameCount DEF BytesThere, CountsAgree
<1>2. QED
  BY <1>1, BytesThereAlways, PTL

--------------------------------------------------------------------------------
(******************************************************************************)
(* A set of bits.                                                             *)
(******************************************************************************)

Bytes == 0 .. 255

\* The mask of a place in a byte of 8 bits.
Mask == [place \in 0 .. 7 |-> CASE place = 0 -> 128 [] place = 1 -> 64 [] place = 2 -> 32
                                [] place = 3 -> 16  [] place = 4 -> 8  [] place = 5 -> 4
                                [] place = 6 -> 2   [] OTHER -> 1]

MaskValues == {1, 2, 4, 8, 16, 32, 64, 128}

LEMMA Masks ==
  /\ \A place \in 0 .. 7 : 2 ^ (8 - 1 - place) = Mask[place] /\ Mask[place] \in MaskValues
  /\ \A p, q \in 0 .. 7 : Mask[p] = Mask[q] => p = q
<1>1. /\ 2 ^ 0 = 1 /\ 2 ^ 1 = 2 /\ 2 ^ 2 = 4 /\ 2 ^ 3 = 8
      /\ 2 ^ 4 = 16 /\ 2 ^ 5 = 32 /\ 2 ^ 6 = 64 /\ 2 ^ 7 = 128
  OBVIOUS
<1>2. 0 .. 7 = {0, 1, 2, 3, 4, 5, 6, 7}
  OBVIOUS
<1> DEFINE power == [k \in 0 .. 7 |-> 2 ^ k]
<1>3. /\ power[0] = 1 /\ power[1] = 2 /\ power[2] = 4 /\ power[3] = 8
      /\ power[4] = 16 /\ power[5] = 32 /\ power[6] = 64 /\ power[7] = 128
      /\ \A k \in 0 .. 7 : 2 ^ k = power[k]
  BY <1>1
<1> HIDE DEF power
<1>4. /\ Mask[0] = 128 /\ Mask[1] = 64 /\ Mask[2] = 32 /\ Mask[3] = 16
      /\ Mask[4] = 8 /\ Mask[5] = 4 /\ Mask[6] = 2 /\ Mask[7] = 1
  BY DEF Mask
<1>5. ASSUME NEW place \in 0 .. 7
      PROVE  2 ^ (8 - 1 - place) = Mask[place] /\ Mask[place] \in MaskValues
  <2>1. 8 - 1 - place \in 0 .. 7
    OBVIOUS
  <2>2. 2 ^ (8 - 1 - place) = power[8 - 1 - place]
    BY <1>3, <2>1
  <2>3. power[8 - 1 - place] = Mask[place] /\ Mask[place] \in MaskValues
    BY <1>2, <1>3, <1>4 DEF MaskValues
  <2>4. QED
    BY <2>2, <2>3
<1>6. ASSUME NEW p \in 0 .. 7, NEW q \in 0 .. 7, Mask[p] = Mask[q] PROVE p = q
  BY <1>2, <1>4, <1>6
<1>7. QED
  BY <1>5, <1>6

\* Adding a mask whose bit is not set sets that bit and no other.
LEMMA AddMask ==
  ASSUME NEW b \in Bytes, NEW m \in MaskValues, ~ Masked(b, m)
  PROVE  /\ b + m \in Bytes
         /\ \A n \in MaskValues : Masked(b + m, n) <=> n = m \/ Masked(b, n)
<1>1. CASE m = 1   BY <1>1 DEF Bytes, MaskValues, Masked
<1>2. CASE m = 2   BY <1>2 DEF Bytes, MaskValues, Masked
<1>3. CASE m = 4   BY <1>3 DEF Bytes, MaskValues, Masked
<1>4. CASE m = 8   BY <1>4 DEF Bytes, MaskValues, Masked
<1>5. CASE m = 16  BY <1>5 DEF Bytes, MaskValues, Masked
<1>6. CASE m = 32  BY <1>6 DEF Bytes, MaskValues, Masked
<1>7. CASE m = 64  BY <1>7 DEF Bytes, MaskValues, Masked
<1>8. CASE m = 128 BY <1>8 DEF Bytes, MaskValues, Masked
<1>9. QED
  BY <1>1, <1>2, <1>3, <1>4, <1>5, <1>6, <1>7, <1>8 DEF MaskValues

\* Taking a mask whose bit is set away clears that bit and no other.
LEMMA TakeMask ==
  ASSUME NEW b \in Bytes, NEW m \in MaskValues, Masked(b, m)
  PROVE  /\ b - m \in Bytes
         /\ \A n \in MaskValues : Masked(b - m, n) <=> n # m /\ Masked(b, n)
<1>1. CASE m = 1   BY <1>1 DEF Bytes, MaskValues, Masked
<1>2. CASE m = 2   BY <1>2 DEF Bytes, MaskValues, Masked
<1>3. CASE m = 4   BY <1>3 DEF Bytes, MaskValues, Masked
<1>4. CASE m = 8   BY <1>4 DEF Bytes, MaskValues, Masked
<1>5. CASE m = 16  BY <1>5 DEF Bytes, MaskValues, Masked
<1>6. CASE m = 32  BY <1>6 DEF Bytes, MaskValues, Masked
<1>7. CASE m = 64  BY <1>7 DEF Bytes, MaskValues, Masked
<1>8. CASE m = 128 BY <1>8 DEF Bytes, MaskValues, Masked
<1>9. QED
  BY <1>1, <1>2, <1>3, <1>4, <1>5, <1>6, <1>7, <1>8 DEF MaskValues

ByteArray == bytes \in [0 .. Size - 1 -> Bytes] /\ answer \in BOOLEAN

\* The mask of a bit, which no other bit of its byte has.
LEMMA MaskOfBit ==
  ASSUME CharBit = 8, NEW bit \in Bits
  PROVE  /\ BIT_IN_CHAR(bit) \in MaskValues
         /\ \A other \in Bits :
              BIT_CHAR(other) = BIT_CHAR(bit) /\ BIT_IN_CHAR(other) = BIT_IN_CHAR(bit)
                => other = bit
<1>1. ASSUME NEW b \in Bits
      PROVE  /\ b % 8 \in 0 .. 7 /\ BIT_IN_CHAR(b) = Mask[b % 8]
             /\ b = BIT_CHAR(b) * 8 + (b % 8)
  <2>1. /\ b % 8 \in 0 .. 7 /\ b = BIT_CHAR(b) * 8 + (b % 8)
    BY WhereABitIs
  <2>2. BIT_IN_CHAR(b) = 2 ^ (8 - 1 - (b % 8))
    BY DEF BIT_IN_CHAR
  <2>3. QED
    BY <2>1, <2>2, Masks
<1>2. BIT_IN_CHAR(bit) \in MaskValues
  BY <1>1, Masks
<1>3. ASSUME NEW other \in Bits, BIT_CHAR(other) = BIT_CHAR(bit),
             BIT_IN_CHAR(other) = BIT_IN_CHAR(bit)
      PROVE  other = bit
  <2>1. other % 8 = bit % 8
    BY <1>1, <1>3, Masks
  <2>2. other = BIT_CHAR(other) * 8 + (other % 8) /\ bit = BIT_CHAR(bit) * 8 + (bit % 8)
    BY <1>1
  <2>3. QED
    BY <1>3, <2>1, <2>2
<1>4. QED
  BY <1>2, <1>3

LEMMA RangeOfRequests ==
  ASSUME NEW bit \in Requests
  PROVE  InRange(bit) <=> bit \in Bits
<1>1. bit \in Nat /\ bitarray_get_max_bit \in Nat
  BY BitarrayAssumption DEF bitarray_get_max_bit
<1>2. QED
  BY <1>1 DEF InRange, Bits

(******************************************************************************)
(* What an array tells of its bits once one byte of it is another.            *)
(******************************************************************************)
LEMMA MarkedInPart ==
  ASSUME CharBit = 8, ByteArray, NEW bit \in Bits, NEW v \in Bytes,
         bytes' = [bytes EXCEPT ![BIT_CHAR(bit)] = v]
  PROVE  /\ bytes' \in [0 .. Size - 1 -> Bytes]
         /\ \A other \in Bits :
              other \in Marked' <=>
                IF BIT_CHAR(other) = BIT_CHAR(bit) THEN Masked(v, BIT_IN_CHAR(other))
                ELSE other \in Marked
<1>1. \A other \in Bits : BIT_CHAR(other) \in 0 .. Size - 1
  BY WhereABitIs
<1>2. bytes' \in [0 .. Size - 1 -> Bytes]
  BY DEF ByteArray
<1>3. ASSUME NEW other \in Bits
      PROVE  bytes'[BIT_CHAR(other)] = IF BIT_CHAR(other) = BIT_CHAR(bit) THEN v
                                       ELSE bytes[BIT_CHAR(other)]
  BY <1>1 DEF ByteArray
<1>4. ASSUME NEW other \in Bits
      PROVE  /\ other \in Marked' <=> Masked(bytes'[BIT_CHAR(other)], BIT_IN_CHAR(other))
             /\ other \in Marked <=> Masked(bytes[BIT_CHAR(other)], BIT_IN_CHAR(other))
  BY DEF Marked, bitarray_test_bit, Bits, bitarray_get_max_bit, BIT_CHAR, BIT_IN_CHAR
<1>5. QED
  BY <1>2, <1>3, <1>4

LEMMA SameBits ==
  ASSUME UNCHANGED bytes
  PROVE  Marked' = Marked
BY DEF Marked, bitarray_test_bit, Bits, bitarray_get_max_bit, BIT_CHAR, BIT_IN_CHAR

LEMMA SetsBit ==
  ASSUME CharBit = 8, ByteArray, NEW bit \in Requests,
         bitarray_set_bit(bit)
  PROVE  ByteArray' /\ AsSet!Set(bit)
<1>1. InRange(bit) <=> bit \in Bits
  BY RangeOfRequests
<1>2. CASE InRange(bit) /\ ~ bitarray_test_bit(bit)
  <2> DEFINE b == bytes[BIT_CHAR(bit)]
             m == BIT_IN_CHAR(bit)
             v == b + m
  <2>1. bit \in Bits /\ b \in Bytes /\ m \in MaskValues /\ ~ Masked(b, m)
    BY <1>1, <1>2, WhereABitIs, MaskOfBit DEF ByteArray, bitarray_test_bit
  <2>2. bytes' = [bytes EXCEPT ![BIT_CHAR(bit)] = v] /\ UNCHANGED answer
    BY <1>2 DEF bitarray_set_bit
  <2>3. /\ v \in Bytes
        /\ \A n \in MaskValues : Masked(v, n) <=> n = m \/ Masked(b, n)
    BY <2>1, AddMask
  <2> HIDE DEF v
  <2>4. /\ bytes' \in [0 .. Size - 1 -> Bytes]
        /\ \A other \in Bits :
             other \in Marked' <=>
               IF BIT_CHAR(other) = BIT_CHAR(bit) THEN Masked(v, BIT_IN_CHAR(other))
               ELSE other \in Marked
    BY <2>1, <2>2, <2>3, MarkedInPart
  <2>5. ASSUME NEW other \in Bits
        PROVE  other \in Marked' <=> other = bit \/ other \in Marked
    <3>1. BIT_IN_CHAR(other) \in MaskValues
      BY MaskOfBit
    <3>2. CASE BIT_CHAR(other) = BIT_CHAR(bit)
      <4>1. other \in Marked' <=> BIT_IN_CHAR(other) = m \/ Masked(b, BIT_IN_CHAR(other))
        BY <2>3, <2>4, <3>1, <3>2
      <4>2. BIT_IN_CHAR(other) = m <=> other = bit
        BY <2>1, <3>2, MaskOfBit
      <4>3. other \in Marked <=> Masked(b, BIT_IN_CHAR(other))
        BY <3>2 DEF Marked, bitarray_test_bit
      <4>4. QED
        BY <4>1, <4>2, <4>3
    <3>3. CASE BIT_CHAR(other) # BIT_CHAR(bit)
      BY <2>4, <3>3
    <3>4. QED
      BY <3>2, <3>3
  <2>6. Marked' = Marked \cup {bit}
    <3>1. Marked \subseteq Bits /\ Marked' \subseteq Bits
      BY DEF Marked, Bits, bitarray_get_max_bit
    <3>2. QED
      BY <2>1, <2>5, <3>1
  <2>7. QED
    BY <2>1, <2>2, <2>4, <2>6 DEF ByteArray, AsSet!Set, AsSet!Bits, Bits
<1>3. CASE ~ (InRange(bit) /\ ~ bitarray_test_bit(bit))
  <2>1. UNCHANGED <<bytes, answer>>
    BY <1>3 DEF bitarray_set_bit
  <2>2. Marked' = Marked
    BY <2>1, SameBits
  <2>3. Marked = Marked \cup ({bit} \cap Bits)
    BY <1>1, <1>3 DEF Marked
  <2>4. QED
    BY <2>1, <2>2, <2>3 DEF ByteArray, AsSet!Set, AsSet!Bits, Bits
<1>4. QED
  BY <1>2, <1>3

LEMMA CleansBit ==
  ASSUME CharBit = 8, ByteArray, NEW bit \in Requests,
         bitarray_clean_bit(bit)
  PROVE  ByteArray' /\ AsSet!Clean(bit)
<1>1. InRange(bit) <=> bit \in Bits
  BY RangeOfRequests
<1>2. CASE InRange(bit) /\ bitarray_test_bit(bit)
  <2> DEFINE b == bytes[BIT_CHAR(bit)]
             m == BIT_IN_CHAR(bit)
             v == b - m
  <2>1. bit \in Bits /\ b \in Bytes /\ m \in MaskValues /\ Masked(b, m)
    BY <1>1, <1>2, WhereABitIs, MaskOfBit DEF ByteArray, bitarray_test_bit
  <2>2. bytes' = [bytes EXCEPT ![BIT_CHAR(bit)] = v] /\ UNCHANGED answer
    BY <1>2 DEF bitarray_clean_bit
  <2>3. /\ v \in Bytes
        /\ \A n \in MaskValues : Masked(v, n) <=> n # m /\ Masked(b, n)
    BY <2>1, TakeMask
  <2> HIDE DEF v
  <2>4. /\ bytes' \in [0 .. Size - 1 -> Bytes]
        /\ \A other \in Bits :
             other \in Marked' <=>
               IF BIT_CHAR(other) = BIT_CHAR(bit) THEN Masked(v, BIT_IN_CHAR(other))
               ELSE other \in Marked
    BY <2>1, <2>2, <2>3, MarkedInPart
  <2>5. ASSUME NEW other \in Bits
        PROVE  other \in Marked' <=> other # bit /\ other \in Marked
    <3>1. BIT_IN_CHAR(other) \in MaskValues
      BY MaskOfBit
    <3>2. CASE BIT_CHAR(other) = BIT_CHAR(bit)
      <4>1. other \in Marked' <=> BIT_IN_CHAR(other) # m /\ Masked(b, BIT_IN_CHAR(other))
        BY <2>3, <2>4, <3>1, <3>2
      <4>2. BIT_IN_CHAR(other) = m <=> other = bit
        BY <2>1, <3>2, MaskOfBit
      <4>3. other \in Marked <=> Masked(b, BIT_IN_CHAR(other))
        BY <3>2 DEF Marked, bitarray_test_bit
      <4>4. QED
        BY <4>1, <4>2, <4>3
    <3>3. CASE BIT_CHAR(other) # BIT_CHAR(bit)
      BY <2>4, <3>3
    <3>4. QED
      BY <3>2, <3>3
  <2>6. Marked' = Marked \ {bit}
    <3>1. Marked \subseteq Bits /\ Marked' \subseteq Bits
      BY DEF Marked, Bits, bitarray_get_max_bit
    <3>2. QED
      BY <2>5, <3>1
  <2>7. QED
    BY <2>2, <2>4, <2>6 DEF ByteArray, AsSet!Clean
<1>3. CASE ~ (InRange(bit) /\ bitarray_test_bit(bit))
  <2>1. UNCHANGED <<bytes, answer>>
    BY <1>3 DEF bitarray_clean_bit
  <2>2. Marked' = Marked
    BY <2>1, SameBits
  <2>3. Marked = Marked \ {bit}
    BY <1>1, <1>3 DEF Marked
  <2>4. QED
    BY <2>1, <2>2, <2>3 DEF ByteArray, AsSet!Clean
<1>4. QED
  BY <1>2, <1>3

LEMMA TestsBit ==
  ASSUME ByteArray, NEW bit \in Requests, Test(bit)
  PROVE  ByteArray' /\ AsSet!Test(bit)
<1>1. bit \in Bits
  BY RangeOfRequests DEF Test
<1>2. answer' = (bit \in Marked) /\ UNCHANGED bytes
  <2>1. bitarray_test_bit(bit) = (bit \in Marked)
    BY <1>1 DEF Marked, bitarray_test_bit, Masked
  <2>2. QED
    BY <2>1 DEF Test
<1>3. answer' \in BOOLEAN
  BY <1>2
<1>4. Marked' = Marked
  BY <1>2, SameBits
<1>5. ByteArray'
  BY <1>2, <1>3 DEF ByteArray
<1>6. QED
  BY <1>1, <1>2, <1>4, <1>5 DEF AsSet!Test, AsSet!Bits, Bits

LEMMA InitBitSet ==
  ASSUME CharBit = 8, bitarray_create
  PROVE  ByteArray /\ AsSet!Init
<1>1. (2 ^ 8) - 1 = 255
  OBVIOUS
<1>2. ByteArray
  BY <1>1 DEF bitarray_create, ByteArray, Bytes
<1>3. AsSet!Init
  BY DEF bitarray_create, AsSet!Init, AsSet!Bits, Marked, Bits
<1>4. QED
  BY <1>2, <1>3

LEMMA NextBitSet ==
  ASSUME CharBit = 8, ByteArray, [BitarrayNext]_byteVars
  PROVE  ByteArray' /\ [AsSet!Next]_<<Marked, answer>>
<1>1. ASSUME NEW bit \in Requests, bitarray_set_bit(bit)
      PROVE  ByteArray' /\ AsSet!Next
  BY <1>1, SetsBit DEF AsSet!Next
<1>2. ASSUME NEW bit \in Requests, bitarray_clean_bit(bit)
      PROVE  ByteArray' /\ AsSet!Next
  BY <1>2, CleansBit DEF AsSet!Next
<1>3. ASSUME NEW bit \in Requests, Test(bit)
      PROVE  ByteArray' /\ AsSet!Next
  BY <1>3, TestsBit DEF AsSet!Next
<1>4. CASE UNCHANGED byteVars
  BY <1>4, SameBits DEF byteVars, ByteArray
<1>5. QED
  BY <1>1, <1>2, <1>3, <1>4 DEF BitarrayNext

(******************************************************************************)
(* bitarray.c implements a set of bits, for an array of any size and bytes of *)
(* 8 bits: what is set or cleaned is the bit that a test of its number sees.  *)
(******************************************************************************)
THEOREM BitArrayIsASet ==
  ASSUME CharBit = 8
  PROVE  BitarraySpec => ImplementsBitSet
<1>1. bitarray_create => ByteArray /\ AsSet!Init
  BY InitBitSet
<1>2. ByteArray /\ [BitarrayNext]_byteVars => ByteArray' /\ [AsSet!Next]_<<Marked, answer>>
  BY NextBitSet
<1>3. QED
  BY <1>1, <1>2, PTL DEF BitarraySpec, ImplementsBitSet, AsSet!Spec

================================================================================
