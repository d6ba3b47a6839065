------------------------------- MODULE Bitarray --------------------------------
(******************************************************************************)
(* The bit array of bitarray.c, laid over the bytes of a bitmap block of the  *)
(* image.  A byte is the number it holds, so that masks are arithmetic.  The  *)
(* first bit of a byte is its highest one (BIT_IN_CHAR), while ext2 counts    *)
(* the bits of its bitmaps from the lowest: OnDisk is how the volume was      *)
(* written.                                                                   *)
(******************************************************************************)
EXTENDS Integers, FiniteSets

CONSTANTS
  CharBit,        \* CHAR_BIT
  Size,           \* bytes in the array: the block size of the image
  Requests        \* the bits asked for, some of them beyond the end

ASSUME BitarrayAssumption ==
  CharBit \in Nat \ {0} /\ Size \in Nat /\ Requests \subseteq Nat

VARIABLES bytes, answer

byteVars == <<bytes, answer>>

BIT_CHAR(bit) == bit \div CharBit

\* Mutated form: the first bit of a byte is taken to be beyond its highest one.
BIT_IN_CHAR_shifted(bit) == 2 ^ (CharBit - (bit % CharBit))

BIT_IN_CHAR(bit) == 2 ^ (CharBit - 1 - (bit % CharBit))

bitarray_get_max_bit == Size * CharBit

\* A bit of a byte is seen through its mask.
Masked(byte, mask) == (byte \div mask) % 2 = 1

bitarray_test_bit(bit) == Masked(bytes[BIT_CHAR(bit)], BIT_IN_CHAR(bit))

(******************************************************************************)
(* bitarray_create takes the bytes of the image as they are.                  *)
(******************************************************************************)
bitarray_create ==
  /\ bytes \in [0 .. Size - 1 -> 0 .. (2 ^ CharBit) - 1]
  /\ answer = FALSE

(******************************************************************************)
(* Or-ing the mask adds it unless the bit is set, and and-ing its complement  *)
(* takes it away if it is; a bit out of range is let alone by both.           *)
(******************************************************************************)
InRange(bit) == bit < bitarray_get_max_bit

\* Mutated form: setting adds the mask to a byte that may hold it already.
SetBitTwice(bit) ==
  /\ bytes' = IF InRange(bit)
              THEN [bytes EXCEPT ![BIT_CHAR(bit)] = (@ + BIT_IN_CHAR(bit)) % (2 ^ CharBit)]
              ELSE bytes
  /\ UNCHANGED answer

bitarray_set_bit(bit) ==
  /\ bytes' = IF InRange(bit) /\ ~ bitarray_test_bit(bit)
              THEN [bytes EXCEPT ![BIT_CHAR(bit)] = @ + BIT_IN_CHAR(bit)]
              ELSE bytes
  /\ UNCHANGED answer

bitarray_clean_bit(bit) ==
  /\ bytes' = IF InRange(bit) /\ bitarray_test_bit(bit)
              THEN [bytes EXCEPT ![BIT_CHAR(bit)] = @ - BIT_IN_CHAR(bit)]
              ELSE bytes
  /\ UNCHANGED answer

\* bitarray_test_bit does not look at the range: its caller asks below max_bit.
Test(bit) ==
  /\ InRange(bit)
  /\ answer' = bitarray_test_bit(bit)
  /\ UNCHANGED bytes

BitarrayNext ==
  \E bit \in Requests : bitarray_set_bit(bit) \/ bitarray_clean_bit(bit) \/ Test(bit)

BitarraySpec == bitarray_create /\ [][BitarrayNext]_byteVars

--------------------------------------------------------------------------------
Bits == 0 .. bitarray_get_max_bit - 1

Marked == {bit \in Bits : bitarray_test_bit(bit)}

AsSet == INSTANCE BitSet WITH marked <- Marked, Bound <- bitarray_get_max_bit

(******************************************************************************)
(* bitarray.c implements a set of bits: a set or a clean reaches the bit that *)
(* a test of the same number sees and no other, in the same byte or another,  *)
(* and what it does to a bit that is already so, or out of range, is nothing. *)
(******************************************************************************)
ImplementsBitSet == AsSet!Spec

OnDisk == {bit \in Bits : Masked(bytes[BIT_CHAR(bit)], 2 ^ (bit % CharBit))}

In(byte, bits) == {bit \in bits : BIT_CHAR(bit) = byte}

(******************************************************************************)
(* The blocks seen as used are not the blocks that are, but within each byte  *)
(* of the bitmap there are as many: a search counts right, and what it names  *)
(* is within CHAR_BIT blocks of what the volume means.                        *)
(******************************************************************************)
CountsAgree ==
  \A byte \in DOMAIN bytes :
     Cardinality(In(byte, Marked)) = Cardinality(In(byte, OnDisk))
================================================================================
