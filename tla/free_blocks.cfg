\* Six groups of two bits: two neighbours on each side, or the volume's end one
\* or two groups away, and numbers of groups of three bits.  An array of two bytes
\* of three bits, and requests up to two bits beyond them.
CONSTANTS
  Groups = 6
  Superblocks <- SomeSuperblocks
  Uint16Width = 8
  BitmapBits = {0, 1}
  Starts = {1, 2, 3, 4}
  Amounts = {0, 2, 5}
  CharBit = 3
  Size = 2
  Requests = {0, 1, 2, 3, 4, 5, 6, 7}
SPECIFICATION FreeBlocksSpec
INVARIANTS CountsAgree GivenAreTheSetBits NearestFirst 
PROPERTY ImplementsBitSet
