\* Three clusters: copies that go through a whole block in the middle.
CONSTANTS
  BlockSize = 2
  Direct = 3
  BlockCount = 4
  DataBlocks = {1, 2, 3}
  Byte = {"boot", "old", "a"}
  Payload = {"a"}
  InitialDevices <- Formatted
  MaxLength = 5
  ResizeArgs = {}
  Sparse = FALSE
SPECIFICATION Spec
INVARIANTS CopyStaysInFile CopyIsAligned PrefixWritten
