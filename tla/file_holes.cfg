\* A file with holes, resized as well as read and written.
CONSTANTS
  BlockSize = 2
  Direct = 2
  BlockCount = 3
  DataBlocks = {1, 2}
  Byte = {"boot", "old", "a"}
  Payload = {"a"}
  InitialDevices <- Formatted
  MaxLength = 3
  ResizeArgs = {0, 1, 2, 3, 4}
  Sparse = TRUE
SPECIFICATION Spec
INVARIANT NoSharing
PROPERTIES OtherBlocksKept EveryCallEnds
