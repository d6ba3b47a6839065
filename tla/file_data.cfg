\* A file without holes, written and read with crashes.
CONSTANTS
  BlockSize = 2
  Direct = 2
  BlockCount = 4
  DataBlocks = {1, 2, 3}
  Byte = {"boot", "old", "a", "b"}
  Payload = {"a", "b"}
  InitialDevices <- Formatted
  MaxLength = 3
  ResizeArgs = {}
  Sparse = FALSE
SPECIFICATION Spec
INVARIANTS TypeOK NoHole
PROPERTIES BootBlockKept ImplementsFileContent
