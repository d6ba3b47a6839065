\* Requests in numbers of four bits, with offsets of the kernel of five.
CONSTANTS
  Superblocks <- SomeSuperblocks
  Magic = "ext2"
  Uint16Width = 128
  Stray <- SomeStray
  Level <- Levels
  EntriesPerBlock = 2
  BlockCount = 16
  Inodes <- SomeInodes
  Devices <- SomeDevices
  Entries = {0, 1, 2, 3, 4, 5, 6, 7, 8, 9, 10, 11, 12, 13, 14, 15, 16, 17, 18, 19}
  BlockSize = 2
  Width = 16
  Sizes = {0, 1, 5, 14, 15}
  Offsets = {0, 1, 2, 3, 4, 5, 6, 7, 8, 12, 13, 14, 15, 16, 17, 20, 29, 30, 31}
  Lengths = {0, 1, 2, 3, 4, 5, 6, 15}
  Root = 2
  Trees <- SomeTrees
  DirBlockSize = 4
  SectorsPerBlock = 2
  Paths <- SomePaths
SPECIFICATION ServerSpec
INVARIANTS
  GroupsWhereTheyAre  WholeGroupsNeverFault
  DirectoryTypeOK   ListingIsComplete
  WhereEntriesLead AnswerFitsBuffer RightBytes
PROPERTIES LookupEnds WritesNeverShrink
