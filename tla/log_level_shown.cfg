\* The comments of log_trace and its like, against log_write_in_level.
CONSTANTS
  Threads = {t1}
  PerSecond = 2
  MaxNow = 1
  LevelNames <- TwoLevels
  Names = {"TRACE"}
  Unknown = 15
  Files = {TRUE, FALSE}
  MaxCalls = 1
  Upper <- ToUpper
  Lower <- ToLower
  Blank = {"blank"}
  Space = {"blank", "newline"}
  Separator = "slash"
  Texts <- AllTexts
  Added <- ShortTexts
  MaxText = 4
  Node = {n1}
  Data = {a}
  Null = null
  MaxLength = 1
SPECIFICATION LibrarySpec
INVARIANT ShowsLevelOfCall
