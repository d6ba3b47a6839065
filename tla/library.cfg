\* Two threads, two calls each, a clock that goes round a second; "verbose" is no
\* level.  Lists of up to three elements.
CONSTANTS
  Threads = {t1, t2}
  PerSecond = 2
  MaxNow = 2
  LevelNames <- TwoLevels
  Names = {"ERROR", "verbose"}
  Unknown = 15
  Files = {TRUE, FALSE}
  MaxCalls = 2
  Upper <- ToUpper
  Lower <- ToLower
  Blank = {"blank"}
  Space = {"blank", "newline"}
  Separator = "slash"
  Texts <- AllTexts
  Added <- ShortTexts
  MaxText = 4
  Node = {n1, n2, n3}
  Data = {a, b}
  Null = null
  MaxLength = 3
SPECIFICATION LibrarySpec
INVARIANTS
  EnabledCallsAreWritten ConsoleIsInFile NeverASecondAhead LoopsMeetDefinitions
  WalksAgree NothingLost
PROPERTY ImplementsSequence
