------------------------------- MODULE LogProofs -------------------------------
(******************************************************************************)
(* The logger and its stamps, for any number of threads and calls: a stamp is *)
(* never a whole second ahead of the clock, a line on the console is in the   *)
(* file, and the enabled calls of each thread are in both.                    *)
(*                                                                            *)
(* None is inductive.  StampInv adds that every second that may get into a    *)
(* stamp has begun, that of the shared buffer included; LogInv adds that a    *)
(* thread between its two prints has its line in the file, and that the line  *)
(* does not change under it, since the stamp is no longer worked on; LinesInv *)
(* says which lines a sink has while calls are in progress.                   *)
(******************************************************************************)
EXTENDS Log, SequenceTheorems, TLAPS

Places == {"out", "time", "localtime", "ftime", "format", "back"}

StampType ==
  /\ now \in Nat /\ tm \in Int
  /\ at \in [Threads -> Places]
  /\ log_time \in [Threads -> Int]
  /\ millitm \in [Threads -> 0 .. PerSecond - 1]
  /\ time_string \in [Threads -> Int]

StampInv ==
  /\ StampType
  /\ tm * PerSecond <= now
  /\ \A t \in Threads : log_time[t] * PerSecond <= now
  /\ \A t \in Threads : time_string[t] < now + PerSecond

Lines ==
  [thread : Threads, call : Nat, shown : {log_level_as_string(l) : l \in Nat}, time : Int]

LogType ==
  /\ logger \in {"none", "open", "destroyed", "fault"}
  /\ has_file \in BOOLEAN /\ is_active_console \in BOOLEAN /\ detail \in Nat
  /\ pc \in [Threads -> {"out", "stamp", "file", "console"}]
  /\ calls \in [Threads -> Seq(Levels)]
  /\ file \in Seq(Lines) /\ console \in Seq(Lines)

LogInv ==
  /\ StampInv
  /\ LogType
  /\ logger = "none" => console = <<>> /\ \A t \in Threads : pc[t] = "out"
  /\ \A t \in Threads : at[t] # "out" => pc[t] = "stamp"
  /\ has_file => \A t \in Threads : pc[t] = "console" => Line(t) \in Range(file)
  /\ ConsoleIsInFile

--------------------------------------------------------------------------------
\* The second that is read has begun, and the milliseconds are of a second.
LEMMA SecondHasBegun ==
  ASSUME NEW n \in Nat
  PROVE  /\ n \div PerSecond \in Int /\ (n \div PerSecond) * PerSecond <= n
         /\ n % PerSecond \in 0 .. PerSecond - 1
<1>1. PerSecond \in Nat /\ PerSecond > 0
  BY PerSecondAssumption
<1>2. n % PerSecond \in 0 .. PerSecond - 1 /\ n \div PerSecond \in Int
  BY <1>1
<1>3. n = PerSecond * (n \div PerSecond) + (n % PerSecond)
  BY <1>1
<1>4. QED
  BY <1>1, <1>2, <1>3

\* A step of a stamp keeps what is known of stamps.
LEMMA StampKeeps ==
  ASSUME StampInv, NEW t \in Threads, Stamp(t)
  PROVE  StampInv'
<1>1. PerSecond \in Nat /\ PerSecond > 0
  BY PerSecondAssumption
<1>2. CASE Fails(t)
  BY <1>1, <1>2 DEF Fails, StampInv, StampType, Places, clockVars, NoStamp
<1>3. CASE ReadSeconds(t)
  <2>1. Seconds \in Int /\ Seconds * PerSecond <= now
    BY SecondHasBegun DEF StampInv, StampType, Seconds
  <2>2. QED
    BY <1>1, <1>3, <2>1 DEF ReadSeconds, Goes, StampInv, StampType, Places, clockVars
<1>4. CASE Localtime(t)
  BY <1>1, <1>4 DEF Localtime, Goes, StampInv, StampType, Places
<1>5. CASE ReadMilliseconds(t)
  <2>1. now % PerSecond \in 0 .. PerSecond - 1
    BY SecondHasBegun DEF StampInv, StampType
  <2>2. QED
    BY <1>1, <1>5, <2>1
       DEF ReadMilliseconds, Goes, StampInv, StampType, Places, clockVars
<1>6. CASE Format(t)
  <2>1. tm * PerSecond \in Int
    BY <1>1 DEF StampInv, StampType
  <2>2. /\ tm * PerSecond + millitm[t] \in Int
        /\ tm * PerSecond + millitm[t] < now + PerSecond
    BY <1>1, <2>1 DEF StampInv, StampType
  <2>3. QED
    BY <1>1, <1>6, <2>2 DEF Format, Goes, StampInv, StampType, Places, clockVars
<1>7. QED
  BY <1>2, <1>3, <1>4, <1>5, <1>6 DEF Stamp

\* A level has a number, whether the name is known or not.
LEMMA LevelOfName ==
  ASSUME NEW name
  PROVE  log_level_from_string(name) \in Nat
<1>1. CASE name \in Range(LevelNames)
  <2>1. \E i \in Levels : LevelNames[i] = name
    BY <1>1 DEF Range, Levels
  <2>2. log_level_from_string(name) \in Levels
    BY <1>1, <2>1 DEF log_level_from_string
  <2>3. Levels \subseteq Nat
    BY LevelsAssumption DEF Levels
  <2>4. QED
    BY <2>2, <2>3
<1>2. CASE name \notin Range(LevelNames)
  BY <1>2, LevelsAssumption DEF log_level_from_string
<1>3. QED
  BY <1>1, <1>2

LEMMA LineIsLine ==
  ASSUME LogInv, NEW t \in Threads
  PROVE  Line(t) \in Lines
<1>1. Len(calls[t]) \in Nat
  BY LenProperties DEF LogInv, LogType
<1>2. log_level_as_string(detail) \in {log_level_as_string(l) : l \in Nat}
  BY DEF LogInv, LogType
<1>3. time_string[t] \in Int
  BY DEF LogInv, StampInv, StampType
<1>4. QED
  BY <1>1, <1>2, <1>3 DEF Line, Lines

\* What is appended is in the sequence, with all that was.
LEMMA RangeOfAppend ==
  ASSUME NEW S, NEW s \in Seq(S), NEW e \in S
  PROVE  Range(Append(s, e)) = Range(s) \cup {e}
<1>1. /\ DOMAIN s = 1 .. Len(s) /\ Len(s) \in Nat
      /\ DOMAIN Append(s, e) = 1 .. Len(s) + 1
      /\ \A i \in 1 .. Len(s) : Append(s, e)[i] = s[i]
      /\ Append(s, e)[Len(s) + 1] = e
  BY AppendProperties, LenProperties
<1>2. 1 .. Len(s) + 1 = 1 .. Len(s) \cup {Len(s) + 1}
  BY <1>1
<1>3. QED
  BY <1>1, <1>2, Zenon DEF Range

--------------------------------------------------------------------------------
LEMMA InitLogInv == Init => LogInv
<1> SUFFICES ASSUME Init PROVE LogInv
  OBVIOUS
<1>1. PerSecond \in Nat /\ PerSecond > 0 /\ Unknown \in Nat
  BY PerSecondAssumption, LevelsAssumption
<1>2. StampInv
  <2>1. /\ now = 0 /\ tm = 0
        /\ at = [t \in Threads |-> "out"]
        /\ log_time = [t \in Threads |-> 0]
        /\ millitm = [t \in Threads |-> 0]
        /\ time_string = [t \in Threads |-> -1]
    BY DEF Init, InitTemporal, NoStamp
  <2>2. StampType
    BY <1>1, <2>1 DEF StampType, Places
  <2>3. 0 * PerSecond <= 0 /\ -1 < 0 + PerSecond
    BY <1>1
  <2>4. QED
    BY <2>1, <2>2, <2>3 DEF StampInv
<1>3. LogType
  <2>1. <<>> \in Seq(Levels) /\ <<>> \in Seq(Lines)
    OBVIOUS
  <2>2. calls \in [Threads -> Seq(Levels)]
    BY <2>1 DEF Init
  <2>3. pc \in [Threads -> {"out", "stamp", "file", "console"}]
    BY DEF Init
  <2>4. QED
    BY <1>1, <2>1, <2>2, <2>3, Zenon DEF Init, LogType
<1>4. Range(console) = {}
  BY DEF Init, Range
<1>5. QED
  BY <1>2, <1>3, <1>4 DEF Init, InitTemporal, LogInv, ConsoleIsInFile

LEMMA CreateKeeps == LogInv /\ log_create => LogInv'
<1> SUFFICES ASSUME LogInv, log_create PROVE LogInv'
  OBVIOUS
<1>1. StampInv'
  BY DEF log_create, clockVars, stampVars, gained, LogInv, StampInv, StampType
<1>2. LogType'
  <2>1. logger' \in {"none", "open"} /\ has_file' \in BOOLEAN /\ is_active_console' \in BOOLEAN
    BY FilesAssumption DEF log_create, setting, LogInv, LogType
  <2>2. detail' \in Nat
    BY LevelOfName DEF log_create, setting, LogInv, LogType
  <2>3. QED
    BY <2>1, <2>2 DEF log_create, sinks, LogInv, LogType
<1>3. console' = <<>> /\ \A t \in Threads : pc'[t] = "out"
  BY DEF log_create, sinks, LogInv
<1>4. Range(console') = {}
  BY <1>3 DEF Range
<1>5. QED
  BY <1>1, <1>2, <1>3, <1>4
     DEF log_create, stampVars, LogInv, ConsoleIsInFile

LEMMA CallKeeps ==
  ASSUME LogInv, NEW t \in Threads, NEW l \in Levels, log_in_level(t, l)
  PROVE  LogInv'
<1>1. /\ StampInv'
      /\ \A u \in Threads : at'[u] # "out" => pc'[u] = "stamp"
  BY DEF log_in_level, Enter, Goes, clockVars, stampVars, gained, LogInv, StampInv,
         StampType, Places, LogType
<1>2. LogType'
  <2>1. calls' \in [Threads -> Seq(Levels)]
    BY AppendProperties DEF log_in_level, LogInv, LogType
  <2>2. QED
    BY <2>1 DEF log_in_level, setting, sinks, LogInv, LogType
<1>3. \A u \in Threads : pc'[u] = "console" => pc[u] = "console" /\ Line(u)' = Line(u)
  BY DEF log_in_level, Enter, setting, gained, stampVars, Line, LogInv, LogType,
         log_level_as_string
<1>4. QED
  BY <1>1, <1>2, <1>3 DEF log_in_level, setting, sinks, LogInv, ConsoleIsInFile

LEMMA StampLineKeeps ==
  ASSUME LogInv, NEW t \in Threads, StampLine(t)
  PROVE  LogInv'
<1>1. StampInv'
  BY StampKeeps DEF StampLine, LogInv
<1>2. LogType'
  BY DEF StampLine, setting, sinks, LogInv, LogType
<1>3. \A u \in Threads : u # t => at'[u] = at[u] /\ time_string'[u] = time_string[u]
  BY DEF StampLine, Stamp, Fails, ReadSeconds, Localtime, ReadMilliseconds, Format,
         Goes, LogInv, StampInv, StampType
<1>4. \A u \in Threads : pc'[u] = "console" => Line(u)' = Line(u)
  BY <1>3 DEF StampLine, setting, Line, log_level_as_string
<1>5. QED
  BY <1>1, <1>2, <1>3, <1>4 DEF StampLine, setting, sinks, LogInv, ConsoleIsInFile

LEMMA TakeStampKeeps ==
  ASSUME LogInv, NEW t \in Threads, TakeStamp(t)
  PROVE  LogInv'
<1>1. StampInv'
  BY DEF TakeStamp, Leave, Goes, clockVars, gained, LogInv, StampInv, StampType, Places
<1>2. LogType'
  BY DEF TakeStamp, setting, sinks, LogInv, LogType
<1>3. \A u \in Threads : at'[u] # "out" => pc'[u] = "stamp"
  BY DEF TakeStamp, Leave, Goes, LogInv, LogType, StampInv, StampType
<1>4. \A u \in Threads : pc'[u] = "console" => pc[u] = "console" /\ Line(u)' = Line(u)
  BY DEF TakeStamp, Leave, setting, gained, Line, log_level_as_string, LogInv, LogType
<1>5. logger' = "none" => FALSE
  BY DEF TakeStamp, setting, LogInv
<1>6. QED
  BY <1>1, <1>2, <1>3, <1>4, <1>5 DEF TakeStamp, setting, sinks, LogInv, ConsoleIsInFile

LEMMA WriteFileKeeps ==
  ASSUME LogInv, NEW t \in Threads, WriteFile(t)
  PROVE  LogInv'
<1>1. StampInv'
  BY DEF WriteFile, clockVars, stampVars, gained, LogInv, StampInv, StampType
<1>2. LogType'
  BY LineIsLine, AppendProperties DEF WriteFile, setting, LogInv, LogType
<1>3. has_file => Range(file') = Range(file) \cup {Line(t)}
  BY LineIsLine, RangeOfAppend DEF WriteFile, LogInv, LogType
<1>4. \A u \in Threads : Line(u)' = Line(u)
  BY DEF WriteFile, setting, stampVars, gained, Line, log_level_as_string
<1>5. \A u \in Threads : pc'[u] = IF u = t THEN "console" ELSE pc[u]
  BY DEF WriteFile, LogInv, LogType
<1>6. \A u \in Threads : at'[u] # "out" => pc'[u] = "stamp"
  BY <1>5 DEF WriteFile, stampVars, LogInv
<1>7. QED
  BY <1>1, <1>2, <1>3, <1>4, <1>5, <1>6 DEF WriteFile, setting, LogInv, ConsoleIsInFile

LEMMA WriteConsoleKeeps ==
  ASSUME LogInv, NEW t \in Threads, WriteConsole(t)
  PROVE  LogInv'
<1>1. StampInv'
  BY DEF WriteConsole, clockVars, stampVars, gained, LogInv, StampInv, StampType
<1>2. LogType'
  BY LineIsLine, AppendProperties DEF WriteConsole, setting, LogInv, LogType
<1>3. Range(console') \subseteq Range(console) \cup {Line(t)}
  BY LineIsLine, RangeOfAppend DEF WriteConsole, LogInv, LogType
<1>4. has_file => Line(t) \in Range(file)
  BY DEF WriteConsole, LogInv
<1>5. ConsoleIsInFile'
  BY <1>3, <1>4 DEF WriteConsole, setting, LogInv, ConsoleIsInFile
<1>6. \A u \in Threads : Line(u)' = Line(u)
  BY DEF WriteConsole, setting, stampVars, gained, Line, log_level_as_string
<1>7. \A u \in Threads : pc'[u] = IF u = t THEN "out" ELSE pc[u]
  BY DEF WriteConsole, LogInv, LogType
<1>8. /\ logger' # "none"
      /\ \A u \in Threads : at'[u] # "out" => pc'[u] = "stamp"
  BY <1>7 DEF WriteConsole, setting, stampVars, LogInv
<1>9. QED
  BY <1>1, <1>2, <1>5, <1>6, <1>7, <1>8 DEF WriteConsole, setting, LogInv

LEMMA NextLogInv == LogInv /\ [Next]_vars => LogInv'
<1> SUFFICES ASSUME LogInv, [Next]_vars PROVE LogInv'
  OBVIOUS
<1>1. CASE log_create
  BY <1>1, CreateKeeps
<1>2. CASE log_destroy
  <2>1. StampInv' /\ LogType'
    BY <1>2 DEF log_destroy, clockVars, stampVars, gained, sinks, LogInv, StampInv,
                StampType, LogType
  <2>2. QED
    BY <1>2, <2>1 DEF log_destroy, stampVars, sinks, LogInv, ConsoleIsInFile
<1>3. CASE Clock
  <2>1. StampInv'
    BY <1>3, PerSecondAssumption
       DEF Clock, Tick, stampVars, gained, LogInv, StampInv, StampType
  <2>2. LogType' /\ \A u \in Threads : Line(u)' = Line(u)
    BY <1>3 DEF Clock, Tick, setting, sinks, stampVars, gained, Line,
                log_level_as_string, LogInv, LogType
  <2>3. QED
    BY <1>3, <2>1, <2>2
       DEF Clock, Tick, setting, sinks, stampVars, LogInv, ConsoleIsInFile
<1>4. CASE Over \/ UNCHANGED vars
  <2>1. UNCHANGED vars
    BY <1>4 DEF Over
  <2>2. StampInv' /\ LogType' /\ \A u \in Threads : Line(u)' = Line(u)
    BY <2>1 DEF vars, clockVars, stampVars, gained, setting, sinks, LogInv, StampInv,
                StampType, LogType, Line, log_level_as_string
  <2>3. QED
    BY <2>1, <2>2
       DEF vars, stampVars, setting, sinks, LogInv, ConsoleIsInFile
<1>5. ASSUME NEW t \in Threads, NEW l \in Levels, log_in_level(t, l) PROVE LogInv'
  BY <1>5, CallKeeps
<1>6. ASSUME NEW t \in Threads, Write(t) PROVE LogInv'
  BY <1>6, StampLineKeeps, TakeStampKeeps, WriteFileKeeps, WriteConsoleKeeps DEF Write
<1>7. QED
  BY <1>1, <1>2, <1>3, <1>4, <1>5, <1>6 DEF Next

LEMMA LogInvAlways == Spec => []LogInv
BY InitLogInv, NextLogInv, PTL DEF Spec

--------------------------------------------------------------------------------
(******************************************************************************)
(* What the console shows is in the file already, word by word, however many  *)
(* threads are between the two prints of log_write_in_level.                  *)
(******************************************************************************)
THEOREM ConsoleFollowsFile == Spec => []ConsoleIsInFile
<1>1. LogInv => ConsoleIsInFile
  BY DEF LogInv
<1>2. QED
  BY <1>1, LogInvAlways, PTL

(******************************************************************************)
(* temporal_get_string_time never gives a stamp a whole second ahead of the   *)
(* clock, whosever second it finds in the buffer of localtime.                *)
(******************************************************************************)
THEOREM StampsAreNotAhead == Spec => []NeverASecondAhead
<1>1. LogInv => NeverASecondAhead
  BY DEF LogInv, StampInv, NeverASecondAhead
<1>2. QED
  BY <1>1, LogInvAlways, PTL
--------------------------------------------------------------------------------
(******************************************************************************)
(* The lines of the enabled calls.  While a call is in progress, its line is  *)
(* the one that a sink may not have yet.                                      *)
(******************************************************************************)

ToBeIn(t, active, waiting) ==
  IF ~active THEN {}
  ELSE IF pc[t] \in waiting THEN EnabledCalls(t) \ {Len(calls[t])} ELSE EnabledCalls(t)

LinesInv ==
  /\ LogInv
  /\ logger = "none" => file = <<>> /\ \A t \in Threads : calls[t] = <<>>
  /\ \A t \in Threads :
       /\ pc[t] # "out" => Len(calls[t]) \in EnabledCalls(t)
       /\ HasLines(file, t, ToBeIn(t, has_file, {"stamp", "file"}))
       /\ HasLines(console, t, ToBeIn(t, is_active_console, {"stamp", "file", "console"}))

\* What a sink has once a line is printed to it.
LEMMA AppendsLine ==
  ASSUME NEW sink \in Seq(Lines), NEW line \in Lines, NEW t
  PROVE  /\ CallsIn(Append(sink, line), t) =
              CallsIn(sink, t) \cup (IF line.thread = t THEN {line.call} ELSE {})
         /\ InOrder(sink, t) /\ (line.thread = t => \A c \in CallsIn(sink, t) : c < line.call)
              => InOrder(Append(sink, line), t)
<1> DEFINE more == Append(sink, line)
<1>1. /\ DOMAIN sink = 1 .. Len(sink) /\ Len(sink) \in Nat
      /\ DOMAIN more = 1 .. Len(sink) + 1
      /\ \A i \in 1 .. Len(sink) : more[i] = sink[i]
      /\ more[Len(sink) + 1] = line
  BY AppendProperties, LenProperties
<1>2. \A i \in DOMAIN more : i \in DOMAIN sink \/ i = Len(sink) + 1
  BY <1>1
<1>3. DOMAIN sink \subseteq DOMAIN more /\ Len(sink) + 1 \in DOMAIN more
  BY <1>1
<1> HIDE DEF more
<1>4. CallsIn(more, t) = CallsIn(sink, t) \cup (IF line.thread = t THEN {line.call} ELSE {})
  <2>1. ASSUME NEW c \in CallsIn(more, t)
        PROVE  c \in CallsIn(sink, t) \/ (line.thread = t /\ c = line.call)
    <3>1. PICK i \in DOMAIN more : more[i].thread = t /\ more[i].call = c
      BY <2>1 DEF CallsIn
    <3>2. QED
      BY <1>1, <1>2, <3>1 DEF CallsIn
  <2>2. ASSUME NEW c \in CallsIn(sink, t)
        PROVE  c \in CallsIn(more, t)
    <3>1. PICK i \in DOMAIN sink : sink[i].thread = t /\ sink[i].call = c
      BY <2>2 DEF CallsIn
    <3>2. more[i] = sink[i] /\ i \in DOMAIN more
      BY <1>1, <1>3
    <3>3. QED
      BY <3>1, <3>2 DEF CallsIn
  <2>3. line.thread = t => line.call \in CallsIn(more, t)
    BY <1>1, <1>3 DEF CallsIn
  <2>4. QED
    BY <2>1, <2>2, <2>3
<1>5. ASSUME InOrder(sink, t), line.thread = t => \A c \in CallsIn(sink, t) : c < line.call
      PROVE  InOrder(more, t)
  <2>1. ASSUME NEW i \in DOMAIN more, NEW j \in DOMAIN more,
               i < j, more[i].thread = t, more[j].thread = t
        PROVE  more[i].call < more[j].call
    <3>1. i \in DOMAIN sink /\ more[i] = sink[i]
      BY <1>1, <1>2, <2>1
    <3>2. CASE j \in DOMAIN sink
      BY <1>1, <1>5, <2>1, <3>1, <3>2 DEF InOrder
    <3>3. CASE j = Len(sink) + 1
      BY <1>1, <1>5, <2>1, <3>1, <3>3 DEF CallsIn
    <3>4. QED
      BY <1>2, <3>2, <3>3
  <2>2. QED
    BY <2>1 DEF InOrder
<1>6. QED
  BY <1>4, <1>5 DEF more

LEMMA EnabledAreCalls ==
  ASSUME LogInv, NEW t \in Threads
  PROVE  /\ EnabledCalls(t) \subseteq 1 .. Len(calls[t]) /\ Len(calls[t]) \in Nat
         /\ calls[t] \in Seq(Levels)
<1>1. calls[t] \in Seq(Levels)
  BY DEF LogInv, LogType
<1>2. QED
  BY <1>1, LenProperties DEF EnabledCalls

\* The line that is printed is that of a call the sink has no line of yet.
LEMMA PrintsLine ==
  ASSUME LinesInv, NEW t \in Threads, NEW u \in Threads, pc[t] # "out",
         NEW sink \in Seq(Lines), NEW expected,
         HasLines(sink, u, IF u = t THEN EnabledCalls(t) \ {Len(calls[t])} ELSE expected)
  PROVE  HasLines(Append(sink, Line(t)), u, IF u = t THEN EnabledCalls(t) ELSE expected)
<1>1. Line(t) \in Lines /\ Line(t).thread = t /\ Line(t).call = Len(calls[t])
  BY LineIsLine DEF LinesInv, Line
<1>2. CASE u # t
  <2>1. CallsIn(Append(sink, Line(t)), u) = CallsIn(sink, u) \cup {}
    BY <1>1, <1>2, AppendsLine
  <2>2. InOrder(sink, u) => InOrder(Append(sink, Line(t)), u)
    BY <1>1, <1>2, AppendsLine
  <2>3. QED
    BY <1>2, <2>1, <2>2 DEF HasLines
<1>3. CASE u = t
  <2>1. Len(calls[t]) \in EnabledCalls(t)
    BY DEF LinesInv
  <2>2. \A c \in EnabledCalls(t) \ {Len(calls[t])} : c < Len(calls[t])
    BY EnabledAreCalls DEF LinesInv
  <2>3. CallsIn(sink, t) = EnabledCalls(t) \ {Len(calls[t])} /\ InOrder(sink, t)
    BY <1>3 DEF HasLines
  <2>4. InOrder(Append(sink, Line(t)), t)
    BY <1>1, <2>2, <2>3, AppendsLine
  <2>5. CallsIn(Append(sink, Line(t)), t) = EnabledCalls(t)
    <3>1. CallsIn(Append(sink, Line(t)), t) = CallsIn(sink, t) \cup {Len(calls[t])}
      BY <1>1, AppendsLine
    <3>2. QED
      BY <2>1, <2>3, <3>1
  <2>6. QED
    BY <1>3, <2>4, <2>5 DEF HasLines
<1>4. QED
  BY <1>2, <1>3

LEMMA InitLinesInv == Init => LinesInv
<1> SUFFICES ASSUME Init PROVE LinesInv
  OBVIOUS
<1>1. /\ file = <<>> /\ console = <<>> /\ has_file = FALSE /\ is_active_console = FALSE
      /\ \A t \in Threads : pc[t] = "out" /\ calls[t] = <<>>
  BY DEF Init
<1>2. \A t : HasLines(<<>>, t, {})
  BY DEF HasLines, CallsIn, InOrder
<1>3. QED
  BY <1>1, <1>2, InitLogInv DEF LinesInv, ToBeIn

\* A step that prints nothing, and no call begins or ends.
LEMMA SameLines ==
  ASSUME LinesInv, LogInv', UNCHANGED <<has_file, is_active_console, detail, calls, sinks>>,
         logger' = "none" => logger = "none",
         \A t \in Threads : /\ pc'[t] # "out" => pc[t] # "out"
                            /\ \A S \in {{"stamp", "file"}, {"stamp", "file", "console"}} :
                                 pc'[t] \in S <=> pc[t] \in S
  PROVE  LinesInv'
<1>1. \A t \in Threads : EnabledCalls(t)' = EnabledCalls(t)
  BY DEF EnabledCalls
<1>2. \A t \in Threads :
        /\ ToBeIn(t, has_file, {"stamp", "file"})' = ToBeIn(t, has_file, {"stamp", "file"})
        /\ ToBeIn(t, is_active_console, {"stamp", "file", "console"})'
             = ToBeIn(t, is_active_console, {"stamp", "file", "console"})
  BY <1>1 DEF ToBeIn
<1>3. \A t \in Threads :
        /\ HasLines(file, t, ToBeIn(t, has_file, {"stamp", "file"}))'
        /\ HasLines(console, t, ToBeIn(t, is_active_console, {"stamp", "file", "console"}))'
  BY <1>2 DEF LinesInv, HasLines, CallsIn, InOrder, sinks
<1>4. QED
  BY <1>1, <1>3 DEF LinesInv, sinks

LEMMA CreateLines ==
  ASSUME LinesInv, LogInv', log_create
  PROVE  LinesInv'
<1>1. /\ file' = <<>> /\ console' = <<>>
      /\ \A t \in Threads : pc'[t] = "out" /\ calls'[t] = <<>>
  BY DEF log_create, sinks, LinesInv, LogInv
<1>2. \A t : HasLines(<<>>, t, {})
  BY DEF HasLines, CallsIn, InOrder
<1>3. \A t \in Threads : EnabledCalls(t)' = {}
  BY <1>1 DEF EnabledCalls
<1>4. \A t \in Threads :
        /\ ToBeIn(t, has_file, {"stamp", "file"})' = {}
        /\ ToBeIn(t, is_active_console, {"stamp", "file", "console"})' = {}
  BY <1>1, <1>3 DEF ToBeIn
<1>5. \A t \in Threads :
        /\ HasLines(file, t, ToBeIn(t, has_file, {"stamp", "file"}))'
        /\ HasLines(console, t, ToBeIn(t, is_active_console, {"stamp", "file", "console"}))'
  BY <1>1, <1>2, <1>4 DEF HasLines, CallsIn, InOrder
<1>6. QED
  BY <1>1, <1>5 DEF LinesInv

\* A call is counted among the enabled ones when its level is.
LEMMA CallLines ==
  ASSUME LinesInv, LogInv', NEW t \in Threads, NEW l \in Levels, log_in_level(t, l)
  PROVE  LinesInv'
<1>1. /\ logger = "open" /\ pc[t] = "out" /\ UNCHANGED <<setting, sinks>>
      /\ calls' = [calls EXCEPT ![t] = Append(@, l)]
      /\ pc' = IF l >= detail THEN [pc EXCEPT ![t] = "stamp"] ELSE pc
  BY DEF log_in_level, isEnableLevelInLogger
<1>2. /\ DOMAIN calls[t] = 1 .. Len(calls[t]) /\ Len(calls[t]) \in Nat
      /\ DOMAIN calls'[t] = 1 .. Len(calls[t]) + 1 /\ Len(calls'[t]) = Len(calls[t]) + 1
      /\ \A i \in 1 .. Len(calls[t]) : calls'[t][i] = calls[t][i]
      /\ calls'[t][Len(calls[t]) + 1] = l
  BY <1>1, EnabledAreCalls, AppendProperties, LenProperties DEF LinesInv, LogInv, LogType
<1>3. \A u \in Threads : u # t => calls'[u] = calls[u] /\ pc'[u] = pc[u]
  BY <1>1 DEF LinesInv, LogInv, LogType
<1>4. \A u \in Threads : u # t => EnabledCalls(u)' = EnabledCalls(u)
  BY <1>1, <1>3 DEF EnabledCalls, setting
<1>5. EnabledCalls(t)' = EnabledCalls(t) \cup (IF l >= detail THEN {Len(calls'[t])} ELSE {})
  BY <1>1, <1>2 DEF EnabledCalls, setting
<1>6. pc'[t] = IF l >= detail THEN "stamp" ELSE "out"
  BY <1>1 DEF LinesInv, LogInv, LogType
<1>7. Len(calls'[t]) \notin EnabledCalls(t)
  BY <1>2, EnabledAreCalls DEF LinesInv
<1>8. ASSUME NEW u \in Threads
      PROVE  /\ ToBeIn(u, has_file, {"stamp", "file"})' = ToBeIn(u, has_file, {"stamp", "file"})
             /\ ToBeIn(u, is_active_console, {"stamp", "file", "console"})'
                  = ToBeIn(u, is_active_console, {"stamp", "file", "console"})
  <2>1. CASE u # t
    BY <1>1, <1>3, <1>4, <2>1 DEF ToBeIn, setting
  <2>2. CASE u = t /\ l >= detail
    BY <1>1, <1>5, <1>6, <1>7, <2>2 DEF ToBeIn, setting
  <2>3. CASE u = t /\ ~(l >= detail)
    BY <1>1, <1>5, <1>6, <2>3 DEF ToBeIn, setting
  <2>4. QED
    BY <2>1, <2>2, <2>3
<1>9. \A u \in Threads :
        /\ HasLines(file, u, ToBeIn(u, has_file, {"stamp", "file"}))'
        /\ HasLines(console, u, ToBeIn(u, is_active_console, {"stamp", "file", "console"}))'
  BY <1>1, <1>8 DEF LinesInv, HasLines, CallsIn, InOrder, sinks
<1>10. \A u \in Threads : pc'[u] # "out" => (Len(calls[u]) \in EnabledCalls(u))'
  <2>1. pc'[t] # "out" => (Len(calls[t]) \in EnabledCalls(t))'
    BY <1>5, <1>6
  <2>2. ASSUME NEW u \in Threads, u # t, pc'[u] # "out"
        PROVE  (Len(calls[u]) \in EnabledCalls(u))'
    BY <1>3, <1>4, <2>2 DEF LinesInv
  <2>3. QED
    BY <2>1, <2>2
<1>11. QED
  BY <1>1, <1>9, <1>10 DEF LinesInv, setting

LEMMA WriteFileLines ==
  ASSUME LinesInv, LogInv', NEW t \in Threads, WriteFile(t)
  PROVE  LinesInv'
<1>1. /\ pc[t] = "file" /\ UNCHANGED <<setting, calls, console>>
      /\ file' = IF has_file THEN Append(file, Line(t)) ELSE file
  BY DEF WriteFile
<1>2. \A u \in Threads : pc'[u] = IF u = t THEN "console" ELSE pc[u]
  BY DEF WriteFile, LinesInv, LogInv, LogType
<1>3. \A u \in Threads : EnabledCalls(u)' = EnabledCalls(u)
  BY <1>1 DEF EnabledCalls, setting
<1>4. \A u \in Threads :
        ToBeIn(u, is_active_console, {"stamp", "file", "console"})'
          = ToBeIn(u, is_active_console, {"stamp", "file", "console"})
  BY <1>1, <1>2, <1>3 DEF ToBeIn, setting
<1>5. ASSUME NEW u \in Threads
      PROVE  HasLines(file', u, ToBeIn(u, has_file, {"stamp", "file"})')
  <2>1. HasLines(file, u, ToBeIn(u, has_file, {"stamp", "file"}))
    BY DEF LinesInv
  <2>2. CASE ~has_file
    BY <1>1, <2>1, <2>2 DEF ToBeIn, setting
  <2>3. CASE has_file
    <3> DEFINE other == ToBeIn(u, TRUE, {"stamp", "file"})
    <3>1. ToBeIn(u, has_file, {"stamp", "file"})
            = IF u = t THEN EnabledCalls(t) \ {Len(calls[t])} ELSE other
      BY <1>1, <2>3 DEF ToBeIn
    <3>2. ToBeIn(u, has_file, {"stamp", "file"})' = IF u = t THEN EnabledCalls(t) ELSE other
      BY <1>1, <1>2, <1>3, <2>3 DEF ToBeIn, setting
    <3>3. file \in Seq(Lines)
      BY DEF LinesInv, LogInv, LogType
    <3> HIDE DEF other
    <3>4. HasLines(Append(file, Line(t)), u, IF u = t THEN EnabledCalls(t) ELSE other)
      BY <1>1, <2>1, <3>1, <3>3, PrintsLine
    <3>5. QED
      BY <1>1, <2>3, <3>2, <3>4
  <2>4. QED
    BY <2>2, <2>3
<1>6. \A u \in Threads :
        HasLines(console', u, ToBeIn(u, is_active_console, {"stamp", "file", "console"})')
  BY <1>1, <1>4 DEF LinesInv
<1>7. \A u \in Threads : pc'[u] # "out" => Len(calls'[u]) \in EnabledCalls(u)'
  BY <1>1, <1>2, <1>3 DEF LinesInv
<1>8. logger' # "none"
  BY <1>1 DEF LinesInv, LogInv, setting
<1>9. QED
  BY <1>5, <1>6, <1>7, <1>8 DEF LinesInv, HasLines, CallsIn, InOrder

LEMMA WriteConsoleLines ==
  ASSUME LinesInv, LogInv', NEW t \in Threads, WriteConsole(t)
  PROVE  LinesInv'
<1>1. /\ pc[t] = "console" /\ UNCHANGED <<setting, calls, file>>
      /\ console' = IF is_active_console THEN Append(console, Line(t)) ELSE console
  BY DEF WriteConsole
<1>2. \A u \in Threads : pc'[u] = IF u = t THEN "out" ELSE pc[u]
  BY DEF WriteConsole, LinesInv, LogInv, LogType
<1>3. \A u \in Threads : EnabledCalls(u)' = EnabledCalls(u)
  BY <1>1 DEF EnabledCalls, setting
<1>4. \A u \in Threads :
        ToBeIn(u, has_file, {"stamp", "file"})' = ToBeIn(u, has_file, {"stamp", "file"})
  BY <1>1, <1>2, <1>3 DEF ToBeIn, setting
<1> DEFINE Waiting == {"stamp", "file", "console"}
<1>5. ASSUME NEW u \in Threads
      PROVE  HasLines(console', u, ToBeIn(u, is_active_console, Waiting)')
  <2>1. HasLines(console, u, ToBeIn(u, is_active_console, Waiting))
    BY DEF LinesInv
  <2>2. CASE ~is_active_console
    BY <1>1, <2>1, <2>2 DEF ToBeIn, setting
  <2>3. CASE is_active_console
    <3> DEFINE other == ToBeIn(u, TRUE, Waiting)
    <3>1. ToBeIn(u, is_active_console, Waiting)
            = IF u = t THEN EnabledCalls(t) \ {Len(calls[t])} ELSE other
      BY <1>1, <2>3 DEF ToBeIn
    <3>2. ToBeIn(u, is_active_console, Waiting)'
            = IF u = t THEN EnabledCalls(t) ELSE other
      BY <1>1, <1>2, <1>3, <2>3 DEF ToBeIn, setting
    <3>3. console \in Seq(Lines)
      BY DEF LinesInv, LogInv, LogType
    <3> HIDE DEF other
    <3>4. HasLines(Append(console, Line(t)), u, IF u = t THEN EnabledCalls(t) ELSE other)
      BY <1>1, <2>1, <3>1, <3>3, PrintsLine
    <3>5. QED
      BY <1>1, <2>3, <3>2, <3>4
  <2>4. QED
    BY <2>2, <2>3
<1>6. \A u \in Threads : HasLines(file', u, ToBeIn(u, has_file, {"stamp", "file"})')
  BY <1>1, <1>4 DEF LinesInv
<1>7. \A u \in Threads : pc'[u] # "out" => Len(calls'[u]) \in EnabledCalls(u)'
  BY <1>1, <1>2, <1>3 DEF LinesInv
<1>8. logger' # "none"
  BY <1>1 DEF LinesInv, LogInv, setting
<1>9. QED
  BY <1>5, <1>6, <1>7, <1>8 DEF LinesInv, HasLines, CallsIn, InOrder

LEMMA NextLinesInv == LinesInv /\ [Next]_vars => LinesInv'
<1> SUFFICES ASSUME LinesInv, [Next]_vars PROVE LinesInv'
  OBVIOUS
<1>1. LogInv'
  BY NextLogInv DEF LinesInv
<1>2. CASE log_create
  BY <1>1, <1>2, CreateLines
<1>3. CASE log_destroy
  BY <1>1, <1>3, SameLines DEF log_destroy
<1>4. CASE Clock
  BY <1>1, <1>4, SameLines DEF Clock, setting
<1>5. CASE Over \/ UNCHANGED vars
  BY <1>1, <1>5, SameLines DEF Over, vars, setting
<1>6. ASSUME NEW t \in Threads, NEW l \in Levels, log_in_level(t, l) PROVE LinesInv'
  BY <1>1, <1>6, CallLines
<1>7. ASSUME NEW t \in Threads, StampLine(t) PROVE LinesInv'
  BY <1>1, <1>7, SameLines DEF StampLine, setting
<1>8. ASSUME NEW t \in Threads, TakeStamp(t) PROVE LinesInv'
  <2>1. \A u \in Threads : pc'[u] = IF u = t THEN "file" ELSE pc[u]
    BY <1>8 DEF TakeStamp, LinesInv, LogInv, LogType
  <2>2. QED
    BY <1>1, <1>8, <2>1, SameLines DEF TakeStamp, setting
<1>9. ASSUME NEW t \in Threads, WriteFile(t) \/ WriteConsole(t) PROVE LinesInv'
  BY <1>1, <1>9, WriteFileLines, WriteConsoleLines
<1>10. QED
  BY <1>2, <1>3, <1>4, <1>5, <1>6, <1>7, <1>8, <1>9 DEF Next, Write

(******************************************************************************)
(* Whatever the other threads print in between, each sink that is active gets *)
(* the lines of a thread's enabled calls, all of them, once and in order      *)
(* (log.c:193-224).                                                           *)
(******************************************************************************)
THEOREM LinesAreWritten == Spec => []EnabledCallsAreWritten
<1>1. LinesInv => EnabledCallsAreWritten
  BY DEF LinesInv, EnabledCallsAreWritten, ToBeIn
<1>2. QED
  BY <1>1, InitLinesInv, NextLinesInv, PTL DEF Spec

================================================================================
