---------------------------------- MODULE Log ----------------------------------
(******************************************************************************)
(* log.c: a logger made by log_create and written to by any number of threads *)
(* (a line names its thread), each through log_write_in_level: it is stamped  *)
(* (Temporal) and formatted, then printed to the file, if there is one, and   *)
(* to the console, if it is active.  stdio locks a stream for one print, so a *)
(* line is in a sink whole or not at all; between the two prints there is no  *)
(* lock.                                                                      *)
(******************************************************************************)
EXTENDS Temporal, SequencesExt

CONSTANTS
  LevelNames,      \* enum_names, by level from 1: here TRACE is level 1
  Names,           \* what log_level_from_string may be asked for
  Unknown,         \* (t_log_level) -1: the largest value of an unsigned enum
  Files,           \* BOOLEAN, or {TRUE} when every logger is made with a file
  MaxCalls         \* bound: calls of one thread

ASSUME LevelsAssumption ==
  /\ DOMAIN LevelNames = 1 .. Len(LevelNames) /\ IsInjective(LevelNames)
  /\ Len(LevelNames) \in Nat /\ Unknown \in Nat /\ Unknown > Len(LevelNames)
ASSUME MaxCallsAssumption == MaxCalls \in Nat
ASSUME FilesAssumption == Files \subseteq BOOLEAN

Levels == DOMAIN LevelNames

VARIABLES
  logger,       \* "none", "open", "destroyed", or "fault"
  has_file, is_active_console, detail,
  pc,           \* "out", "stamp", "file" or "console", by thread
  level,        \* level of the call in progress
  calls,        \* history: the levels each thread has logged with
  file, console \* the lines printed

setting == <<logger, has_file, is_active_console, detail>>
sinks == <<file, console>>
vars == <<clockVars, stampVars, setting, pc, level, calls, sinks>>

--------------------------------------------------------------------------------
\* Comparison ignores case (string_equals_ignore_case): names are compared as such.
log_level_from_string(name) ==
  IF name \in Range(LevelNames) THEN CHOOSE i \in Levels : LevelNames[i] = name
  ELSE Unknown

log_level_as_string(l) == LevelNames[l]

\* Mutated form: only what is more severe than the detail is written.
isAboveDetail(l) == l > detail

isEnableLevelInLogger(l) == l >= detail

Init ==
  /\ InitTemporal
  /\ logger = "none" /\ has_file = FALSE /\ is_active_console = FALSE
  /\ detail = Unknown
  /\ pc = [t \in Threads |-> "out"]
  /\ level = [t \in Threads |-> 1]
  /\ calls = [t \in Threads |-> <<>>]
  /\ file = <<>> /\ console = <<>>

(******************************************************************************)
(* log_create: without memory, or when the file cannot be opened, NULL, and   *)
(* the caller has no logger.                                                  *)
(******************************************************************************)
log_create ==
  /\ logger = "none"
  /\ \/ /\ logger' = "open"
        /\ has_file' \in Files
        /\ is_active_console' \in BOOLEAN
        /\ detail' \in {log_level_from_string(name) : name \in Names}
     \/ UNCHANGED setting
  /\ UNCHANGED <<clockVars, stampVars, pc, level, calls, sinks>>

\* The file is closed without a look at whether there is one.
log_destroy ==
  /\ logger = "open"
  /\ \A t \in Threads : pc[t] = "out"
  /\ logger' = IF has_file THEN "destroyed" ELSE "fault"
  /\ UNCHANGED <<clockVars, stampVars, has_file, is_active_console, detail>>
  /\ UNCHANGED <<pc, level, calls, sinks>>

\* log_trace, log_debug, log_info, log_warning and log_error: l is their level.
log_in_level(t, l) ==
  /\ logger = "open" /\ pc[t] = "out" /\ Len(calls[t]) < MaxCalls
  /\ calls' = [calls EXCEPT ![t] = Append(@, l)]
  /\ level' = [level EXCEPT ![t] = l]
  /\ IF isEnableLevelInLogger(l)
     THEN pc' = [pc EXCEPT ![t] = "stamp"] /\ Enter(t)
     ELSE UNCHANGED <<clockVars, stampVars, pc>>
  /\ UNCHANGED <<setting, sinks>>

StampLine(t) ==
  /\ pc[t] = "stamp"
  /\ Stamp(t)
  /\ UNCHANGED <<setting, pc, level, calls, sinks>>

\* The line: the level it shows is the detail of the logger.
Line(t) ==
  [thread |-> t, call |-> Len(calls[t]), shown |-> log_level_as_string(detail),
   time |-> time_string[t]]

TakeStamp(t) ==
  /\ pc[t] = "stamp"
  /\ Leave(t)
  /\ pc' = [pc EXCEPT ![t] = "file"]
  /\ UNCHANGED <<setting, level, calls, sinks>>

\* Mutated form: the console is printed to first.
ConsoleFirst(t) ==
  /\ pc[t] = "file"
  /\ console' = IF is_active_console THEN Append(console, Line(t)) ELSE console
  /\ pc' = [pc EXCEPT ![t] = "console"]
  /\ UNCHANGED <<clockVars, stampVars, setting, level, calls, file>>

WriteFile(t) ==
  /\ pc[t] = "file"
  /\ file' = IF has_file THEN Append(file, Line(t)) ELSE file
  /\ pc' = [pc EXCEPT ![t] = "console"]
  /\ UNCHANGED <<clockVars, stampVars, setting, level, calls, console>>

WriteConsole(t) ==
  /\ pc[t] = "console"
  /\ console' = IF is_active_console THEN Append(console, Line(t)) ELSE console
  /\ pc' = [pc EXCEPT ![t] = "out"]
  /\ UNCHANGED <<clockVars, stampVars, setting, level, calls, file>>

Write(t) == StampLine(t) \/ TakeStamp(t) \/ WriteFile(t) \/ WriteConsole(t)

Clock == Tick /\ UNCHANGED <<setting, pc, level, calls, sinks>>

Over == logger \in {"fault", "destroyed"} /\ UNCHANGED vars

Next ==
  \/ log_create \/ log_destroy \/ Clock \/ Over
  \/ \E t \in Threads : (\E l \in Levels : log_in_level(t, l)) \/ Write(t)

Spec == Init /\ [][Next]_vars

--------------------------------------------------------------------------------
\* The calls of a thread that a sink has lines of, and whether they are in the
\* order of the calls, each once.
CallsIn(sink, t) == {sink[i].call : i \in {j \in DOMAIN sink : sink[j].thread = t}}

InOrder(sink, t) ==
  \A i, j \in DOMAIN sink :
    i < j /\ sink[i].thread = t /\ sink[j].thread = t => sink[i].call < sink[j].call

EnabledCalls(t) == {i \in DOMAIN calls[t] : calls[t][i] >= detail}

HasLines(sink, t, expected) == CallsIn(sink, t) = expected /\ InOrder(sink, t)

(******************************************************************************)
(* Once the calls of a thread have returned, each sink that is active has the *)
(* lines of all those whose level is enabled, once and in the order of the    *)
(* calls, whatever the other threads print between; a sink that is not has    *)
(* none.  A logger made with a level that has no name writes nothing.         *)
(******************************************************************************)
EnabledCallsAreWritten ==
  \A t \in Threads : logger = "open" /\ pc[t] = "out" =>
    /\ HasLines(file, t, IF has_file THEN EnabledCalls(t) ELSE {})
    /\ HasLines(console, t, IF is_active_console THEN EnabledCalls(t) ELSE {})

(******************************************************************************)
(* What the console shows has been flushed to the file before, in the same    *)
(* words: whoever saw a line finds it in the file, even after the process has *)
(* died.                                                                      *)
(******************************************************************************)
ConsoleIsInFile == has_file => Range(console) \subseteq Range(file)

(******************************************************************************)
(* The comments of log_trace, log_debug, ...: a line shows the level of the   *)
(* function that logged it.                                                   *)
(******************************************************************************)
ShowsLevelOfCall ==
  \A i \in DOMAIN file :
    file[i].shown = log_level_as_string(calls[file[i].thread][file[i].call])
================================================================================
