------------------------------- MODULE MCLibrary ------------------------------
(******************************************************************************)
(* What the commons library offers the programs: the logger with its time     *)
(* stamps, the string functions and the list.  They keep no state in common:  *)
(* a behaviour is that of one of them.  The logger has two of the five        *)
(* levels, one below and one above what it takes.  The strings are all those  *)
(* of up to four of five characters: a letter in both cases, a blank, a       *)
(* newline (white space that is no blank) and the separator.  The lists have  *)
(* up to three elements, with repeated data.                                  *)
(******************************************************************************)
EXTENDS Log, Strings, LinkedList

TwoLevels == <<"TRACE", "ERROR">>

Chars == {"a", "A", "blank", "newline", "slash"}

ToUpper == [c \in Chars |-> IF c = "a" THEN "A" ELSE c]
ToLower == [c \in Chars |-> IF c = "A" THEN "a" ELSE c]

AllTexts == UNION {[1 .. n -> Chars] : n \in 0 .. 4}
ShortTexts == UNION {[1 .. n -> Chars] : n \in 0 .. 1}

VARIABLE part                                            \* the part that runs

all == <<part, vars, stringsVars, listVars>>

\* The part at rest has one state.
LibraryInit ==
  /\ part \in {"log", "strings", "list"}
  /\ text \in IF part = "strings" THEN Texts ELSE {<<>>}
  /\ Init /\ StringsInit /\ ListInit

LibraryNext ==
  \/ part = "log" /\ Next /\ UNCHANGED <<part, stringsVars, listVars>>
  \/ part = "strings" /\ StringsNext /\ UNCHANGED <<part, vars, listVars>>
  \/ part = "list" /\ ListNext /\ UNCHANGED <<part, vars, stringsVars>>

LibrarySpec == LibraryInit /\ [][LibraryNext]_all
================================================================================
