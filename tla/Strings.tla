-------------------------------- MODULE Strings --------------------------------
(******************************************************************************)
(* The string functions of string.c, called one after the other on a string   *)
(* of the caller, which most of them replace or change in place.  A string is *)
(* a sequence of characters; the loops of the code are recursive functions on *)
(* a position, and the properties say what they compute without one.          *)
(******************************************************************************)
EXTENDS Integers, SequencesExt

CONSTANTS
  Upper, Lower,     \* toupper and tolower, as functions on the characters
  Blank, Space,     \* the characters of isblank and of isspace
  Separator,        \* the separator of string_split
  Texts,            \* strings to start from
  Added,            \* strings added, and looked for at both ends
  MaxText           \* no string is made longer

Char == DOMAIN Upper

\* As toupper, tolower, isblank and isspace are in the C locale.
ASSUME StringsAssumption ==
  /\ Upper \in [Char -> Char] /\ Lower \in [Char -> Char]
  /\ \A c \in Char : Lower[Upper[c]] = Lower[c] /\ Lower[Lower[c]] = Lower[c]
  /\ Blank \subseteq Space /\ Space \subseteq Char
  /\ Texts \cup Added \subseteq Seq(Char)
  /\ MaxText \in Nat

VARIABLES
  text,      \* the string of the caller
  call,      \* history: the last function called, its string before, its argument
  answer     \* what it returned: pieces, or nothing

stringsVars == <<text, call, answer>>

--------------------------------------------------------------------------------
string_repeat(character, count) == [i \in 1 .. count |-> character]

string_append(original, string_to_add) == original \o string_to_add

string_is_empty(t) == Len(t) = 0

\* string_do applies the conversion of a character to each.
string_to_upper(t) == [i \in DOMAIN t |-> Upper[t[i]]]
string_to_lower(t) == [i \in DOMAIN t |-> Lower[t[i]]]

string_capitalized(t) ==
  IF string_is_empty(t) THEN t
  ELSE <<Upper[Head(t)]>> \o string_to_lower(Tail(t))

\* The first position that is not blank, one beyond the end when all are.
string_trim_left(t) ==
  LET start[i \in 1 .. Len(t) + 1] ==
        IF i <= Len(t) /\ t[i] \in Blank THEN start[i + 1] ELSE i
  IN  SubSeq(t, start[1], Len(t))

string_trim_right(t) ==
  LET end[i \in 0 .. Len(t)] ==
        IF i > 0 /\ t[i] \in Space THEN end[i - 1] ELSE i
  IN  SubSeq(t, 1, end[Len(t)])

string_trim(t) == string_trim_right(string_trim_left(t))

string_starts_with(t, begin) ==
  \A i \in DOMAIN begin : i <= Len(t) /\ t[i] = begin[i]

string_ends_with(t, end) ==
  Len(t) >= Len(end) /\ SubSeq(t, Len(t) - Len(end) + 1, Len(t)) = end

\* strcasecmp compares the strings in lower case.
string_equals_ignore_case(a, b) == string_to_lower(a) = string_to_lower(b)

(******************************************************************************)
(* strtok_r from position i on: separators are passed over, and what comes    *)
(* before the next one is a piece.                                            *)
(******************************************************************************)
Piece(t, i) ==
  LET until[j \in i .. Len(t) + 1] ==
        IF j <= Len(t) /\ t[j] # Separator THEN until[j + 1] ELSE j
  IN  SubSeq(t, i, until[i] - 1)

\* Mutated form: a separator always ends a piece, even an empty one.
string_split_empty(t) ==
  LET rest[i \in 1 .. Len(t) + 1] ==
        IF i > Len(t) THEN <<>>
        ELSE <<Piece(t, i)>> \o rest[Min({i + Len(Piece(t, i)) + 1, Len(t) + 1})]
  IN  rest[1]

string_split(t) ==
  LET rest[i \in 1 .. Len(t) + 1] ==
        IF i > Len(t) THEN <<>>
        ELSE IF t[i] = Separator THEN rest[i + 1]
        ELSE <<Piece(t, i)>> \o rest[i + Len(Piece(t, i))]
  IN  rest[1]

--------------------------------------------------------------------------------
Nothing == <<>>

StringsInit ==
  /\ text \in Texts
  /\ call = [op |-> "none", before |-> text, with |-> <<>>]
  /\ answer = Nothing

Did(op, with) == call' = [op |-> op, before |-> text, with |-> with]

Change(op, with, new) == Did(op, with) /\ text' = new /\ answer' = Nothing

Append_(with) ==
  /\ Len(text) + Len(with) <= MaxText
  /\ Change("append", with, string_append(text, with))

Repeat ==
  \E c \in Char, n \in 0 .. MaxText :
    Change("repeat", string_repeat(c, n), string_repeat(c, n))

Case ==
  \/ Change("upper", <<>>, string_to_upper(text))
  \/ Change("lower", <<>>, string_to_lower(text))
  \/ Change("capitalized", <<>>, string_capitalized(text))

Trim ==
  \/ Change("trim_left", <<>>, string_trim_left(text))
  \/ Change("trim_right", <<>>, string_trim_right(text))
  \/ Change("trim", <<>>, string_trim(text))

\* The pieces are copies: the string split is left as it was.
Split == Did("split", <<>>) /\ answer' = string_split(text) /\ UNCHANGED text

StringsNext ==
  Repeat \/ (\E with \in Added : Append_(with)) \/ Case \/ Trim \/ Split

StringsSpec == StringsInit /\ [][StringsNext]_stringsVars

--------------------------------------------------------------------------------
Called(op) == call.op = op

AllIn(t, chars) == Range(t) \subseteq chars

(******************************************************************************)
(* What the two loops of a trim leave is the string without the blanks before *)
(* it and without the white space behind it, up to the first character that   *)
(* is neither; a string of blanks becomes empty.  The sets of the two ends    *)
(* are not the same: TrimTakesAllSpace is what the comments say of them.      *)
(******************************************************************************)
TrimTakesTheEnds ==
  Called("trim") =>
    /\ \E l, r \in 0 .. Len(call.before) :
         /\ l + Len(text) + r = Len(call.before)
         /\ SubSeq(call.before, l + 1, l + Len(text)) = text
         /\ AllIn(SubSeq(call.before, 1, l), Blank)
         /\ AllIn(SubSeq(call.before, l + Len(text) + 1, Len(call.before)), Space)
    /\ text # <<>> => text[1] \notin Blank /\ text[Len(text)] \notin Space

(******************************************************************************)
(* The comments of string_trim, string_trim_left and string_trim_right        *)
(* (string.c:100-102, 109-112, 127-131) have one word for what is removed at  *)
(* either end, "caracteres vacios": after a trim no white space is left at    *)
(* either.  The left end is left with a newline, which is no blank            *)
(* (string.c:117).                                                            *)
(******************************************************************************)
TrimTakesAllSpace ==
  Called("trim") /\ text # <<>> => text[1] \notin Space /\ text[Len(text)] \notin Space

\* The starts of the longest runs without a separator.
Starts ==
  {i \in DOMAIN text : text[i] # Separator /\ (i = 1 \/ text[i - 1] = Separator)}

(******************************************************************************)
(* string_split gives the longest runs without a separator, in their order,   *)
(* and no empty piece, wherever separators are: on this the path walk rests.  *)
(* The piece of a start is as far on as there are starts up to it.            *)
(******************************************************************************)
SplitGivesTheRuns ==
  Called("split") =>
    /\ Len(answer) = Cardinality(Starts)
    /\ \A i \in Starts :
         LET piece == answer[Cardinality({j \in Starts : j <= i})]
             end == i + Len(piece)
         IN  /\ piece = SubSeq(text, i, end - 1)
             /\ Separator \notin Range(piece)
             /\ end > Len(text) \/ text[end] = Separator

(******************************************************************************)
(* What was put together is found again: the string appended to is at the     *)
(* start of the new one, and the string added is at its end.                  *)
(******************************************************************************)
AppendIsFoundAgain ==
  Called("append") =>
    string_starts_with(text, call.before) /\ string_ends_with(text, call.with)

(******************************************************************************)
(* Changing the case of a string, all of it or its first letter, never makes  *)
(* it another string for string_equals_ignore_case.                           *)
(******************************************************************************)
CaseIsIgnored ==
  call.op \in {"upper", "lower", "capitalized"} =>
    string_equals_ignore_case(text, call.before)

(******************************************************************************)
(* The loops of string.c, one call after the other on strings they made,      *)
(* compute what these definitions say without a loop.                         *)
(******************************************************************************)
LoopsMeetDefinitions ==
  TrimTakesTheEnds /\ SplitGivesTheRuns /\ AppendIsFoundAgain /\ CaseIsIgnored
================================================================================
