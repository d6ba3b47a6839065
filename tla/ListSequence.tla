------------------------------ MODULE ListSequence -----------------------------
(******************************************************************************)
(* What the functions of list.c promise: a sequence of data, and for each     *)
(* call what it returns and what it hands to the caller's destroyer.  Indices *)
(* start at 0, as in the code.                                                *)
(*                                                                            *)
(* Where the code does something other than the obvious, this is what it      *)
(* does: list_take and list_take_and_remove pad a short list with NULL, a     *)
(* removal by condition takes the first match only, the destroyer is called   *)
(* with NULL when there was nothing to remove, and list_remove outside a list *)
(* that is not empty is fatal.                                                *)
(******************************************************************************)
EXTENDS Integers, SequencesExt

CONSTANTS
  Data,         \* what the list points to
  Null,
  MaxLength     \* bound on the length of the list

VARIABLES
  seq,
  live,         \* the list exists
  last          \* the last call: its name, condition, outcome

vars == <<seq, live, last>>

Indices == -1 .. MaxLength + 1
Conditions == SUBSET Data
Transformers == [Data -> Data]

Outcome(op, condition, value, list, destroyed) ==
  [op |-> op, condition |-> condition, value |-> value, list |-> list,
   destroyed |-> destroyed]

Result(op, value) == Outcome(op, {}, value, <<>>, <<>>)

InRange(i) == 0 <= i /\ i < Len(seq)
At(i) == IF InRange(i) THEN seq[i + 1] ELSE Null
Least(i, j) == IF i < j THEN i ELSE j
Matches(c) == SelectSeq(seq, LAMBDA d : d \in c)
FirstMatch(c) ==
  LET places == {i \in 1 .. Len(seq) : seq[i] \in c}
  IN  IF places = {} THEN Null ELSE seq[Min(places)]
\* The first n elements, and NULL for each one missing.
Firsts(n) == [i \in 1 .. n |-> At(i - 1)]

Init == seq = <<>> /\ live = FALSE /\ last = Result("none", Null)

Create ==
  /\ ~live
  /\ live' = TRUE /\ seq' = <<>> /\ last' = Result("list_create", Null)

\* A call that leaves the list in being, with contents s.
Call(s, outcome) == live /\ seq' = s /\ last' = outcome /\ UNCHANGED live

\* A call after which there is no list: it was destroyed, or the process died.
LastCall(outcome) == live /\ seq' = <<>> /\ live' = FALSE /\ last' = outcome

Look ==
  \/ Call(seq, Result("list_size", Len(seq)))
  \/ Call(seq, Result("list_is_empty", seq = <<>>))
  \/ \E i \in Indices : Call(seq, Result("list_get", At(i)))
  \/ \E c \in Conditions :
       \/ Call(seq, Outcome("list_find", c, FirstMatch(c), <<>>, <<>>))
       \/ Call(seq, Outcome("list_filter", c, Null, Matches(c), <<>>))
  \/ \E f \in Transformers :
       Call(seq, Outcome("list_map", {}, Null, [i \in DOMAIN seq |-> f[seq[i]]], <<>>))
  \/ \E n \in Indices : Call(seq, Outcome("list_take", {}, Null, Firsts(n), <<>>))

Insert == \E d \in Data :
  /\ Len(seq) < MaxLength
  /\ \/ Call(Append(seq, d), Result("list_add", Len(seq)))
     \/ \E i \in Indices :
          Call(IF InRange(i) THEN InsertAt(seq, i + 1, d) ELSE seq,
               Result("list_add_in_index", Null))

Replace == \E i \in Indices, d \in Data :
  LET replaced == IF InRange(i) THEN ReplaceAt(seq, i + 1, d) ELSE seq IN
  \/ Call(replaced, Result("list_replace", At(i)))
  \/ Call(replaced, Outcome("list_replace_and_destroy_element", {}, Null, <<>>, <<At(i)>>))

RemoveOne == \E i \in Indices :
  /\ seq = <<>> \/ InRange(i)
  /\ LET removed == IF InRange(i) THEN RemoveAt(seq, i + 1) ELSE seq IN
     \/ Call(removed, Result("list_remove", At(i)))
     \/ Call(removed, Outcome("list_remove_and_destroy_element", {}, Null, <<>>, <<At(i)>>))

RemoveMatch == \E c \in Conditions :
  LET removed == RemoveFirstMatch(seq, LAMBDA d : d \in c) IN
  \/ Call(removed, Outcome("list_remove_by_condition", c, FirstMatch(c), <<>>, <<>>))
  \/ Call(removed, Outcome("list_remove_and_destroy_by_condition", c, Null, <<>>,
                           <<FirstMatch(c)>>))

TakeAndRemove == \E n \in Indices :
  Call(SubSeq(seq, Least(IF n < 0 THEN 0 ELSE n, Len(seq)) + 1, Len(seq)),
       Outcome("list_take_and_remove", {}, Null, Firsts(n), <<>>))

Clean ==
  \/ Call(<<>>, Result("list_clean", Null))
  \/ Call(<<>>, Outcome("list_clean_and_destroy_elements", {}, Null, <<>>, seq))

Destroy ==
  \/ LastCall(Result("list_destroy", Null))
  \/ LastCall(Outcome("list_destroy_and_destroy_elements", {}, Null, <<>>, seq))

Fault == seq # <<>> /\ LastCall(Result("fault", Null))

Next ==
  \/ Create \/ Look \/ Insert \/ Replace \/ RemoveOne \/ RemoveMatch
  \/ TakeAndRemove \/ Clean \/ Destroy \/ Fault

Spec == Init /\ [][Next]_vars
================================================================================
