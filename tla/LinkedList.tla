------------------------------- MODULE LinkedList ------------------------------
(******************************************************************************)
(* The list of list.c, node by node: a heap of link elements, the head and    *)
(* the count.  The code walks it in two ways, by next pointers until NULL     *)
(* (iterate, find, clean) and by count (get, add, remove), so both have to    *)
(* agree.  A list is used by one thread, and a call is one step.              *)
(*                                                                            *)
(* The sublist that list_take, list_take_and_remove, list_filter and list_map *)
(* return is a list of its own, built with list_add: it appears as the        *)
(* sequence it holds.                                                         *)
(******************************************************************************)
EXTENDS Integers, SequencesExt

CONSTANTS
  Node,         \* addresses malloc may return
  Data,         \* what the elements point to
  Null,
  MaxLength     \* bound on elements_count

ASSUME LinkedListAssumption == MaxLength \in Nat /\ Null \notin Node \cup Data

VARIABLES
  heap,         \* the link elements allocated: [data, next] of each
  head,
  elements_count,
  live,         \* the t_list is allocated
  last          \* the last call: its name, condition, outcome

list == <<heap, head, elements_count>>
listVars == <<list, live, last>>

Indices == -1 .. MaxLength + 1
Conditions == SUBSET Data
Transformers == [Data -> Data]

Outcome(op, condition, value, sublist, destroyed) ==
  [op |-> op, condition |-> condition, value |-> value, list |-> sublist,
   destroyed |-> destroyed]

Result(op, value) == Outcome(op, {}, value, <<>>, <<>>)

--------------------------------------------------------------------------------
(******************************************************************************)
(* The two walks.                                                             *)
(******************************************************************************)

\* The element that following next i times leads to.
After[i \in 0 .. elements_count] == IF i = 0 THEN head ELSE heap[After[i - 1]].next

list_get_element(index) ==
  IF elements_count > index /\ index >= 0 THEN After[index] ELSE Null

\* The elements met by following next until NULL.
Walk == CHOOSE s \in SeqOf(DOMAIN heap, Cardinality(DOMAIN heap)) :
  /\ head = IF s = <<>> THEN Null ELSE s[1]
  /\ \A i \in DOMAIN s : heap[s[i]].next = IF i = Len(s) THEN Null ELSE s[i + 1]

\* list_iterate, as the data its closure is called with.
list_iterate == LET walk == Walk IN [i \in DOMAIN walk |-> heap[walk[i]].data]

\* list_find_element: the position, from 1, or 0 where the walk finds nothing.
Position(condition) == SelectInSeq(list_iterate, LAMBDA d : d \in condition)

DataOf(e) == IF e = Null THEN Null ELSE heap[e].data

Found(condition) ==
  IF Position(condition) = 0 THEN Null ELSE list_iterate[Position(condition)]

list_get(index) == DataOf(list_get_element(index))

\* The sublist of list_take: list_get, n times.
Taken(n) == [i \in 1 .. n |-> list_get(i - 1)]

--------------------------------------------------------------------------------
\* What a call returns, on a list that stays in being.
Returns(outcome) == live /\ last' = outcome /\ UNCHANGED live

Create ==
  /\ ~live
  /\ live' = TRUE /\ heap' = Restrict(heap, {}) /\ head' = Null /\ elements_count' = 0
  /\ last' = Result("list_create", Null)

Look ==
  /\ UNCHANGED list
  /\ \/ Returns(Result("list_size", elements_count))
     \/ Returns(Result("list_is_empty", elements_count = 0))
     \/ \E i \in Indices : Returns(Result("list_get", list_get(i)))
     \/ \E c \in Conditions :
          \/ Returns(Outcome("list_find", c, Found(c), <<>>, <<>>))
          \/ Returns(Outcome("list_filter", c, Null,
               SelectSeq(list_iterate, LAMBDA d : d \in c), <<>>))
     \/ \E f \in Transformers :
          Returns(Outcome("list_map", {}, Null,
            [i \in DOMAIN list_iterate |-> f[list_iterate[i]]], <<>>))
     \/ \E n \in Indices : Returns(Outcome("list_take", {}, Null, Taken(n), <<>>))

\* list_create_element, linked to previous (the head, if NULL) and to next.
Link(d, previous, next) == \E e \in Node \ DOMAIN heap :
  /\ heap' = [n \in DOMAIN heap \cup {e} |->
       IF n = e THEN [data |-> d, next |-> next]
       ELSE IF n = previous THEN [heap[n] EXCEPT !.next = e] ELSE heap[n]]
  /\ head' = IF previous = Null THEN e ELSE head
  /\ elements_count' = elements_count + 1

list_add(d) ==
  /\ elements_count < MaxLength
  /\ Link(d, IF elements_count = 0 THEN Null ELSE list_get_element(elements_count - 1), Null)
  /\ Returns(Result("list_add", elements_count))

\* Mutated form: the position after the last element is let in.
AddInIndexToo(i, d) ==
  /\ elements_count < MaxLength
  /\ IF elements_count >= i /\ i >= 0
       THEN Link(d, list_get_element(i - 1), list_get_element(i))
       ELSE UNCHANGED list
  /\ Returns(Result("list_add_in_index", Null))

\* At index 0, list_get_element(-1) is NULL and the new element becomes the head.
list_add_in_index(i, d) ==
  /\ elements_count < MaxLength
  /\ IF elements_count > i /\ i >= 0
       THEN Link(d, list_get_element(i - 1), list_get_element(i))
       ELSE UNCHANGED list
  /\ Returns(Result("list_add_in_index", Null))

\* list_replace, by itself and under list_replace_and_destroy_element.
Replace(i, d) ==
  LET e == list_get_element(i) IN
  /\ IF e = Null THEN UNCHANGED heap ELSE heap' = [heap EXCEPT ![e].data = d]
  /\ UNCHANGED <<head, elements_count>>
  /\ \/ Returns(Result("list_replace", DataOf(e)))
     \/ Returns(Outcome("list_replace_and_destroy_element", {}, Null, <<>>, <<DataOf(e)>>))

--------------------------------------------------------------------------------
(******************************************************************************)
(* Removal.                                                                   *)
(******************************************************************************)

\* Mutated form: the element is unlinked and not freed.
UnlinkOnly(i) ==
  LET e == list_get_element(i) IN
  /\ heap' = [n \in DOMAIN heap |->
       IF i # 0 /\ n = list_get_element(i - 1) THEN [heap[n] EXCEPT !.next = heap[e].next]
       ELSE heap[n]]
  /\ head' = IF i = 0 THEN heap[e].next ELSE head
  /\ elements_count' = elements_count - 1

\* The element at i, which there is, is unlinked and freed.
Unlink(i) ==
  LET e == list_get_element(i) IN
  /\ heap' = [n \in DOMAIN heap \ {e} |->
       IF i # 0 /\ n = list_get_element(i - 1) THEN [heap[n] EXCEPT !.next = heap[e].next]
       ELSE heap[n]]
  /\ head' = IF i = 0 THEN heap[e].next ELSE head
  /\ elements_count' = elements_count - 1

\* The body of list_remove, which returns NULL on an empty list.
Removed(i) ==
  \/ head = Null /\ UNCHANGED list
  \/ list_get_element(i) # Null /\ Unlink(i)

list_remove(i) ==
  /\ Removed(i)
  /\ \/ Returns(Result("list_remove", list_get(i)))
     \/ Returns(Outcome("list_remove_and_destroy_element", {}, Null, <<>>, <<list_get(i)>>))

\* aux_element->data, with aux_element NULL: the process dies.
RemoveFault(i) ==
  /\ live /\ head # Null /\ list_get_element(i) = Null
  /\ live' = FALSE /\ heap' = Restrict(heap, {}) /\ head' = Null /\ elements_count' = 0
  /\ last' = Result("fault", Null)

list_remove_by_condition(c) ==
  /\ IF Position(c) # 0 THEN Removed(Position(c) - 1) ELSE UNCHANGED list
  /\ \/ Returns(Outcome("list_remove_by_condition", c, Found(c), <<>>, <<>>))
     \/ Returns(Outcome("list_remove_and_destroy_by_condition", c, Null, <<>>, <<Found(c)>>))

\* list_remove(self, 0), i times over: the list it leaves and what it returns last.
RemovedFirst[i \in 0 .. MaxLength + 1] ==
  IF i = 0
  THEN [heap |-> heap, head |-> head, elements_count |-> elements_count, data |-> Null]
  ELSE LET was == RemovedFirst[i - 1] IN
       IF was.head = Null THEN [was EXCEPT !.data = Null]
       ELSE [heap |-> Restrict(was.heap, DOMAIN was.heap \ {was.head}),
             head |-> was.heap[was.head].next,
             elements_count |-> was.elements_count - 1,
             data |-> was.heap[was.head].data]

list_take_and_remove(n) ==
  LET left == RemovedFirst[IF n < 0 THEN 0 ELSE n] IN
  /\ heap' = left.heap /\ head' = left.head /\ elements_count' = left.elements_count
  /\ Returns(Outcome("list_take_and_remove", {}, Null,
                     [i \in 1 .. n |-> RemovedFirst[i].data], <<>>))

\* Mutated form: the count is not reset.
EmptiedOnly ==
  /\ heap' = Restrict(heap, DOMAIN heap \ ToSet(Walk))
  /\ head' = Null
  /\ UNCHANGED elements_count

\* list_clean.
Emptied ==
  /\ heap' = Restrict(heap, DOMAIN heap \ ToSet(Walk))
  /\ head' = Null
  /\ elements_count' = 0

Clean ==
  /\ Emptied
  /\ \/ Returns(Result("list_clean", Null))
     \/ Returns(Outcome("list_clean_and_destroy_elements", {}, Null, <<>>, list_iterate))

Destroy ==
  /\ live /\ live' = FALSE
  /\ Emptied
  /\ \/ last' = Result("list_destroy", Null)
     \/ last' = Outcome("list_destroy_and_destroy_elements", {}, Null, <<>>, list_iterate)

ListInit ==
  /\ heap = [n \in {} |-> Null] /\ head = Null /\ elements_count = 0
  /\ live = FALSE
  /\ last = Result("none", Null)

ListNext ==
  \/ Create \/ Look \/ Clean \/ Destroy
  \/ \E d \in Data : list_add(d) \/ \E i \in Indices : list_add_in_index(i, d) \/ Replace(i, d)
  \/ \E i \in Indices : list_remove(i) \/ RemoveFault(i) \/ list_take_and_remove(i)
  \/ \E c \in Conditions : list_remove_by_condition(c)

ListSpec == ListInit /\ [][ListNext]_listVars

--------------------------------------------------------------------------------
(******************************************************************************)
(* Properties.                                                                *)
(******************************************************************************)

(******************************************************************************)
(* The walk by next and the walk by count meet the same elements, and the     *)
(* last one ends the list: no call leaves a count that list_get_element would *)
(* follow past NULL, or elements that it does not reach (list.c:327-339).     *)
(******************************************************************************)
WalksAgree ==
  /\ elements_count = Len(Walk)
  /\ \A i \in DOMAIN Walk : list_get_element(i - 1) = Walk[i]

(******************************************************************************)
(* Every element allocated is in the list, once, and no list is left over: no *)
(* call loses an element or keeps one it freed.                               *)
(******************************************************************************)
NothingLost ==
  /\ DOMAIN heap = ToSet(Walk)
  /\ live \/ DOMAIN heap = {}

(******************************************************************************)
(* Whatever is done to the list, it behaves as a sequence: contents, returned *)
(* values, sublists, and what is given to destroyers, in that order.          *)
(******************************************************************************)
Sequence == INSTANCE ListSequence WITH seq <- list_iterate

ImplementsSequence == Sequence!Spec

(******************************************************************************)
(* "Remueve y destruye los elementos de la lista que hagan que condition      *)
(* devuelva != 0" (list.c:186): after list_remove_and_destroy_by_condition no *)
(* element is left that makes condition return non-zero.                      *)
(******************************************************************************)
DestroysEveryMatch ==
  last.op = "list_remove_and_destroy_by_condition" =>
    ToSet(list_iterate) \cap last.condition = {}
================================================================================
