\* What the comment on list_remove_and_destroy_by_condition says.
CONSTANTS
  Node = {n1, n2}
  Data = {a, b}
  Null = null
  MaxLength = 2
SPECIFICATION ListSpec
INVARIANT DestroysEveryMatch
