SPECIFICATION NodeSpec
CONSTANTS
  Node = {A, B}
  LastHeight = 2
  NoHash = NoHash
  NoTime = NoTime
  Nil = Nil
  Absent = Absent
INVARIANTS NothingHalfDone AncestorsServedSomewhere
 
CHECK_DEADLOCK FALSE
