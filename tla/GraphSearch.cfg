CONSTANTS
  Txn = {1, 2, 3}
  Server = {1}
  MaxEdges = 4
  MaxCommits = 1
SPECIFICATION Spec
INVARIANT FindSccCorrect
INVARIANT AncOptCorrect
INVARIANT SortRespectsI
INVARIANT SortUniqueOfTwo
 
CHECK_DEADLOCK FALSE
