CONSTANTS
  Txn = {1, 2, 3}
  Server = {1, 2, 3}
  Cell = {"a", "b", "c"}
  Piece <- TrianglePieces
  EarlyReturn = TRUE
  NoTxn = NoTxn
SPECIFICATION Spec
INVARIANT CommitAfterFinish
CHECK_DEADLOCK FALSE
