CONSTANTS
  Txn = {1, 2, 3}
  Server = {1, 2}
  Cell = {"x", "y", "z"}
  Piece <- ImmediatePieces
  EarlyReturn = FALSE
  NoTxn = NoTxn
SPECIFICATION WarmSpec
INVARIANT CommitClosed
INVARIANT Serializable
INVARIANT GoneApplied
CHECK_DEADLOCK FALSE
