CONSTANTS
  Txn = {1, 2, 3}
  Server = {1, 2}
  Cell = {"a", "b"}
  Piece <- AgainPieces
  EarlyReturn = TRUE
  NoTxn = NoTxn
SPECIFICATION WarmSpec
INVARIANT Serializable
CHECK_DEADLOCK FALSE
