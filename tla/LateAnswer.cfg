CONSTANTS
  Txn = {1, 2}
  Server = {1, 2}
  Cell = {"a", "b"}
  Piece <- PairPieces
  EarlyReturn = TRUE
  NoTxn = NoTxn
SPECIFICATION FairSpec
PROPERTY Completes
CHECK_DEADLOCK FALSE
