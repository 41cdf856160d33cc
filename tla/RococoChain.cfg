CONSTANTS
  Txn = {1, 2}
  Server = {1, 2}
  Cell = {"a", "b", "c"}
  Piece <- ChainPieces
  EarlyReturn = TRUE
  NoTxn = NoTxn
SPECIFICATION FairSpec
INVARIANT VerifiesHold
INVARIANT FinishedServersComplete
INVARIANT EdgesComplete
INVARIANT CommitAfterFinish
PROPERTY Completes
CHECK_DEADLOCK FALSE
