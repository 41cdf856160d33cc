CONSTANTS
  Txn = {1, 2}
  NoTxn = 0
  Site = {1, 2}
  Row = {"a", "b"}
  Cell <- Cells
  Piece <- MixPieces
  MaxTry = 2
SPECIFICATION FairSpec
INVARIANT RequestsKnown
PROPERTY Serial
INVARIANT LocksOwned
INVARIANT PreparedCurrent
INVARIANT LateLoopIdle
PROPERTY Answered
