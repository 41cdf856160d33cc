CONSTANTS
  Txn = {1, 2}
  NoTxn = 0
  Site = {1, 2}
  Cell <- PayCells
  Piece <- PayPieces
  Modes <- AllModes
  LoopRaces = FALSE
SPECIFICATION FairSpec
INVARIANT VerifiesHold
INVARIANT LocksOwned
INVARIANT NoCircle
PROPERTY Serial
PROPERTY Answered
