CONSTANTS
  Txn = {1, 2}
  NoTxn = 0
  Site = {1, 2}
  Cell <- PayCells
  Piece <- PayPieces
  Modes <- PlainModes
  LoopRaces = TRUE
SPECIFICATION RaceSpec
INVARIANT VerifiesHold
