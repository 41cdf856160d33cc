CONSTANTS
  Configs <- MCConfigs
  Null = Null
  MaxLines = 3
SPECIFICATION Spec
INVARIANT RowsOnce
INVARIANT RowsPresent
INVARIANT OrdersConsistent
INVARIANT DrawsAreFresh
