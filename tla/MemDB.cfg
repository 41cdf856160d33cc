CONSTANTS
  Table = {t1, t2, t3}
  Base = t1
  Group = {g1, g2}
  Row = {1, 2, 3}
  KeyOf <- TwoKeys
  GcMin = 2
  MaxVer = 3
  NoTable = NoTable
  Txn = {p, q}
  Use <- AllUses
SYMMETRY Symmetric
SPECIFICATION Spec
CHECK_DEADLOCK FALSE
INVARIANT QueryExact
INVARIANT QueryOrdered
PROPERTY SnapshotsFrozen
PROPERTY NestedTransparent
PROPERTY CommitExactAlone
