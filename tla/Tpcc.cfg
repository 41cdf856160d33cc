SPECIFICATION Spec
CONSTANTS
  NumSite = 2
  MaxTry = 2
  Unset = Unset
  CLast <- MCCLast
  Price <- MCPrice
  Populated <- MCPopulated
  Mix <- MCMix
INVARIANT VerifiesHold
INVARIANT NoneStuck
INVARIANT OrdersWhole
INVARIANT OrderNumbers
INVARIANT LatestOrder
INVARIANT TotalsAdd
INVARIANT StatusIsSnapshot
