\* A customer and a vendor; a second call posts the vendor's bill again.
SPECIFICATION Spec
CONSTANTS
  p1 = p1
  p2 = p2
  t1 = t1
  t2 = t2
  t3 = t3
  c1 = c1
  c2 = c2
  b1 = b1
  b2 = b2
  NoBatch = NoBatch
  NoEntry = NoEntry
  Payments = {p1, p2}
  Targets = {t1, t2, t3}
  Credits = {c1, c2}
  Batches = {b1, b2}
  Side <- BothSides
  Party <- TwoParties
  Total <- Totals
  Rate <- WholeRates
  RateScale = 1
  PaymentAmounts = {2}
  Fees = {1}
  LineAmounts = {1, 2}
  Plans <- SomePlans
  Posters <- TwoOnBills
  MaxMoney = 50
SYMMETRY SymmetricKeys
INVARIANTS
  ColumnsFollowRows
  RemaindersAreDerived
  LiveBatchesHaveLiveMoney
  ReversedPaymentIsCancelled
  LedgerReconciles
PROPERTIES
  ImplementsOpenItems
CHECK_DEADLOCK FALSE
