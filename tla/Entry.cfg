SPECIFICATION EntrySpec
CONSTANTS
  ann = ann
  bob = bob
  Clerks <- TwoClerks
  Typeable <- MCRequests
  AtOnce <- SameVendor
  OnHand = 2
  Remaining = 2
  OnHandThere = 6
  SameAccount = FALSE
  PurchasePrice = 0
  AverageCost = 1
  ReceivedCost = 2
  TaxPercent = 10
  ExchangeRate = 2
  Largest = 7
SYMMETRY EitherClerk
INVARIANTS
  ErrorsAreTold
  TypedIsKept
CHECK_DEADLOCK FALSE
