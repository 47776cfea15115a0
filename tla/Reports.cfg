SPECIFICATION ReportsSpec
CONSTANTS
  PostingDays <- MCDays
  LastDate = 3
  Horizon = 7
  Month = 1
  Things <- MCThings
  Kind <- MCKind
  Worth <- MCWorth
  Tax <- MCTax
  Recoverable <- MCRecoverable
  Stocked <- MCStocked
  FromReceipt <- MCFromReceipt
  Cost <- MCCost
  Lag <- MCLag
  Terms <- MCTerms
  CurrencyOf <- MCCurrency
  RowIds = {"a1", "a2"}
  Amounts = {1, 2}
  Plans <- MCPlans
INVARIANTS
  StatementsAgree
  
PROPERTIES
  PastStands
CHECK_DEADLOCK FALSE
