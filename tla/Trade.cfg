\* Ten small worlds of documents over one stock, costs that do not divide.
SPECIFICATION TradeSpec
CONSTANTS
  main = main
  shop = shop
  c1 = c1
  c2 = c2
  NoDoc = NoDoc
  Kind <- AllKinds
  Plans <- EveryPlan
  Approved = {"so2"}
  Callers = {c1, c2}
  Quantities = {1, 2}
  AutoApproved = {"po1"}
  Warehouses = {main, shop}
  Main = main
  Account <- OwnAccounts
  Negative = {}
  Scale = 4
  Costs = {2}
  OpeningStock = 3
  OpeningCost = 6
SYMMETRY Symmetric
INVARIANTS
  StockIsExplained
  QuantitiesStayWithinSource
  LedgerExplainsStock
PROPERTIES
  PostedValuesStand
CHECK_DEADLOCK FALSE
