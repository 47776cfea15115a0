SPECIFICATION Spec
CONSTANTS
  i1 = i1
  l1 = l1
  l2 = l2
  w1 = w1
  w2 = w2
  Invoices = {i1}
  Links = {l1, l2}
  Workers = {w1, w2}
  Clerks = {w1, w2}
  Callers = {w1, w2}
  NoLink = NoLink
  NoRow = NoRow
  Total <- Totals2
  Minor = 2
  Delayed = {l2}
CONSTRAINT OneLinkAtATime
SYMMETRY Symmetric
INVARIANTS
  ReceiptsAreSound
  OneLinkPerAmount
  NoPaymentForgotten
PROPERTIES
  SettledForGood
  ImplementsCardReceipts
CHECK_DEADLOCK FALSE
