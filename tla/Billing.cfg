\* One sale with two reversals, or one purchase; four lines at most.
SPECIFICATION BillingSpec
CONSTANTS
  n1 = n1
  n2 = n2
  Absent = Absent
  RateScale = 100
  Tolerance = 500
  Forms <- SomeForms
  Headers <- SomeHeaders
  Quantities = {0, 1, 2}
  Rates = {100, 137}
  Reversals = {n1, n2}
SYMMETRY SymmetricNotes
INVARIANTS
  AmountsAgree
  ReversalsStayWithinInvoice
CHECK_DEADLOCK FALSE
