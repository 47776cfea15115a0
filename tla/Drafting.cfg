SPECIFICATION Spec
CONSTANTS
  ann = ann
  bob = bob
  before = before
  after = after
  NoTerms = NoTerms
  Idle = Idle
  Users <- TwoUsers
  Terms <- TwoTerms
  Amounts = {1, 2}
  Kinds = {"SO", "PO", "PB", "PR", "DBN", "GR", "ST", "SA", "DN", "SI", "SR", "CN", "PAY"}
  Together = {"PAY", "DN"}
INVARIANTS
  BookedIsSigned
  TrailTellsTheDocument
PROPERTIES
  PostedStaysPosted
CHECK_DEADLOCK FALSE
