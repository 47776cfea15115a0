\* Five calls, two periods of one year, one user at the calendar.
SPECIFICATION FairSpec
CONSTANTS
  LastPeriod = 2
  Closers = {u1}
  Nobody = Nobody
  Nothing = Nothing
  e1 = e1  e2 = e2  e3 = e3  d1 = d1  d2 = d2
  invoice = invoice  note = note  bill = bill
  k1 = k1  k2 = k2
  Requests = {e1, e2, e3, d1, d2}
  Direct = {d1, d2}
  Sources = {invoice, note, bill}
  Key <- Keys
  Source <- SourceOf
  EntryPeriod <- Dated
  YearOf <- OneYear
  ResetPolicy = "YEARLY"
INVARIANTS
  OnceOnly
  NumbersHandedOutOnce
  LedgerIsGapFree
PROPERTIES
  EngineRespectsClose
  EveryCallEnds
  RepeatIsAnswered
CHECK_DEADLOCK FALSE
