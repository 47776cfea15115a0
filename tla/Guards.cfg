SPECIFICATION Spec
CONSTANTS
  t1 = t1
  Transactions = {t1, t2}
  Entries = {"e1", "e2"}
  NewLines = {l3, l4, l5, l6}
  Lines <- MCLines
  Periods = {"p1", "p2"}
  Documents = {"inv"}
  Sources = {"rct", "cn"}
  Rows = {"r1", "r2"}
  Type <- MCType
  Worth <- MCWorth
  Amounts = {1}
  Totals = {0, 1, 2}
  MaxStatements <- MCStatements
  Opening <- MCOpening
  Worlds <- MCWorlds
SYMMETRY Symmetric
INVARIANTS
  CommittedRowsAgree
PROPERTIES
  PostedRowsStand
CHECK_DEADLOCK FALSE
