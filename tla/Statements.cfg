SPECIFICATION MCSpec
CONSTANTS
  d1 = d1
  d2 = d2
  d3 = d3
  a = a
  b = b
  Months = {1, 2}
  Anchor = 1
  Docs = {d1, d2, d3}
  Rows <- OneRow
  Sayable <- Writable
  Contents = {a, b}
  Awaiting = {}
  Credits = {b}
  Printed <- Listed
  Checkable = {d1, d2, d3}
  Readings <- Read
  Kinds = {"monthly"}
  NoTransaction = NoTransaction
  MaxPolicies = 2
  Activities = {"transactions", "zero_activity"}
  Closable = {1}
  Receipts = {}
  StalePages = FALSE
INVARIANTS LifecycleFollows RowsAddUp 
PROPERTIES ClosedStands
CHECK_DEADLOCK FALSE
