SPECIFICATION ImportsSpec
CONSTANTS
  f1 = f1
  f2 = f2
  f3 = f3
  Files = {f1, f2, f3}
  Rows <- FileRows
  Provider <- Providers
  Month <- Months
  Complete = {f1}
  Accounts = {"main", "spare"}
  Forms <- Submitted
  Texts = {"final"}
  Closable = {1}
  MaxImports = 3
INVARIANTS ImportedOnce RowsHold
PROPERTIES ClosedStands
CHECK_DEADLOCK FALSE
