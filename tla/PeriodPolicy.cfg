\* Three keys, three reviews, two resolutions; two transactions, two lines and
\* two statements; the scopes use parts of them.
SPECIFICATION MCSpec
CONSTANTS
    Months = {1, 2}
    Rows = {r1}
    Balance = balance
    Versions = {1, 2}
    Amounts <- UnitAmounts
    Keys = {k1, k2, k3}
    MaxDrift = 1
    MaxPreacks = 3
    MaxResolutions = 2
    Periods = {1, 2}
    t2 = t2
    Ledger = {t1, t2}
    Lines = {l1, l2}
    Papers = {1, 2}
    PaperOf <- FirstStatement
    Credit = {l1}
    Stated <- OneMonthEach
    Accounts = {main, other}
    Main = main
    Known = {main}
    Cents <- UnitAmounts
    MaxCents = 2
    Nothing = nothing
SYMMETRY KeySymmetry
INVARIANTS PolicyInv FrozenStands RowsAreReported
PROPERTIES HistoryKept ImplementsMonthLock AdjustmentTies
