\* The same instance as PeriodPolicy.cfg, for the promise of adjust.py that every
\* adjustment ties its balance.
SPECIFICATION MCSpec
CONSTANTS
    Months = {1, 2}
    Rows = {r1}
    Balance = balance
    Versions = {1, 2}
    Amounts <- UnitAmounts
    Keys = {k1, k2, k3}
    MaxDrift = 1
    MaxPreacks = 3
    MaxResolutions = 2
    Periods = {1, 2}
    t2 = t2
    Ledger = {t1, t2}
    Lines = {l1, l2}
    Papers = {1, 2}
    PaperOf <- FirstStatement
    Credit = {l1}
    Stated <- OneMonthEach
    Accounts = {main, other}
    Main = main
    Known = {main}
    Cents <- UnitAmounts
    MaxCents = 2
    Nothing = nothing
SYMMETRY KeySymmetry
PROPERTIES AdjustmentAlwaysTies
