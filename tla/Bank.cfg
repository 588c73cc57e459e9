\* Connections: two calls at a time, two Link sessions of which the first one's
\* connection is read, a consent given again or withdrawn, a lapse and a crash.
\* Feed: two provider accounts of one ledger account, equal charges a week apart.
SPECIFICATION MCSpec
CONSTANTS
    Callers = {t1, t2}
    MaxSessions = 2
    Synced = {1}
    MaxConsents = 2
    MaxWindows = 2
    MaxRecords = 1
    MaxLapses = 1
    MaxCrashes = 1
    Feeds = {"main", "joint"}
    Accounts = {"chequing", "cash"}
    Subjects = {"s1", "s2"}
    FeedOf <- OnFeed
    Evidence <- Charges
    Bindings <- Chosen
    Receipts = {"r1"}
    Paper <- Slip
    DefaultAccount = "cash"
    Arriving <- Lines
    Edits <- Edited
    MonthOf <- Calendar
    MaxObservations = 2
    MaxBindings = 3
    MaxLedger = 2
    MaxAssociations = 2
    Closable = {"june"}
\* A household with no further request may rest.
CHECK_DEADLOCK FALSE
SYMMETRY CallerSymmetry
INVARIANTS ConnectionHolds FeedHolds NoSilentTwin
PROPERTIES LateAnswersHarmless DecidedAsShown
