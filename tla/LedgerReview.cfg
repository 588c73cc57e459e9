\* Four transactions with two credits among them, and two purchases of three splits.
CHECK_DEADLOCK FALSE
SPECIFICATION MCSpec
CONSTANTS
    s1 = s1
    s2 = s2
    c1 = c1
    c2 = c2
    Subjects = {s1, s2}
    Candidates = {c1, c2}
    Account <- Accounts
    CreditCards = {"card"}
    Start <- Amounts
    Posted <- PostingMonths
    Statement <- Statements
    Editable = {c1}
    Edits <- Manual
    Closable = {1}
    Considered <- Offered
    MaxEvents = 4
    whole = whole
    left = left
    right = right
    shop = shop
    mixed = mixed
    Splits = {whole, left, right}
    TxnOf <- Owners
    Scope <- Scopes
    Month <- PurchaseMonths
    Imported = {mixed}
    Learns = {shop, mixed}
    Purposes = {"food", "fun"}
    Requests <- Asked
    Guesses = {"fun"}
    CategoryEdits <- Edited
    Delays = {"snoozed"}
    Unsettling = {mixed}
    ClosableMonths = {1}
    MaxProposals = 2
INVARIANTS DecisionsHold FlowsFollowDecisions KnowledgeHolds
PROPERTIES NothingSweptAway ClosedMonthsStand
