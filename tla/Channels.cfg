\* Two files of different names, three updates of which one has no file;
\* three messages of a chat page, a question and another client.
CHECK_DEADLOCK FALSE
SPECIFICATION MCSpec
CONSTANTS
    f1 = f1
    f2 = f2
    a = a
    b = b
    p = p
    w1 = w1
    w2 = w2
    Occurrences <- AllOccurrences
    ContentOf <- AllContents
    Configurations <- OneChannel
    MaxRestarts = 1
    MaxRemovals = 1
    Files = {f1, f2}
    Name <- TwoNames
    Pool = {w1, w2}
    Scan = scan
    MaxTasks = 2
    MaxErrors = 3
    Sent = 3
    Authorized = {1, 2, 3}
    WithFile = {1, 3}
    WithPath = {1, 3}
    StrictLocal = FALSE
    MaxDecisions = 3
    page = page
    app = app
    Tabs = {page, app}
    Repeaters = {app}
    Ids = {1, 2, 3}
    Questions = {q1}
    MaxReceipts = 2
    MaxEvents = 2
    MaxLosses = 2
    None = none
INVARIANTS SeenOnce NothingLost TurnsHold PageFollowsTurn
PROPERTIES UpdatesSettle
