\* The outbox stops when everything is settled and the user does no more.
CHECK_DEADLOCK FALSE
SPECIFICATION FairOutboxSpec
CONSTANTS
    MaxCaptures = 2
    MaxAutoAttempts = 2
    BatchSize = 1
    Devices <- TwoDevices
    MaxReloads = 1
    MaxRemovals = 1
    MaxRetries = 1
    MaxOutages = 1
INVARIANTS OriginalsHeld
PROPERTIES AcknowledgementStays RecordsSettle
