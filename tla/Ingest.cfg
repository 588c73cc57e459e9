\* Two receipts, two jobs of two attempts, one fault: crash and rerun of a booked receipt,
\* retry, reprocessing, review, deletion and a second upload.
CONSTANTS
    Docs = {d1, d2}
    MaxAttempts = 2
    MaxJobs = 2
    MaxFaults = 1
\* With every job done and nothing uploaded the system rests.
CHECK_DEADLOCK FALSE
SPECIFICATION FairSpec
INVARIANTS QueueHolds BooksHold
PROPERTIES DecisionsFinal 
