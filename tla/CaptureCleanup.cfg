SPECIFICATION Spec
CONSTANTS
    c1 = c1
    c2 = c2
    t1 = t1
    t2 = t2
    Contents = {c1}
    NoContent = NoContent
    CaptureIds = {1, 2}
    Callers = {t1, t2}
    MaxJobs = 2
    MaxFaults = 2
INVARIANTS
    AckedIsStored
