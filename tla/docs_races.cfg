CONSTANTS
    q1 = q1  q2 = q2  q3 = q3  w1 = w1  w2 = w2  t1 = t1  t2 = t2  t3 = t3
    none = none
    Requests = {q1, q2}
    Workers = {w1}
    TaskIds = {t1, t2}
    None = none
    Ops = {"process", "cancel", "delete"}
    Faults = {}
    MaxFaults = 0
SPECIFICATION FairSpec
INVARIANTS TypeOK QueuedHasJob
PROPERTIES CancelledIsStable Settles
CHECK_DEADLOCK FALSE
