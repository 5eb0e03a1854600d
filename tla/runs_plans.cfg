CONSTANTS
    r1 = r1  r2 = r2  q1 = q1  q2 = q2  w1 = w1  w2 = w2  w3 = w3
    t1 = t1  t2 = t2  t3 = t3  none = none
    Runs = {r1, r2}
    EmptyRuns = {r2}
    Requests = {q1, q2}
    Workers = {w1, w2}
    TaskIds = {t1, t2}
    NoRun = none
    NoTask = none
    Ops <- PlannedOps
    Faults = {"crash", "restart", "begin", "lose", "redeliver"}
    MaxFaults = 2
SPECIFICATION Spec
CONSTRAINT KeepsToAPlan
INVARIANTS TypeOK PendingIsUntouched RunTaskExclusive MessagesHaveRows
PROPERTIES PendingOnce CanceledIsStable
SYMMETRY Perms
CHECK_DEADLOCK FALSE
