CONSTANTS
    q1 = q1  q2 = q2  q3 = q3  w1 = w1  w2 = w2  t1 = t1  t2 = t2  t3 = t3
    none = none
    Requests = {q1}
    Workers = {w1, w2}
    TaskIds = {t1, t2}
    None = none
    Ops = {"process", "tool", "cancel", "retry", "delete"}
    Faults = {"crash", "begin", "redeliver", "restart"}
    MaxFaults = 1
SPECIFICATION Spec
INVARIANTS IndexedIsWhole
SYMMETRY Perms
CHECK_DEADLOCK FALSE
