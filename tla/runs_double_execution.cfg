CONSTANTS
    r1 = r1  r2 = r2  q1 = q1  q2 = q2  w1 = w1  w2 = w2  w3 = w3
    t1 = t1  t2 = t2  t3 = t3  none = none
    Runs = {r1}
    EmptyRuns = {}
    Requests = {q1}
    Workers = {w1, w2}
    TaskIds = {t1, t2}
    NoRun = none
    NoTask = none
    Ops <- OnlyRun
    Faults = {"restart"}
    MaxFaults = 1
SPECIFICATION Spec
INVARIANTS AtMostOneEngine
SYMMETRY Perms
CHECK_DEADLOCK FALSE
