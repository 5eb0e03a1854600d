CONSTANTS
    q1 = q1  q2 = q2  j1 = j1  j2 = j2  p1 = p1  p2 = p2  none = none
    Chunks = {1, 2}
    Providers = {p1, p2}
    First = p1
    Requests = {q1}
    Jobs = {j1}
    None = none
    Ops = {"rebuild", "resume"}
    Faults = {}
    MaxFaults = 0
SPECIFICATION Spec
INVARIANTS CompletedIsWhole
CHECK_DEADLOCK FALSE
