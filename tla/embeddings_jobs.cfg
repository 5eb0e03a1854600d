CONSTANTS
    q1 = q1  q2 = q2  j1 = j1  j2 = j2  p1 = p1  p2 = p2  none = none
    Chunks = {1, 2}
    Providers = {p1}
    First = p1
    Requests = {q1}
    Jobs = {j1, j2}
    None = none
    Ops = {"rebuild", "retry", "resume", "sync", "cancel", "delete"}
    Faults = {"begin", "restart"}
    MaxFaults = 1
SPECIFICATION Spec
INVARIANTS ActiveHasJob
PROPERTIES CancelledIsStable
SYMMETRY Perms
CHECK_DEADLOCK FALSE
