SPECIFICATION FairSpec
CONSTANTS
    Steps = {a, b, c}
    Missing = {x}
    Conditional = {a}
    Silent = {}
    Graphs <- AllGraphs
    Sessions = {s1, s2}
    Modes = {TRUE}
    Overlap = TRUE
CHECK_DEADLOCK FALSE
INVARIANTS NoStepLost NeverDeadlocks
PROPERTIES ExecutionsEnd
