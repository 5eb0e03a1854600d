SPECIFICATION Spec
CONSTANTS
    Steps = {a, b, c}
    Missing = {}
    Conditional = {c}
    Silent = {b}
    Graphs <- Acyclic
    Sessions = {s1, s2, s3}
    Modes = {TRUE, FALSE}
    Overlap = FALSE
SYMMETRY Symmetric
CHECK_DEADLOCK FALSE
INVARIANTS RowsReadable CommittedNotRepeated StopsAtFailure OutputsComplete
PROPERTIES DependencyOrder
