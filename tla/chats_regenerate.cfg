CONSTANTS
    a1 = a1  a2 = a2  nobody = nobody
    Turns = {a1, a2}
    NoTurn = nobody
    MaxEffects = 1
SPECIFICATION ChatSpec
INVARIANTS RefusedWithoutQuestion
CHECK_DEADLOCK FALSE
