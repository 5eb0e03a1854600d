CONSTANTS
    c1 = c1  c2 = c2  x1 = x1  x2 = x2  q1 = q1  q2 = q2
    openai = openai  anthropic = anthropic  m1 = m1  m2 = m2  None = None
    Callers = {c1, c2}
    Chain <- TheChain
    MaxRetries = 1
    Threshold = 2
    Cooldown = 2
    MaxTries = 2
    Processes = {x1, x2}
    Requests = {q1, q2}
    Order <- TheChain
    Keyed = {openai}
    Default = openai
    Models = {m1, m2}
    DefaultModel = m1
    MaxBegun = 2
SPECIFICATION PartsSpec
INVARIANTS
    CooldownEarned
    NoLockCycle
PROPERTIES
    OnlySuccessCloses
    Recovers
    RequestsEnd
    SoloUpdateIsExact
CHECK_DEADLOCK FALSE
