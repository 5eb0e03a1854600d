CONSTANTS
    a = a  b = b  c = c  d = d  t1 = t1  t2 = t2  nobody = nobody
    Steps = {a, b, c, d}
    Graphs <- AllGraphs
    Texts <- AllTexts
    MaxLength = 7  MaxSize = 4
    Sizes <- AllSizes
    Overlaps <- AllOverlaps
    Turns = {t1, t2}
    NoTurn = nobody
    MaxEffects = 2
    MaxSteps = 2
SPECIFICATION PartsSpec
INVARIANTS
    RejectsOnlyCycles
    AcceptsOnlyAcyclic
    PassagesKept
    TranscriptIsWhole
    EffectsHaveQuestions
    SoloAsksLast
    ToldIsTrue
    ReaderIsServed
PROPERTIES
    CyclesDecide
    StreamsEnd
CHECK_DEADLOCK FALSE
