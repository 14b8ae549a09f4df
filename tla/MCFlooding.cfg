SPECIFICATION FairSpec
CONSTANTS
    src = src
    u = u
    w = w
    m = m
    k = k
    x = x
    Node = {src, u, w, m, k, x}
    SeqRange = 16
    Window = 3
    TooLow = 2
    MaxTtl = 5
    PacketRoom = 2
    MaxMessages = 6
    None = None
    Scenario <- MCScenario
INVARIANTS TypeOK ProcessedOnce HeardAgain FloodReaches
PROPERTIES FloodEnds
CHECK_DEADLOCK FALSE
