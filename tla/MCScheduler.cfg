SPECIFICATION FairSpec
CONSTANTS
    t1 = t1
    t2 = t2
    t3 = t3
    Timer = {t1, t2, t3}
    Chunk <- MCChunk
    Slots = 2
    Half = 5
    RelTime = {0, 2}
    MaxStep = 2
    StopsPrev = FALSE
INVARIANTS WheelSound WalkInSlot Punctual
PROPERTIES WalkEnds
