SPECIFICATION FairSpec
CONSTANTS
    s = s
    a = a
    b = b
    c = c
    d = d
    Node = {s, a, b, c, d}
    Null = Null
    Src = s
    Dst = d
    Graphs <- MCGraphs
    ConfPath = 3
    ConfFp = 2
    ConfFe = 2
    StaleHops = {3}
    MaxCost = 255
    MaxHops = 4
INVARIANTS BufferFits PathsSimple Contract SecondPathDiffers
PROPERTY Termination
CHECK_DEADLOCK FALSE
