SPECIFICATION Spec
CONSTANTS
    a = a
    b = b
    c = c
    d = d
    x = x
    Node = {a, b, c, d}
    Alias = {x}
    NoAddr = NoAddr
    Owner <- MCOwner
    RealAddr <- MCRealAddr
    Graphs <- MCGraphs
    Id = {1}
    MaxChanges = 1
    MaxHops = 3
PROPERTY RecoveryForwards
CHECK_DEADLOCK FALSE
