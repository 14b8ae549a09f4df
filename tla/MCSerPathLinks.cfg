SPECIFICATION FairSpec
CONSTANTS
    m = m
    a = a
    b = b
    x = x
    y = y
    net = net
    Node = {m, a, b}
    Alias = {x}
    Me = m
    MyAliases = {x}
    NoAddr = NoAddr
    Loopback = Loopback
    Subnet <- MCFlat
    MaxAddr = 2
    ConfPath = 2
    LittleEndian = FALSE
    MaxHops = 2
    MaxLinks = 3
    MaxEntries = 1
    Destination = {m, b}
INVARIANTS CacheCoherent
PROPERTIES AllPathsUsed
