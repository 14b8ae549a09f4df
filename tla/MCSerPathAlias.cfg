SPECIFICATION Spec
CONSTANTS
    m = m
    a = a
    b = b
    x = x
    y = y
    net = net
    Node = {m, a, b}
    Alias = {y}
    Me = m
    MyAliases = {}
    NoAddr = NoAddr
    Loopback = Loopback
    Subnet <- MCFar
    MaxAddr = 3
    ConfPath = 1
    LittleEndian = TRUE
    MaxHops = 2
    MaxLinks = 2
    MaxEntries = 3
    Destination = {y}
INVARIANTS TypeOK HashSound LocalLinksExact
SYMMETRY Swaps
PROPERTIES SoundRoute
