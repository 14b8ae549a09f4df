SPECIFICATION FairSpec
CONSTANTS
    m = m
    a = a
    b = b
    x = x
    y = y
    net = net
    Node = {m, a, b}
    Alias = {x, y}
    Me = m
    MyAliases = {y}
    NoAddr = NoAddr
    Subnet <- MCSubnet
    MaxAddr = 2
    ConfPath = 1
    Bucket <- OwnBucket
    MaxChanges = 4
INVARIANTS LinksInSync PrologueFirst
PROPERTIES CommandsApply CatchesUp
CHECK_DEADLOCK FALSE
