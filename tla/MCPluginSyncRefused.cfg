SPECIFICATION Spec
CONSTANTS
    m = m
    a = a
    b = b
    x = x
    y = y
    net = net
    Node = {m, a, b}
    Alias = {x}
    Me = m
    MyAliases = {}
    NoAddr = NoAddr
    Subnet <- MCSubnet
    MaxAddr = 2
    ConfPath = 1
    Bucket <- OwnBucket
    MaxChanges = 3
PROPERTY NothingRefused
CHECK_DEADLOCK FALSE
