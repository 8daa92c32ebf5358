CONSTANTS
    en0 = en0
    en1 = en1
    ppp0 = ppp0
    a1 = a1
    a2 = a2
    a3 = a3
    mask1 = mask1
    mask2 = mask2
    bcast1 = bcast1
    bcast2 = bcast2
    mac = mac
    EthernetNames = {en0, en1}
    FireWireNames = {}
    NoAddress = NoAddress
    Threads = {t1, t2}
    NoThread = NoThread
    Nets <- MCNets
    Refreshes = 1
    Calls = 2
    Changes = 1
    Failures = 1
    MaxObjects = 3
SPECIFICATION FairSpec
INVARIANTS TypeOK RefsAreOwners NoDanglingUse CopiesAgree CopiesDescribeNet
PROPERTIES LockIsReleased
CHECK_DEADLOCK FALSE
