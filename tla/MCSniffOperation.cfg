CONSTANTS
    SeqMod = 3
    WordMod = 32
    me = me
    peer = peer
    t = t
    n = n
    Hosts = {me, peer}
    LocalAddresses = {me}
    Pairs = {o1, o2}
    NoPair = NoPair
    Requests = {t}
    NoRequest = NoRequest
    Bytes = {t, n}
    CRLF = {n}
    Payloads <- MCPayloads
    HasReceiver = TRUE
    MaxData = 4
SPECIFICATION Spec
INVARIANTS TypeOK OneKeyPerPair ReportedOnce PendingIncomplete
PROPERTIES TrackerSpec
CHECK_DEADLOCK FALSE
