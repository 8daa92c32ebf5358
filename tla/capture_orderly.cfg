CONSTANTS
    SeqMod = 64
    WordMod = 4096
    Client = Client
    Server = Server
    Hosts = {Client, Server}
    LocalAddresses = {Client}
    Pairs = {o1, o2, o3, o4}
    NoPair = NoPair
    Requests <- MCRequests
    NoRequest = NoRequest
    Bytes <- MCBytes
    CRLF <- MCCRLF
    Payloads <- MCPayloads
    HasReceiver = TRUE
    MaxData = 12
    A = A
    B = B
    pad = pad
    Conns = {A, B}
    ClientISN <- DisjointClient
    ServerISN <- DisjointServer
    KeepAlive = {A}
    Exchanges = 2
    RequestLen = 2
    HeaderLen = 3
    ResponseLen = 4
    MaxSegment = 3
    Padding <- MCPadding
    ShortFrame = 1
    PartialAcks = FALSE
    Reordering = FALSE
    Resends = 1
    Repeats = 0
    Drops = 0
SYMMETRY Symmetry
SPECIFICATION CaptureSpec
INVARIANTS ExactResponse EveryHeaderReported NoRangeException NothingLeftOver FollowingFoundByAck
PROPERTIES KeyMovesOnFirstSegment
CHECK_DEADLOCK FALSE
