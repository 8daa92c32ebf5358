CONSTANTS
    SeqMod = 64
    WordMod = 4096
    Client = Client
    Server = Server
    Hosts = {Client, Server}
    LocalAddresses = {Client}
    Pairs = {o1, o2, o3}
    NoPair = NoPair
    Requests <- MCRequests
    NoRequest = NoRequest
    Bytes <- MCBytes
    CRLF <- MCCRLF
    Payloads <- MCPayloads
    HasReceiver = TRUE
    MaxData = 12
    A = A
    B = B
    pad = pad
    Conns = {A}
    ClientISN <- DisjointClient
    ServerISN <- DisjointServer
    KeepAlive = {A}
    Exchanges = 2
    RequestLen = 1
    HeaderLen = 4
    ResponseLen = 5
    MaxSegment = 3
    Padding <- NoPadding
    ShortFrame = 0
    PartialAcks = FALSE
    Reordering = TRUE
    Resends = 1
    Repeats = 1
    Drops = 1
SYMMETRY Symmetry
SPECIFICATION CaptureSpec
INVARIANTS AnswersItsRequest
CHECK_DEADLOCK FALSE
