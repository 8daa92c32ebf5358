CONSTANTS
    en0 = en0
    en1 = en1
    Interfaces = {en0}
    Busy = {en0}
    Fragile = {}
    Sessions = 2
    NoOp = NoOp
SPECIFICATION FairSpec
PROPERTIES CancelledEnds
CHECK_DEADLOCK FALSE
