CONSTANTS
    en0 = en0
    en1 = en1
    Interfaces = {en0, en1}
    Busy = {en0, en1}
    Fragile = {}
    Sessions = 1
    NoOp = NoOp
SPECIFICATION Spec
INVARIANTS ParsedByOwnOperation
CHECK_DEADLOCK FALSE
