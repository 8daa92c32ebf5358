CONSTANTS
    en0 = en0
    en1 = en1
    Interfaces = {en0, en1}
    Busy = {en0, en1}
    Fragile = {en0}
    Sessions = 2
    NoOp = NoOp
SPECIFICATION FairSpec
INVARIANTS TypeOK MeIsAlive EndsOnlyIfCancelled
PROPERTIES StopTakesEffect QueueDrains CancelledEndIfPatient
CHECK_DEADLOCK FALSE
