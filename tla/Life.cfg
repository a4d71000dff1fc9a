SPECIFICATION FairSpec
CONSTANTS
    a = a  b = b
    Users = {a, b}
CHECK_DEADLOCK FALSE
INVARIANTS HandlerHasMemory ReleasedOnlyIfHeld LeftBehind
 
