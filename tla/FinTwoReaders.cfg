SPECIFICATION Spec
CONSTANTS
    a = a  b = b  c = c
    Procs = {a, b, c}
    Uses <- TwoReaders
    SSIZE = 3
    Lens = {1, 2}
    Faults = FALSE
    MaxBytes = 6
CHECK_DEADLOCK FALSE
INVARIANT SleepsOnEmptyRing
