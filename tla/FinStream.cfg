SPECIFICATION FairSpec
CONSTANTS
    a = a  b = b  c = c
    Procs = {a, b, c}
    Uses <- OneReader
    SSIZE = 3
    Lens = {0, 2, 4}
    Faults = TRUE
    MaxBytes = 5
CHECK_DEADLOCK FALSE
INVARIANTS TypeOK SemaphoreDiscipline RingHoldsNewest SleepsOnEmptyRing
PROPERTIES ImplementsFifo WaiterLeaves
