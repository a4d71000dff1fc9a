SPECIFICATION FairSpec
CONSTANTS
    a = a  b = b  c = c
    Procs = {a, b, c}
    Uses <- TwoReaders
    DEVSIZE = 3
    Lens = {2}
    Flags = {FALSE}
    Faults = TRUE
    MaxBytes = 4
INVARIANTS TypeOK NewestBytesInOrder NoLostWakeup
PROPERTIES ImplementsFifo SleepingReaderWakes WriteReturns
