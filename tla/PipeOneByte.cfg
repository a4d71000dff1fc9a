SPECIFICATION FairSpec
CONSTANTS
    a = a  b = b  c = c
    Procs = {a, b}
    Uses <- EveryUse
    DEVSIZE = 1
    Lens = {0, 1}
    Flags = {TRUE, FALSE}
    Faults = FALSE
    MaxBytes = 2
INVARIANTS SemaphoreDiscipline AsyncQueueOpen
 
