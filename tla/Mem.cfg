SPECIFICATION Spec
CONSTANTS
    a = a  b = b
    NULL = NULL
    Procs = {a, b}
    Uses <- MemUses
    scull_quantum = 2
    scull_qset = 2
    Sets = 2
    Seeks = {1, 2}
    Lens = {0, 1, 3}
    Values = {1}
    Faults = TRUE
    MaxWrites = 2
INVARIANT SemaphoreDiscipline
PROPERTY ImplementsFlat
