SPECIFICATION Spec
CONSTANTS
    a = a  b = b  c = c
    Procs = {a, b}
    Uses <- StreamUses
    DEVSIZE = 3
    Lens = {1, 2}
    Flags = {FALSE}
    Faults = FALSE
    MaxBytes = 4
INVARIANT WriterHasRoom
