SPECIFICATION Spec
CONSTANTS
    size = 4
    Lens = {0, 1, 3, 9}
    MaxBytes = 8
INVARIANTS  FlagWakesReader 
