SPECIFICATION AccessFairSpec
CONSTANTS
    a = a  b = b  c = c
    Procs = {a, b, c}
    uid <- Users
    euid <- Effective
    Capable = {c}
    Uses <- Roles
    DEVSIZE = 2
    Lens = {1}
    Flags = {FALSE}
    Faults = FALSE
    MaxBytes = 1
INVARIANTS TypeOK CountIsOpenFiles OwnedByOneUser NoLostWakeup OneUserInThePipe OneOpenFile Balance FreeMeansQuiet
PROPERTY SleeperRetries
