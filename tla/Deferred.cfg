SPECIFICATION FairSpec
CONSTANTS
    a = a  b = b
    Procs = {a, b}
    LOOPS = 3
    Ending <- Endings
    Signals = {a}
    MaxReads = 2
CHECK_DEADLOCK FALSE
INVARIANTS FullResult FreedOnlyToBeWoken FunctionInsideRead NoLostWakeup
PROPERTY ReadReturns
