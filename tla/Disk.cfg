SPECIFICATION FairSpec
CONSTANTS
    a = a  b = b
    Procs = {a, b}
    Size = 3
    Lens = {1, 3}
    NoRequest = NoRequest
    Blank = Blank
    Nobody = Nobody
PROPERTIES ImplementsAtomicDisk EveryRequestEnds
