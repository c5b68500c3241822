CONSTANTS
    t1 = t1  t2 = t2  a = a  b = b
    NoThread = NoThread
    Threads = {t1, t2}
    NumSlots = 2
    RLMax = 1
    NumBlocks = 4
    Cells = {a}
    StartCell <- OneCell
    Requests <- FullRequests
    Retirers = {t2}
    MaxCalls <- FullCalls
SPECIFICATION Spec
INVARIANTS
    FullListWaits
