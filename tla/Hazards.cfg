CONSTANTS
    t1 = t1  t2 = t2  a = a  b = b
    NoThread = NoThread
    Threads = {t1, t2}
    NumSlots = 3
    RLMax = 2
    NumBlocks = 4
    Cells = {a, b}
    StartCell <- TwoCells
    Requests <- HazardRequests
    Retirers = {t2}
    MaxCalls <- HazardCalls
SPECIFICATION Spec
PROPERTIES
    Reclaims
INVARIANTS
    TypeOK
    Accounted
    SearchFinds
    DeleteFreesTheRest
    ScansMeetEveryThread
    HazardInv
CHECK_DEADLOCK FALSE
