CONSTANTS
    e0 = e0  e1 = e1  e2 = e2  f1 = f1
    Nodes = {n1, n2, n3, n4}
    Head = Head  Tail = Tail  NoNode = NoNode  NULL = NULL
    Elements = {e0, e1, e2, f1}
    KeyOf <- MCKeyOf
    MaxKey = 2
    NumLevels = 3
    RAND_MAX = 7
SPECIFICATION Spec
SYMMETRY Symmetry
INVARIANTS
    TypeOK
    Layout
    LeftBeforeFreed
    AllFreed
    LevelsHalve
PROPERTIES
    ImplementsOrderedMap
