CONSTANTS
    t1 = t1  t2 = t2  t3 = t3
    n1 = n1  n2 = n2  n3 = n3  n4 = n4  n5 = n5
    e0 = e0  e1 = e1  f0 = f0  f1 = f1  f2 = f2  g1 = g1
    NoThread = NoThread  Head = Head  Tail = Tail  NoNode = NoNode  NULL = NULL
    Elements = {e0, e1, f0, f1, f2, g1}
    KeyOf <- MCKeyOf
    MaxKey = 2
    Threads = {t1, t2}
    Nodes = {n1, n2, n3}
    NumLevels = 2
    CallsOf <- DropCalls
    MaxCalls = 1
    Contents <- TallContents
SPECIFICATION Spec
INVARIANTS
    PutStores
