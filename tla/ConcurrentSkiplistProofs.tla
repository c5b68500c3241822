---------------------- MODULE ConcurrentSkiplistProofs ----------------------
(***************************************************************************)
(* IInv is an inductive invariant of ConcurrentSkiplist: type correctness, *)
(* the order of the lists, the bounds of every access and the order of the *)
(* locks, for any number of threads, nodes, keys and levels.               *)
(***************************************************************************)
EXTENDS SkiplistProperties, WellFoundedInduction, TLAPS

USE NumLevelsAssumption, BorderAssumption, ThreadAssumption
    DEF Level, Bottom

\* What an action of t leaves alone: another thread's variables, ...
SameLocals(u) ==
    /\ pc'[u] = pc[u] /\ op'[u] = op[u] /\ key'[u] = key[u] /\ arg'[u] = arg[u]
    /\ prev'[u] = prev[u] /\ level'[u] = level[u] /\ found'[u] = found[u]
    /\ before'[u] = before[u] /\ after'[u] = after[u] /\ node'[u] = node[u]
    /\ locked'[u] = locked[u] /\ valid'[u] = valid[u] /\ took'[u] = took[u]

\* ... and of a node that is linked its key and its height.
KeepsNode(n) == KeyAt'[n] = KeyAt[n] /\ top'[n] = top[n]
KeepsBuilt == Built \subseteq Built' /\ \A n \in Built \cup {Tail} : KeepsNode(n)

\* The node u builds is not touched, and no other thread gets it.
KeepsOwn(u) ==
    node[u] # NoNode =>
        /\ node[u] \in heap' /\ KeepsNode(node[u])
        /\ node[u] \in Built' <=> node[u] \in Built
        /\ \A v \in Threads : node'[v] = node[u] => v = u

\* The result of a search stays true, whoever takes the step.
LEMMA FrameFound ==
    ASSUME NEW u \in Threads, FoundInv(u), Searched(u)' => Searched(u), KeepsBuilt,
           key'[u] = key[u], found'[u] = found[u],
           before'[u] = before[u], after'[u] = after[u]
    PROVE  FoundInv(u)'
<1>1. SUFFICES ASSUME Searched(u)' PROVE FoundInv(u)'
  BY DEF FoundInv
<1>2. Searched(u)
  BY <1>1
<1>3. ASSUME NEW l \in Level
      PROVE  IsBefore(u, before[u][l], l)' /\ IsAfter(u, after[u][l], l)'
  <2>1. IsBefore(u, before[u][l], l) /\ IsAfter(u, after[u][l], l)
    BY <1>2 DEF FoundInv
  <2>2. QED BY <2>1 DEF IsBefore, IsAfter, KeepsBuilt, KeepsNode
<1>4. ASSUME NEW l \in Level, NEW m \in Level, l < m
      PROVE  SameOrBefore(before[u][l], before[u][m])'
  <2>1. /\ SameOrBefore(before[u][l], before[u][m])
        /\ before[u][l] \in Built /\ before[u][m] \in Built
    BY <1>2, <1>4 DEF FoundInv, IsBefore
  <2>2. QED BY <2>1 DEF SameOrBefore, KeepsBuilt, KeepsNode
<1>5. found'[u] = NoNode \/ IsHit(u, found[u])'
  BY <1>2 DEF FoundInv, IsHit, KeepsBuilt, KeepsNode
<1>6. QED
  BY <1>3, <1>4, <1>5 DEF FoundInv

\* What a thread knows stays true when another one takes a step like this.
LEMMA Frame ==
    ASSUME NEW u \in Threads, TypeOK, ThreadInv(u), SameLocals(u), KeepsBuilt,
           KeepsOwn(u), \A n \in Node : lock'[n] = u => lock[n] = u
    PROVE  ThreadInv(u)'
<1> USE DEF SameLocals
<1>0. /\ CallInv(u) /\ SearchInv(u) /\ FoundInv(u)
      /\ ControlInv(u) /\ NodeInv(u) /\ LockInv(u)
  BY DEF ThreadInv
<1>1. CallInv(u)'
  BY <1>0 DEF CallInv, IsPut
<1>2. SearchInv(u)'
  <2>1. SUFFICES ASSUME Searching(u)' PROVE SearchInv(u)'
    BY DEF SearchInv, Searching
  <2>2. IsBefore(u, prev[u], level[u])'
    BY <1>0, <2>1 DEF SearchInv, Searching, IsBefore, KeepsBuilt, KeepsNode
  <2>3. ASSUME NEW l \in Level, l < level'[u]
        PROVE  IsBefore(u, before[u][l], l)'
    <3>1. IsBefore(u, before[u][l], l)
      BY <1>0, <2>1, <2>3 DEF SearchInv, Searching
    <3>2. QED BY <3>1 DEF IsBefore, KeepsBuilt, KeepsNode
  <2>4. ASSUME NEW l \in Level, l < level'[u]
        PROVE  IsAfter(u, after[u][l], l)'
    <3>1. IsAfter(u, after[u][l], l)
      BY <1>0, <2>1, <2>4 DEF SearchInv, Searching
    <3>2. QED BY <3>1 DEF IsAfter, KeepsBuilt, KeepsNode
  <2>5. ASSUME NEW l \in Level, l < level'[u]
        PROVE  SameOrBefore(before[u][l], prev[u])'
    <3>1. /\ SameOrBefore(before[u][l], prev[u])
          /\ before[u][l] \in Built /\ prev[u] \in Built
      BY <1>0, <2>1, <2>5 DEF SearchInv, Searching, IsBefore
    <3>2. QED BY <3>1 DEF SameOrBefore, KeepsBuilt, KeepsNode
  <2>6. ASSUME NEW l \in Level, NEW m \in Level, l < m, m < level'[u]
        PROVE  SameOrBefore(before[u][l], before[u][m])'
    <3>1. level[u] \in Int /\ l < level[u]
      BY <2>6 DEF TypeOK
    <3>2. /\ SameOrBefore(before[u][l], before[u][m])
          /\ before[u][l] \in Built /\ before[u][m] \in Built
      BY <1>0, <2>1, <2>6, <3>1 DEF SearchInv, Searching, IsBefore
    <3>3. QED BY <3>2 DEF SameOrBefore, KeepsBuilt, KeepsNode
  <2>7. pc'[u] = "after" => IsHit(u, found[u])' /\ top'[found'[u]] <= level'[u]
    BY <1>0 DEF SearchInv, IsHit, KeepsBuilt, KeepsNode
  <2>8. QED
    BY <2>1, <2>2, <2>3, <2>4, <2>5, <2>6, <2>7 DEF SearchInv
<1>3. FoundInv(u)'
  BY <1>0, FrameFound DEF Searched
<1>4. ControlInv(u)'
  BY <1>0 DEF ControlInv, FoundInv, Searched, IsHit, IsPut, ReadOp, LevelTo,
              KeepsBuilt, KeepsOwn, KeepsNode
<1>5. NodeInv(u)'
  BY <1>0 DEF NodeInv, ControlInv, IsPut, KeepsOwn, KeepsNode
<1>6. LockInv(u)'
  <2>1. ASSUME pc'[u] = "lock", NEW l \in locked'[u]
        PROVE  l > level'[u] /\ KeyAt'[before'[u][level'[u]]] < KeyAt'[before'[u][l]]
    <3>1. l \in Level /\ level[u] \in Level
      BY <2>1 DEF TypeOK
    <3>2. before[u][l] \in Built /\ before[u][level[u]] \in Built
      BY <1>0, <2>1, <3>1 DEF FoundInv, Searched, IsBefore
    <3>3. l > level[u] /\ KeyAt[before[u][level[u]]] < KeyAt[before[u][l]]
      BY <1>0, <2>1 DEF LockInv
    <3>4. QED BY <3>2, <3>3 DEF KeepsBuilt, KeepsNode
  <2>2. QED
    BY <1>0, <2>1 DEF LockInv, HasElementLock
<1>7. QED
  BY <1>1, <1>2, <1>3, <1>4, <1>5, <1>6 DEF ThreadInv

\* What the invariant says of the nodes, in one place.
LEMMA NodeFacts ==
    ASSUME TypeOK, HeapInv
    PROVE  /\ Built \subseteq heap \cup {Head} /\ Built \subseteq Node
           /\ heap \subseteq Node /\ Head \in Built
           /\ Tail \notin Built /\ NoNode \notin Built /\ Tail # NoNode
           /\ KeyAt[Head] = -1 /\ KeyAt[Tail] = MaxKey + 1
           /\ \A n \in heap : KeyAt[n] \in Keys
           /\ \A n \in Built \cup {Tail} :
                n \in Node /\ KeyAt[n] \in Int /\ top[n] \in Level
<1>1. /\ Built \subseteq heap \cup {Head} /\ heap \subseteq Nodes
      /\ Built \subseteq Node /\ heap \subseteq Node
  BY DEF Built, TypeOK, Node
<1>2. KeyAt[Head] = -1 /\ KeyAt[Tail] = MaxKey + 1
  BY DEF KeyAt, Node
<1>3. \A n \in heap : KeyAt[n] \in Keys
  BY <1>1, ElementAssumption DEF KeyAt, HeapInv, Node
<1>4. \A n \in Built \cup {Tail} : n \in Node /\ KeyAt[n] \in Int
  BY <1>1, <1>2, <1>3, MaxKeyAssumption DEF Keys, Node
<1>5. \A n \in Built \cup {Tail} : top[n] \in Level
  BY <1>4 DEF TypeOK
<1>6. Head \in Built /\ Tail \notin Built /\ NoNode \notin Built /\ Tail # NoNode
  BY <1>1 DEF HeapInv, Node
<1>7. QED
  BY <1>1, <1>2, <1>3, <1>4, <1>5, <1>6

\* A step of t: the other threads' part of the invariant needs only this.
LEMMA OthersStep ==
    ASSUME IInv, NEW t \in Threads, \A u \in Threads \ {t} : SameLocals(u), KeepsBuilt,
           \A u \in Threads \ {t} : node[u] # NoNode =>
             /\ node[u] \in heap' /\ KeepsNode(node[u])
             /\ node[u] \in Built' <=> node[u] \in Built,
           node'[t] \in {node[t], NoNode} \/ node'[t] \notin heap,
           \A u \in Threads \ {t} : \A n \in Node : lock'[n] = u => lock[n] = u,
           TypeOK', HeapInv', Sorted', ThreadInv(t)'
    PROVE  IInv'
<1>1. ASSUME NEW u \in Threads \ {t} PROVE ThreadInv(u)'
  <2>1. TypeOK /\ ThreadInv(u) /\ ThreadInv(t) /\ SameLocals(u)
    BY DEF IInv
  <2>2. ASSUME NEW v \in Threads, node'[v] = node[u], node[u] # NoNode PROVE v = u
    <3>1. node[u] \in heap /\ (node[t] = node[u] => t = u)
      BY <2>1, <2>2 DEF ThreadInv, NodeInv
    <3>2. CASE v = t
      BY <2>2, <3>1, <3>2
    <3>3. CASE v # t
      BY <2>1, <2>2, <3>3 DEF SameLocals, ThreadInv, NodeInv
    <3>4. QED BY <3>2, <3>3
  <2>3. KeepsOwn(u)
    BY <2>2 DEF KeepsOwn
  <2>4. QED BY <2>1, <2>3, Frame
<1>2. QED
  BY <1>1 DEF IInv

nodeFields == <<heap, element, top, nxt, marked, fully_linked>>

\* A step that changes t's variables and its locks, ...
LEMMA LocksStep ==
    ASSUME IInv, NEW t \in Threads, UNCHANGED nodeFields,
           \A u \in Threads \ {t} : SameLocals(u), node'[t] \in {node[t], NoNode},
           \A u \in Threads \ {t} : \A n \in Node : lock'[n] = u => lock[n] = u,
           TypeOK', ThreadInv(t)'
    PROVE  IInv'
<1>1. Built' = Built /\ KeyAt' = KeyAt /\ top' = top /\ heap' = heap
  BY DEF Built, KeyAt, nodeFields
<1>2. HeapInv'
  BY <1>1 DEF IInv, HeapInv, nodeFields
<1>3. Sorted'
  BY <1>1 DEF IInv, Sorted, nodeFields
<1>4. KeepsBuilt
  BY <1>1 DEF KeepsBuilt, KeepsNode
<1>5. \A u \in Threads : node[u] # NoNode =>
        /\ node[u] \in heap' /\ KeepsNode(node[u])
        /\ node[u] \in Built' <=> node[u] \in Built
  BY <1>1 DEF KeepsNode, IInv, ThreadInv, NodeInv
<1>6. QED
  BY <1>2, <1>3, <1>4, <1>5, OthersStep

\* ... and one that changes t's variables only.
LEMMA LocalStep ==
    ASSUME IInv, NEW t \in Threads, UNCHANGED shared,
           \A u \in Threads \ {t} : SameLocals(u),
           node'[t] \in {node[t], NoNode}, TypeOK', ThreadInv(t)'
    PROVE  IInv'
<1>1. /\ UNCHANGED nodeFields
      /\ \A u \in Threads \ {t} : \A n \in Node : lock'[n] = u => lock[n] = u
  BY DEF nodeFields, shared
<1>2. QED
  BY <1>1, LocksStep

-----------------------------------------------------------------------------
(* Steps that hold no lock and build no node.                              *)

LocalPCs == {"idle", "find", "after", "found", "wait", "lockelem", "return",
          "read_marked", "read_element"}

LEMMA QuietStep ==
    ASSUME IInv, NEW t \in Threads, UNCHANGED <<shared, locked>>,
           pc[t] \in LocalPCs, pc'[t] \in LocalPCs,
           \/ node' = node /\ pc'[t] # "idle" /\ (key'[t] = key[t] \/ pc[t] = "idle")
           \/ node' = [node EXCEPT ![t] = NoNode]
    PROVE  NodeInv(t)' /\ LockInv(t)'
<1>1. Built' = Built /\ KeyAt' = KeyAt
  BY DEF Built, KeyAt, shared
<1>2. NodeInv(t) /\ LockInv(t) /\ node \in [Threads -> Nodes \cup {NoNode}]
  BY DEF IInv, ThreadInv, TypeOK
<1>3. NodeInv(t)'
  BY <1>1, <1>2 DEF NodeInv, IsPut, LocalPCs, shared
<1>4. LockInv(t)'
  BY <1>1, <1>2 DEF LockInv, HasElementLock, LocalPCs, shared
<1>5. QED
  BY <1>3, <1>4

LEMMA AheadFacts ==
    ASSUME IInv, NEW t \in Threads, pc[t] = "find"
    PROVE  /\ prev[t] \in Built /\ level[t] \in Level /\ key[t] \in Keys
           /\ Ahead(t) \in Built \cup {Tail} /\ top[Ahead(t)] <= level[t]
           /\ KeyAt[prev[t]] < KeyAt[Ahead(t)]
           /\ KeyAt[prev[t]] \in Int /\ KeyAt[Ahead(t)] \in Int
<1>1. /\ prev[t] \in Built /\ top[prev[t]] <= level[t]
      /\ level[t] \in Level /\ key[t] \in Keys
  BY DEF IInv, ThreadInv, SearchInv, Searching, IsBefore, TypeOK
<1>2. \A n \in Built \cup {Tail} : KeyAt[n] \in Int
  BY NodeFacts DEF IInv
<1>3. QED
  BY <1>1, <1>2 DEF IInv, Sorted, Ahead

LEMMA FindRightInv ==
    ASSUME IInv, NEW t \in Threads, FindRight(t)
    PROVE  IInv'
<1>1. Ahead(t) \in Built /\ KeyAt[Ahead(t)] < key[t] /\ pc[t] = "find"
  BY AheadFacts, NodeFacts, MaxKeyAssumption DEF IInv, FindRight, Keys
<1>2. TypeOK'
  BY <1>1, NodeFacts DEF IInv, TypeOK, FindRight, shared, request, history, Node
<1>3. Built' = Built /\ KeyAt' = KeyAt
  BY DEF Built, KeyAt, FindRight, shared
<1>4. CallInv(t)'
  BY DEF IInv, ThreadInv, CallInv, IsPut, FindRight, request
<1>5. SearchInv(t)'
  <2>1. /\ prev'[t] = Ahead(t) /\ level' = level /\ before' = before /\ top' = top
        /\ after' = after /\ pc' = pc /\ key' = key /\ SearchInv(t)
    BY DEF IInv, ThreadInv, TypeOK, FindRight, shared, request
  <2>2. IsBefore(t, prev[t], level[t])'
    BY <1>1, <1>3, <2>1, AheadFacts DEF IsBefore
  <2>3. ASSUME NEW l \in Level, l < level[t]
        PROVE  SameOrBefore(before[t][l], prev[t])'
    <3>1. SameOrBefore(before[t][l], prev[t]) /\ before[t][l] \in Built
      BY <1>1, <2>1, <2>3 DEF SearchInv, Searching, IsBefore
    <3>2. KeyAt[before[t][l]] \in Int
      BY <3>1, NodeFacts DEF IInv
    <3>3. QED
      BY <1>1, <1>3, <2>1, <3>1, <3>2, AheadFacts DEF SameOrBefore
  <2>4. QED
    BY <1>1, <1>3, <2>1, <2>2, <2>3
    DEF SearchInv, Searching, IsBefore, IsAfter, SameOrBefore
<1>6. FoundInv(t)' /\ ControlInv(t)'
  BY <1>1 DEF IInv, ThreadInv, FoundInv, Searched, ControlInv, IsPut, FindRight, request
<1>7. NodeInv(t)' /\ LockInv(t)'
  BY <1>1, QuietStep DEF LocalPCs, FindRight, request
<1>8. ThreadInv(t)'
  BY <1>4, <1>5, <1>6, <1>7 DEF ThreadInv
<1>9. QED
  BY <1>2, <1>8, LocalStep DEF IInv, TypeOK, FindRight, SameLocals, request

\* A level is done: prev[t] and a node s behind the key are its neighbours.
LEMMA LevelDone ==
    ASSUME IInv, NEW t \in Threads, pc[t] \in {"find", "after"}, UNCHANGED <<shared, key>>,
           NEW s \in Built \cup {Tail}, top[s] <= level[t], key[t] < KeyAt[s],
           before' = [before EXCEPT ![t][level[t]] = prev[t]],
           after' = [after EXCEPT ![t][level[t]] = s],
           prev' = prev, Descend(t),
           level[t] = Bottom => found'[t] = NoNode \/ IsHit(t, found'[t])
    PROVE  SearchInv(t)' /\ FoundInv(t)'
<1>1. Built' = Built /\ KeyAt' = KeyAt /\ top' = top /\ key' = key
  BY DEF Built, KeyAt, shared
<1>2. /\ level[t] \in Level /\ prev[t] \in Built /\ IsBefore(t, prev[t], level[t])
      /\ \A l \in Level : l < level[t] =>
           /\ IsBefore(t, before[t][l], l)
           /\ IsAfter(t, after[t][l], l)
           /\ SameOrBefore(before[t][l], prev[t])
      /\ \A l, m \in Level :
           l < m /\ m < level[t] => SameOrBefore(before[t][l], before[t][m])
  BY DEF IInv, TypeOK, ThreadInv, SearchInv, Searching, IsBefore
<1>3. /\ before'[t] = [before[t] EXCEPT ![level[t]] = prev[t]]
      /\ after'[t] = [after[t] EXCEPT ![level[t]] = s]
      /\ before[t] \in [Level -> Node \cup {NoNode}]
      /\ after[t] \in [Level -> Node \cup {NoNode}]
  BY DEF IInv, TypeOK
<1>4. \A l \in Level : l <= level[t] =>
        IsBefore(t, before[t][l], l)' /\ IsAfter(t, after[t][l], l)'
  BY <1>1, <1>2, <1>3 DEF IsBefore, IsAfter
<1>4b. /\ before'[t][level[t]] = prev[t]
      /\ \A l \in Level : l # level[t] => before'[t][l] = before[t][l]
  BY <1>2, <1>3
<1>5. ASSUME NEW l \in Level, l <= level[t]
      PROVE  SameOrBefore(before[t][l], prev[t])'
  <2>1. CASE l = level[t]
    BY <1>4b, <2>1 DEF SameOrBefore
  <2>2. CASE l # level[t]
    <3>1. SameOrBefore(before[t][l], prev[t])
      BY <1>2, <1>5, <2>2
    <3>2. QED BY <1>1, <1>4b, <2>2, <3>1 DEF SameOrBefore
  <2>3. QED BY <2>1, <2>2
<1>6. ASSUME NEW l \in Level, NEW m \in Level, l < m, m <= level[t]
      PROVE  SameOrBefore(before[t][l], before[t][m])'
  <2>1. l # level[t] /\ l < level[t]
    BY <1>2, <1>6
  <2>2. SameOrBefore(before[t][l], IF m = level[t] THEN prev[t] ELSE before[t][m])
    BY <1>2, <1>6, <2>1
  <2>3. QED BY <1>1, <1>4b, <2>1, <2>2 DEF SameOrBefore
<1>7. CASE level[t] = Bottom
  <2>1. pc'[t] = "found"
    BY <1>7 DEF Descend, Goto, IInv, TypeOK
  <2>2. \A l \in Level : l <= level[t]
    BY <1>7
  <2>3. found'[t] = NoNode \/ IsHit(t, found[t])'
    BY <1>1, <1>7 DEF IsHit
  <2>4. FoundInv(t)'
    BY <1>4, <1>6, <2>2, <2>3 DEF FoundInv, IsBefore, IsAfter
  <2>5. SearchInv(t)'
    BY <2>1 DEF SearchInv, Searching
  <2>6. QED BY <2>4, <2>5
<1>8. CASE level[t] # Bottom
  <2>1. pc'[t] = "find" /\ level'[t] = level[t] + 1
    BY <1>8 DEF Descend, Goto, IInv, TypeOK
  <2>2. \A l \in Level : l < level'[t] => l <= level[t]
    BY <1>2, <2>1
  <2>3. IsBefore(t, prev[t], level[t])'
    BY <1>1, <1>2, <2>1, NodeFacts DEF IsBefore, IInv
  <2>4. SearchInv(t)'
    BY <1>4, <1>5, <1>6, <2>1, <2>2, <2>3 DEF SearchInv
  <2>5. FoundInv(t)'
    BY <2>1 DEF FoundInv, Searched
  <2>6. QED BY <2>4, <2>5
<1>9. QED
  BY <1>7, <1>8

LEMMA DescendType ==
    ASSUME TypeOK, NEW t \in Threads, Descend(t)
    PROVE  /\ level' \in [Threads -> Level]
           /\ pc' \in [Threads -> PCs] /\ pc'[t] \in {"find", "found"}
           /\ \A u \in Threads \ {t} : pc'[u] = pc[u] /\ level'[u] = level[u]
<1>1. /\ level \in [Threads -> Level] /\ pc \in [Threads -> PCs]
      /\ level[t] \in Level
  BY DEF TypeOK
<1>2. CASE level[t] = Bottom
  BY <1>1, <1>2 DEF Descend, Goto, PCs
<1>3. CASE level[t] # Bottom
  BY <1>1, <1>3 DEF Descend, Goto, PCs
<1>4. QED
  BY <1>2, <1>3

LEMMA FindDownInv ==
    ASSUME IInv, NEW t \in Threads, FindDown(t)
    PROVE  IInv'
<1>1. /\ Ahead(t) \in Built \cup {Tail} /\ top[Ahead(t)] <= level[t]
      /\ key[t] < KeyAt[Ahead(t)] /\ pc[t] = "find" /\ prev[t] \in Node
      /\ Ahead(t) \in Node /\ level[t] \in Level /\ TypeOK
      /\ pc'[t] \in {"find", "found"}
  BY AheadFacts, NodeFacts, DescendType DEF IInv, FindDown, Keys
<1>2. TypeOK'
  BY <1>1, DescendType DEF TypeOK, FindDown, shared, request, history
<1>3. SearchInv(t)' /\ FoundInv(t)'
  BY <1>1, LevelDone DEF FindDown, request, TypeOK
<1>4. CallInv(t)'
  BY DEF IInv, ThreadInv, CallInv, IsPut, FindDown, request
<1>5. ControlInv(t)'
  BY <1>1 DEF IInv, ThreadInv, ControlInv, IsPut, FindDown, request
<1>6. NodeInv(t)' /\ LockInv(t)'
  BY <1>1, QuietStep DEF LocalPCs, FindDown, request
<1>7. ThreadInv(t)'
  BY <1>3, <1>4, <1>5, <1>6 DEF ThreadInv
<1>8. ASSUME NEW u \in Threads \ {t} PROVE SameLocals(u)
  <2>1. pc'[u] = pc[u] /\ level'[u] = level[u]
    BY <1>1, DescendType DEF FindDown
  <2>2. QED BY <1>1, <2>1 DEF TypeOK, FindDown, SameLocals, request
<1>9. QED
  BY <1>1, <1>2, <1>7, <1>8, LocalStep DEF FindDown, TypeOK

LEMMA FindHitInv ==
    ASSUME IInv, NEW t \in Threads, FindHit(t)
    PROVE  IInv'
<1>1. /\ Ahead(t) \in Built /\ top[Ahead(t)] <= level[t]
      /\ KeyAt[Ahead(t)] = key[t] /\ pc[t] = "find"
      /\ Ahead(t) \in Node /\ TypeOK
  BY AheadFacts, NodeFacts, MaxKeyAssumption DEF IInv, FindHit, Keys
<1>2. TypeOK'
  BY <1>1 DEF TypeOK, FindHit, shared, request, history, Goto, PCs
<1>3. Built' = Built /\ KeyAt' = KeyAt
  BY DEF Built, KeyAt, FindHit, shared
<1>4. CallInv(t)'
  BY DEF IInv, ThreadInv, CallInv, IsPut, FindHit, request
<1>5. pc'[t] = "after" /\ found'[t] = Ahead(t)
  BY <1>1 DEF FindHit, Goto, TypeOK
<1>6. SearchInv(t)'
  BY <1>1, <1>3, <1>5
  DEF IInv, ThreadInv, SearchInv, Searching, IsBefore, IsAfter, IsHit, SameOrBefore,
      FindHit, request, shared
<1>7. FoundInv(t)' /\ ControlInv(t)'
  BY <1>1, <1>5
  DEF IInv, ThreadInv, FoundInv, Searched, ControlInv, IsPut, FindHit, request
<1>8. NodeInv(t)' /\ LockInv(t)'
  BY <1>1, <1>5, QuietStep DEF LocalPCs, FindHit, request
<1>9. ThreadInv(t)'
  BY <1>4, <1>6, <1>7, <1>8 DEF ThreadInv
<1>10. QED
  BY <1>1, <1>2, <1>9, LocalStep DEF TypeOK, FindHit, SameLocals, request, Goto

LEMMA FindAfterInv ==
    ASSUME IInv, NEW t \in Threads, FindAfter(t)
    PROVE  IInv'
<1> DEFINE s == nxt[found[t]][level[t]]
<1>1. /\ pc[t] = "after" /\ found[t] \in Built /\ KeyAt[found[t]] = key[t]
      /\ top[found[t]] <= level[t] /\ level[t] \in Level /\ TypeOK
      /\ prev[t] \in Node /\ IsHit(t, found[t])
  BY NodeFacts DEF IInv, ThreadInv, SearchInv, Searching, IsHit, IsBefore, FindAfter, TypeOK
<1>2. s \in Built \cup {Tail} /\ top[s] <= level[t] /\ key[t] < KeyAt[s]
  BY <1>1 DEF IInv, Sorted
<1>3. s \in Node
  BY <1>2, NodeFacts DEF IInv
<1>4. TypeOK'
  BY <1>1, <1>3, DescendType DEF TypeOK, FindAfter, shared, request, history
<1>5. SearchInv(t)' /\ FoundInv(t)'
  BY <1>1, <1>2, LevelDone DEF FindAfter, request, TypeOK
<1>6. CallInv(t)'
  BY DEF IInv, ThreadInv, CallInv, IsPut, FindAfter, request
<1>7. pc'[t] \in {"find", "found"}
  BY <1>1, DescendType DEF FindAfter
<1>8. ControlInv(t)'
  BY <1>1, <1>7 DEF IInv, ThreadInv, ControlInv, IsPut, FindAfter, request
<1>9. NodeInv(t)' /\ LockInv(t)'
  BY <1>1, <1>7, QuietStep DEF LocalPCs, FindAfter, request
<1>10. ThreadInv(t)'
  BY <1>5, <1>6, <1>8, <1>9 DEF ThreadInv
<1>11. ASSUME NEW u \in Threads \ {t} PROVE SameLocals(u)
  <2>1. pc'[u] = pc[u] /\ level'[u] = level[u]
    BY <1>1, DescendType DEF FindAfter
  <2>2. QED BY <1>1, <2>1 DEF TypeOK, FindAfter, SameLocals, request
<1>12. QED
  BY <1>1, <1>4, <1>10, <1>11, LocalStep DEF FindAfter, TypeOK

\* A search starts at the head, before every key.
LEMMA StartFindInv ==
    ASSUME IInv, NEW t \in Threads, StartFind(t), top'[Head] = top[Head], key'[t] \in Keys,
           Head \in Built', KeyAt'[Head] = -1, IsPut(t)' => ~took'[t]
    PROVE  SearchInv(t)' /\ FoundInv(t)' /\ ControlInv(t)'
<1>1. pc'[t] = "find" /\ prev'[t] = Head /\ level'[t] = 0
  BY DEF IInv, TypeOK, StartFind, Goto
<1>2. IsBefore(t, prev[t], level[t])'
  BY <1>1 DEF IsBefore, IInv, HeapInv, Keys
<1>3. \A l \in Level : ~(l < 0)
  OBVIOUS
<1>4. SearchInv(t)'
  BY <1>1, <1>2, <1>3 DEF SearchInv
<1>5. QED
  BY <1>1, <1>4 DEF FoundInv, Searched, ControlInv, IsPut

LEMMA StartFindType ==
    ASSUME TypeOK, NEW t \in Threads, StartFind(t)
    PROVE  /\ pc' \in [Threads -> PCs] /\ pc'[t] = "find"
           /\ prev' \in [Threads -> Node \cup {NoNode}]
           /\ level' \in [Threads -> Level]
           /\ found' \in [Threads -> Node \cup {NoNode}]
           /\ before' \in [Threads -> [Level -> Node \cup {NoNode}]]
           /\ after' \in [Threads -> [Level -> Node \cup {NoNode}]]
           /\ \A u \in Threads \ {t} :
                /\ pc'[u] = pc[u] /\ prev'[u] = prev[u] /\ level'[u] = level[u]
                /\ found'[u] = found[u] /\ before'[u] = before[u] /\ after'[u] = after[u]
  BY DEF TypeOK, StartFind, Goto, PCs, NoNodes, Node

LEMMA InvokeInv ==
    ASSUME IInv, NEW t \in Threads, Invoke(t)
    PROVE  IInv'
<1>1. PICK c \in CallsOf[t] :
        /\ op' = [op EXCEPT ![t] = c.op]
        /\ key' = [key EXCEPT ![t] = c.key]
        /\ arg' = [arg EXCEPT ![t] = c.arg]
        /\ seen' = [seen EXCEPT ![t] = {map[c.key]}]
        /\ raced' = [raced EXCEPT ![t] = Removing(c.key)]
  BY DEF Invoke
<1>2. /\ c.op \in Ops /\ c.key \in Keys /\ c.arg \in Elements \cup {NULL}
      /\ c.op \in {"put", "put_new"} => c.arg \in Elements /\ KeyOf[c.arg] = c.key
  BY CallAssumption DEF Call
<1>3. TypeOK /\ pc[t] = "idle" /\ StartFind(t)
  BY DEF IInv, Invoke
<1>4. map[c.key] \in Elements \cup {NULL}
  <2>1. Bound(c.key) \subseteq Node
    BY <1>3 DEF Bound, Live, TypeOK
  <2>2. element \in [Node -> Elements \cup {NULL}]
    BY <1>3 DEF TypeOK
  <2>3. QED BY <1>2, <2>1, <2>2 DEF map
<1>5. Removing(c.key) \in BOOLEAN
  BY DEF Removing
<1>6. TypeOK'
  <2>1. calls' \in [Threads -> 0..MaxCalls]
    BY <1>3, CallAssumption DEF TypeOK, Invoke
  <2>2. /\ op' \in [Threads -> Ops \cup {"none"}] /\ key' \in [Threads -> Keys]
        /\ arg' \in [Threads -> Elements \cup {NULL}]
    BY <1>1, <1>2, <1>3 DEF TypeOK
  <2>3. seen' \in [Threads -> SUBSET (Elements \cup {NULL})]
    BY <1>1, <1>3, <1>4 DEF TypeOK
  <2>4. raced' \in [Threads -> BOOLEAN]
    BY <1>1, <1>3, <1>5 DEF TypeOK
  <2>5. UNCHANGED <<shared, node, locked, valid, took, result>>
    BY DEF Invoke
  <2>6. QED
    BY <1>3, <2>1, <2>2, <2>3, <2>4, <2>5, StartFindType DEF TypeOK, shared
<1>7. Built' = Built /\ KeyAt' = KeyAt
  BY DEF Built, KeyAt, Invoke, shared
<1>8. CallInv(t)'
  BY <1>1, <1>2, <1>3 DEF CallInv, IsPut, TypeOK
<1>9. SearchInv(t)' /\ FoundInv(t)' /\ ControlInv(t)'
  <2>1. key'[t] \in Keys /\ top' = top /\ took' = took /\ ~took[t]
    BY <1>1, <1>2, <1>3 DEF IInv, ThreadInv, ControlInv, TypeOK, Invoke, shared
  <2>2. Head \in Built' /\ KeyAt'[Head] = -1
    BY <1>7, NodeFacts DEF IInv
  <2>3. QED BY <1>3, <2>1, <2>2, StartFindInv
<1>10. NodeInv(t)' /\ LockInv(t)'
  BY <1>3, QuietStep, StartFindType DEF LocalPCs, Invoke
<1>11. ThreadInv(t)'
  BY <1>8, <1>9, <1>10 DEF ThreadInv
<1>12. ASSUME NEW u \in Threads \ {t} PROVE SameLocals(u)
  BY <1>1, <1>3, StartFindType DEF SameLocals, TypeOK, Invoke
<1>13. QED
  BY <1>6, <1>11, <1>12, LocalStep DEF Invoke

LEMMA ReturnInv ==
    ASSUME IInv, NEW t \in Threads, Return(t)
    PROVE  IInv'
<1>1. TypeOK /\ pc[t] = "return" /\ pc'[t] = "idle" /\ op'[t] = "none"
  BY DEF IInv, TypeOK, Return, Goto
<1>2. TypeOK'
  BY <1>1, MaxKeyAssumption
  DEF TypeOK, Return, Goto, PCs, Ops, Answers, Keys, NoNodes, Node, shared, history
<1>3. CallInv(t)' /\ SearchInv(t)' /\ FoundInv(t)' /\ ControlInv(t)'
  BY <1>1 DEF CallInv, IsPut, SearchInv, Searching, FoundInv, Searched, ControlInv,
              Return, TypeOK
<1>4. NodeInv(t)' /\ LockInv(t)'
  BY <1>1, QuietStep DEF LocalPCs, Return
<1>5. ThreadInv(t)'
  BY <1>3, <1>4 DEF ThreadInv
<1>6. ASSUME NEW u \in Threads \ {t} PROVE SameLocals(u)
  BY <1>1 DEF SameLocals, TypeOK, Return, Goto
<1>7. QED
  BY <1>1, <1>2, <1>5, <1>6, LocalStep DEF Return, TypeOK

\* From the result of a search on: only the program counter and the answer move.
LEMMA QuietControl ==
    ASSUME IInv, NEW t \in Threads, pc[t] \in LocalPCs, Searched(t),
           pc'[t] \in {"return", "wait", "lockelem", "read_marked", "read_element"},
           pc' = [pc EXCEPT ![t] = pc'[t]],
           UNCHANGED <<shared, request, search, level, node, locked, valid, took, calls>>,
           result' = result \/ \E r \in Answers : result' = [result EXCEPT ![t] = r],
           history' = history \/ /\ seen' = [seen EXCEPT ![t] = {}]
                                 /\ raced' = [raced EXCEPT ![t] = FALSE],
           pc'[t] \in {"wait", "lockelem"} => op[t] \in {"put", "remove"},
           pc'[t] \in {"read_marked", "read_element"} => ReadOp(t),
           pc'[t] # "return" => found[t] # NoNode
    PROVE  IInv'
<1>1. TypeOK /\ ThreadInv(t)
  BY DEF IInv
<1>2. TypeOK'
  <2>1. result' \in [Threads -> Answers]
    <3>1. result \in [Threads -> Answers]
      BY <1>1 DEF TypeOK
    <3>2. CASE result' = result
      BY <3>1, <3>2
    <3>3. CASE \E r \in Answers : result' = [result EXCEPT ![t] = r]
      BY <3>1, <3>3
    <3>4. QED BY <3>2, <3>3
  <2>2. /\ seen' \in [Threads -> SUBSET (Elements \cup {NULL})]
        /\ raced' \in [Threads -> BOOLEAN]
    BY <1>1 DEF TypeOK, history
  <2>3. pc' \in [Threads -> PCs]
    BY <1>1 DEF TypeOK, PCs
  <2>4. QED
    BY <1>1, <2>1, <2>2, <2>3 DEF TypeOK, shared, request, search
<1>3. Built' = Built /\ KeyAt' = KeyAt
  BY DEF Built, KeyAt, shared
<1>4. CallInv(t)'
  BY <1>1 DEF ThreadInv, CallInv, IsPut, request
<1>5. SearchInv(t)'
  BY DEF SearchInv, Searching
<1>6. FoundInv(t)'
  BY <1>1, <1>3, FrameFound DEF ThreadInv, KeepsBuilt, KeepsNode, shared, request, search
<1>7. ControlInv(t)'
  BY <1>1 DEF ThreadInv, ControlInv, IsPut, ReadOp, LocalPCs, Searched, request, search
<1>8. NodeInv(t)' /\ LockInv(t)'
  BY QuietStep DEF LocalPCs, request
<1>9. ThreadInv(t)'
  BY <1>4, <1>5, <1>6, <1>7, <1>8 DEF ThreadInv
<1>10. ASSUME NEW u \in Threads \ {t} PROVE SameLocals(u)
  BY <1>1 DEF SameLocals, TypeOK, request, search
<1>11. QED
  BY <1>1, <1>2, <1>9, <1>10, LocalStep DEF TypeOK

LEMMA LookupFoundInv ==
    ASSUME IInv, NEW t \in Threads, LookupFound(t)
    PROVE  IInv'
<1>1. TypeOK /\ pc[t] = "found" /\ Absent(t) \in Answers
  BY DEF IInv, LookupFound, Absent, Answers
<1>2. CASE Readable(t)
  BY <1>1, <1>2, QuietControl
  DEF LookupFound, Readable, Goto, TypeOK, LocalPCs, Searched, history
<1>3. CASE ~Readable(t)
  <2>1. /\ pc' = [pc EXCEPT ![t] = "return"] /\ pc'[t] = "return"
        /\ result' = [result EXCEPT ![t] = Absent(t)]
        /\ seen' = [seen EXCEPT ![t] = {}] /\ raced' = [raced EXCEPT ![t] = FALSE]
        /\ UNCHANGED <<shared, request, search, level, node, locked, valid, took, calls>>
    BY <1>1, <1>3 DEF LookupFound, Answer, Goto, TypeOK
  <2>2. pc[t] \in LocalPCs /\ Searched(t)
    BY <1>1 DEF LocalPCs, Searched
  <2>3. QED BY <1>1, <2>1, <2>2, QuietControl
<1>4. QED
  BY <1>2, <1>3

LEMMA LookupMarkedInv ==
    ASSUME IInv, NEW t \in Threads, LookupMarked(t)
    PROVE  IInv'
<1>1. /\ TypeOK /\ pc[t] = "read_marked" /\ Absent(t) \in Answers /\ 1 \in Answers
      /\ found[t] # NoNode /\ ReadOp(t)
  BY DEF IInv, ThreadInv, ControlInv, LookupMarked, Absent, Answers
<1>2. CASE Goto(t, "read_element") /\ UNCHANGED <<result, history>>
  BY <1>1, <1>2, QuietControl DEF LookupMarked, Goto, TypeOK, LocalPCs, Searched
<1>3. CASE Answer(t, Absent(t)) \/ Answer(t, 1)
  BY <1>1, <1>3, QuietControl DEF LookupMarked, Answer, Goto, TypeOK, LocalPCs, Searched
<1>4. QED
  BY <1>2, <1>3 DEF LookupMarked

LEMMA LookupElementInv ==
    ASSUME IInv, NEW t \in Threads, LookupElement(t)
    PROVE  IInv'
<1>1. TypeOK /\ pc[t] = "read_element" /\ found[t] # NoNode
  BY DEF IInv, ThreadInv, ControlInv, LookupElement
<1>2. element[found[t]] \in Answers
  BY <1>1 DEF TypeOK, Answers
<1>3. QED
  BY <1>1, <1>2, QuietControl DEF LookupElement, Answer, Goto, TypeOK, LocalPCs, Searched

LEMMA PutFoundInv ==
    ASSUME IInv, NEW t \in Threads, PutFound(t)
    PROVE  IInv'
<1>1. TypeOK /\ pc[t] = "found" /\ NULL \in Answers
  BY DEF IInv, PutFound, Answers
<1>2. CASE found[t] \in marked
  <2>1. /\ pc' = [pc EXCEPT ![t] = "return"] /\ pc'[t] = "return"
        /\ result' = [result EXCEPT ![t] = NULL]
        /\ seen' = [seen EXCEPT ![t] = {}] /\ raced' = [raced EXCEPT ![t] = FALSE]
        /\ UNCHANGED <<shared, request, search, level, node, locked, valid, took, calls>>
    BY <1>1, <1>2 DEF PutFound, Answer, Goto, TypeOK
  <2>2. pc[t] \in LocalPCs /\ Searched(t)
    BY <1>1 DEF LocalPCs, Searched
  <2>3. QED BY <1>1, <2>1, <2>2, QuietControl
<1>3. CASE found[t] \notin marked
  BY <1>1, <1>3, QuietControl DEF PutFound, Goto, TypeOK, LocalPCs, Searched
<1>4. QED
  BY <1>2, <1>3

LEMMA PutNewFoundInv ==
    ASSUME IInv, NEW t \in Threads, PutNewFound(t)
    PROVE  IInv'
<1>1. TypeOK /\ pc[t] = "found" /\ 0 \in Answers
  BY DEF IInv, PutNewFound, Answers
<1>2. QED
  BY <1>1, QuietControl DEF PutNewFound, Answer, Goto, TypeOK, LocalPCs, Searched

LEMMA WaitLinkedInv ==
    ASSUME IInv, NEW t \in Threads, WaitLinked(t)
    PROVE  IInv'
<1>1. TypeOK /\ pc[t] = "wait" /\ found[t] # NoNode /\ op[t] \in {"put", "remove"}
  BY DEF IInv, ThreadInv, ControlInv, WaitLinked
<1>2. QED
  BY <1>1, QuietControl DEF WaitLinked, Goto, TypeOK, LocalPCs, Searched

LEMMA RemoveFoundInv ==
    ASSUME IInv, NEW t \in Threads, RemoveFound(t)
    PROVE  IInv'
<1>1. TypeOK /\ pc[t] = "found" /\ op[t] = "remove" /\ NULL \in Answers
  BY DEF IInv, RemoveFound, Answers
<1>2. CASE Answer(t, NULL)
  BY <1>1, <1>2, QuietControl DEF RemoveFound, Answer, Goto, TypeOK, LocalPCs, Searched
<1>3. CASE /\ found[t] # NoNode
           /\ Goto(t, "lockelem") \/ Goto(t, "wait")
           /\ UNCHANGED <<result, history>>
  BY <1>1, <1>3, QuietControl DEF RemoveFound, Goto, TypeOK, LocalPCs, Searched
<1>4. QED
  BY <1>2, <1>3 DEF RemoveFound

-----------------------------------------------------------------------------
(* Steps that take and release locks.                                      *)

LEMMA FoundFacts ==
    ASSUME IInv, NEW t \in Threads, Searched(t), found[t] # NoNode
    PROVE  /\ found[t] \in Built /\ found[t] \in heap /\ found[t] \in Nodes
           /\ KeyAt[found[t]] = key[t] /\ key[t] \in Keys /\ found[t] # Head
           /\ top[found[t]] \in Level
<1>1. found[t] \in Built /\ KeyAt[found[t]] = key[t] /\ key[t] \in Keys
  BY DEF IInv, ThreadInv, FoundInv, IsHit, TypeOK
<1>2. found[t] # Head
  BY <1>1, NodeFacts DEF IInv, Keys
<1>3. QED
  BY <1>1, <1>2, NodeFacts DEF IInv, TypeOK

LEMMA PredFacts ==
    ASSUME IInv, NEW t \in Threads, Searched(t), NEW l \in Level
    PROVE  /\ before[t][l] \in Built /\ before[t][l] \in Node
           /\ top[before[t][l]] <= l /\ KeyAt[before[t][l]] < key[t]
           /\ after[t][l] \in Built \cup {Tail} /\ top[after[t][l]] <= l
           /\ key[t] < KeyAt[after[t][l]]
<1>1. IsBefore(t, before[t][l], l) /\ IsAfter(t, after[t][l], l)
  BY DEF IInv, ThreadInv, FoundInv
<1>2. QED
  BY <1>1, NodeFacts DEF IsBefore, IsAfter, IInv

LEMMA KeepSearch ==
    ASSUME IInv, NEW t \in Threads, UNCHANGED <<nodeFields, request, search>>,
           Searched(t), pc'[t] \notin {"find", "after"}
    PROVE  CallInv(t)' /\ SearchInv(t)' /\ FoundInv(t)'
<1>1. Built' = Built /\ KeyAt' = KeyAt /\ top' = top
  BY DEF Built, KeyAt, nodeFields
<1>2. CallInv(t)' /\ SearchInv(t)'
  BY DEF IInv, ThreadInv, CallInv, IsPut, SearchInv, Searching, request
<1>3. FoundInv(t)'
  BY <1>1, FrameFound DEF IInv, ThreadInv, KeepsBuilt, KeepsNode, request, search
<1>4. QED
  BY <1>2, <1>3

LEMMA LockElementInv ==
    ASSUME IInv, NEW t \in Threads, LockElement(t)
    PROVE  IInv'
<1>1. /\ TypeOK /\ pc[t] = "lockelem" /\ found[t] # NoNode /\ Searched(t)
      /\ op[t] \in {"put", "remove"} /\ (took[t] => op[t] = "remove")
      /\ locked[t] = {} /\ ControlInv(t) /\ NodeInv(t) /\ LockInv(t)
  BY DEF IInv, ThreadInv, ControlInv, LockInv, IsPut, Searched, LockElement
<1>2. found[t] \in Node /\ top[found[t]] \in Level
  BY <1>1, FoundFacts DEF Node
<1>3. Built' = Built /\ KeyAt' = KeyAt
  BY DEF Built, KeyAt, LockElement
<1>4. /\ \A u \in Threads \ {t} :
           pc'[u] = pc[u] /\ level'[u] = level[u] /\ valid'[u] = valid[u]
      /\ pc' \in [Threads -> PCs] /\ level' \in [Threads -> Level]
      /\ valid' \in [Threads -> BOOLEAN]
      /\ \/ took[t] /\ pc'[t] = "lock" /\ level'[t] = Bottom /\ valid'[t]
         \/ ~took[t] /\ pc'[t] = "locked"
  <2>1. /\ pc \in [Threads -> PCs] /\ level \in [Threads -> Level]
        /\ valid \in [Threads -> BOOLEAN] /\ Bottom \in Level
    BY <1>1 DEF TypeOK
  <2>2. CASE took[t]
    <3>1. pc' = [pc EXCEPT ![t] = "lock"] /\ level' = [level EXCEPT ![t] = Bottom]
      BY <2>2 DEF LockElement, StartLocking, Goto
    <3>2. valid' = [valid EXCEPT ![t] = TRUE]
      BY <2>2 DEF LockElement, StartLocking
    <3>3. /\ \A u \in Threads \ {t} : valid'[u] = valid[u]
          /\ valid' \in [Threads -> BOOLEAN] /\ valid'[t]
      BY <2>1, <3>2
    <3>4. QED BY <2>1, <2>2, <3>1, <3>3 DEF PCs
  <2>3. CASE ~took[t]
    BY <2>1, <2>3 DEF LockElement, Goto, PCs
  <2>4. QED BY <2>2, <2>3
<1>5. TypeOK'
  BY <1>1, <1>2, <1>4 DEF TypeOK, LockElement, request, search, history
<1>6. CallInv(t)' /\ SearchInv(t)' /\ FoundInv(t)'
  BY <1>1, <1>4, KeepSearch DEF LockElement, nodeFields
<1>7. ControlInv(t)'
  BY <1>1, <1>2, <1>4 DEF ControlInv, IsPut, LevelTo, LockElement, request, search
<1>8. NodeInv(t)'
  BY <1>1, <1>3, <1>4 DEF NodeInv, IsPut, LockElement, request
<1>9. LockInv(t)'
  <2>1. ASSUME NEW n \in Node, lock'[n] = t PROVE n = found[t]
    BY <1>1, <1>2, <2>1 DEF LockInv, HasElementLock, LockElement, TypeOK
  <2>2. HasElementLock(t)'
    BY <1>1, <1>4 DEF HasElementLock, LockElement, request
  <2>3. locked'[t] = {} /\ found'[t] = found[t]
    BY <1>1 DEF LockElement, search
  <2>4. QED BY <2>1, <2>2, <2>3 DEF LockInv
<1>10. ThreadInv(t)'
  BY <1>6, <1>7, <1>8, <1>9 DEF ThreadInv
<1>11. \A u \in Threads \ {t} : SameLocals(u)
  BY <1>1, <1>4 DEF SameLocals, TypeOK, LockElement, request, search
<1>12. \A u \in Threads \ {t} : \A n \in Node : lock'[n] = u => lock[n] = u
  BY <1>1, <1>2 DEF TypeOK, LockElement
<1>13. QED
  BY <1>5, <1>10, <1>11, <1>12, LocksStep DEF LockElement, nodeFields

LEMMA LostRaceInv ==
    ASSUME IInv, NEW t \in Threads, LostRace(t)
    PROVE  IInv'
<1>1. /\ TypeOK /\ pc[t] = "locked" /\ found[t] # NoNode /\ Searched(t)
      /\ ControlInv(t) /\ NodeInv(t) /\ LockInv(t)
  BY DEF IInv, ThreadInv, ControlInv, Searched, LostRace
<1>2. pc' = [pc EXCEPT ![t] = "unlockelem"] /\ pc'[t] = "unlockelem"
  BY <1>1 DEF LostRace, Goto, TypeOK
<1>3. TypeOK'
  BY <1>1, <1>2 DEF TypeOK, LostRace, PCs, shared, request, search, history
<1>4. CallInv(t)' /\ SearchInv(t)' /\ FoundInv(t)'
  BY <1>1, <1>2, KeepSearch DEF LostRace, nodeFields, shared
<1>5. ControlInv(t)'
  BY <1>1, <1>2 DEF ControlInv, IsPut, LostRace, request, search
<1>6. NodeInv(t)' /\ LockInv(t)'
  BY <1>1, <1>2 DEF NodeInv, IsPut, LockInv, HasElementLock, LostRace, request, search,
                   shared, Built, KeyAt
<1>7. ThreadInv(t)'
  BY <1>4, <1>5, <1>6 DEF ThreadInv
<1>8. \A u \in Threads \ {t} : SameLocals(u)
  BY <1>1, <1>2 DEF SameLocals, TypeOK, LostRace, request, search
<1>9. QED
  BY <1>1, <1>3, <1>7, <1>8, LocalStep DEF LostRace, TypeOK

LEMMA UnlockElementInv ==
    ASSUME IInv, NEW t \in Threads, UnlockElement(t)
    PROVE  IInv'
<1>1. /\ TypeOK /\ pc[t] = "unlockelem" /\ found[t] # NoNode /\ Searched(t)
      /\ locked[t] = {} /\ ControlInv(t) /\ NodeInv(t) /\ LockInv(t)
  BY DEF IInv, ThreadInv, ControlInv, LockInv, Searched, UnlockElement
<1>2. found[t] \in Node /\ result[t] \in Answers
  BY <1>1, FoundFacts DEF Node, TypeOK
<1>3. Built' = Built /\ KeyAt' = KeyAt
  BY DEF Built, KeyAt, UnlockElement
<1>4. /\ lock' \in [Node -> Threads \cup {NoThread}]
      /\ \A n \in Node : lock'[n] = t => lock[n] = t /\ n # found[t]
      /\ \A u \in Threads \ {t} : \A n \in Node : lock'[n] = u => lock[n] = u
  BY <1>1, <1>2 DEF TypeOK, UnlockElement
<1>5. \A n \in Node : lock'[n] # t
  BY <1>1, <1>4 DEF LockInv
<1>6. CASE Finished(t)
  <2>1. /\ pc' = [pc EXCEPT ![t] = "return"] /\ pc'[t] = "return"
        /\ UNCHANGED <<level, search>>
        /\ result' = [result EXCEPT ![t] = result[t]]
        /\ seen' = [seen EXCEPT ![t] = {}] /\ raced' = [raced EXCEPT ![t] = FALSE]
    BY <1>1, <1>6 DEF UnlockElement, Answer, Goto, TypeOK
  <2>2. TypeOK'
    BY <1>1, <1>2, <1>4, <2>1 DEF TypeOK, UnlockElement, PCs, request, search
  <2>3. CallInv(t)' /\ SearchInv(t)' /\ FoundInv(t)'
    BY <1>1, <2>1, KeepSearch DEF UnlockElement, nodeFields
  <2>4. ControlInv(t)'
    BY <1>1, <2>1 DEF ControlInv, IsPut, UnlockElement, request
  <2>5. NodeInv(t)'
    BY <1>1, <1>3, <2>1 DEF NodeInv, IsPut, UnlockElement, request
  <2>6. LockInv(t)'
    BY <1>1, <1>5, <2>1 DEF LockInv, UnlockElement
  <2>7. ThreadInv(t)'
    BY <2>3, <2>4, <2>5, <2>6 DEF ThreadInv
  <2>8. \A u \in Threads \ {t} : SameLocals(u)
    BY <1>1, <2>1 DEF SameLocals, TypeOK, UnlockElement, request, search
  <2>9. QED
    BY <1>1, <1>4, <2>2, <2>7, <2>8, LocksStep DEF UnlockElement, nodeFields
<1>7. CASE ~Finished(t)
  <2>1. StartFind(t) /\ UNCHANGED <<result, history>>
    BY <1>7 DEF UnlockElement
  <2>2. TypeOK' /\ pc'[t] = "find"
    BY <1>1, <1>4, <2>1, StartFindType DEF TypeOK, UnlockElement, request, history
  <2>3. CallInv(t)'
    BY DEF IInv, ThreadInv, CallInv, IsPut, UnlockElement, request
  <2>4. ~(IsPut(t)' /\ took'[t])
    BY <1>1, <1>7 DEF ControlInv, IsPut, Finished, UnlockElement, request
  <2>5. SearchInv(t)' /\ FoundInv(t)' /\ ControlInv(t)'
    <3>1. key'[t] \in Keys /\ top' = top
      BY <1>1 DEF TypeOK, UnlockElement, request
    <3>2. Head \in Built' /\ KeyAt'[Head] = -1
      BY <1>3, NodeFacts DEF IInv
    <3>3. QED BY <2>1, <2>4, <3>1, <3>2, StartFindInv
  <2>6. NodeInv(t)'
    BY <1>1, <1>3, <2>2 DEF NodeInv, IsPut, UnlockElement, request
  <2>7. LockInv(t)'
    BY <1>1, <1>5, <2>2 DEF LockInv, UnlockElement
  <2>8. ThreadInv(t)'
    BY <2>3, <2>5, <2>6, <2>7 DEF ThreadInv
  <2>9. \A u \in Threads \ {t} : SameLocals(u)
    BY <1>1, <2>1, StartFindType DEF SameLocals, TypeOK, UnlockElement, request
  <2>10. QED
    BY <1>1, <1>4, <2>2, <2>8, <2>9, LocksStep DEF UnlockElement, nodeFields
<1>8. QED
  BY <1>6, <1>7

LEMMA LockPredInv ==
    ASSUME IInv, NEW t \in Threads, LockPred(t)
    PROVE  IInv'
<1> DEFINE pred == before[t][level[t]]
<1>1. /\ TypeOK /\ pc[t] = "lock" /\ Searched(t) /\ level[t] \in Level
      /\ ControlInv(t) /\ NodeInv(t) /\ LockInv(t)
  BY DEF IInv, ThreadInv, Searched, LockPred, TypeOK
<1>2. pred \in Node
  BY <1>1, PredFacts
<1>3. Built' = Built /\ KeyAt' = KeyAt
  BY DEF Built, KeyAt, LockPred
<1>4. /\ lock[pred] = NoThread /\ lock' = [lock EXCEPT ![pred] = t]
      /\ pc' = [pc EXCEPT ![t] = "check"] /\ pc'[t] = "check"
      /\ locked' = [locked EXCEPT ![t] = @ \cup {level[t]}]
      /\ locked'[t] = locked[t] \cup {level[t]} /\ locked[t] \subseteq Level
  BY <1>1 DEF LockPred, Goto, TypeOK
<1>5. TypeOK'
  BY <1>1, <1>2, <1>4 DEF TypeOK, LockPred, PCs, request, search, history
<1>6. CallInv(t)' /\ SearchInv(t)' /\ FoundInv(t)'
  BY <1>1, <1>4, KeepSearch DEF LockPred, nodeFields
<1>7. ControlInv(t)'
  BY <1>1, <1>4 DEF ControlInv, IsPut, LevelTo, LockPred, request, search
<1>8. NodeInv(t)'
  BY <1>1, <1>3, <1>4 DEF NodeInv, IsPut, LockPred, request
<1>9. LockInv(t)'
  <2>1. ASSUME NEW n \in Node, lock'[n] = t
        PROVE  \/ HasElementLock(t)' /\ n = found'[t]
               \/ \E l \in locked'[t] : n = before'[t][l]
    <3>1. CASE n = pred
      BY <1>4, <3>1 DEF LockPred, search
    <3>2. CASE n # pred
      <4>1. lock[n] = t
        BY <1>1, <1>2, <1>4, <2>1, <3>2 DEF TypeOK
      <4>2. HasElementLock(t) => HasElementLock(t)'
        BY <1>1, <1>4 DEF HasElementLock, LockPred, request
      <4>3. QED
        BY <1>1, <1>4, <4>1, <4>2 DEF LockInv, LockPred, search
    <3>3. QED BY <3>1, <3>2
  <2>2. \A l \in locked'[t] : l >= level'[t]
    BY <1>1, <1>4 DEF LockInv, LockPred
  <2>3. QED BY <1>4, <2>1, <2>2 DEF LockInv
<1>10. ThreadInv(t)'
  BY <1>6, <1>7, <1>8, <1>9 DEF ThreadInv
<1>11. \A u \in Threads \ {t} : SameLocals(u)
  BY <1>1, <1>4 DEF SameLocals, TypeOK, LockPred, request, search
<1>12. \A u \in Threads \ {t} : \A n \in Node : lock'[n] = u => lock[n] = u
  BY <1>1, <1>2, <1>4 DEF TypeOK
<1>13. QED
  BY <1>1, <1>5, <1>10, <1>11, <1>12, LocksStep DEF LockPred, nodeFields, TypeOK

\* What validate_and_lock takes for the successor.
LEMMA SuccsFacts ==
    ASSUME IInv, NEW t \in Threads, pc[t] = "check"
    PROVE  /\ Searched(t) /\ level[t] \in Level /\ IsAfter(t, Succs(t), level[t])
           /\ Succs(t) \in Node
<1>1. Searched(t) /\ level[t] \in Level /\ level[t] >= LevelTo(t)
  BY DEF IInv, TypeOK, ThreadInv, ControlInv, Searched
<1>2. CASE found[t] = NoNode
  BY <1>1, <1>2, NodeFacts DEF IInv, ThreadInv, FoundInv, Succs, IsAfter
<1>3. CASE found[t] # NoNode
  <2>1. level[t] >= top[found[t]]
    BY <1>1, <1>3 DEF IInv, ThreadInv, ControlInv, IsPut, LevelTo
  <2>2. QED
    BY <1>1, <1>3, <2>1, FoundFacts, NodeFacts DEF IInv, Sorted, Succs, IsAfter
<1>4. QED
  BY <1>2, <1>3

LEMMA CheckSearch ==
    ASSUME IInv, NEW t \in Threads, pc[t] = "check", pc'[t] \notin {"find", "after"},
           UNCHANGED <<shared, request, prev, found, before>>,
           after' = [after EXCEPT ![t][level[t]] = Succs(t)]
    PROVE  CallInv(t)' /\ SearchInv(t)' /\ FoundInv(t)'
<1>1. Built' = Built /\ KeyAt' = KeyAt /\ top' = top /\ key' = key
  BY DEF Built, KeyAt, shared, request
<1>2. CallInv(t)' /\ SearchInv(t)'
  BY DEF IInv, ThreadInv, CallInv, IsPut, SearchInv, Searching, request
<1>3. FoundInv(t) /\ Searched(t)
  BY SuccsFacts DEF IInv, ThreadInv
<1>4. ASSUME NEW l \in Level PROVE IsAfter(t, after[t][l], l)'
  <2>1. after'[t][l] = IF l = level[t] THEN Succs(t) ELSE after[t][l]
    BY SuccsFacts DEF IInv, TypeOK
  <2>2. IsAfter(t, after'[t][l], l)
    BY <1>3, <2>1, SuccsFacts DEF FoundInv
  <2>3. QED BY <1>1, <2>2 DEF IsAfter
<1>5. FoundInv(t)'
  BY <1>1, <1>3, <1>4 DEF FoundInv, IsBefore, IsHit, SameOrBefore
<1>6. QED
  BY <1>2, <1>5

LEMMA CheckType ==
    ASSUME TypeOK, NEW t \in Threads, NEW s \in Node, level[t] \in Level,
           UNCHANGED <<shared, request, prev, found, before, node, locked,
                       valid, took, result, calls, history>>,
           pc' \in [Threads -> PCs], level' \in [Threads -> Level],
           after' = [after EXCEPT ![t][level[t]] = s]
    PROVE  TypeOK'
<1>1. after' \in [Threads -> [Level -> Node \cup {NoNode}]]
  BY DEF TypeOK
<1>2. QED
  BY <1>1 DEF TypeOK, shared, request, history

LEMMA CheckFailsInv ==
    ASSUME IInv, NEW t \in Threads, CheckFails(t)
    PROVE  IInv'
<1>1. /\ TypeOK /\ pc[t] = "check" /\ Succs(t) \in Node /\ level[t] \in Level
      /\ ControlInv(t) /\ NodeInv(t) /\ LockInv(t)
  BY SuccsFacts DEF IInv, ThreadInv, CheckFails
<1>2. /\ pc' = [pc EXCEPT ![t] = "unlock"] /\ pc'[t] = "unlock"
      /\ valid' = [valid EXCEPT ![t] = FALSE]
      /\ after' = [after EXCEPT ![t][level[t]] = Succs(t)]
  BY <1>1 DEF CheckFails, Goto, TypeOK
<1>3. TypeOK'
  BY <1>1, <1>2 DEF TypeOK, CheckFails, PCs, shared, request, history
<1>4. CallInv(t)' /\ SearchInv(t)' /\ FoundInv(t)'
  BY <1>1, <1>2, CheckSearch DEF CheckFails
<1>5. ControlInv(t)'
  BY <1>1, <1>2 DEF ControlInv, IsPut, CheckFails, request
<1>6. NodeInv(t)'
  BY <1>1, <1>2 DEF NodeInv, IsPut, CheckFails, request, shared, Built, KeyAt
<1>7. LockInv(t)'
  BY <1>1, <1>2 DEF LockInv, HasElementLock, CheckFails, request, shared
<1>8. ThreadInv(t)'
  BY <1>4, <1>5, <1>6, <1>7 DEF ThreadInv
<1>9. \A u \in Threads \ {t} : SameLocals(u)
  BY <1>1, <1>2 DEF SameLocals, TypeOK, CheckFails, request
<1>10. QED
  BY <1>1, <1>3, <1>8, <1>9, LocalStep DEF CheckFails, TypeOK

LEMMA CheckNextInv ==
    ASSUME IInv, NEW t \in Threads, CheckNext(t)
    PROVE  IInv'
<1>1. /\ TypeOK /\ pc[t] = "check" /\ Succs(t) \in Node /\ level[t] \in Level
      /\ ControlInv(t) /\ NodeInv(t) /\ LockInv(t) /\ Searched(t)
  BY SuccsFacts DEF IInv, ThreadInv, CheckNext
<1>2. LevelTo(t) \in Level /\ level[t] > LevelTo(t)
  <2>1. CASE op[t] = "remove"
    BY <1>1, <2>1, FoundFacts DEF ControlInv, LevelTo, CheckNext
  <2>2. CASE op[t] # "remove"
    BY <1>1, <2>2 DEF ControlInv, LevelTo, CheckNext, TypeOK, Node
  <2>3. QED BY <2>1, <2>2
<1>3. /\ pc'[t] \in {"check", "lock"} /\ pc' = [pc EXCEPT ![t] = pc'[t]]
      /\ pc'[t] = "lock" => ~SamePred(t)
      /\ level' = [level EXCEPT ![t] = level[t] - 1] /\ level[t] - 1 \in Level
      /\ after' = [after EXCEPT ![t][level[t]] = Succs(t)]
  BY <1>1, <1>2 DEF CheckNext, Goto, TypeOK
<1>4. TypeOK'
  <2>1. pc'[t] \in PCs
    BY <1>3 DEF PCs
  <2>2. pc' \in [Threads -> PCs]
    BY <1>1, <2>1 DEF TypeOK, CheckNext, Goto
  <2>3. level' \in [Threads -> Level]
    BY <1>1, <1>3 DEF TypeOK
  <2>4. QED
    BY <1>1, <1>3, <2>2, <2>3, CheckType DEF CheckNext
<1>5. CallInv(t)' /\ SearchInv(t)' /\ FoundInv(t)'
  BY <1>1, <1>3, CheckSearch DEF CheckNext
<1>6. ControlInv(t)'
  BY <1>1, <1>2, <1>3
  DEF ControlInv, IsPut, CheckNext, LevelTo, request, shared, TypeOK
<1>7. NodeInv(t)'
  BY <1>1, <1>3 DEF NodeInv, IsPut, CheckNext, request, shared, Built, KeyAt
<1>8. LockInv(t)'
  <2>1. /\ locked' = locked /\ lock' = lock /\ op' = op /\ before' = before
        /\ found' = found /\ KeyAt' = KeyAt /\ level'[t] = level[t] - 1
        /\ \A l \in locked[t] : l \in Level /\ l >= level[t]
    BY <1>1, <1>3 DEF CheckNext, request, shared, KeyAt, LockInv, TypeOK
  <2>2. HasElementLock(t) => HasElementLock(t)'
    BY <1>1, <1>3, <2>1 DEF HasElementLock
  <2>3. ASSUME pc'[t] = "lock", NEW l \in locked[t]
        PROVE  KeyAt[before[t][level[t] - 1]] < KeyAt[before[t][l]]
    <3>1. KeyAt[before[t][level[t] - 1]] < KeyAt[before[t][level[t]]]
      BY <1>1, <1>3, <2>3 DEF SamePred, SameOrBefore, IInv, ThreadInv, FoundInv
    <3>2. l \in Level /\ SameOrBefore(before[t][level[t]], before[t][l])
      BY <1>1, <2>1 DEF SameOrBefore, IInv, ThreadInv, FoundInv
    <3>3. /\ KeyAt[before[t][l]] \in Int /\ KeyAt[before[t][level[t]]] \in Int
          /\ KeyAt[before[t][level[t] - 1]] \in Int
      BY <1>1, <1>3, <3>2, PredFacts, NodeFacts DEF IInv
    <3>4. QED BY <3>1, <3>2, <3>3 DEF SameOrBefore
  <2>4. QED
    BY <1>1, <1>3, <2>1, <2>2, <2>3 DEF LockInv
<1>9. ThreadInv(t)'
  BY <1>5, <1>6, <1>7, <1>8 DEF ThreadInv
<1>10. \A u \in Threads \ {t} : SameLocals(u)
  BY <1>1, <1>3 DEF SameLocals, TypeOK, CheckNext, request
<1>11. QED
  BY <1>1, <1>4, <1>9, <1>10, LocalStep DEF CheckNext, TypeOK

LEMMA CheckDoneInv ==
    ASSUME IInv, NEW t \in Threads, CheckDone(t)
    PROVE  IInv'
<1>1. /\ TypeOK /\ pc[t] = "check" /\ Succs(t) \in Node /\ level[t] \in Level
      /\ ControlInv(t) /\ NodeInv(t) /\ LockInv(t) /\ Searched(t)
  BY SuccsFacts DEF IInv, ThreadInv, CheckDone
<1>2. LevelTo(t) \in Level
  <2>1. CASE op[t] = "remove"
    BY <1>1, <2>1, FoundFacts DEF ControlInv, LevelTo
  <2>2. CASE op[t] # "remove"
    BY <1>1, <2>2 DEF ControlInv, LevelTo, TypeOK, Node
  <2>3. QED BY <2>1, <2>2
<1>3. /\ pc'[t] = IF op[t] = "remove" THEN "unlink" ELSE "fill"
      /\ pc' = [pc EXCEPT ![t] = pc'[t]]
      /\ level' = [level EXCEPT ![t] = Bottom] /\ Bottom \in Level
      /\ after' = [after EXCEPT ![t][level[t]] = Succs(t)]
  BY <1>1 DEF CheckDone, Goto, TypeOK
<1>4. TypeOK'
  <2>1. pc'[t] \in PCs
    BY <1>3 DEF PCs
  <2>2. pc' \in [Threads -> PCs]
    BY <1>1, <2>1 DEF TypeOK, CheckDone, Goto
  <2>3. level' \in [Threads -> Level]
    BY <1>1, <1>3 DEF TypeOK
  <2>4. QED
    BY <1>1, <1>3, <2>2, <2>3, CheckType DEF CheckDone
<1>5. CallInv(t)' /\ SearchInv(t)' /\ FoundInv(t)'
  BY <1>1, <1>3, CheckSearch DEF CheckDone
<1>6. ControlInv(t)'
  BY <1>1, <1>2, <1>3
  DEF ControlInv, IsPut, CheckDone, LevelTo, request, shared, TypeOK
<1>7. NodeInv(t)'
  BY <1>1, <1>3 DEF NodeInv, IsPut, CheckDone, request, shared, Built, KeyAt, ControlInv
<1>8. LockInv(t)'
  BY <1>1, <1>3 DEF LockInv, HasElementLock, CheckDone, request, shared
<1>9. ThreadInv(t)'
  BY <1>5, <1>6, <1>7, <1>8 DEF ThreadInv
<1>10. \A u \in Threads \ {t} : SameLocals(u)
  BY <1>1, <1>3 DEF SameLocals, TypeOK, CheckDone, request
<1>11. QED
  BY <1>1, <1>4, <1>9, <1>10, LocalStep DEF CheckDone, TypeOK

LEMMA UnlockPredInv ==
    ASSUME IInv, NEW t \in Threads, UnlockPred(t)
    PROVE  IInv'
<1>1. PICK l \in locked[t] :
        /\ lock' = [lock EXCEPT ![before[t][l]] = NoThread]
        /\ locked' = [locked EXCEPT ![t] = @ \ {l}]
  BY DEF UnlockPred
<1>2. /\ TypeOK /\ pc[t] = "unlock" /\ Searched(t) /\ pc' = pc
      /\ locked[t] \subseteq Level
      /\ ControlInv(t) /\ NodeInv(t) /\ LockInv(t)
  BY DEF IInv, ThreadInv, Searched, UnlockPred, TypeOK
<1>3. l \in Level /\ before[t][l] \in Node
  BY <1>2, PredFacts
<1>4. /\ lock' \in [Node -> Threads \cup {NoThread}]
      /\ \A n \in Node : lock'[n] = t => lock[n] = t /\ n # before[t][l]
      /\ \A u \in Threads \ {t} : \A n \in Node : lock'[n] = u => lock[n] = u
      /\ locked' \in [Threads -> SUBSET Level] /\ locked'[t] = locked[t] \ {l}
  BY <1>1, <1>2, <1>3 DEF TypeOK
<1>5. TypeOK'
  BY <1>2, <1>4 DEF TypeOK, UnlockPred, request, search, history
<1>6. CallInv(t)' /\ SearchInv(t)' /\ FoundInv(t)'
  BY <1>2, KeepSearch DEF UnlockPred, nodeFields
<1>7. ControlInv(t)'
  BY <1>2 DEF ControlInv, IsPut, UnlockPred, request, search
<1>8. NodeInv(t)'
  BY <1>2 DEF NodeInv, IsPut, UnlockPred, request, Built, KeyAt
<1>9. LockInv(t)'
  <2>1. ASSUME NEW n \in Node, lock'[n] = t
        PROVE  \/ HasElementLock(t)' /\ n = found'[t]
               \/ \E m \in locked'[t] : n = before'[t][m]
    <3>1. \/ HasElementLock(t) /\ n = found[t]
          \/ \E m \in locked[t] : n = before[t][m]
      BY <1>2, <1>4, <2>1 DEF LockInv
    <3>2. n # before[t][l] /\ before' = before /\ found' = found
      BY <1>4, <2>1 DEF UnlockPred, search
    <3>3. HasElementLock(t) => HasElementLock(t)'
      BY <1>2 DEF HasElementLock, UnlockPred, request
    <3>4. QED BY <1>4, <3>1, <3>2, <3>3
  <2>2. QED BY <1>2, <2>1 DEF LockInv
<1>10. ThreadInv(t)'
  BY <1>6, <1>7, <1>8, <1>9 DEF ThreadInv
<1>11. \A u \in Threads \ {t} : SameLocals(u)
  BY <1>1, <1>2 DEF SameLocals, TypeOK, UnlockPred, request, search
<1>12. QED
  BY <1>2, <1>4, <1>5, <1>10, <1>11, LocksStep DEF UnlockPred, nodeFields, TypeOK

LEMMA RemoveUnlockedInv ==
    ASSUME IInv, NEW t \in Threads, RemoveUnlocked(t)
    PROVE  IInv'
<1>1. /\ TypeOK /\ pc[t] = "unlock" /\ op[t] = "remove" /\ Searched(t)
      /\ ControlInv(t) /\ NodeInv(t) /\ LockInv(t) /\ locked[t] = {}
  BY DEF IInv, ThreadInv, Searched, RemoveUnlocked
<1>2. pc' = [pc EXCEPT ![t] = "unlockelem"] /\ pc'[t] = "unlockelem"
  BY <1>1 DEF RemoveUnlocked, Goto, TypeOK
<1>3. TypeOK'
  BY <1>1, <1>2 DEF TypeOK, RemoveUnlocked, PCs, shared, request, search, history
<1>4. CallInv(t)' /\ SearchInv(t)' /\ FoundInv(t)'
  BY <1>1, <1>2, KeepSearch DEF RemoveUnlocked, nodeFields, shared
<1>5. ControlInv(t)'
  BY <1>1, <1>2 DEF ControlInv, IsPut, RemoveUnlocked, request, search
<1>6. NodeInv(t)' /\ LockInv(t)'
  BY <1>1, <1>2 DEF NodeInv, IsPut, LockInv, HasElementLock, RemoveUnlocked, request,
                   search, shared, Built, KeyAt
<1>7. ThreadInv(t)'
  BY <1>4, <1>5, <1>6 DEF ThreadInv
<1>8. \A u \in Threads \ {t} : SameLocals(u)
  BY <1>1, <1>2 DEF SameLocals, TypeOK, RemoveUnlocked, request, search
<1>9. QED
  BY <1>1, <1>3, <1>7, <1>8, LocalStep DEF RemoveUnlocked, TypeOK

\* A put is over: it leaves no lock behind.
LEMMA PutNewDoneInv ==
    ASSUME IInv, NEW t \in Threads, PutNewDone(t)
    PROVE  IInv'
<1>1. /\ TypeOK /\ pc[t] = "unlock" /\ op[t] = "put_new" /\ Searched(t)
      /\ ControlInv(t) /\ NodeInv(t) /\ LockInv(t) /\ locked[t] = {}
  BY DEF IInv, ThreadInv, Searched, PutNewDone
<1>2. /\ pc' = [pc EXCEPT ![t] = "return"] /\ pc'[t] = "return"
      /\ result' = [result EXCEPT ![t] = 1] /\ seen' = [seen EXCEPT ![t] = {}]
      /\ raced' = [raced EXCEPT ![t] = FALSE]
  BY <1>1 DEF PutNewDone, Answer, Goto, TypeOK
<1>3. TypeOK'
  BY <1>1, <1>2 DEF TypeOK, PutNewDone, PCs, Answers, shared, request, search
<1>4. CallInv(t)' /\ SearchInv(t)' /\ FoundInv(t)'
  BY <1>1, <1>2, KeepSearch DEF PutNewDone, nodeFields, shared
<1>5. ControlInv(t)'
  BY <1>1, <1>2 DEF ControlInv, IsPut, PutNewDone, request, search
<1>6. NodeInv(t)' /\ LockInv(t)'
  BY <1>1, <1>2 DEF NodeInv, IsPut, LockInv, HasElementLock, PutNewDone, request,
                   search, shared, Built, KeyAt
<1>7. ThreadInv(t)'
  BY <1>4, <1>5, <1>6 DEF ThreadInv
<1>8. \A u \in Threads \ {t} : SameLocals(u)
  BY <1>1, <1>2 DEF SameLocals, TypeOK, PutNewDone, request, search
<1>9. QED
  BY <1>1, <1>3, <1>7, <1>8, LocalStep DEF PutNewDone, TypeOK

-----------------------------------------------------------------------------
(* Steps that take effect: marks and elements.                             *)

\* A step that keeps the lists and every node's key, ...
LEMMA ShapeStep ==
    ASSUME IInv, NEW t \in Threads, UNCHANGED <<heap, top, nxt, lock, node>>,
           KeyAt' = KeyAt, \A u \in Threads \ {t} : SameLocals(u),
           TypeOK', HeapInv', ThreadInv(t)'
    PROVE  IInv'
<1>1. Built' = Built
  BY DEF Built
<1>2. Sorted'
  BY <1>1 DEF IInv, Sorted
<1>3. KeepsBuilt
  BY <1>1 DEF KeepsBuilt, KeepsNode
<1>4. \A u \in Threads : node[u] # NoNode =>
        /\ node[u] \in heap' /\ KeepsNode(node[u])
        /\ node[u] \in Built' <=> node[u] \in Built
  BY <1>1 DEF KeepsNode, IInv, ThreadInv, NodeInv
<1>5. QED
  BY <1>2, <1>3, <1>4, OthersStep

\* ... and what t still knows after it.
LEMMA ShapeSearch ==
    ASSUME IInv, NEW t \in Threads, UNCHANGED <<heap, top, nxt, request, search>>,
           KeyAt' = KeyAt, Searched(t), pc'[t] \notin {"find", "after"}
    PROVE  CallInv(t)' /\ SearchInv(t)' /\ FoundInv(t)'
<1>1. Built' = Built
  BY DEF Built
<1>2. CallInv(t)' /\ SearchInv(t)'
  BY DEF IInv, ThreadInv, CallInv, IsPut, SearchInv, Searching, request
<1>3. FoundInv(t)'
  BY <1>1, FrameFound DEF IInv, ThreadInv, KeepsBuilt, KeepsNode, request, search
<1>4. QED
  BY <1>2, <1>3

LEMMA TakeEffectType ==
    ASSUME TypeOK, NEW t \in Threads, NEW e \in Elements \cup {NULL}, TakeEffect(t, e)
    PROVE  /\ took' \in [Threads -> BOOLEAN] /\ took'[t] = TRUE
           /\ \A u \in Threads \ {t} : took'[u] = took[u]
           /\ seen' \in [Threads -> SUBSET (Elements \cup {NULL})]
           /\ raced' \in [Threads -> BOOLEAN]
<1>1. /\ took \in [Threads -> BOOLEAN] /\ raced \in [Threads -> BOOLEAN]
      /\ seen \in [Threads -> SUBSET (Elements \cup {NULL})]
  BY DEF TypeOK
<1>2. took' = [took EXCEPT ![t] = TRUE]
  BY DEF TakeEffect
<1>3. seen' \in [Threads -> SUBSET (Elements \cup {NULL})]
  BY <1>1 DEF TakeEffect
<1>4. raced' \in [Threads -> BOOLEAN]
  BY <1>1, Zenon DEF TakeEffect
<1>5. QED
  BY <1>1, <1>2, <1>3, <1>4

LEMMA PutOverInv ==
    ASSUME IInv, NEW t \in Threads, PutOver(t)
    PROVE  IInv'
<1>1. /\ TypeOK /\ HeapInv /\ pc[t] = "locked" /\ op[t] = "put" /\ Searched(t)
      /\ found[t] # NoNode /\ locked[t] = {}
      /\ CallInv(t) /\ ControlInv(t) /\ NodeInv(t) /\ LockInv(t)
  BY DEF IInv, ThreadInv, ControlInv, LockInv, Searched, PutOver
<1>2. /\ found[t] \in Nodes /\ found[t] \in heap /\ KeyAt[found[t]] = key[t]
      /\ arg[t] \in Elements /\ KeyOf[arg[t]] = key[t]
  BY <1>1, FoundFacts DEF CallInv, IsPut
<1>3. /\ pc' = [pc EXCEPT ![t] = "unlockelem"] /\ pc'[t] = "unlockelem"
      /\ element' = [element EXCEPT ![found[t]] = arg[t]]
      /\ result' = [result EXCEPT ![t] = element[found[t]]]
      /\ valid' = [valid EXCEPT ![t] = TRUE] /\ TakeEffect(t, arg[t])
  BY <1>1 DEF PutOver, Goto, TypeOK
<1>4. KeyAt' = KeyAt
  <2>1. /\ element \in [Node -> Elements \cup {NULL}] /\ found[t] \in Node
        /\ found[t] # Head /\ found[t] # Tail
    BY <1>1, <1>2 DEF TypeOK, Node
  <2>2. KeyAt[found[t]] = KeyOf[element[found[t]]]
    BY <2>1 DEF KeyAt
  <2>3. ASSUME NEW n \in Node PROVE KeyAt'[n] = KeyAt[n]
    <3>1. CASE n = found[t]
      BY <1>2, <1>3, <2>1, <3>1 DEF KeyAt
    <3>2. CASE n # found[t]
      BY <1>3, <2>1, <3>2 DEF KeyAt
    <3>3. QED BY <3>1, <3>2
  <2>4. QED BY <2>3 DEF KeyAt
<1>5. HeapInv'
  BY <1>1, <1>2, <1>3 DEF HeapInv, PutOver, Built, TypeOK, Node
<1>6. valid' \in [Threads -> BOOLEAN] /\ valid'[t] = TRUE
  BY <1>1, <1>3 DEF TypeOK
<1>7. TypeOK'
  <2>1. element' \in [Node -> Elements \cup {NULL}] /\ result' \in [Threads -> Answers]
    BY <1>1, <1>2, <1>3 DEF TypeOK, Node, Answers
  <2>2. pc' \in [Threads -> PCs]
    BY <1>1, <1>3 DEF TypeOK, PCs
  <2>3. QED
    BY <1>1, <1>2, <1>3, <1>6, <2>1, <2>2, TakeEffectType
    DEF TypeOK, PutOver, request, search
<1>8. CallInv(t)' /\ SearchInv(t)' /\ FoundInv(t)'
  BY <1>1, <1>3, <1>4, ShapeSearch DEF PutOver
<1>9. ControlInv(t)'
  BY <1>1, <1>3, <1>6 DEF ControlInv, IsPut, PutOver, request, search
<1>10. NodeInv(t)' /\ LockInv(t)'
  BY <1>1, <1>3, <1>4 DEF NodeInv, IsPut, LockInv, HasElementLock, PutOver, request,
                   search, Built
<1>11. ThreadInv(t)'
  BY <1>8, <1>9, <1>10 DEF ThreadInv
<1>12. ASSUME NEW u \in Threads \ {t} PROVE SameLocals(u)
  <2>1. took'[u] = took[u]
    BY <1>1, <1>2, <1>3, TakeEffectType
  <2>2. QED BY <1>1, <1>3, <2>1 DEF SameLocals, TypeOK, PutOver, request, search
<1>13. QED
  BY <1>4, <1>5, <1>7, <1>11, <1>12, ShapeStep DEF PutOver

LEMMA RemoveMarkInv ==
    ASSUME IInv, NEW t \in Threads, RemoveMark(t)
    PROVE  IInv'
<1>1. /\ TypeOK /\ HeapInv /\ pc[t] = "locked" /\ op[t] = "remove" /\ Searched(t)
      /\ found[t] # NoNode /\ locked[t] = {}
      /\ ControlInv(t) /\ NodeInv(t) /\ LockInv(t)
  BY DEF IInv, ThreadInv, ControlInv, LockInv, Searched, RemoveMark
<1>2. found[t] \in Nodes /\ found[t] \in Built /\ top[found[t]] \in Level
  BY <1>1, FoundFacts
<1>3. /\ pc' = [pc EXCEPT ![t] = "lock"] /\ pc'[t] = "lock"
      /\ result' = [result EXCEPT ![t] = element[found[t]]]
      /\ level' = [level EXCEPT ![t] = Bottom] /\ level'[t] = Bottom
      /\ valid' = [valid EXCEPT ![t] = TRUE] /\ TakeEffect(t, NULL)
  BY <1>1 DEF RemoveMark, StartLocking, Goto, TypeOK
<1>4. KeyAt' = KeyAt
  BY DEF KeyAt, RemoveMark
<1>5. HeapInv'
  BY <1>1, <1>2 DEF HeapInv, RemoveMark, Built
<1>6. valid' \in [Threads -> BOOLEAN] /\ valid'[t] = TRUE /\ took'[t] = TRUE
  BY <1>1, <1>3, TakeEffectType DEF TypeOK
<1>7. TypeOK'
  <2>1. marked' \subseteq Nodes /\ result' \in [Threads -> Answers]
    BY <1>1, <1>2, <1>3 DEF TypeOK, Node, Answers, RemoveMark
  <2>2. pc' \in [Threads -> PCs] /\ level' \in [Threads -> Level]
    BY <1>1, <1>3 DEF TypeOK, PCs
  <2>3. QED
    BY <1>1, <1>3, <1>6, <2>1, <2>2, TakeEffectType
    DEF TypeOK, RemoveMark, request, search
<1>8. CallInv(t)' /\ SearchInv(t)' /\ FoundInv(t)'
  BY <1>1, <1>3, <1>4, ShapeSearch DEF RemoveMark
<1>9. ControlInv(t)'
  BY <1>1, <1>2, <1>3, <1>6 DEF ControlInv, IsPut, LevelTo, RemoveMark, request, search
<1>10. NodeInv(t)' /\ LockInv(t)'
  BY <1>1, <1>3, <1>4 DEF NodeInv, IsPut, LockInv, HasElementLock, RemoveMark, request,
                   search, Built
<1>11. ThreadInv(t)'
  BY <1>8, <1>9, <1>10 DEF ThreadInv
<1>12. ASSUME NEW u \in Threads \ {t} PROVE SameLocals(u)
  <2>1. took'[u] = took[u]
    BY <1>1, <1>3, TakeEffectType
  <2>2. QED BY <1>1, <1>3, <2>1 DEF SameLocals, TypeOK, RemoveMark, request, search
<1>13. QED
  BY <1>4, <1>5, <1>7, <1>11, <1>12, ShapeStep DEF RemoveMark

LEMMA PublishInv ==
    ASSUME IInv, NEW t \in Threads, Publish(t)
    PROVE  IInv'
<1>1. /\ TypeOK /\ HeapInv /\ pc[t] = "publish" /\ Searched(t) /\ IsPut(t) /\ valid[t]
      /\ node[t] # NoNode /\ found[t] = NoNode
      /\ CallInv(t) /\ ControlInv(t) /\ NodeInv(t) /\ LockInv(t)
  BY DEF IInv, ThreadInv, ControlInv, Searched, Publish
<1>2. node[t] \in Node /\ arg[t] \in Elements
  BY <1>1 DEF CallInv, TypeOK, Node
<1>3. /\ pc' = [pc EXCEPT ![t] = "unlock"] /\ pc'[t] = "unlock"
      /\ result' \in [Threads -> Answers] /\ TakeEffect(t, arg[t])
  BY <1>1 DEF Publish, Goto, TypeOK, Answers
<1>4. KeyAt' = KeyAt
  BY DEF KeyAt, Publish
<1>5. HeapInv'
  BY <1>1 DEF HeapInv, Publish, Built
<1>6. TypeOK'
  <2>1. fully_linked' \subseteq Node
    BY <1>1, <1>2 DEF TypeOK, Publish
  <2>2. pc' \in [Threads -> PCs]
    BY <1>1, <1>3 DEF TypeOK, PCs
  <2>3. QED
    BY <1>1, <1>2, <1>3, <2>1, <2>2, TakeEffectType DEF TypeOK, Publish, request, search
<1>7. CallInv(t)' /\ SearchInv(t)' /\ FoundInv(t)'
  BY <1>1, <1>3, <1>4, ShapeSearch DEF Publish
<1>8. ControlInv(t)'
  BY <1>1, <1>3 DEF ControlInv, IsPut, Publish, request, search
<1>9. NodeInv(t)' /\ LockInv(t)'
  BY <1>1, <1>3, <1>4 DEF NodeInv, IsPut, LockInv, HasElementLock, Publish, request,
                   search, Built
<1>10. ThreadInv(t)'
  BY <1>7, <1>8, <1>9 DEF ThreadInv
<1>11. ASSUME NEW u \in Threads \ {t} PROVE SameLocals(u)
  <2>1. took'[u] = took[u]
    BY <1>1, <1>2, <1>3, TakeEffectType
  <2>2. QED BY <1>1, <1>3, <2>1 DEF SameLocals, TypeOK, Publish, request, search
<1>12. QED
  BY <1>4, <1>5, <1>6, <1>10, <1>11, ShapeStep DEF Publish

-----------------------------------------------------------------------------
(* Steps that write a pointer.                                             *)

\* Where t goes after a level of the loops over link_level.
LEMMA NextLevelUpType ==
    ASSUME IInv, NEW t \in Threads, pc[t] \in {"link", "unlink"},
           NEW done \in PCs, NextLevelUp(t, done)
    PROVE  /\ pc' \in [Threads -> PCs] /\ level' \in [Threads -> Level]
           /\ \A u \in Threads \ {t} : pc'[u] = pc[u] /\ level'[u] = level[u]
           /\ \/ pc'[t] = done
              \/ pc'[t] = pc[t] /\ level'[t] >= LevelTo(t)
<1>1. TypeOK /\ ControlInv(t) /\ level[t] \in Level
  BY DEF IInv, ThreadInv, TypeOK
<1>2. LevelTo(t) \in Level
  <2>1. CASE op[t] = "remove"
    <3>1. Searched(t) /\ found[t] # NoNode
      BY <1>1, <2>1 DEF ControlInv, Searched, IsPut
    <3>2. QED BY <2>1, <3>1, FoundFacts DEF LevelTo
  <2>2. CASE op[t] # "remove"
    <3>1. node[t] \in Node
      BY <1>1, <2>2 DEF ControlInv, TypeOK, Node
    <3>2. QED BY <1>1, <2>2, <3>1 DEF LevelTo, TypeOK
  <2>3. QED BY <2>1, <2>2
<1>3. CASE level[t] > LevelTo(t)
  <2>1. pc' = pc /\ level' = [level EXCEPT ![t] = level[t] - 1]
    BY <1>3 DEF NextLevelUp
  <2>2. level[t] - 1 \in Level /\ level[t] - 1 >= LevelTo(t)
    BY <1>1, <1>2, <1>3
  <2>3. pc \in [Threads -> PCs] /\ level \in [Threads -> Level]
    BY <1>1 DEF TypeOK
  <2>4. QED BY <2>1, <2>2, <2>3
<1>4. CASE ~(level[t] > LevelTo(t))
  <2>1. pc' = [pc EXCEPT ![t] = done] /\ level' = level
    BY <1>4 DEF NextLevelUp, Goto
  <2>2. pc \in [Threads -> PCs] /\ level \in [Threads -> Level]
    BY <1>1 DEF TypeOK
  <2>3. QED BY <2>1, <2>2
<1>5. QED
  BY <1>3, <1>4

\* A predecessor is made to point to s, behind it and on the list.
LEMMA Redirect ==
    ASSUME IInv, NEW t \in Threads, Searched(t), level[t] \in Level,
           NEW s \in Built \cup {Tail}, top[s] <= level[t], key[t] <= KeyAt[s],
           nxt' = [nxt EXCEPT ![before[t][level[t]]][level[t]] = s],
           UNCHANGED <<heap, element, top, marked>>
    PROVE  /\ Built' = Built /\ KeyAt' = KeyAt /\ HeapInv' /\ Sorted'
           /\ nxt' \in [Node -> [Level -> Node \cup {NoNode}]]
<1> DEFINE p == before[t][level[t]]
<1>1. /\ TypeOK /\ HeapInv /\ Sorted
      /\ p \in Built /\ p \in Node /\ KeyAt[p] < key[t] /\ s \in Node /\ s # NoNode
      /\ KeyAt[p] \in Int /\ KeyAt[s] \in Int /\ key[t] \in Int
  <2>1. TypeOK /\ HeapInv /\ Sorted /\ key[t] \in Keys
    BY DEF IInv, TypeOK
  <2>2. p \in Built /\ p \in Node /\ KeyAt[p] < key[t]
    BY PredFacts
  <2>3. s \in Node /\ s # NoNode /\ KeyAt[p] \in Int /\ KeyAt[s] \in Int
    BY <2>1, <2>2, NodeFacts
  <2>4. QED BY <2>1, <2>2, <2>3 DEF Keys
<1>2. nxt \in [Node -> [Level -> Node \cup {NoNode}]]
  BY <1>1 DEF TypeOK
<1>3. nxt' \in [Node -> [Level -> Node \cup {NoNode}]]
  BY <1>1, <1>2
<1>4. ASSUME NEW n \in Node, NEW l \in Level
      PROVE  nxt'[n][l] = IF n = p /\ l = level[t] THEN s ELSE nxt[n][l]
  BY <1>1, <1>2
<1>5. Bottom \in Level /\ Built \subseteq Node /\ heap \subseteq Node /\ Head \in Node
  BY <1>1, NodeFacts DEF Node
<1>6. Built' = Built
  BY <1>1, <1>4, <1>5 DEF Built
<1>7. KeyAt' = KeyAt
  BY DEF KeyAt
<1>8. HeapInv'
  BY <1>1, <1>6 DEF HeapInv
<1>9. Sorted'
  <2>1. ASSUME NEW n \in Built, NEW l \in Level, l >= top[n]
        PROVE  /\ nxt'[n][l] \in Built \cup {Tail}
               /\ KeyAt[n] < KeyAt[nxt'[n][l]]
               /\ top[nxt'[n][l]] <= l
    <3>1. CASE n = p /\ l = level[t]
      BY <1>1, <1>4, <3>1
    <3>2. CASE ~(n = p /\ l = level[t])
      BY <1>1, <1>4, <1>5, <2>1, <3>2 DEF Sorted
    <3>3. QED BY <3>1, <3>2
  <2>2. QED BY <1>6, <1>7, <2>1 DEF Sorted
<1>10. QED
  BY <1>3, <1>6, <1>7, <1>8, <1>9

\* The rest of a step that redirects a pointer.
LEMMA RedirectStep ==
    ASSUME IInv, NEW t \in Threads, Searched(t),
           Built' = Built, KeyAt' = KeyAt, HeapInv', Sorted',
           UNCHANGED <<heap, top, lock, request, search, node, locked, valid, took>>,
           \A u \in Threads \ {t} : pc'[u] = pc[u] /\ level'[u] = level[u],
           pc'[t] \notin {"find", "after"},
           TypeOK', ControlInv(t)', NodeInv(t)', LockInv(t)'
    PROVE  IInv'
<1>1. KeepsBuilt
  BY DEF KeepsBuilt, KeepsNode
<1>2. CallInv(t)' /\ SearchInv(t)'
  BY DEF IInv, ThreadInv, CallInv, IsPut, SearchInv, Searching, request
<1>3. FoundInv(t)'
  BY <1>1, FrameFound DEF IInv, ThreadInv, request, search
<1>4. ThreadInv(t)'
  BY <1>2, <1>3 DEF ThreadInv
<1>5. \A u \in Threads \ {t} : SameLocals(u)
  BY DEF SameLocals, request, search
<1>6. \A u \in Threads : node[u] # NoNode =>
        /\ node[u] \in heap' /\ KeepsNode(node[u])
        /\ node[u] \in Built' <=> node[u] \in Built
  BY DEF KeepsNode, IInv, ThreadInv, NodeInv
<1>7. QED
  BY <1>1, <1>4, <1>5, <1>6, OthersStep

LEMMA LinkInv ==
    ASSUME IInv, NEW t \in Threads, Link(t)
    PROVE  IInv'
<1>1. /\ TypeOK /\ pc[t] = "link" /\ Searched(t) /\ level[t] \in Level
      /\ IsPut(t) /\ node[t] # NoNode /\ found[t] = NoNode /\ valid[t]
      /\ level[t] >= LevelTo(t) /\ node[t] \in Built /\ KeyAt[node[t]] = key[t]
      /\ ControlInv(t) /\ NodeInv(t) /\ LockInv(t)
  BY DEF IInv, ThreadInv, ControlInv, NodeInv, Searched, TypeOK, Link
<1>2. top[node[t]] <= level[t] /\ key[t] <= KeyAt[node[t]] /\ key[t] \in Int
  <2>1. LevelTo(t) = top[node[t]]
    BY <1>1 DEF LevelTo, IsPut
  <2>2. KeyAt[node[t]] \in Int
    BY <1>1, NodeFacts DEF IInv
  <2>3. QED BY <1>1, <2>1, <2>2
<1>3. /\ Built' = Built /\ KeyAt' = KeyAt /\ HeapInv' /\ Sorted'
      /\ nxt' \in [Node -> [Level -> Node \cup {NoNode}]]
  BY <1>1, <1>2, Redirect DEF Link
<1>4. /\ pc' \in [Threads -> PCs] /\ level' \in [Threads -> Level]
      /\ \A u \in Threads \ {t} : pc'[u] = pc[u] /\ level'[u] = level[u]
      /\ \/ pc'[t] = "publish"
         \/ pc'[t] = "link" /\ level'[t] >= LevelTo(t)
  <2>1. "publish" \in PCs
    BY DEF PCs
  <2>2. QED BY <1>1, <2>1, NextLevelUpType DEF Link
<1>5. TypeOK'
  BY <1>1, <1>3, <1>4 DEF TypeOK, Link, request, search, history
<1>6. ControlInv(t)'
  BY <1>1, <1>4 DEF ControlInv, IsPut, LevelTo, Link, request, search
<1>7. NodeInv(t)'
  BY <1>1, <1>3, <1>4 DEF NodeInv, IsPut, Link, request
<1>8. LockInv(t)'
  BY <1>1, <1>3, <1>4 DEF LockInv, HasElementLock, IsPut, Link, request, search
<1>9. QED
  BY <1>1, <1>3, <1>4, <1>5, <1>6, <1>7, <1>8, RedirectStep DEF Link

LEMMA UnlinkInv ==
    ASSUME IInv, NEW t \in Threads, Unlink(t)
    PROVE  IInv'
<1>1. /\ TypeOK /\ pc[t] = "unlink" /\ Searched(t) /\ level[t] \in Level
      /\ op[t] = "remove" /\ found[t] # NoNode /\ level[t] >= LevelTo(t)
      /\ ControlInv(t) /\ NodeInv(t) /\ LockInv(t)
  BY DEF IInv, ThreadInv, ControlInv, Searched, TypeOK, Unlink
<1> DEFINE s == nxt[found[t]][level[t]]
<1>2. found[t] \in Built /\ KeyAt[found[t]] = key[t] /\ level[t] >= top[found[t]]
  BY <1>1, FoundFacts DEF LevelTo
<1>3. s \in Built \cup {Tail} /\ top[s] <= level[t] /\ key[t] < KeyAt[s]
  BY <1>1, <1>2 DEF IInv, Sorted
<1>4. key[t] <= KeyAt[s]
  BY <1>1, <1>3, NodeFacts DEF IInv, TypeOK, Keys
<1>5. /\ Built' = Built /\ KeyAt' = KeyAt /\ HeapInv' /\ Sorted'
      /\ nxt' \in [Node -> [Level -> Node \cup {NoNode}]]
  BY <1>1, <1>3, <1>4, Redirect DEF Unlink
<1>6. /\ pc' \in [Threads -> PCs] /\ level' \in [Threads -> Level]
      /\ \A u \in Threads \ {t} : pc'[u] = pc[u] /\ level'[u] = level[u]
      /\ \/ pc'[t] = "unlock"
         \/ pc'[t] = "unlink" /\ level'[t] >= LevelTo(t)
  <2>1. "unlock" \in PCs
    BY DEF PCs
  <2>2. QED BY <1>1, <2>1, NextLevelUpType DEF Unlink
<1>7. TypeOK'
  BY <1>1, <1>5, <1>6 DEF TypeOK, Unlink, request, search, history
<1>8. ControlInv(t)'
  BY <1>1, <1>6 DEF ControlInv, IsPut, LevelTo, Unlink, request, search
<1>9. NodeInv(t)'
  BY <1>1, <1>5, <1>6 DEF NodeInv, IsPut, Unlink, request
<1>10. LockInv(t)'
  BY <1>1, <1>5, <1>6 DEF LockInv, HasElementLock, Unlink, request, search
<1>11. QED
  BY <1>1, <1>5, <1>6, <1>7, <1>8, <1>9, <1>10, RedirectStep DEF Unlink

\* A step outside the lists keeps their order.
LEMMA SortedFrame ==
    ASSUME Sorted, KeepsBuilt, Built' = Built, \A n \in Built : nxt'[n] = nxt[n]
    PROVE  Sorted'
<1>1. ASSUME NEW n \in Built, NEW l \in Level, l >= top[n]
      PROVE  /\ nxt[n][l] \in Built \cup {Tail}
             /\ KeyAt'[n] < KeyAt'[nxt[n][l]] /\ top'[nxt[n][l]] <= l
  <2>1. nxt[n][l] \in Built \cup {Tail} /\ KeyAt[n] < KeyAt[nxt[n][l]] /\ top[nxt[n][l]] <= l
    BY <1>1 DEF Sorted
  <2>2. QED BY <2>1 DEF KeepsBuilt, KeepsNode
<1>2. \A n \in Built : top'[n] = top[n]
  BY DEF KeepsBuilt, KeepsNode
<1>3. QED
  BY <1>1, <1>2 DEF Sorted

LEMMA FillInv ==
    ASSUME IInv, NEW t \in Threads, Fill(t)
    PROVE  IInv'
<1> DEFINE n == node[t]
           row == [l \in Level |-> IF l >= LevelTo(t) THEN after[t][l] ELSE NoNode]
<1>1. /\ TypeOK /\ HeapInv /\ Sorted /\ pc[t] = "fill" /\ Searched(t)
      /\ IsPut(t) /\ n # NoNode /\ found[t] = NoNode /\ valid[t]
      /\ n \in heap /\ n \in Node /\ n \notin Built /\ KeyAt[n] = key[t]
      /\ ControlInv(t) /\ NodeInv(t) /\ LockInv(t)
  BY DEF IInv, ThreadInv, ControlInv, NodeInv, Searched, TypeOK, Fill, Node
<1>2. /\ pc' = [pc EXCEPT ![t] = "link"] /\ pc'[t] = "link"
      /\ nxt' = [nxt EXCEPT ![n] = row]
      /\ nxt \in [Node -> [Level -> Node \cup {NoNode}]]
  BY <1>1 DEF Fill, Goto, TypeOK
<1>3. LevelTo(t) = top[n] /\ top[n] \in Level /\ level[t] \in Level
  BY <1>1 DEF LevelTo, IsPut, TypeOK
<1>4. \A l \in Level : /\ after[t][l] \in Built \cup {Tail} /\ after[t][l] \in Node
                       /\ top[after[t][l]] <= l /\ key[t] < KeyAt[after[t][l]]
                       /\ after[t][l] # NoNode
  BY <1>1, PredFacts, NodeFacts
<1>5. row \in [Level -> Node \cup {NoNode}] /\ Bottom \in Level /\ row[Bottom] # NoNode
  BY <1>3, <1>4
<1>6. nxt' \in [Node -> [Level -> Node \cup {NoNode}]] /\ nxt'[n] = row
      /\ \A m \in Node : m # n => nxt'[m] = nxt[m]
  BY <1>1, <1>2, <1>5
<1>7. Built' = Built \cup {n}
  BY <1>1, <1>5, <1>6, NodeFacts DEF Built, Fill, Node
<1>8. KeyAt' = KeyAt /\ top' = top /\ heap' = heap /\ lock' = lock /\ node' = node
  BY DEF KeyAt, Fill
<1>9. KeepsBuilt
  BY <1>7, <1>8 DEF KeepsBuilt, KeepsNode
<1>10. HeapInv'
  BY <1>1, <1>7, <1>8 DEF HeapInv, Fill
<1>11. Sorted'
  <2>1. ASSUME NEW m \in Built', NEW l \in Level, l >= top[m]
        PROVE  /\ nxt'[m][l] \in Built' \cup {Tail}
               /\ KeyAt[m] < KeyAt[nxt'[m][l]]
               /\ top[nxt'[m][l]] <= l
    <3>1. CASE m = n
      <4>1. nxt'[m][l] = after[t][l]
        <5>1. nxt'[m] = row /\ l >= LevelTo(t)
          BY <1>3, <1>6, <2>1, <3>1
        <5>2. QED BY <5>1
      <4>2. KeyAt[m] = key[t]
        BY <1>1, <3>1
      <4> HIDE DEF n, row
      <4>3. QED BY <1>4, <1>7, <4>1, <4>2
    <3>2. CASE m # n
      <4>1. m \in Built /\ nxt'[m] = nxt[m]
        BY <1>1, <1>6, <1>7, <3>2, NodeFacts
      <4>2. QED BY <1>1, <1>7, <2>1, <4>1 DEF Sorted
    <3>3. QED BY <3>1, <3>2
  <2>2. QED BY <1>8, <2>1 DEF Sorted
<1>12. TypeOK'
  BY <1>1, <1>2, <1>6 DEF TypeOK, Fill, PCs, request, search, history
<1>13. CallInv(t)' /\ SearchInv(t)'
  BY <1>2 DEF IInv, ThreadInv, CallInv, IsPut, SearchInv, Searching, Fill, request
<1>14. FoundInv(t)'
  BY <1>1, <1>9, FrameFound DEF IInv, ThreadInv, Fill, request, search
<1>15. ControlInv(t)'
  <2>1. level' = level /\ node' = node /\ op' = op /\ LevelTo(t)' = LevelTo(t)
    BY DEF Fill, LevelTo, request, search
  <2>2. QED
    BY <1>1, <1>2, <2>1 DEF ControlInv, IsPut, Fill, request, search
<1>16. NodeInv(t)'
  BY <1>1, <1>2, <1>7, <1>8 DEF NodeInv, IsPut, Fill, request
<1>17. LockInv(t)'
  BY <1>1, <1>2, <1>8 DEF LockInv, HasElementLock, IsPut, Fill, request, search
<1>18. ThreadInv(t)'
  BY <1>13, <1>14, <1>15, <1>16, <1>17 DEF ThreadInv
<1>19. \A u \in Threads \ {t} : SameLocals(u)
  BY <1>1, <1>2 DEF SameLocals, TypeOK, Fill, request, search
<1>20. \A u \in Threads \ {t} : node[u] # NoNode =>
        /\ node[u] \in heap' /\ KeepsNode(node[u])
        /\ node[u] \in Built' <=> node[u] \in Built
  BY <1>1, <1>7, <1>8 DEF KeepsNode, IInv, ThreadInv, NodeInv
<1>21. QED
  BY <1>8, <1>9, <1>10, <1>11, <1>12, <1>18, <1>19, <1>20, OthersStep

-----------------------------------------------------------------------------
(* Steps that allocate and free the node of a put.                         *)

LEMMA PutAbsentInv ==
    ASSUME IInv, NEW t \in Threads, PutAbsent(t)
    PROVE  IInv'
<1>1. PICK n \in Nodes \ heap, l \in Level :
         /\ heap' = heap \cup {n}
         /\ element' = [element EXCEPT ![n] = arg[t]]
         /\ top' = [top EXCEPT ![n] = l]
         /\ nxt' = [nxt EXCEPT ![n] = NoNodes]
         /\ node' = [node EXCEPT ![t] = n]
  BY DEF PutAbsent
<1>2. /\ TypeOK /\ HeapInv /\ Sorted /\ pc[t] = "found" /\ Searched(t)
      /\ IsPut(t) /\ found[t] = NoNode /\ ~took[t] /\ locked[t] = {}
      /\ arg[t] \in Elements /\ KeyOf[arg[t]] = key[t]
      /\ ControlInv(t) /\ NodeInv(t) /\ LockInv(t)
  BY DEF IInv, ThreadInv, CallInv, ControlInv, LockInv, Searched, IsPut, PutAbsent
<1>3. /\ n \in Node /\ n # Head /\ n # Tail /\ n # NoNode /\ n \notin Built
      /\ Built \subseteq Node /\ Head \in Built /\ Tail \in Node
      /\ Built \subseteq heap \cup {Head}
  BY <1>2, NodeFacts DEF Node
<1>4. /\ pc' = [pc EXCEPT ![t] = "lock"] /\ pc'[t] = "lock"
      /\ level' = [level EXCEPT ![t] = Bottom] /\ level'[t] = Bottom
      /\ valid' = [valid EXCEPT ![t] = TRUE] /\ valid' \in [Threads -> BOOLEAN]
      /\ valid'[t] = TRUE
  <2>1. /\ pc' = [pc EXCEPT ![t] = "lock"] /\ level' = [level EXCEPT ![t] = Bottom]
        /\ valid' = [valid EXCEPT ![t] = TRUE]
    BY DEF PutAbsent, StartLocking, Goto
  <2>2. /\ pc \in [Threads -> PCs] /\ level \in [Threads -> Level]
        /\ valid \in [Threads -> BOOLEAN]
    BY <1>2 DEF TypeOK
  <2>3. valid' \in [Threads -> BOOLEAN] /\ valid'[t] = TRUE
    BY <2>1, <2>2
  <2>4. QED BY <2>1, <2>2, <2>3
<1>5. /\ element \in [Node -> Elements \cup {NULL}] /\ top \in [Node -> Level]
      /\ nxt \in [Node -> [Level -> Node \cup {NoNode}]]
      /\ node \in [Threads -> Nodes \cup {NoNode}]
  BY <1>2 DEF TypeOK
<1>6. /\ element'[n] = arg[t] /\ top'[n] = l /\ nxt'[n] = NoNodes
      /\ \A m \in Node : m # n =>
           element'[m] = element[m] /\ top'[m] = top[m] /\ nxt'[m] = nxt[m]
  BY <1>1, <1>3, <1>5
<1>7. /\ KeyAt'[n] = key[t]
      /\ \A m \in Node : m # n => KeyAt'[m] = KeyAt[m]
  BY <1>2, <1>3, <1>6 DEF KeyAt
<1>8. Built' = Built
  <2>1. NoNodes[Bottom] = NoNode
    BY DEF NoNodes
  <2>2. ASSUME NEW m PROVE m \in Built' <=> m \in Built
    <3>1. CASE m = n
      BY <1>1, <1>3, <1>6, <2>1, <3>1 DEF Built
    <3>2. CASE m # n
      <4>1. m \in heap' \cup {Head} <=> m \in heap \cup {Head}
        BY <1>1, <3>2
      <4>2. m \in heap \cup {Head} => nxt'[m] = nxt[m]
        BY <1>2, <1>6, <3>2 DEF TypeOK, Node
      <4>3. QED BY <4>1, <4>2 DEF Built
    <3>3. QED BY <3>1, <3>2
  <2>3. QED BY <2>2
<1>9. KeepsBuilt
  BY <1>3, <1>6, <1>7, <1>8 DEF KeepsBuilt, KeepsNode
<1>10. HeapInv'
  <2>1. \A m \in heap' : element'[m] \in Elements
    BY <1>1, <1>2, <1>6 DEF HeapInv, TypeOK, Node
  <2>2. marked' = marked
    BY DEF PutAbsent
  <2>3. top'[Head] = 0 /\ top'[Tail] = 0
    BY <1>2, <1>3, <1>6 DEF HeapInv
  <2>4. QED BY <1>2, <1>8, <2>1, <2>2, <2>3 DEF HeapInv
<1>11. Sorted'
  BY <1>2, <1>3, <1>6, <1>8, <1>9, SortedFrame
<1>12. TypeOK'
  <2>1. /\ heap' \subseteq Nodes /\ element' \in [Node -> Elements \cup {NULL}]
        /\ top' \in [Node -> Level]
    BY <1>1, <1>2 DEF TypeOK
  <2>2. nxt' \in [Node -> [Level -> Node \cup {NoNode}]]
    BY <1>1, <1>5 DEF NoNodes
  <2>3. node' \in [Threads -> Nodes \cup {NoNode}]
    BY <1>1, <1>5
  <2>4. pc' \in [Threads -> PCs] /\ level' \in [Threads -> Level]
    BY <1>2, <1>4 DEF TypeOK, PCs
  <2>5. QED
    BY <1>2, <1>4, <2>1, <2>2, <2>3, <2>4 DEF TypeOK, PutAbsent, request, search, history
<1>13. CallInv(t)' /\ SearchInv(t)'
  BY <1>4 DEF IInv, ThreadInv, CallInv, IsPut, SearchInv, Searching, PutAbsent, request
<1>14. FoundInv(t)'
  BY <1>2, <1>9, FrameFound DEF IInv, ThreadInv, PutAbsent, request, search
<1>15. node'[t] = n /\ \A u \in Threads \ {t} : node'[u] = node[u]
  BY <1>1, <1>5
<1>16. ControlInv(t)'
  <2>1. op' = op /\ found' = found /\ took' = took
    BY DEF PutAbsent, request, search
  <2>2. LevelTo(t)' = l
    BY <1>2, <1>6, <1>15, <2>1 DEF LevelTo, IsPut
  <2>3. QED BY <1>2, <1>3, <1>4, <1>15, <2>1, <2>2 DEF ControlInv, IsPut
<1>17. \A u \in Threads : node[u] # NoNode => node[u] \in heap /\ node[u] \in Node
  BY <1>2 DEF IInv, ThreadInv, NodeInv, TypeOK, Node
<1>18. NodeInv(t)'
  <2>1. \A u \in Threads : node'[u] = n => u = t
    BY <1>3, <1>15, <1>17
  <2>2. n \in heap' /\ KeyAt'[n] = key'[t] /\ n \notin Built'
    BY <1>1, <1>3, <1>7, <1>8 DEF PutAbsent, request
  <2>3. QED BY <1>4, <1>15, <2>1, <2>2 DEF NodeInv
<1>19. LockInv(t)'
  <2>1. \A m \in Node : lock[m] # t
    BY <1>2 DEF LockInv, HasElementLock
  <2>2. lock' = lock /\ locked' = locked
    BY DEF PutAbsent
  <2>3. QED BY <1>2, <1>4, <2>1, <2>2 DEF LockInv
<1>20. ThreadInv(t)'
  BY <1>13, <1>14, <1>16, <1>18, <1>19 DEF ThreadInv
<1>21. \A u \in Threads \ {t} : SameLocals(u)
  BY <1>2, <1>4, <1>15 DEF SameLocals, TypeOK, PutAbsent, request, search
<1>22. \A u \in Threads \ {t} : node[u] # NoNode =>
        /\ node[u] \in heap' /\ KeepsNode(node[u])
        /\ node[u] \in Built' <=> node[u] \in Built
  BY <1>1, <1>6, <1>7, <1>8, <1>17 DEF KeepsNode
<1>23. lock' = lock
  BY DEF PutAbsent
<1>24. QED
  BY <1>1, <1>9, <1>10, <1>11, <1>12, <1>15, <1>20, <1>21, <1>22, <1>23, OthersStep

LEMMA PutDoneInv ==
    ASSUME IInv, NEW t \in Threads, PutDone(t)
    PROVE  IInv'
<1> DEFINE n == node[t]
<1>1. /\ TypeOK /\ HeapInv /\ Sorted /\ pc[t] = "unlock" /\ op[t] = "put" /\ Searched(t)
      /\ IsPut(t) /\ n # NoNode /\ found[t] = NoNode /\ locked[t] = {}
      /\ CallInv(t) /\ ControlInv(t) /\ NodeInv(t) /\ LockInv(t)
  BY DEF IInv, ThreadInv, ControlInv, Searched, IsPut, PutDone
<1>2. \A m \in Node : lock[m] # t
  BY <1>1 DEF LockInv, HasElementLock
<1>3. CASE valid[t]
  <2>1. /\ pc' = [pc EXCEPT ![t] = "return"] /\ pc'[t] = "return"
        /\ result' = [result EXCEPT ![t] = NULL] /\ seen' = [seen EXCEPT ![t] = {}]
        /\ raced' = [raced EXCEPT ![t] = FALSE]
        /\ UNCHANGED <<shared, request, search, level, node, locked, valid, took, calls>>
    BY <1>1, <1>3 DEF PutDone, Answer, Goto, TypeOK, shared
  <2>2. TypeOK'
    BY <1>1, <2>1 DEF TypeOK, PCs, Answers, shared, request, search
  <2>3. CallInv(t)' /\ SearchInv(t)' /\ FoundInv(t)'
    BY <1>1, <2>1, KeepSearch DEF nodeFields, shared
  <2>4. ControlInv(t)'
    BY <1>1, <2>1 DEF ControlInv, IsPut, request, search
  <2>5. NodeInv(t)' /\ LockInv(t)'
    BY <1>1, <1>2, <2>1 DEF NodeInv, IsPut, LockInv, request, search, shared, Built, KeyAt
  <2>6. ThreadInv(t)'
    BY <2>3, <2>4, <2>5 DEF ThreadInv
  <2>7. \A u \in Threads \ {t} : SameLocals(u)
    BY <1>1, <2>1 DEF SameLocals, TypeOK, request, search
  <2>8. QED
    BY <1>1, <2>1, <2>2, <2>6, <2>7, LocalStep DEF TypeOK
<1>4. CASE ~valid[t]
  <2>1. /\ heap' = heap \ {n} /\ element' = [element EXCEPT ![n] = NULL]
        /\ top' = [top EXCEPT ![n] = 0] /\ node' = [node EXCEPT ![t] = NoNode]
        /\ StartFind(t) /\ UNCHANGED <<result, history>>
        /\ UNCHANGED <<nxt, marked, fully_linked, lock, request, locked,
                       valid, took, calls>>
    BY <1>4 DEF PutDone, Discard
  <2>2. /\ n \in Nodes /\ n \in Node /\ n # Head /\ n # Tail /\ n \notin Built /\ n \in heap
        /\ Built \subseteq Node /\ Head \in Built /\ Built \subseteq heap \cup {Head}
        /\ ~took[t]
    BY <1>1, <1>4, NodeFacts DEF NodeInv, ControlInv, TypeOK, Node
  <2>3. /\ element \in [Node -> Elements \cup {NULL}] /\ top \in [Node -> Level]
        /\ node \in [Threads -> Nodes \cup {NoNode}] /\ 0 \in Level
    BY <1>1 DEF TypeOK
  <2>4. /\ \A m \in Node : m # n => element'[m] = element[m] /\ top'[m] = top[m]
        /\ \A m \in Node : m # n => KeyAt'[m] = KeyAt[m]
    BY <2>1, <2>2, <2>3 DEF KeyAt
  <2>5. Built' = Built
    BY <2>1, <2>2 DEF Built
  <2>6. KeepsBuilt
    BY <2>2, <2>4, <2>5, NodeFacts DEF KeepsBuilt, KeepsNode, Node
  <2>7. HeapInv'
    <3>1. \A m \in heap' : element'[m] \in Elements
      BY <1>1, <2>1, <2>4 DEF HeapInv, TypeOK, Node
    <3>2. top'[Head] = 0 /\ top'[Tail] = 0
      BY <1>1, <2>2, <2>4 DEF HeapInv, Node
    <3>3. QED BY <1>1, <2>1, <2>5, <3>1, <3>2 DEF HeapInv
  <2>8. Sorted'
    BY <1>1, <2>1, <2>5, <2>6, SortedFrame
  <2>9. TypeOK'
    <3>1. /\ heap' \subseteq Nodes /\ element' \in [Node -> Elements \cup {NULL}]
          /\ top' \in [Node -> Level] /\ node' \in [Threads -> Nodes \cup {NoNode}]
      BY <1>1, <2>1, <2>3 DEF TypeOK
    <3>2. QED
      BY <1>1, <2>1, <3>1, StartFindType DEF TypeOK, request, history
  <2>10. pc'[t] = "find" /\ node'[t] = NoNode /\ lock' = lock /\ locked' = locked
    BY <1>1, <2>1, <2>3, StartFindType
  <2>11. SearchInv(t)' /\ FoundInv(t)' /\ ControlInv(t)'
    <3>1. key'[t] \in Keys /\ took'[t] = took[t]
      BY <1>1, <2>1 DEF TypeOK, request
    <3>2. Head \in Built' /\ KeyAt'[Head] = -1 /\ top'[Head] = top[Head]
      BY <1>1, <2>2, <2>4, <2>5, NodeFacts
    <3>3. QED BY <2>1, <2>2, <3>1, <3>2, StartFindInv
  <2>12. CallInv(t)'
    BY <1>1, <2>1 DEF CallInv, IsPut, request
  <2>13. NodeInv(t)' /\ LockInv(t)'
    BY <1>1, <1>2, <2>10 DEF NodeInv, LockInv
  <2>14. ThreadInv(t)'
    BY <2>11, <2>12, <2>13 DEF ThreadInv
  <2>15. \A u \in Threads \ {t} : SameLocals(u)
    BY <1>1, <2>1, <2>3, StartFindType DEF SameLocals, TypeOK, request
  <2>16. \A u \in Threads \ {t} : node[u] # NoNode =>
          /\ node[u] \in heap' /\ KeepsNode(node[u])
          /\ node[u] \in Built' <=> node[u] \in Built
    <3>1. ASSUME NEW u \in Threads \ {t}, node[u] # NoNode
          PROVE  node[u] \in heap /\ node[u] # n /\ node[u] \in Node
      BY <1>1, <3>1 DEF IInv, ThreadInv, NodeInv, TypeOK, Node
    <3>2. QED BY <2>1, <2>4, <2>5, <3>1 DEF KeepsNode
  <2>17. QED
    BY <2>6, <2>7, <2>8, <2>9, <2>10, <2>14, <2>15, <2>16, OthersStep
<1>5. QED
  BY <1>3, <1>4

-----------------------------------------------------------------------------
(* The initial states.                                                     *)

\* Every non-empty set of naturals has a least element.
LEMMA LeastNat ==
    ASSUME NEW T \in SUBSET Nat, T # {}
    PROVE  \E x \in T : \A y \in T : x <= y
<1> DEFINE Below == {p \in Nat \X Nat : p[1] < p[2]}
<1>1. IsWellFoundedOn(OpToRel(<, Nat), Nat)
  BY NatLessThanWellFounded
<1>2. OpToRel(<, Nat) = Below
  BY Zenon DEF OpToRel
<1>3. IsWellFoundedOn(Below, Nat)
  BY <1>1, <1>2, Zenon
<1> HIDE DEF Below
<1>4. PICK x \in T : \A y \in T : <<y, x>> \notin Below
  BY <1>3, WFMin, Zenon
<1>5. ASSUME NEW y \in T PROVE x <= y
  <2>1. <<y, x>> \in Nat \X Nat
    OBVIOUS
  <2>2. ~(y < x)
    BY <1>4, <2>1, SMT DEF Below
  <2>3. QED BY <2>2
<1>6. QED
  BY <1>5, Zenon

\* Successor is well defined: some node that follows has the least key.
LEMMA SuccessorFacts ==
    ASSUME NEW S, NEW n, NEW l, \A m \in S : KeyAt[m] \in Nat
    PROVE  /\ Successor(S, n, l) = Tail \/ Successor(S, n, l) \in Following(S, n, l)
           /\ \A o \in Following(S, n, l) : /\ Successor(S, n, l) \in Following(S, n, l)
                                          /\ KeyAt[Successor(S, n, l)] <= KeyAt[o]
<1>1. CASE Following(S, n, l) = {}
  BY <1>1 DEF Successor
<1>2. CASE Following(S, n, l) # {}
  <2> DEFINE F == Following(S, n, l)
             T == {KeyAt[m] : m \in F}
  <2>1. T \in SUBSET Nat /\ T # {}
    BY <1>2 DEF Following
  <2>2. \E x \in T : \A y \in T : x <= y
    <3> HIDE DEF T
    <3>1. QED BY <2>1, LeastNat
  <2>3. \E m \in F : \A o \in F : KeyAt[m] <= KeyAt[o]
    BY <2>2
  <2>4. Successor(S, n, l) = CHOOSE m \in F : \A o \in F : KeyAt[m] <= KeyAt[o]
    BY <1>2 DEF Successor
  <2>5. PICK s : s = CHOOSE m \in F : \A o \in F : KeyAt[m] <= KeyAt[o]
    OBVIOUS
  <2>6. s \in F /\ \A o \in F : KeyAt[s] <= KeyAt[o]
    <3> HIDE DEF F
    <3>1. QED BY <2>3, <2>5, Zenon
  <2>7. Successor(S, n, l) = s
    BY <2>4, <2>5
  <2>8. QED BY <2>6, <2>7
<1>3. QED
  BY <1>1, <1>2

LEMMA InitFacts ==
    ASSUME Init
    PROVE  IInv /\ Built = heap \cup {Head}
<1>1. Init
  OBVIOUS
<1>2. PICK c \in Contents :
         /\ heap = DOMAIN c
         /\ element = [n \in Node |-> IF n \in DOMAIN c THEN c[n].elem ELSE NULL]
         /\ top = [n \in Node |-> IF n \in DOMAIN c THEN c[n].top ELSE 0]
  BY <1>1 DEF Init
<1>3. /\ DOMAIN c \subseteq Nodes
      /\ \A n \in DOMAIN c : c[n].elem \in Elements /\ c[n].top \in Level
  BY <1>2, ContentsAssumption
<1>4. /\ heap \subseteq Nodes /\ heap \subseteq Node
      /\ Head \in Node /\ Tail \in Node /\ Head \notin heap /\ Tail \notin heap
      /\ 0 \in Level /\ Bottom \in Level
  BY <1>2, <1>3 DEF Node
<1>5. /\ element \in [Node -> Elements \cup {NULL}] /\ top \in [Node -> Level]
      /\ \A n \in heap : element[n] \in Elements
      /\ top[Head] = 0 /\ top[Tail] = 0
  BY <1>2, <1>3, <1>4
<1>6. /\ \A n \in heap : KeyAt[n] \in Keys /\ KeyAt[n] \in Nat
      /\ KeyAt[Head] = -1 /\ KeyAt[Tail] = MaxKey + 1
  BY <1>4, <1>5, ElementAssumption, MaxKeyAssumption DEF KeyAt, Keys
<1>7. ASSUME NEW n \in heap \cup {Head}, NEW l \in Level, l >= top[n]
      PROVE  /\ nxt[n][l] \in heap \cup {Tail}
             /\ KeyAt[n] < KeyAt[nxt[n][l]]
             /\ top[nxt[n][l]] <= l
  <2>1. nxt[n][l] = Successor(heap, n, l)
    BY <1>1, <1>4, <1>7 DEF Init
  <2>2. \/ Successor(heap, n, l) = Tail
        \/ Successor(heap, n, l) \in Following(heap, n, l)
    BY <1>6, SuccessorFacts
  <2>3. KeyAt[n] \in Int /\ KeyAt[n] < MaxKey + 1
    BY <1>6, MaxKeyAssumption DEF Keys
  <2>4. QED BY <1>5, <1>6, <2>1, <2>2, <2>3, MaxKeyAssumption DEF Following
<1>8. nxt \in [Node -> [Level -> Node \cup {NoNode}]]
  <2>1. ASSUME NEW n \in Node, NEW l \in Level
        PROVE  (IF n \in heap \cup {Head} /\ l >= top[n]
                THEN Successor(heap, n, l) ELSE NoNode) \in Node \cup {NoNode}
    BY <1>4, <1>6, SuccessorFacts DEF Following
  <2>2. QED BY <1>1, <2>1 DEF Init
<1>9. Built = heap \cup {Head}
  <2>1. \A n \in heap \cup {Head} : Bottom >= top[n]
    BY <1>4, <1>5
  <2>2. \A n \in heap \cup {Head} : nxt[n][Bottom] # NoNode
    BY <1>4, <1>7, <2>1
  <2>3. QED BY <2>2 DEF Built
<1>10. Sorted
  BY <1>7, <1>9 DEF Sorted
<1>11. HeapInv
  BY <1>1, <1>5, <1>9 DEF HeapInv, Init
<1>12. TypeOK
  <2>1. NoNodes \in [Level -> Node \cup {NoNode}]
    BY DEF NoNodes
  <2>2. MaxCalls \in Nat
    BY CallAssumption
  <2>3. QED
    BY <1>1, <1>4, <1>5, <1>8, <2>1, <2>2, MaxKeyAssumption
    DEF Init, TypeOK, PCs, Ops, Keys, Answers
<1>13. ASSUME NEW t \in Threads PROVE ThreadInv(t)
  <2>1. /\ pc[t] = "idle" /\ op[t] = "none" /\ took[t] = FALSE /\ node[t] = NoNode
        /\ locked[t] = {} /\ \A n \in Node : lock[n] # t
    BY <1>1 DEF Init
  <2>2. CallInv(t) /\ SearchInv(t) /\ FoundInv(t) /\ ControlInv(t)
    BY <2>1 DEF CallInv, IsPut, SearchInv, Searching, FoundInv, Searched, ControlInv
  <2>3. NodeInv(t) /\ LockInv(t)
    BY <2>1 DEF NodeInv, LockInv
  <2>4. QED BY <2>2, <2>3 DEF ThreadInv
<1>14. QED
  BY <1>9, <1>10, <1>11, <1>12, <1>13 DEF IInv

LEMMA InitInv == Init => IInv
<1>1. QED
  BY InitFacts

-----------------------------------------------------------------------------
(* The invariant, and what follows from it.                                *)

LEMMA StutterInv ==
    ASSUME IInv, UNCHANGED vars
    PROVE  IInv'
<1> USE DEF vars, shared, request, search, history
<1>1. Built' = Built /\ KeyAt' = KeyAt /\ top' = top
  BY DEF Built, KeyAt
<1>2. TypeOK'
  BY DEF IInv, TypeOK
<1>3. HeapInv' /\ Sorted'
  BY <1>1 DEF IInv, HeapInv, Sorted
<1>4. KeepsBuilt
  BY <1>1 DEF KeepsBuilt, KeepsNode
<1>5. ASSUME NEW u \in Threads PROVE ThreadInv(u)'
  <2>1. SameLocals(u)
    BY DEF SameLocals
  <2>2. KeepsOwn(u)
    BY <1>1 DEF KeepsOwn, KeepsNode, IInv, ThreadInv, NodeInv
  <2>3. \A n \in Node : lock'[n] = u => lock[n] = u
    OBVIOUS
  <2>4. QED BY <1>4, <2>1, <2>2, <2>3, Frame DEF IInv
<1>6. QED
  BY <1>2, <1>3, <1>5 DEF IInv

LEMMA StepInv ==
    ASSUME IInv, NEW t \in Threads, Invoke(t) \/ Step(t)
    PROVE  IInv'
<1>1. CASE FindRight(t) \/ FindDown(t) \/ FindHit(t) \/ FindAfter(t)
  BY <1>1, FindRightInv, FindDownInv, FindHitInv, FindAfterInv
<1>2. CASE LookupFound(t) \/ LookupMarked(t) \/ LookupElement(t)
  BY <1>2, LookupFoundInv, LookupMarkedInv, LookupElementInv
<1>3. CASE \/ LockPred(t) \/ CheckFails(t) \/ CheckNext(t) \/ CheckDone(t)
           \/ UnlockPred(t)
  BY <1>3, LockPredInv, CheckFailsInv, CheckNextInv, CheckDoneInv, UnlockPredInv
<1>4. CASE PutAbsent(t) \/ PutFound(t) \/ PutNewFound(t)
  BY <1>4, PutAbsentInv, PutFoundInv, PutNewFoundInv
<1>5. CASE Fill(t) \/ Link(t) \/ Publish(t) \/ PutDone(t) \/ PutNewDone(t)
  BY <1>5, FillInv, LinkInv, PublishInv, PutDoneInv, PutNewDoneInv
<1>6. CASE WaitLinked(t) \/ LockElement(t) \/ LostRace(t) \/ PutOver(t)
  BY <1>6, WaitLinkedInv, LockElementInv, LostRaceInv, PutOverInv
<1>7. CASE RemoveMark(t) \/ UnlockElement(t)
  BY <1>7, RemoveMarkInv, UnlockElementInv
<1>8. CASE RemoveFound(t) \/ Unlink(t) \/ RemoveUnlocked(t)
  BY <1>8, RemoveFoundInv, UnlinkInv, RemoveUnlockedInv
<1>9. CASE Invoke(t) \/ Return(t)
  BY <1>9, InvokeInv, ReturnInv
<1>10. QED
  BY <1>1, <1>2, <1>3, <1>4, <1>5, <1>6, <1>7, <1>8, <1>9 DEF Step

LEMMA NextInv == IInv /\ [Next]_vars => IInv'
<1>1. ASSUME IInv, NEW t \in Threads, Invoke(t) \/ Step(t) PROVE IInv'
  BY <1>1, StepInv
<1>2. ASSUME IInv, UNCHANGED vars PROVE IInv'
  BY <1>2, StutterInv
<1>3. QED
  BY <1>1, <1>2 DEF Next, Terminated

\* IInv, the shape of the lists and what every thread knows of it, holds in
\* every state the calls of any number of threads can reach.
THEOREM Invariance == Spec => []IInv
<1>1. QED
  BY InitInv, NextInv, PTL DEF Spec

\* Every field of every node and every local of every call keeps its type: no
\* thread indexes a level that does not exist.
THEOREM TypeCorrect == Spec => []TypeOK
<1>1. IInv => TypeOK
  BY DEF IInv
<1>2. QED
  BY <1>1, Invariance, PTL

\* Every list goes to greater keys only, from removed nodes too, so that a
\* search (find_neigbours) always goes forward.
THEOREM ListsSorted == Spec => []Sorted
<1>1. IInv => Sorted
  BY DEF IInv
<1>2. QED
  BY <1>1, Invariance, PTL

LEMMA AccessFacts ==
    ASSUME IInv, NEW n \in Built, NEW l \in Level, top[n] <= l
    PROVE  l >= top[n] /\ nxt[n][l] # NoNode
<1>1. l >= top[n]
  BY NodeFacts DEF IInv
<1>2. QED
  BY <1>1, NodeFacts DEF IInv, Sorted

\* No call reads or writes lower_lists outside its bounds, or through a pointer
\* that was never set.
THEOREM AccessesInBounds == Spec => []InBounds
<1>1. ASSUME IInv, NEW t \in Threads, NEW p \in Touched(t)
      PROVE  p[1] \in Built /\ p[2] >= top[p[1]] /\ nxt[p[1]][p[2]] # NoNode
  <2> DEFINE l == level[t]
  <2>1. l \in Level /\ SearchInv(t) /\ FoundInv(t) /\ ControlInv(t)
    BY <1>1 DEF IInv, TypeOK, ThreadInv
  <2>2. CASE pc[t] = "find"
    <3>1. p = <<prev[t], l>> /\ prev[t] \in Built /\ top[prev[t]] <= l
      BY <1>1, <2>1, <2>2 DEF Touched, SearchInv, Searching, IsBefore
    <3>2. QED BY <1>1, <2>1, <3>1, AccessFacts
  <2>3. CASE pc[t] = "after"
    <3>1. p = <<found[t], l>> /\ found[t] \in Built /\ top[found[t]] <= l
      BY <1>1, <2>1, <2>3 DEF Touched, SearchInv, IsHit
    <3>2. QED BY <1>1, <2>1, <3>1, AccessFacts
  <2>4. CASE pc[t] \in {"check", "link", "unlink"}
    <3>1. Searched(t)
      BY <2>4 DEF Searched
    <3>2. before[t][l] \in Built /\ top[before[t][l]] <= l
      BY <1>1, <2>1, <3>1, PredFacts
    <3>3. CASE p = <<before[t][l], l>>
      BY <1>1, <2>1, <3>2, <3>3, AccessFacts
    <3>4. CASE p = <<found[t], l>> /\ found[t] # NoNode
      <4>1. op[t] = "remove"
        BY <2>1, <2>4, <3>4 DEF ControlInv
      <4>2. found[t] \in Built /\ top[found[t]] \in Level /\ l >= top[found[t]]
        BY <1>1, <2>1, <2>4, <3>1, <3>4, <4>1, FoundFacts DEF ControlInv, LevelTo
      <4>3. top[found[t]] <= l
        BY <2>1, <4>2
      <4>4. QED BY <1>1, <2>1, <3>4, <4>2, <4>3, AccessFacts
    <3>5. QED
      <4>1. pc[t] = "unlink" => found[t] # NoNode
        BY <2>1 DEF ControlInv
      <4>2. QED BY <1>1, <2>4, <3>3, <3>4, <4>1 DEF Touched
  <2>5. QED
    BY <1>1, <2>2, <2>3, <2>4 DEF Touched
<1>2. IInv => InBounds
  BY <1>1 DEF InBounds
<1>3. QED
  BY <1>2, Invariance, PTL

\* A thread waits only for the lock of a node before all the nodes it has
\* locked: the waits of any number of threads never close a cycle.
THEOREM LocksInOrder == Spec => []LockOrder
<1>1. ASSUME IInv, NEW t \in Threads, NEW m \in Node, NEW n \in Node,
             Wants(t, n), lock[m] = t
      PROVE  KeyAt[n] < KeyAt[m]
  <2>1. LockInv(t) /\ ControlInv(t) /\ level[t] \in Level
    BY <1>1 DEF IInv, ThreadInv, TypeOK
  <2>2. \/ HasElementLock(t) /\ m = found[t]
        \/ \E l \in locked[t] : m = before[t][l]
    BY <1>1, <2>1 DEF LockInv
  <2>3. CASE pc[t] = "lock" /\ n = before[t][level[t]]
    <3>1. Searched(t)
      BY <2>3 DEF Searched
    <3>2. CASE HasElementLock(t) /\ m = found[t]
      <4>1. op[t] = "remove" /\ found[t] # NoNode
        BY <2>1, <2>3, <3>2 DEF HasElementLock, ControlInv
      <4>2. QED
        BY <1>1, <2>1, <2>3, <3>1, <3>2, <4>1, FoundFacts, PredFacts
    <3>3. CASE \E l \in locked[t] : m = before[t][l]
      BY <2>1, <2>3, <3>3 DEF LockInv
    <3>4. QED BY <2>2, <3>2, <3>3
  <2>4. CASE pc[t] = "lockelem"
    <3>1. locked[t] = {} /\ ~HasElementLock(t)
      BY <2>1, <2>4 DEF LockInv, HasElementLock
    <3>2. QED BY <2>2, <3>1
  <2>5. QED
    BY <1>1, <2>3, <2>4 DEF Wants
<1>2. IInv => LockOrder
  BY <1>1 DEF LockOrder
<1>3. QED
  BY <1>2, Invariance, PTL
=============================================================================
