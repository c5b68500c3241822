--------------------------- MODULE SequentialProofs ---------------------------
(***************************************************************************)
(* The sequential skiplist is an ordered map, whatever the keys, the nodes *)
(* and the number of levels.                                               *)
(***************************************************************************)
EXTENDS SequentialSkiplist, FiniteSetTheorems, TLAPS

P == INSTANCE SkiplistQueriesProofs

USE NumberAssumption, BorderAssumption, ElementAssumption

-----------------------------------------------------------------------------
(* The inductive invariant.                                                *)

ListNodes(l) == {Head, Tail} \cup {n \in heap : top[n] <= l}

\* Each list is that of the nodes in use that reach it, sorted, up to the end.
ListsInv ==
    /\ \A n \in heap : element[n] \in Elements
    /\ \A l \in Level : P!SortedList(ListNodes(l), l)

\* While skiplist_delete runs, the nodes it has still to free are those from
\* node_iter on; nothing is known of the higher lists any more.
DeletionInv ==
    /\ node_iter \in heap \cup {Tail}
    /\ \A n \in heap : element[n] \in Elements /\ KeyAt[node_iter] <= KeyAt[n]
    /\ \A m, n \in heap : KeyAt[m] = KeyAt[n] => m = n
    /\ \A m \in heap :
         /\ nxt[m][Bottom] \in heap \cup {Tail} /\ KeyAt[m] < KeyAt[nxt[m][Bottom]]
         /\ \A n \in heap : KeyAt[m] < KeyAt[n] => KeyAt[nxt[m][Bottom]] <= KeyAt[n]

\* The borders hold no element.
IInv ==
    /\ TypeOK
    /\ element[Head] = NULL /\ element[Tail] = NULL
    /\ IF deleted THEN DeletionInv ELSE ListsInv

-----------------------------------------------------------------------------
(* The search.                                                             *)

LEMMA SameQueries ==
    /\ \A k : Q!find_neigbours(k) = P!find_neigbours(k)
    /\ Q!skiplist_first = P!skiplist_first
    /\ Q!skiplist_last = P!skiplist_last
    /\ \A k : Q!skiplist_next(k) = P!skiplist_next(k)
    /\ \A k : Q!skiplist_previous(k) = P!skiplist_previous(k)
    /\ Q!Deleted = P!Deleted
<1>1. Q!Level = P!Level /\ Q!Bottom = P!Bottom /\ Q!Rounds = P!Rounds
  BY Zenon DEF Q!Level, P!Level, Q!Bottom, P!Bottom, Q!Rounds, P!Rounds,
    Q!Cardinality, P!Cardinality
<1>2. \A step, n : Q!Walk(step, n) = P!Walk(step, n)
  BY Zenon DEF Q!Walk, P!Walk
<1>3. \A n, l, k : Q!find_neigbours_1_level(n, l, k) = P!find_neigbours_1_level(n, l, k)
  BY Zenon, <1>1, <1>2 DEF Q!find_neigbours_1_level, P!find_neigbours_1_level
<1>4. \A k : Q!Before(k) = P!Before(k)
  BY Zenon, <1>1, <1>3 DEF Q!Before, P!Before
<1>5. \A k : Q!find_neigbours(k) = P!find_neigbours(k)
  <2>1. SUFFICES ASSUME NEW k PROVE Q!find_neigbours(k) = P!find_neigbours(k)
    OBVIOUS
  <2>2. Q!Before(k) = P!Before(k) /\ Q!Level = P!Level /\ Q!Bottom = P!Bottom
    BY <1>1, <1>4
  <2>3. QED BY <2>2 DEF Q!find_neigbours, P!find_neigbours
<1>6. Q!Deleted = P!Deleted
  BY Zenon, <1>1, <1>2 DEF Q!Deleted, P!Deleted
<1>7. QED
  BY <1>1, <1>4, <1>5, <1>6
  DEF Q!skiplist_first, Q!skiplist_last, Q!skiplist_next, Q!skiplist_previous,
      P!skiplist_first, P!skiplist_last, P!skiplist_next, P!skiplist_previous

LEMMA NodesFinite == P!IsFiniteSet(Node)
<1>1. IsFiniteSet(Nodes \cup {Head})
  BY NodeAssumption, FS_AddElement
<1>2. IsFiniteSet((Nodes \cup {Head}) \cup {Tail})
  BY <1>1, FS_AddElement
<1>3. (Nodes \cup {Head}) \cup {Tail} = Node
  BY DEF Node
<1>4. \A S : IsFiniteSet(S) => P!IsFiniteSet(S)
  BY Zenon DEF IsFiniteSet, P!IsFiniteSet
<1>5. QED
  BY <1>2, <1>3, <1>4

\* What compare goes by.
LEMMA KeyFacts ==
    ASSUME IInv
    PROVE  /\ KeyAt[Head] = -1 /\ KeyAt[Tail] = MaxKey + 1
           /\ heap \subseteq Nodes
           /\ \A n \in heap : KeyAt[n] = KeyOf[element[n]] /\ KeyAt[n] \in Keys
           /\ \A k \in Keys : k \in Int /\ KeyAt[Head] < k /\ k < KeyAt[Tail]
<1>1. heap \subseteq Nodes /\ \A n \in heap : element[n] \in Elements
  BY DEF IInv, ListsInv, DeletionInv, TypeOK
<1>2. QED
  BY <1>1 DEF KeyAt, Node, Keys

LEMMA LayeredFacts ==
    ASSUME IInv, ~deleted
    PROVE  /\ P!Layered([l \in Level |-> ListNodes(l)])
           /\ P!Bottom = Bottom /\ Bottom \in Level /\ P!Level = Level
           /\ ListNodes(Bottom) = {Head, Tail} \cup heap
<1>1. P!Bottom = Bottom /\ Bottom \in Level /\ P!Level = Level
  BY DEF P!Bottom, P!Level, Bottom, Level
<1>2. \A n \in heap : top[n] \in Level
  BY DEF IInv, TypeOK, Node
<1>3. ASSUME NEW l \in Level, l # Bottom PROVE ListNodes(l) \subseteq ListNodes(l + 1)
  BY <1>2 DEF ListNodes, Level
<1>4. \A l \in Level : l # Bottom => l + 1 \in Level
  BY DEF Level, Bottom
<1>5. \A l \in Level : P!SortedList(ListNodes(l), l)
  BY DEF IInv, ListsInv
<1> DEFINE L == [l \in Level |-> ListNodes(l)]
<1>6. \A l \in Level : L[l] = ListNodes(l)
  OBVIOUS
<1> HIDE DEF L
<1>7. P!Layered(L)
  BY <1>1, <1>3, <1>4, <1>5, <1>6 DEF P!Layered
<1>8. ListNodes(Bottom) = {Head, Tail} \cup heap
  BY <1>2 DEF ListNodes, Level, Bottom
<1>9. QED
  BY <1>1, <1>7, <1>8 DEF L

\* Two nodes in use do not have one key.
LEMMA OneNode ==
    ASSUME IInv, NEW m \in heap, NEW n \in heap, KeyAt[m] = KeyAt[n]
    PROVE  m = n
<1>1. CASE deleted
  BY <1>1 DEF IInv, DeletionInv
<1>2. CASE ~deleted
  <2>1. P!SortedList(ListNodes(Bottom), Bottom) /\ heap \subseteq ListNodes(Bottom)
    BY <1>2, LayeredFacts DEF IInv, ListsInv
  <2>2. QED BY <2>1 DEF P!SortedList
<1>3. QED
  BY <1>1, <1>2

\* map goes by the nodes in use.
LEMMA MapFacts ==
    ASSUME IInv
    PROVE  /\ \A n \in heap : map[KeyAt[n]] = element[n]
           /\ \A k \in Keys : (\A n \in heap : KeyAt[n] # k) => map[k] = NULL
           /\ \A n \in heap : element[n] # NULL /\ element[n] \in Elements
<1> DEFINE at(k) == {n \in heap : KeyAt[n] = k}
<1>1. \A k \in Keys : map[k] = IF at(k) = {} THEN NULL ELSE element[CHOOSE n \in at(k) : TRUE]
  BY DEF map
<1>2. ASSUME NEW n \in heap PROVE map[KeyAt[n]] = element[n]
  <2>1. at(KeyAt[n]) = {n}
    BY OneNode
  <2>2. KeyAt[n] \in Keys
    BY KeyFacts
  <2> HIDE DEF at
  <2>3. (CHOOSE m \in at(KeyAt[n]) : TRUE) = n
    BY <2>1
  <2>4. QED BY <1>1, <2>1, <2>2, <2>3
<1>3. ASSUME NEW k \in Keys, \A n \in heap : KeyAt[n] # k PROVE map[k] = NULL
  BY <1>1, <1>3
<1>4. QED
  BY <1>2, <1>3 DEF IInv, ListsInv, DeletionInv

\* What the search finds.
LEMMA Search ==
    ASSUME IInv, ~deleted, NEW k \in Keys, NEW f, f = Q!find_neigbours(k)
    PROVE  /\ \A l \in Level : /\ P!LastBefore(f.before[l], ListNodes(l), k)
                               /\ P!FirstAfter(f.after[l], ListNodes(l), k)
                               /\ (\A n \in ListNodes(l) : KeyAt[n] # k) =>
                                    nxt[f.before[l]][l] = f.after[l]
           /\ f.found = NoNode \/ f.found \in heap
           /\ \A n \in heap : KeyAt[n] = k <=> f.found = n
           /\ map[k] = ElementAt(f.found)
           /\ map[k] = NULL <=> f.found = NoNode
<1> DEFINE L == [l \in Level |-> ListNodes(l)]
<1>1. f = P!find_neigbours(k)
  BY SameQueries
<1>2. /\ P!Layered(L) /\ P!Bottom = Bottom /\ P!Level = Level /\ Bottom \in Level
      /\ L[Bottom] = {Head, Tail} \cup heap
      /\ \A l \in Level : L[l] = ListNodes(l)
  BY LayeredFacts
<1>3. /\ KeyAt[Head] < k /\ k < KeyAt[Tail] /\ k \in Int
  BY KeyFacts
<1> HIDE DEF L
<1>4. /\ \A l \in P!Level : /\ P!LastBefore(f.before[l], L[l], k)
                            /\ P!FirstAfter(f.after[l], L[l], k)
      /\ \A l \in P!Level : (\A n \in L[l] : KeyAt[n] # k) => nxt[f.before[l]][l] = f.after[l]
      /\ \A n \in L[P!Bottom] : KeyAt[n] = k <=> f.found = n
      /\ (\A n \in L[P!Bottom] : KeyAt[n] # k) => f.found = NoNode
  BY <1>1, <1>2, <1>3, P!SearchFacts, NodesFinite
<1>5. f.found = NoNode \/ f.found \in heap
  BY <1>2, <1>3, <1>4
<1>6. \A n \in heap : KeyAt[n] = k <=> f.found = n
  BY <1>2, <1>4
<1>7. NoNode \notin heap
  BY KeyFacts DEF Node
<1>8. map[k] = ElementAt(f.found) /\ (map[k] = NULL <=> f.found = NoNode)
  <2>1. CASE f.found = NoNode
    BY <1>6, <1>7, <2>1, MapFacts DEF ElementAt
  <2>2. CASE f.found \in heap
    BY <1>6, <1>7, <2>2, MapFacts DEF ElementAt
  <2>3. QED BY <1>5, <2>1, <2>2
<1>9. QED
  BY <1>2, <1>4, <1>5, <1>6, <1>8

-----------------------------------------------------------------------------
(* Changing a list.                                                        *)

\* S is the list that next leads through, from Head to Tail, by the keys K.
Chain(S, next, K) ==
    /\ S \subseteq Node /\ Head \in S /\ Tail \in S
    /\ \A m \in S : K[m] \in Int /\ K[Head] <= K[m] /\ K[m] <= K[Tail]
    /\ \A m \in S \ {Tail} :
         /\ next[m] \in S /\ K[m] < K[next[m]]
         /\ \A n \in S : K[m] < K[n] => K[next[m]] <= K[n]
    /\ \A m, n \in S : K[m] = K[n] => m = n

\* The node with key k is taken out between b and a, and a new one may be put
\* there: the others stay in order.
LEMMA Splice ==
    ASSUME NEW S, NEW next, NEW K, Chain(S, next, K),
           NEW k \in Int, NEW b \in S \ {Tail}, NEW a \in S,
           K[b] < k, k < K[a],
           \A m \in S : K[m] < k => K[m] <= K[b],
           \A m \in S : K[m] > k => K[m] >= K[a],
           NEW n, NEW N, N \subseteq {n}, N \subseteq Node \ S,
           NEW T, \A m : m \in T <=> (m \in S /\ K[m] # k) \/ m \in N,
           NEW next2, NEW K2,
           \A m \in S : K[m] # k => K2[m] = K[m] /\ (m \notin {b, Tail} => next2[m] = next[m]),
           IF n \in N THEN K2[n] = k /\ next2[b] = n /\ next2[n] = a ELSE next2[b] = a
    PROVE  Chain(T, next2, K2)
<1>1. /\ S \subseteq Node /\ Head \in S /\ Tail \in S
      /\ \A m \in S : K[m] \in Int /\ K[Head] <= K[m] /\ K[m] <= K[Tail]
      /\ \A m \in S \ {Tail} : next[m] \in S /\ K[m] < K[next[m]]
      /\ \A m \in S \ {Tail} : \A o \in S : K[m] < K[o] => K[next[m]] <= K[o]
      /\ \A m, o \in S : K[m] = K[o] => m = o
  BY DEF Chain
<1>2. K[Head] < k /\ k < K[Tail]
  BY <1>1
<1>3. /\ T \subseteq Node /\ Head \in T /\ Tail \in T /\ a \in T /\ b \in T
      /\ \A m \in T : (m \in S /\ K[m] # k /\ K2[m] = K[m]) \/ (m = n /\ n \in N)
      /\ n \in N => n \in T /\ n \notin S /\ K2[n] = k
      /\ K2[Head] = K[Head] /\ K2[Tail] = K[Tail] /\ K2[a] = K[a] /\ K2[b] = K[b]
  BY <1>1, <1>2
<1>4. \A m \in T : K2[m] \in Int /\ K2[Head] <= K2[m] /\ K2[m] <= K2[Tail]
  BY <1>1, <1>2, <1>3
<1>5. \A m, o \in T : K2[m] = K2[o] => m = o
  BY <1>1, <1>3
<1>6. ASSUME NEW m \in T \ {Tail}
      PROVE  /\ next2[m] \in T /\ K2[m] < K2[next2[m]]
             /\ \A o \in T : K2[m] < K2[o] => K2[next2[m]] <= K2[o]
  <2>1. CASE m = n /\ n \in N
    <3>1. next2[m] = a /\ K2[m] = k
      BY <2>1, <1>3
    <3>2. \A o \in T : k < K2[o] => K[a] <= K2[o]
      BY <1>1, <1>3
    <3>3. QED BY <1>3, <3>1, <3>2
  <2>2. CASE m = b /\ n \in N
    <3>1. next2[m] = n /\ K2[m] = K[b]
      BY <2>2, <1>3
    <3>2. \A o \in T : K[b] < K2[o] => k <= K2[o]
      BY <1>1, <1>3
    <3>3. QED BY <1>3, <3>1, <3>2, <2>2
  <2>3. CASE m = b /\ n \notin N
    <3>1. next2[m] = a /\ K2[m] = K[b]
      BY <2>3, <1>3
    <3>2. \A o \in T : K[b] < K2[o] => K[a] <= K2[o]
      BY <1>1, <1>3, <2>3
    <3>3. K[b] < K[a]
      BY <1>1
    <3>4. QED BY <1>3, <3>1, <3>2, <3>3
  <2>4. CASE m # b /\ ~(m = n /\ n \in N)
    <3>1. m \in S /\ K[m] # k /\ K2[m] = K[m] /\ next2[m] = next[m]
      BY <1>3, <2>4
    <3>2. K[m] < k => K[m] < K[b]
      BY <1>1, <2>4, <3>1
    <3>3. K[next[m]] # k /\ (K[m] < k => K[next[m]] < k)
      BY <1>1, <3>1, <3>2
    <3>4. next[m] \in T /\ K2[next[m]] = K[next[m]]
      BY <1>1, <1>3, <3>1, <3>3
    <3>5. \A o \in T : K[m] < K2[o] => K[next[m]] <= K2[o]
      BY <1>1, <1>3, <3>1, <3>3
    <3>6. QED BY <1>1, <3>1, <3>4, <3>5
  <2>5. QED BY <2>1, <2>2, <2>3, <2>4
<1>7. QED
  BY <1>3, <1>4, <1>5, <1>6 DEF Chain

LEMMA ChainIsList ==
    ASSUME NEW l \in Level
    PROVE  /\ P!SortedList(ListNodes(l), l) =>
                Chain(ListNodes(l), [m \in Node |-> nxt[m][l]], KeyAt)
           /\ Chain(ListNodes(l)', [m \in Node |-> nxt'[m][l]], KeyAt')
                => P!SortedList(ListNodes(l), l)'
<1> DEFINE next == [m \in Node |-> nxt[m][l]]
           next2 == [m \in Node |-> nxt'[m][l]]
<1>1. /\ \A m \in Node : next[m] = nxt[m][l]
      /\ \A m \in Node : next2[m] = nxt'[m][l]
  OBVIOUS
<1> HIDE DEF next, next2
<1>2. P!SortedList(ListNodes(l), l) => Chain(ListNodes(l), next, KeyAt)
  BY <1>1 DEF P!SortedList, Chain
<1>3. Chain(ListNodes(l)', next2, KeyAt') => P!SortedList(ListNodes(l), l)'
  BY <1>1 DEF P!SortedList, Chain
<1>4. QED
  BY <1>2, <1>3 DEF next, next2

\* Every change of the lists is one: the node with key k goes, if there is one,
\* and a new one may come, on the levels it reaches.
Changed(k, f, n, N) ==
    /\ heap' = (heap \ {f.found}) \cup N
    /\ \A m \in heap : m # f.found => element'[m] = element[m] /\ top'[m] = top[m]
    /\ n \in N => /\ element'[n] \in Elements /\ KeyOf[element'[n]] = k
                  /\ top'[n] \in Level
    /\ \A l \in Level :
         /\ \A m \in ListNodes(l) \ {f.found, f.before[l], Tail} : nxt'[m][l] = nxt[m][l]
         /\ IF n \in N /\ l >= top'[n]
            THEN nxt'[f.before[l]][l] = n /\ nxt'[n][l] = f.after[l]
            ELSE nxt'[f.before[l]][l] = f.after[l]

LEMMA ChangedLists ==
    ASSUME IInv, ~deleted, NEW k \in Keys, NEW f, f = Q!find_neigbours(k),
           NEW n, NEW N, N \subseteq {n}, N \subseteq Nodes \ heap, Changed(k, f, n, N)
    PROVE  /\ ListsInv'
           /\ map' = [map EXCEPT ![k] = IF n \in N THEN element'[n] ELSE NULL]
<1>1. /\ heap \subseteq Nodes /\ k \in Int
      /\ KeyAt[Head] = -1 /\ KeyAt[Tail] = MaxKey + 1
      /\ \A m \in heap : KeyAt[m] = KeyOf[element[m]] /\ element[m] \in Elements
      /\ \A m \in heap : top[m] \in Level
  BY KeyFacts DEF IInv, ListsInv, TypeOK, Node
<1>2. /\ f.found = NoNode \/ f.found \in heap
      /\ \A m \in heap : KeyAt[m] = k <=> f.found = m
      /\ \A l \in Level : /\ P!LastBefore(f.before[l], ListNodes(l), k)
                          /\ P!FirstAfter(f.after[l], ListNodes(l), k)
  BY Search
<1>3. /\ heap' = (heap \ {f.found}) \cup N
      /\ \A m \in heap : m # f.found => element'[m] = element[m] /\ top'[m] = top[m]
      /\ n \in N => /\ element'[n] \in Elements /\ KeyOf[element'[n]] = k
                    /\ top'[n] \in Level
  BY DEF Changed
<1>4. \A m \in Node : KeyAt'[m] = IF m = Head THEN -1
                                  ELSE IF m \in heap' THEN KeyOf[element'[m]] ELSE MaxKey + 1
  BY DEF KeyAt
<1>5. /\ KeyAt'[Head] = -1 /\ KeyAt'[Tail] = MaxKey + 1
      /\ \A m \in heap : m # f.found => KeyAt'[m] = KeyAt[m]
      /\ n \in N => KeyAt'[n] = k
  BY <1>1, <1>3, <1>4 DEF Node
<1>6. ASSUME NEW l \in Level PROVE P!SortedList(ListNodes(l), l)'
  <2> DEFINE S == ListNodes(l)
             next == [m \in Node |-> nxt[m][l]]
             next2 == [m \in Node |-> nxt'[m][l]]
             M == {m \in N : top'[m] <= l}
             T == ListNodes(l)'
             b == f.before[l]
             a == f.after[l]
  <2>1. Chain(S, next, KeyAt)
    BY ChainIsList DEF IInv, ListsInv
  <2>2. /\ b \in S \ {Tail} /\ KeyAt[b] < k
        /\ \A m \in S : KeyAt[m] < k => KeyAt[m] <= KeyAt[b]
        /\ a \in S /\ k < KeyAt[a]
        /\ \A m \in S : KeyAt[m] > k => KeyAt[m] >= KeyAt[a]
    BY <1>2 DEF P!LastBefore, P!FirstAfter
  <2>3. \A m : m \in S <=> m \in {Head, Tail} \/ (m \in heap /\ top[m] <= l)
    BY DEF ListNodes
  <2>4. \A m : m \in T <=> m \in {Head, Tail} \/ (m \in heap' /\ top'[m] <= l)
    BY DEF ListNodes
  <2>5. KeyAt[Head] # k /\ KeyAt[Tail] # k
    BY <1>1 DEF Keys
  <2>6. \A m : m \in T <=> (m \in S /\ KeyAt[m] # k) \/ m \in M
    BY <1>1, <1>2, <1>3, <2>3, <2>4, <2>5
  <2>7. M \subseteq {n} /\ M \subseteq Node \ S
    BY <2>3 DEF Node
  <2>8. S \subseteq Node
    BY <1>1, <2>3 DEF Node
  <2>9. ASSUME NEW m \in S, KeyAt[m] # k
        PROVE  KeyAt'[m] = KeyAt[m] /\ (m \notin {b, Tail} => next2[m] = next[m])
    <3>1. KeyAt'[m] = KeyAt[m]
      BY <1>1, <1>2, <1>5, <2>3, <2>9
    <3>2. m \notin {b, Tail} => nxt'[m][l] = nxt[m][l]
      <4>1. m # f.found
        BY <1>1, <1>2, <2>3, <2>9 DEF Node
      <4>2. QED BY <4>1 DEF Changed
    <3>3. QED BY <2>8, <3>1, <3>2
  <2>10. IF n \in M THEN KeyAt'[n] = k /\ next2[b] = n /\ next2[n] = a ELSE next2[b] = a
    <3>1. IF n \in M THEN nxt'[b][l] = n /\ nxt'[n][l] = a ELSE nxt'[b][l] = a
      BY <1>3 DEF Changed, Level
    <3>2. b \in Node /\ (n \in M => n \in Node)
      BY <2>2, <2>7, <2>8
    <3>3. QED BY <1>5, <3>1, <3>2
  <2> HIDE DEF S, T, M, next, next2
  <2>11. Chain(T, next2, KeyAt')
    BY <1>1, <2>1, <2>2, <2>6, <2>7, <2>9, <2>10, Splice
  <2>12. QED
    BY <2>11, ChainIsList DEF T, next2
<1>7. \A m \in heap' : element'[m] \in Elements
  BY <1>1, <1>3
<1>8. ASSUME NEW j \in Keys
      PROVE  map'[j] = IF j = k THEN IF n \in N THEN element'[n] ELSE NULL ELSE map[j]
  <2> DEFINE at == {m \in heap : KeyAt[m] = j}
             at2 == {m \in heap' : KeyAt'[m] = j}
  <2>1. /\ map[j] = IF at = {} THEN NULL ELSE element[CHOOSE m \in at : TRUE]
        /\ map'[j] = IF at2 = {} THEN NULL ELSE element'[CHOOSE m \in at2 : TRUE]
    BY DEF map
  <2>2. CASE j = k
    <3>1. at2 = N
      BY <1>2, <1>3, <1>5, <2>2
    <3> HIDE DEF at2
    <3>2. CASE n \in N
      <4>1. at2 = {n}
        BY <3>1, <3>2
      <4>2. (CHOOSE m \in at2 : TRUE) = n
        BY <4>1
      <4>3. QED BY <2>1, <2>2, <3>2, <4>1, <4>2
    <3>3. CASE n \notin N
      BY <2>1, <2>2, <3>1, <3>3
    <3>4. QED BY <3>2, <3>3
  <2>3. CASE j # k
    <3>1. at2 = at
      BY <1>2, <1>3, <1>5, <2>3
    <3>2. \A m \in at : element'[m] = element[m]
      BY <1>2, <1>3, <2>3
    <3> HIDE DEF at, at2
    <3>3. at # {} => (CHOOSE m \in at : TRUE) \in at
      OBVIOUS
    <3>4. QED BY <2>1, <2>3, <3>1, <3>2, <3>3
  <2>4. QED BY <2>2, <2>3
<1>9. map' = [map EXCEPT ![k] = IF n \in N THEN element'[n] ELSE NULL]
  <2>1. DOMAIN map = Keys /\ map = [j \in Keys |-> map[j]] /\ map' = [j \in Keys |-> map'[j]]
    BY DEF map
  <2>2. QED BY <1>8, <2>1
<1>10. QED
  BY <1>6, <1>7, <1>9 DEF ListsInv

-----------------------------------------------------------------------------
(* The operations that change the lists.                                   *)

\* Whatever rand() returns, the level is one of the skiplist's.
LEMMA RandomLevel ==
    ASSUME NEW r
    PROVE  random_level(r) \in Level
<1> DEFINE Goes(i) == r <= RAND_MAX \div 2^(NumLevels - i)
           At(f, i) == IF i > 0 /\ Goes(i) THEN f[i - 1] ELSE i
           S == {i \in Nat : \E f : \A j \in 0..i : f[j] = At(f, j) /\ f[j] \in 0..j}
<1> HIDE DEF Goes
<1>1. 0 \in S
  <2> DEFINE f == [j \in {0} |-> 0]
  <2>1. \A j \in 0..0 : f[j] = At(f, j) /\ f[j] \in 0..j
    OBVIOUS
  <2> HIDE DEF f, At
  <2>2. QED BY <2>1
<1>2. ASSUME NEW i \in Nat, i \in S PROVE i + 1 \in S
  <2>1. PICK f : \A j \in 0..i : f[j] = At(f, j) /\ f[j] \in 0..j
    BY <1>2
  <2> DEFINE v == IF Goes(i + 1) THEN f[i] ELSE i + 1
             g == [j \in 0..i + 1 |-> IF j = i + 1 THEN v ELSE f[j]]
  <2>2. v \in 0..i + 1
    BY <2>1
  <2> HIDE DEF v
  <2>3. g[i + 1] = v /\ \A j \in 0..i : g[j] = f[j]
    OBVIOUS
  <2> HIDE DEF g
  <2>4. \A j \in 0..i : At(g, j) = At(f, j)
    BY <2>3
  <2>5. At(g, i + 1) = v
    BY <2>3 DEF v
  <2>6. \A j \in 0..i + 1 : g[j] = At(g, j) /\ g[j] \in 0..j
    <3> HIDE DEF At
    <3>1. \A j \in 0..i + 1 : j = i + 1 \/ j \in 0..i
      OBVIOUS
    <3>2. QED BY <2>1, <2>2, <2>3, <2>4, <2>5, <3>1
  <2> HIDE DEF At
  <2>7. QED BY <2>6
<1>3. Nat \subseteq S
  <2> HIDE DEF S
  <2>1. QED BY <1>1, <1>2, P!NatClosed
<1>4. PICK f : \A j \in 0..Bottom : f[j] = At(f, j) /\ f[j] \in 0..j
  <2>1. Bottom \in S
    <3> HIDE DEF S
    <3>1. QED BY <1>3 DEF Bottom
  <2> HIDE DEF At
  <2>2. QED BY <2>1
<1> DEFINE h == [j \in 0..Bottom |-> f[j]]
           from == CHOOSE g : g = [j \in 0..Bottom |-> At(g, j)]
<1>5. h = [j \in 0..Bottom |-> At(h, j)]
  <2>1. \A j \in 0..Bottom : At(h, j) = At(f, j)
    BY DEF Bottom
  <2> HIDE DEF At
  <2>2. QED BY <1>4, <2>1
<1>6. from = [j \in 0..Bottom |-> At(from, j)]
  <2> HIDE DEF At, h
  <2>1. QED BY <1>5, Zenon
<1>7. \A j \in 0..Bottom : from[j] = At(from, j)
  <2> HIDE DEF from, At
  <2>1. QED BY <1>6
<1> HIDE DEF from
<1> DEFINE R == {j \in Nat : j \in 0..Bottom => from[j] \in 0..j}
<1>8. 0 \in R
  BY <1>7
<1>9. ASSUME NEW j \in Nat, j \in R PROVE j + 1 \in R
  <2>1. SUFFICES ASSUME j + 1 \in 0..Bottom PROVE from[j + 1] \in 0..j + 1
    OBVIOUS
  <2>2. j \in 0..Bottom /\ from[j] \in 0..j
    BY <1>9, <2>1 DEF Bottom
  <2>3. from[j + 1] = IF Goes(j + 1) THEN from[j] ELSE j + 1
    BY <1>7, <2>1
  <2>4. QED BY <2>2, <2>3
<1>10. Nat \subseteq R
  <2> HIDE DEF R
  <2>1. QED BY <1>8, <1>9, P!NatClosed
<1>11. from[Bottom] \in 0..Bottom
  BY <1>10 DEF Bottom
<1>12. random_level(r) = from[Bottom]
  BY Zenon DEF random_level, from, Goes
<1>13. QED
  BY <1>11, <1>12 DEF Level, Bottom

\* The types of the nodes' fields, and the borders.
NodesTyped ==
    /\ heap \subseteq Nodes
    /\ element \in [Node -> Elements \cup {NULL}]
    /\ top \in [Node -> Level]
    /\ nxt \in [Node -> [Level -> Node \cup {NoNode}]]
    /\ element[Head] = NULL /\ element[Tail] = NULL

\* What the search has found, as nodes.
LEMMA SearchNodes ==
    ASSUME IInv, ~deleted, NEW k \in Keys, NEW f, f = Q!find_neigbours(k)
    PROVE  \A l \in Level :
             /\ f.before[l] \in Node /\ f.before[l] # f.found /\ f.before[l] # Tail
             /\ f.before[l] \in {Head} \cup heap
             /\ f.after[l] \in Node /\ f.after[l] # f.found
<1>1. /\ heap \subseteq Nodes /\ k \in Int /\ NoNode \notin Node
      /\ KeyAt[Head] < k /\ k < KeyAt[Tail]
  BY KeyFacts
<1>2. /\ f.found = NoNode \/ f.found \in heap
      /\ \A m \in heap : KeyAt[m] = k <=> f.found = m
      /\ \A l \in Level : /\ P!LastBefore(f.before[l], ListNodes(l), k)
                          /\ P!FirstAfter(f.after[l], ListNodes(l), k)
  BY Search
<1>3. ASSUME NEW l \in Level
      PROVE  /\ f.before[l] \in ListNodes(l) /\ f.before[l] # Tail /\ KeyAt[f.before[l]] < k
             /\ f.after[l] \in ListNodes(l) /\ KeyAt[f.after[l]] > k
  BY <1>2 DEF P!LastBefore, P!FirstAfter
<1>4. \A l \in Level : \A m \in ListNodes(l) : m \in {Head, Tail} \cup heap /\ m \in Node
  BY <1>1 DEF ListNodes, Node
<1>5. \A m : m = f.found => m = NoNode \/ (m \in heap /\ KeyAt[m] = k)
  BY <1>2
<1>6. QED
  BY <1>1, <1>3, <1>4, <1>5

\* On a list the node found does not reach, there is nothing to take out.
LEMMA NothingAbove ==
    ASSUME IInv, ~deleted, NEW k \in Keys, NEW f, f = Q!find_neigbours(k),
           NEW l \in Level, f.found = NoNode \/ l < top[f.found]
    PROVE  nxt[f.before[l]][l] = f.after[l]
<1>1. \A n \in ListNodes(l) : KeyAt[n] # k
  <2>1. SUFFICES ASSUME NEW n \in ListNodes(l), KeyAt[n] = k PROVE FALSE
    OBVIOUS
  <2>2. n \in heap /\ top[n] <= l
    BY <2>1, KeyFacts DEF ListNodes
  <2>3. n = f.found
    BY <2>1, <2>2, Search
  <2>4. n # NoNode /\ top[n] \in Level
    BY <2>2, KeyFacts DEF Node, IInv, TypeOK
  <2>5. QED BY <2>2, <2>3, <2>4 DEF Level
<1>2. QED
  BY <1>1, Search

\* put and put_new: the new node replaces the one found, whatever their heights.
LEMMA InsertStep ==
    ASSUME IInv, ~deleted, NEW e \in Elements, NEW f, f = Q!find_neigbours(KeyOf[e]),
           Insert(e, f)
    PROVE  ListsInv' /\ NodesTyped' /\ map' = [map EXCEPT ![KeyOf[e]] = e]
<1> DEFINE k == KeyOf[e]
           old == f.found
<1>1. PICK n \in Nodes \ heap, r \in 0..RAND_MAX :
        LET level == random_level(r)
            links == insert_sublist(f, n, level, IF old = NoNode THEN level ELSE top[old])
        IN  /\ heap' = (heap \cup {n}) \ {old}
            /\ element' = [m \in Node |-> IF m = n THEN e ELSE IF m = old THEN NULL
                                           ELSE element[m]]
            /\ top' = [m \in Node |-> IF m = n THEN level ELSE IF m = old THEN 0
                                       ELSE top[m]]
            /\ nxt' = [m \in Node |-> IF m = old THEN NoNodes ELSE links[m]]
  BY Zenon DEF Insert
<1> DEFINE i == random_level(r)
           d == IF old = NoNode THEN i ELSE top[old]
           new(m, l) == CASE m = n /\ l >= i           -> f.after[l]
                          [] m = f.before[l] /\ l >= i -> n
                          [] m = f.before[l] /\ d <= l /\ l < i -> f.after[l]
                          [] OTHER                     -> nxt[m][l]
<1>2. k \in Keys /\ i \in Level
  BY RandomLevel
<1>3. /\ old = NoNode \/ old \in heap
      /\ heap \subseteq Nodes /\ NoNode \notin Node /\ n \in Node /\ n # old /\ n \notin heap
      /\ n # Head /\ n # Tail /\ old # Head /\ old # Tail
  BY <1>2, Search, KeyFacts DEF Node
<1> HIDE DEF i
<1>4. d \in Level
  BY <1>2, <1>3 DEF IInv, TypeOK, Node
<1>5. /\ heap' = (heap \ {old}) \cup {n}
      /\ element' = [m \in Node |-> IF m = n THEN e ELSE IF m = old THEN NULL
                                     ELSE element[m]]
      /\ top' = [m \in Node |-> IF m = n THEN i ELSE IF m = old THEN 0 ELSE top[m]]
  BY <1>1, <1>3 DEF i
<1> HIDE DEF d
<1>6. nxt' = [m \in Node |-> IF m = old THEN NoNodes ELSE [l \in Level |-> new(m, l)]]
  <2>1. nxt' = [m \in Node |-> IF m = old THEN NoNodes ELSE insert_sublist(f, n, i, d)[m]]
    BY <1>1, Zenon DEF i, d
  <2>2. insert_sublist(f, n, i, d) = [m \in Node |-> [l \in Level |-> new(m, l)]]
    BY Zenon DEF insert_sublist
  <2> HIDE DEF new
  <2>3. \A m \in Node : insert_sublist(f, n, i, d)[m] = [l \in Level |-> new(m, l)]
    BY <2>2
  <2>4. QED BY <2>1, <2>3
<1>7. \A l \in Level : /\ f.before[l] \in Node /\ f.before[l] # old /\ f.before[l] # Tail
                       /\ f.before[l] \in {Head} \cup heap
                       /\ f.after[l] \in Node /\ f.after[l] # old
  BY <1>2, SearchNodes
<1>8. \A m \in Node, l \in Level : new(m, l) \in Node \cup {NoNode}
  BY <1>3, <1>7 DEF IInv, TypeOK
<1>9. \A m \in Node, l \in Level : m # old => nxt'[m][l] = new(m, l)
  <2> HIDE DEF new
  <2>1. QED BY <1>6
<1>10. nxt' \in [Node -> [Level -> Node \cup {NoNode}]]
  <2> HIDE DEF new
  <2>1. NoNodes \in [Level -> Node \cup {NoNode}]
    BY DEF NoNodes
  <2>2. QED BY <1>6, <1>8, <2>1
<1>11. 0 \in Level
  BY DEF Level
<1>12. NodesTyped'
  <2>1. heap' \subseteq Nodes
    BY <1>3, <1>5
  <2>2. element' \in [Node -> Elements \cup {NULL}] /\ top' \in [Node -> Level]
    BY <1>2, <1>5, <1>11 DEF IInv, TypeOK
  <2>3. element'[Head] = NULL /\ element'[Tail] = NULL
    BY <1>3, <1>5 DEF IInv, Node
  <2>4. QED BY <1>10, <2>1, <2>2, <2>3 DEF NodesTyped
<1>13. Changed(k, f, n, {n})
  <2>1. heap' = (heap \ {f.found}) \cup {n}
    BY <1>5
  <2>2. \A m \in heap : m # f.found => element'[m] = element[m] /\ top'[m] = top[m]
    BY <1>3, <1>5 DEF Node
  <2>3. element'[n] = e /\ top'[n] = i
    BY <1>3, <1>5
  <2>4. ASSUME NEW l \in Level
        PROVE  /\ \A m \in ListNodes(l) \ {f.found, f.before[l], Tail} : nxt'[m][l] = nxt[m][l]
               /\ IF l >= i
                  THEN nxt'[f.before[l]][l] = n /\ nxt'[n][l] = f.after[l]
                  ELSE nxt'[f.before[l]][l] = f.after[l]
    <3>1. ASSUME NEW m \in ListNodes(l) \ {f.found, f.before[l], Tail}
          PROVE  nxt'[m][l] = nxt[m][l]
      <4>1. m \in Node /\ m # n
        BY <1>3 DEF ListNodes, Node
      <4>2. QED BY <1>9, <4>1
    <3>2. f.before[l] # n
      BY <1>3, <1>7
    <3>3. ASSUME l >= i PROVE nxt'[f.before[l]][l] = n /\ nxt'[n][l] = f.after[l]
      <4>1. /\ nxt'[f.before[l]][l] = new(f.before[l], l)
            /\ nxt'[n][l] = new(n, l)
        BY <1>3, <1>7, <1>9
      <4>2. new(n, l) = f.after[l]
        BY <3>2, <3>3
      <4>3. new(f.before[l], l) = n
        BY <1>2, <3>2, <3>3 DEF Level
      <4>4. QED BY <4>1, <4>2, <4>3
    <3>4. ASSUME ~(l >= i) PROVE nxt'[f.before[l]][l] = f.after[l]
      <4>1. CASE l >= d
        <5>1. nxt'[f.before[l]][l] = new(f.before[l], l)
          BY <1>7, <1>9
        <5>2. new(f.before[l], l) = f.after[l]
          BY <1>2, <1>4, <3>2, <3>4, <4>1 DEF Level
        <5>3. QED BY <5>1, <5>2
      <4>2. CASE ~(l >= d)
        <5>1. nxt'[f.before[l]][l] = nxt[f.before[l]][l]
          BY <1>2, <1>4, <1>7, <1>9, <3>2, <3>4, <4>2 DEF Level
        <5>2. f.found = NoNode \/ l < top[f.found]
          BY <1>4, <4>2 DEF d, Level
        <5>3. QED BY <1>2, <5>1, <5>2, NothingAbove
      <4>3. QED BY <4>1, <4>2
    <3>5. QED BY <3>1, <3>3, <3>4
  <2>5. QED BY <1>2, <2>1, <2>2, <2>3, <2>4 DEF Changed
<1>14. element'[n] = e
  BY <1>3, <1>5
<1>15. ListsInv' /\ map' = [map EXCEPT ![k] = IF n \in {n} THEN element'[n] ELSE NULL]
  BY <1>2, <1>13, ChangedLists
<1>16. QED
  BY <1>12, <1>14, <1>15

-----------------------------------------------------------------------------
(* The queries.                                                            *)

\* The keys bound are those of the nodes in use.
LEMMA BoundKeys ==
    ASSUME IInv
    PROVE  \A j : j \in Ordered!Bound <=> \E m \in heap : KeyAt[m] = j
<1>1. /\ \A m \in heap : /\ KeyAt[m] \in Keys /\ map[KeyAt[m]] = element[m]
                         /\ element[m] # NULL
      /\ \A k \in Keys : (\A m \in heap : KeyAt[m] # k) => map[k] = NULL
  BY KeyFacts, MapFacts
<1>2. QED
  BY <1>1 DEF Ordered!Bound

\* The first node after k holds what the smallest key bound after k is bound to.
LEMMA SmallestHeld ==
    ASSUME IInv, ~deleted, NEW k \in Int, -1 <= k,
           NEW n, P!FirstAfter(n, ListNodes(Bottom), k)
    PROVE  element[n] = Ordered!AtSmallest({j \in Ordered!Bound : j > k})
<1> DEFINE B == {j \in Ordered!Bound : j > k}
<1>1. /\ ListNodes(Bottom) = {Head, Tail} \cup heap
      /\ KeyAt[Head] = -1 /\ KeyAt[Tail] = MaxKey + 1
      /\ \A m \in heap : KeyAt[m] \in Keys /\ map[KeyAt[m]] = element[m]
  BY LayeredFacts, KeyFacts, MapFacts
<1>2. \A j : j \in B <=> j > k /\ \E m \in heap : KeyAt[m] = j
  BY <1>1, BoundKeys
<1>3. /\ P!Between(heap, ListNodes(Bottom)) /\ KeyAt[Head] <= k
      /\ KeyAt[Head] \in Int /\ KeyAt[Tail] \in Int
  BY <1>1 DEF P!Between, Keys
<1> HIDE DEF B
<1>4. \/ B = {} /\ n = Tail
      \/ /\ n \in heap /\ KeyAt[n] \in B
         /\ \A j \in B : KeyAt[n] <= j /\ j \in Int
  <2>1. PICK M : M = heap
    OBVIOUS
  <2>2. PICK D : D = B
    OBVIOUS
  <2>3. PICK S : S = ListNodes(Bottom)
    OBVIOUS
  <2>4. /\ P!Between(M, S) /\ P!FirstAfter(n, S, k)
        /\ \A j : j \in D <=> j > k /\ \E m \in M : KeyAt[m] = j
    BY <1>2, <1>3, <2>1, <2>2, <2>3
  <2>5. \/ D = {} /\ n = Tail
        \/ /\ n \in M /\ KeyAt[n] \in D
           /\ \A j \in D : KeyAt[n] <= j /\ j \in Int
    BY <1>3, <2>4, P!SmallestAfter
  <2>6. QED BY <2>1, <2>2, <2>5
<1>5. Ordered!AtSmallest(B) = IF B = {} THEN NULL ELSE map[CHOOSE i \in B : \A j \in B : i <= j]
  BY Zenon DEF Ordered!AtSmallest
<1>6. KeyAt[n] \in B => (CHOOSE i \in B : \A j \in B : i <= j) = KeyAt[n]
  <2>1. SUFFICES ASSUME KeyAt[n] \in B PROVE \A i \in B : (\A j \in B : i <= j) => i = KeyAt[n]
    BY <1>4
  <2>2. QED BY <1>4, <2>1
<1>7. element[Head] = NULL /\ element[Tail] = NULL
  BY DEF IInv
<1>8. QED
  BY <1>1, <1>4, <1>5, <1>6, <1>7 DEF B


\* The last node before k holds what the greatest key bound before k is bound to.
LEMMA GreatestHeld ==
    ASSUME IInv, ~deleted, NEW k \in Int, k <= MaxKey + 1,
           NEW n, P!LastBefore(n, ListNodes(Bottom), k)
    PROVE  element[n] = Ordered!AtGreatest({j \in Ordered!Bound : j < k})
<1> DEFINE B == {j \in Ordered!Bound : j < k}
<1>1. /\ ListNodes(Bottom) = {Head, Tail} \cup heap
      /\ KeyAt[Head] = -1 /\ KeyAt[Tail] = MaxKey + 1
      /\ \A m \in heap : KeyAt[m] \in Keys /\ map[KeyAt[m]] = element[m]
  BY LayeredFacts, KeyFacts, MapFacts
<1>2. \A j : j \in B <=> j < k /\ \E m \in heap : KeyAt[m] = j
  BY <1>1, BoundKeys
<1>3. /\ P!Between(heap, ListNodes(Bottom)) /\ k <= KeyAt[Tail]
      /\ KeyAt[Head] \in Int /\ KeyAt[Tail] \in Int
  BY <1>1 DEF P!Between, Keys
<1> HIDE DEF B
<1>4. \/ B = {} /\ n = Head
      \/ /\ n \in heap /\ KeyAt[n] \in B
         /\ \A j \in B : KeyAt[n] >= j /\ j \in Int
  <2>1. PICK M : M = heap
    OBVIOUS
  <2>2. PICK D : D = B
    OBVIOUS
  <2>3. PICK S : S = ListNodes(Bottom)
    OBVIOUS
  <2>4. /\ P!Between(M, S) /\ P!LastBefore(n, S, k)
        /\ \A j : j \in D <=> j < k /\ \E m \in M : KeyAt[m] = j
    BY <1>2, <1>3, <2>1, <2>2, <2>3
  <2>5. \/ D = {} /\ n = Head
        \/ /\ n \in M /\ KeyAt[n] \in D
           /\ \A j \in D : KeyAt[n] >= j /\ j \in Int
    BY <1>3, <2>4, P!GreatestBefore
  <2>6. QED BY <2>1, <2>2, <2>5
<1>5. Ordered!AtGreatest(B) = IF B = {} THEN NULL ELSE map[CHOOSE i \in B : \A j \in B : i >= j]
  BY Zenon DEF Ordered!AtGreatest
<1>6. KeyAt[n] \in B => (CHOOSE i \in B : \A j \in B : i >= j) = KeyAt[n]
  <2>1. SUFFICES ASSUME KeyAt[n] \in B PROVE \A i \in B : (\A j \in B : i >= j) => i = KeyAt[n]
    BY <1>4
  <2>2. QED BY <1>4, <2>1
<1>7. element[Head] = NULL /\ element[Tail] = NULL
  BY DEF IInv
<1>8. QED
  BY <1>1, <1>4, <1>5, <1>6, <1>7 DEF B


\* first, last, next and previous answer as those of an ordered map.
LEMMA QueriesHeld ==
    ASSUME IInv, ~deleted
    PROVE  /\ Q!skiplist_first = Ordered!AtSmallest(Ordered!Bound)
           /\ Q!skiplist_last = Ordered!AtGreatest(Ordered!Bound)
           /\ \A k \in Keys :
                /\ Q!skiplist_next(k) = Ordered!AtSmallest({j \in Ordered!Bound : j > k})
                /\ Q!skiplist_previous(k) = Ordered!AtGreatest({j \in Ordered!Bound : j < k})
                /\ Q!skiplist_next(k) \in Elements \cup {NULL}
                /\ Q!skiplist_previous(k) \in Elements \cup {NULL}
           /\ Q!skiplist_first \in Elements \cup {NULL}
           /\ Q!skiplist_last \in Elements \cup {NULL}
<1>1. PICK L : L = [l \in Level |-> ListNodes(l)]
  OBVIOUS
<1>2. P!Layered(L) /\ P!Bottom = Bottom /\ L[Bottom] = ListNodes(Bottom)
  BY <1>1, LayeredFacts
<1>3. /\ KeyAt[Head] = -1 /\ KeyAt[Tail] = MaxKey + 1
      /\ \A k \in Keys : k \in Int /\ -1 < k /\ k < MaxKey + 1
  BY KeyFacts
<1>4. /\ \E n : P!FirstAfter(n, L[P!Bottom], KeyAt[Head]) /\ P!skiplist_first = element[n]
      /\ \E n : P!LastBefore(n, L[P!Bottom], KeyAt[Tail]) /\ P!skiplist_last = element[n]
      /\ \A k \in Int : KeyAt[Head] < k /\ k < KeyAt[Tail] =>
           /\ \E n : P!FirstAfter(n, L[P!Bottom], k) /\ P!skiplist_next(k) = element[n]
           /\ \E n : P!LastBefore(n, L[P!Bottom], k) /\ P!skiplist_previous(k) = element[n]
  BY <1>2, NodesFinite, P!QueryFacts
<1>5. \A n \in ListNodes(Bottom) : element[n] \in Elements \cup {NULL}
  BY KeyFacts DEF ListNodes, IInv, TypeOK, Node
<1>6. \A j \in Ordered!Bound : -1 < j /\ j < MaxKey + 1
  BY <1>3 DEF Ordered!Bound
<1>7. /\ Q!skiplist_first = Ordered!AtSmallest(Ordered!Bound)
      /\ Q!skiplist_first \in Elements \cup {NULL}
  <2>1. PICK n : P!FirstAfter(n, ListNodes(Bottom), -1) /\ P!skiplist_first = element[n]
    BY <1>2, <1>3, <1>4
  <2>2. element[n] = Ordered!AtSmallest({j \in Ordered!Bound : j > -1})
    BY <2>1, SmallestHeld
  <2>3. {j \in Ordered!Bound : j > -1} = Ordered!Bound
    BY <1>6
  <2>4. element[n] \in Elements \cup {NULL}
    BY <1>5, <2>1 DEF P!FirstAfter
  <2>5. QED BY <2>1, <2>2, <2>3, <2>4, SameQueries
<1>8. /\ Q!skiplist_last = Ordered!AtGreatest(Ordered!Bound)
      /\ Q!skiplist_last \in Elements \cup {NULL}
  <2>1. PICK n : P!LastBefore(n, ListNodes(Bottom), MaxKey + 1) /\ P!skiplist_last = element[n]
    BY <1>2, <1>3, <1>4
  <2>2. element[n] = Ordered!AtGreatest({j \in Ordered!Bound : j < MaxKey + 1})
    BY <2>1, GreatestHeld
  <2>3. {j \in Ordered!Bound : j < MaxKey + 1} = Ordered!Bound
    BY <1>6
  <2>4. element[n] \in Elements \cup {NULL}
    BY <1>5, <2>1 DEF P!LastBefore
  <2>5. QED BY <2>1, <2>2, <2>3, <2>4, SameQueries
<1>9. ASSUME NEW k \in Keys
      PROVE  /\ Q!skiplist_next(k) = Ordered!AtSmallest({j \in Ordered!Bound : j > k})
             /\ Q!skiplist_previous(k) = Ordered!AtGreatest({j \in Ordered!Bound : j < k})
             /\ Q!skiplist_next(k) \in Elements \cup {NULL}
             /\ Q!skiplist_previous(k) \in Elements \cup {NULL}
  <2>1. PICK n : P!FirstAfter(n, ListNodes(Bottom), k) /\ P!skiplist_next(k) = element[n]
    BY <1>2, <1>3, <1>4
  <2>2. PICK m : P!LastBefore(m, ListNodes(Bottom), k) /\ P!skiplist_previous(k) = element[m]
    BY <1>2, <1>3, <1>4
  <2>3. /\ element[n] = Ordered!AtSmallest({j \in Ordered!Bound : j > k})
        /\ element[m] = Ordered!AtGreatest({j \in Ordered!Bound : j < k})
    BY <1>3, <2>1, <2>2, SmallestHeld, GreatestHeld
  <2>4. element[n] \in Elements \cup {NULL} /\ element[m] \in Elements \cup {NULL}
    BY <1>5, <2>1, <2>2 DEF P!FirstAfter, P!LastBefore
  <2>5. QED BY <2>1, <2>2, <2>3, <2>4, SameQueries
<1>10. QED
  BY <1>7, <1>8, <1>9


-----------------------------------------------------------------------------
(* Every operation is that of an ordered map.                              *)

\* remove: the node found is taken out of all its lists.
LEMMA RemoveStep ==
    ASSUME IInv, ~deleted, NEW k \in Keys, skiplist_remove(k)
    PROVE  /\ ListsInv' /\ NodesTyped'
           /\ map' = [map EXCEPT ![k] = NULL]
           /\ Answers("remove", k, map[k])
<1> DEFINE f == Q!find_neigbours(k)
           old == f.found
<1>1. /\ Answers("remove", k, ElementAt(old))
      /\ IF old = NoNode THEN UNCHANGED nodes
         ELSE /\ heap' = heap \ {old}
              /\ element' = [element EXCEPT ![old] = NULL]
              /\ top' = [top EXCEPT ![old] = 0]
              /\ nxt' = [m \in Node |-> IF m = old THEN NoNodes ELSE [l \in Level |->
                           IF m = f.before[l] /\ l >= top[old] THEN f.after[l]
                           ELSE nxt[m][l]]]
  BY DEF skiplist_remove
<1> HIDE DEF f
<1>2. /\ old = NoNode \/ old \in heap
      /\ map[k] = ElementAt(old) /\ (map[k] = NULL <=> old = NoNode)
  BY Search DEF f
<1>3. /\ heap \subseteq Nodes /\ NoNode \notin Node /\ Head \notin heap /\ Tail \notin heap
  BY KeyFacts
<1>4. \A l \in Level : /\ f.before[l] \in Node /\ f.before[l] # old /\ f.before[l] # Tail
                       /\ f.after[l] \in Node /\ f.after[l] # old
  BY SearchNodes DEF f
<1>5. ASSUME NEW l \in Level, old = NoNode \/ l < top[old]
      PROVE  nxt[f.before[l]][l] = f.after[l]
  BY <1>5, NothingAbove DEF f
<1>6. NodesTyped'
  <2>1. CASE old = NoNode
    BY <1>1, <2>1 DEF IInv, TypeOK, nodes, NodesTyped
  <2>2. CASE old \in heap
    <3>1. old # NoNode /\ 0 \in Level /\ NoNodes \in [Level -> Node \cup {NoNode}]
      BY <1>3, <2>2 DEF Node, Level, NoNodes
    <3>2. heap' \subseteq Nodes /\ element' \in [Node -> Elements \cup {NULL}]
          /\ top' \in [Node -> Level] /\ element'[Head] = NULL /\ element'[Tail] = NULL
      <4>1. /\ heap' = heap \ {old} /\ element' = [element EXCEPT ![old] = NULL]
            /\ top' = [top EXCEPT ![old] = 0]
        BY <1>1, <3>1
      <4>2. /\ element \in [Node -> Elements \cup {NULL}] /\ top \in [Node -> Level]
            /\ element[Head] = NULL /\ element[Tail] = NULL
        BY DEF IInv, TypeOK
      <4>3. Head \in Node /\ Tail \in Node /\ old # Head /\ old # Tail
        BY <1>3, <2>2 DEF Node
      <4>4. QED BY <1>3, <3>1, <4>1, <4>2, <4>3
    <3>3. nxt' \in [Node -> [Level -> Node \cup {NoNode}]]
      <4>1. \A m \in Node : [l \in Level |->
                               IF m = f.before[l] /\ l >= top[old] THEN f.after[l]
                               ELSE nxt[m][l]] \in [Level -> Node \cup {NoNode}]
        BY <1>4 DEF IInv, TypeOK
      <4>2. QED BY <1>1, <3>1, <4>1
    <3>4. QED BY <3>2, <3>3 DEF NodesTyped
  <2>3. QED BY <1>2, <2>1, <2>2
<1>7. \A l \in Level : \A m \in ListNodes(l) : m \in Node
  BY <1>3 DEF ListNodes, Node
<1>8. Changed(k, f, NoNode, {})
  <2>1. heap' = (heap \ {f.found}) \cup {}
    BY <1>1, <1>2, <1>3 DEF nodes, Node
  <2>2. \A m \in heap : m # f.found => element'[m] = element[m] /\ top'[m] = top[m]
    BY <1>1, <1>3 DEF nodes, Node, IInv, TypeOK
  <2>3. ASSUME NEW l \in Level
        PROVE  /\ \A m \in ListNodes(l) \ {f.found, f.before[l], Tail} : nxt'[m][l] = nxt[m][l]
               /\ nxt'[f.before[l]][l] = f.after[l]
    <3>1. CASE old = NoNode
      BY <1>1, <1>5, <3>1 DEF nodes
    <3>2. CASE old # NoNode
      <4>1. \A m \in Node : m # old =>
              nxt'[m][l] = IF m = f.before[l] /\ l >= top[old] THEN f.after[l] ELSE nxt[m][l]
        BY <1>1, <3>2
      <4>2. \A m \in ListNodes(l) \ {f.found, f.before[l], Tail} : nxt'[m][l] = nxt[m][l]
        BY <1>7, <4>1
      <4>3. CASE l >= top[old]
        BY <1>4, <4>1, <4>2, <4>3
      <4>4. CASE ~(l >= top[old])
        <5>1. nxt'[f.before[l]][l] = nxt[f.before[l]][l]
          BY <1>4, <4>1, <4>4
        <5>2. l < top[old]
          BY <1>2, <3>2, <1>3, <4>4 DEF IInv, TypeOK, Node, Level
        <5>3. QED BY <1>5, <4>2, <5>1, <5>2
      <4>5. QED BY <4>3, <4>4
    <3>3. QED BY <3>1, <3>2
  <2>4. QED BY <2>1, <2>2, <2>3 DEF Changed
<1>9. ListsInv' /\ map' = [map EXCEPT ![k] = IF NoNode \in {} THEN element'[NoNode] ELSE NULL]
  BY <1>8, ChangedLists DEF f
<1>10. QED
  BY <1>1, <1>2, <1>6, <1>9

LEMMA ReadStep ==
    ASSUME IInv, UNCHANGED nodes
    PROVE  NodesTyped' /\ map' = map /\ KeyAt' = KeyAt /\ (~deleted => ListsInv')
<1>1. /\ heap' = heap /\ element' = element /\ top' = top /\ nxt' = nxt
  BY DEF nodes
<1>2. KeyAt' = KeyAt /\ \A l : ListNodes(l)' = ListNodes(l)
  BY <1>1 DEF KeyAt, ListNodes
<1>3. NodesTyped'
  BY <1>1 DEF IInv, TypeOK, NodesTyped
<1>4. map' = map
  BY <1>1, <1>2 DEF map
<1>5. ListsInv => ListsInv'
  BY <1>1, <1>2 DEF ListsInv, P!SortedList
<1>6. QED
  BY <1>2, <1>3, <1>4, <1>5 DEF IInv

\* The operations answer before delete_table is called.
LEMMA AnswerInv ==
    ASSUME ListsInv', NodesTyped', IInv,
           NEW o \in Ops, NEW a \in Elements \cup Keys \cup {NULL},
           NEW v \in Elements \cup {NULL, 0, 1}, Answers(o, a, v)
    PROVE  IInv'
<1>1. /\ answered' = [op |-> o, arg |-> a, answer |-> v]
      /\ freed' = freed /\ node_iter' = node_iter
  BY DEF Answers
<1>2. answered'.op = o /\ answered'.arg = a /\ answered'.answer = v /\ ~deleted'
  BY <1>1 DEF deleted, Ops
<1>3. TypeOK'
  BY <1>1, <1>2 DEF TypeOK, IInv, NodesTyped
<1>4. QED
  BY <1>2, <1>3 DEF IInv, NodesTyped

\* Each step keeps the invariant, and is a step of the ordered map.
Done == IInv' /\ (Ordered!Next \/ UNCHANGED Ordered!vars)

LEMMA UpdateSteps ==
    ASSUME IInv, ~deleted
    PROVE  /\ \A e \in Elements : skiplist_put(e) \/ skiplist_put_new(e) => Done
           /\ \A k \in Keys : skiplist_remove(k) => Done
<1>1. \A k \in Keys : map[k] \in Elements \cup {NULL}
  BY MapFacts
<1>2. ASSUME NEW e \in Elements, skiplist_put(e) PROVE Done
  <2> DEFINE f == Q!find_neigbours(KeyOf[e])
  <2>1. Answers("put", e, ElementAt(f.found)) /\ Insert(e, f) /\ KeyOf[e] \in Keys
    BY <1>2 DEF skiplist_put
  <2>2. ElementAt(f.found) = map[KeyOf[e]]
    BY <2>1, Search
  <2>3. ListsInv' /\ NodesTyped' /\ map' = [map EXCEPT ![KeyOf[e]] = e]
    BY <2>1, InsertStep
  <2> HIDE DEF f
  <2>4. IInv'
    BY <1>1, <2>1, <2>2, <2>3, AnswerInv DEF Ops
  <2>5. Ordered!put(e) /\ UNCHANGED freed
    BY <2>1, <2>2, <2>3 DEF Ordered!put, Ordered!Answers, Ordered!Bind, Answers
  <2>6. QED BY <2>4, <2>5 DEF Done, Ordered!Next, Ordered!deleted, deleted
<1>3. ASSUME NEW e \in Elements, skiplist_put_new(e) PROVE Done
  <2> DEFINE f == Q!find_neigbours(KeyOf[e])
  <2>1. /\ \/ f.found = NoNode /\ Answers("put_new", e, 1) /\ Insert(e, f)
           \/ f.found # NoNode /\ Answers("put_new", e, 0) /\ UNCHANGED nodes
        /\ KeyOf[e] \in Keys
    BY <1>3 DEF skiplist_put_new
  <2>2. map[KeyOf[e]] = NULL <=> f.found = NoNode
    BY <2>1, Search
  <2>3. CASE f.found = NoNode
    <3>1. ListsInv' /\ NodesTyped' /\ map' = [map EXCEPT ![KeyOf[e]] = e]
      BY <2>1, <2>3, InsertStep
    <3> HIDE DEF f
    <3>2. IInv'
      BY <2>1, <2>3, <3>1, AnswerInv DEF Ops
    <3>3. Ordered!put_new(e) /\ UNCHANGED freed
      BY <2>1, <2>2, <2>3, <3>1 DEF Ordered!put_new, Ordered!Answers, Ordered!Bind, Answers
    <3>4. QED BY <3>2, <3>3 DEF Done, Ordered!Next, Ordered!deleted, deleted
  <2>4. CASE f.found # NoNode
    <3> HIDE DEF f
    <3>1. ListsInv' /\ NodesTyped' /\ map' = map
      BY <2>1, <2>4, ReadStep
    <3>2. IInv'
      BY <2>1, <2>4, <3>1, AnswerInv DEF Ops
    <3>3. Ordered!put_new(e) /\ UNCHANGED freed
      BY <2>1, <2>2, <2>4, <3>1 DEF Ordered!put_new, Ordered!Answers, Ordered!Reads, Answers
    <3>4. QED BY <3>2, <3>3 DEF Done, Ordered!Next, Ordered!deleted, deleted
  <2>5. QED BY <2>3, <2>4
<1>4. ASSUME NEW k \in Keys, skiplist_remove(k) PROVE Done
  <2>1. /\ ListsInv' /\ NodesTyped' /\ map' = [map EXCEPT ![k] = NULL]
        /\ Answers("remove", k, map[k])
    BY <1>4, RemoveStep
  <2>2. IInv'
    BY <1>1, <2>1, AnswerInv DEF Ops
  <2>3. Ordered!remove(k) /\ UNCHANGED freed
    BY <2>1 DEF Ordered!remove, Ordered!Answers, Ordered!Bind, Answers
  <2>4. QED BY <2>2, <2>3 DEF Done, Ordered!Next, Ordered!deleted, deleted
<1>5. QED
  BY <1>2, <1>3, <1>4

LEMMA ReadSteps ==
    ASSUME IInv, ~deleted
    PROVE  /\ \A k \in Keys : skiplist_lookup(k) \/ member(k) => Done
           /\ \A k \in Keys : skiplist_next(k) \/ skiplist_previous(k) => Done
           /\ skiplist_first \/ skiplist_last => Done
<1>1. \A k \in Keys : map[k] \in Elements \cup {NULL}
  BY MapFacts
<1>2. ASSUME NEW o \in Ops, NEW a \in Elements \cup Keys \cup {NULL},
             NEW v \in Elements \cup {NULL, 0, 1}, Reads(o, a, v)
      PROVE  /\ IInv' /\ map' = map /\ UNCHANGED freed
             /\ answered' = [op |-> o, arg |-> a, answer |-> v]
  <2>1. Answers(o, a, v) /\ UNCHANGED nodes
    BY <1>2 DEF Reads
  <2>2. QED BY <2>1, ReadStep, AnswerInv DEF Answers
<1> USE DEF Ordered!Answers, Ordered!Reads
<1>3. ASSUME NEW k \in Keys, skiplist_lookup(k) PROVE Done
  <2>1. Reads("lookup", k, map[k])
    BY <1>3, Search DEF skiplist_lookup
  <2>2. IInv' /\ Ordered!lookup(k) /\ UNCHANGED freed
    BY <1>1, <1>2, <2>1 DEF Ordered!lookup, Ops
  <2>3. QED BY <2>2 DEF Done, Ordered!Next, Ordered!deleted, deleted
<1>4. ASSUME NEW k \in Keys, member(k) PROVE Done
  <2>1. Reads("member", k, IF map[k] = NULL THEN 0 ELSE 1)
    BY <1>4, Search DEF member
  <2>2. IInv' /\ Ordered!member(k) /\ UNCHANGED freed
    BY <1>2, <2>1 DEF Ordered!member, Ops
  <2>3. QED BY <2>2 DEF Done, Ordered!Next, Ordered!deleted, deleted
<1>5. ASSUME NEW k \in Keys, skiplist_next(k) PROVE Done
  <2>1. /\ Reads("next", k, Ordered!AtSmallest({j \in Ordered!Bound : j > k}))
        /\ Ordered!AtSmallest({j \in Ordered!Bound : j > k}) \in Elements \cup {NULL}
    BY <1>5, QueriesHeld DEF skiplist_next
  <2>2. IInv' /\ Ordered!next(k) /\ UNCHANGED freed
    BY <1>2, <2>1 DEF Ordered!next, Ops
  <2>3. QED BY <2>2 DEF Done, Ordered!Next, Ordered!deleted, deleted
<1>6. ASSUME NEW k \in Keys, skiplist_previous(k) PROVE Done
  <2>1. /\ Reads("previous", k, Ordered!AtGreatest({j \in Ordered!Bound : j < k}))
        /\ Ordered!AtGreatest({j \in Ordered!Bound : j < k}) \in Elements \cup {NULL}
    BY <1>6, QueriesHeld DEF skiplist_previous
  <2>2. IInv' /\ Ordered!previous(k) /\ UNCHANGED freed
    BY <1>2, <2>1 DEF Ordered!previous, Ops
  <2>3. QED BY <2>2 DEF Done, Ordered!Next, Ordered!deleted, deleted
<1>7. ASSUME skiplist_first PROVE Done
  <2>1. /\ Reads("first", NULL, Ordered!AtSmallest(Ordered!Bound))
        /\ Ordered!AtSmallest(Ordered!Bound) \in Elements \cup {NULL}
    BY <1>7, QueriesHeld DEF skiplist_first
  <2>2. IInv' /\ Ordered!first /\ UNCHANGED freed
    BY <1>2, <2>1 DEF Ordered!first, Ops
  <2>3. QED BY <2>2 DEF Done, Ordered!Next, Ordered!deleted, deleted
<1>8. ASSUME skiplist_last PROVE Done
  <2>1. /\ Reads("last", NULL, Ordered!AtGreatest(Ordered!Bound))
        /\ Ordered!AtGreatest(Ordered!Bound) \in Elements \cup {NULL}
    BY <1>8, QueriesHeld DEF skiplist_last
  <2>2. IInv' /\ Ordered!last /\ UNCHANGED freed
    BY <1>2, <2>1 DEF Ordered!last, Ops
  <2>3. QED BY <2>2 DEF Done, Ordered!Next, Ordered!deleted, deleted
<1>9. QED
  BY <1>3, <1>4, <1>5, <1>6, <1>7, <1>8

\* skiplist_delete begins with the first node of the bottom list ...
LEMMA DeleteStep ==
    ASSUME IInv, skiplist_delete
    PROVE  Done
<1>1. /\ ~deleted /\ answered' = [op |-> "delete_table", arg |-> NULL, answer |-> NULL]
      /\ node_iter' = nxt[Head][Bottom] /\ freed' = freed /\ UNCHANGED nodes
  BY DEF skiplist_delete
<1>2. NodesTyped' /\ map' = map /\ KeyAt' = KeyAt
  BY ReadStep, <1>1
<1>3. /\ heap' = heap /\ element' = element /\ top' = top /\ nxt' = nxt
  BY <1>1 DEF nodes
<1>4. answered'.op = "delete_table" /\ answered'.arg = NULL /\ answered'.answer = NULL
  BY <1>1
<1>5. /\ P!SortedList(ListNodes(Bottom), Bottom) /\ ListNodes(Bottom) = {Head, Tail} \cup heap
      /\ \A n \in heap : element[n] \in Elements
  BY <1>1, LayeredFacts DEF IInv, ListsInv
<1>6. /\ KeyAt[Head] = -1 /\ KeyAt[Tail] = MaxKey + 1
      /\ heap \subseteq Nodes /\ \A n \in heap : KeyAt[n] \in Keys
  BY KeyFacts
<1>7. Head # Tail /\ \A n \in heap : n # Tail /\ KeyAt[Head] < KeyAt[n]
  BY <1>6 DEF Keys
<1>8. \A m \in heap \cup {Head} :
        /\ nxt[m][Bottom] \in {Head, Tail} \cup heap /\ KeyAt[m] < KeyAt[nxt[m][Bottom]]
        /\ \A n \in heap : KeyAt[m] < KeyAt[n] => KeyAt[nxt[m][Bottom]] <= KeyAt[n]
  BY <1>5, <1>7 DEF P!SortedList
<1>9. \A m \in heap \cup {Head} : nxt[m][Bottom] \in heap \cup {Tail}
  BY <1>6, <1>8 DEF Keys
<1>11. DeletionInv'
  BY <1>1, <1>2, <1>3, <1>5, <1>7, <1>8, <1>9, OneNode DEF DeletionInv
<1>12. TypeOK'
  BY <1>1, <1>2, <1>3, <1>4, <1>9, <1>6 DEF TypeOK, IInv, NodesTyped, Node
<1>13. IInv'
  BY <1>2, <1>4, <1>11, <1>12 DEF IInv, deleted, NodesTyped
<1>14. Ordered!delete_table /\ UNCHANGED freed /\ ~Ordered!deleted
  BY <1>1, <1>2 DEF Ordered!delete_table, Ordered!Answers, Ordered!Reads, Ordered!deleted,
    deleted
<1>15. QED
  BY <1>13, <1>14 DEF Done, Ordered!Next

\* ... and every round hands out the element with the smallest key left.
LEMMA FreeNodeStep ==
    ASSUME IInv, FreeNode
    PROVE  Done
<1> DEFINE n == node_iter
           k == KeyAt[n]
<1>1. /\ deleted /\ n \in Nodes /\ node_iter' = nxt[n][Bottom]
      /\ freed' = freed \cup {element[n]} /\ heap' = heap \ {n}
      /\ element' = [element EXCEPT ![n] = NULL] /\ top' = [top EXCEPT ![n] = 0]
      /\ nxt' = [nxt EXCEPT ![n] = NoNodes] /\ answered' = answered
  BY DEF FreeNode, Blank
<1>2. TypeOK /\ DeletionInv /\ element[Head] = NULL /\ element[Tail] = NULL
  BY <1>1 DEF IInv
<1>3. /\ KeyAt[Tail] = MaxKey + 1 /\ heap \subseteq Nodes
      /\ \A m \in heap : KeyAt[m] = KeyOf[element[m]] /\ KeyAt[m] \in Keys
  BY KeyFacts
<1>4. n \in heap /\ n # Head /\ n # Tail
  BY <1>1, <1>2 DEF DeletionInv
<1>5. \A m \in heap \ {n} : element'[m] = element[m] /\ nxt'[m] = nxt[m]
  BY <1>1, <1>2, <1>3 DEF TypeOK, Node
<1>6. (\A m \in heap \ {n} : KeyAt'[m] = KeyAt[m]) /\ KeyAt'[Tail] = KeyAt[Tail]
  BY <1>1, <1>3, <1>5 DEF KeyAt, Node
<1>7. \A m \in heap \ {n} : KeyAt[n] < KeyAt[m] /\ KeyAt[m] # KeyAt[n]
  BY <1>2, <1>3, <1>4 DEF DeletionInv, Keys
<1>8. /\ nxt[n][Bottom] \in (heap \ {n}) \cup {Tail}
      /\ \A m \in heap \ {n} : nxt[m][Bottom] \in (heap \ {n}) \cup {Tail}
  BY <1>2, <1>3, <1>4, <1>7 DEF DeletionInv, Keys
<1> HIDE DEF n, k
<1>9. DeletionInv'
  <2>1. node_iter' \in heap' \cup {Tail}
    BY <1>1, <1>8
  <2>2. \A m \in heap' : element'[m] \in Elements /\ KeyAt'[node_iter'] <= KeyAt'[m]
    BY <1>1, <1>2, <1>4, <1>5, <1>6, <1>7, <1>8 DEF DeletionInv
  <2>3. \A m, o \in heap' : KeyAt'[m] = KeyAt'[o] => m = o
    BY <1>1, <1>2, <1>6 DEF DeletionInv
  <2>4. \A m \in heap' :
          /\ nxt'[m][Bottom] \in heap' \cup {Tail} /\ KeyAt'[m] < KeyAt'[nxt'[m][Bottom]]
          /\ \A o \in heap' : KeyAt'[m] < KeyAt'[o] => KeyAt'[nxt'[m][Bottom]] <= KeyAt'[o]
    BY <1>1, <1>2, <1>5, <1>6, <1>8 DEF DeletionInv
  <2>5. QED BY <2>1, <2>2, <2>3, <2>4 DEF DeletionInv
<1>10. NoNodes \in [Level -> Node \cup {NoNode}] /\ 0 \in Level
  BY DEF NoNodes, Level
<1>11. element[n] \in Elements
  BY <1>2, <1>4 DEF DeletionInv
<1>12. IInv'
  <2>1. TypeOK'
    BY <1>1, <1>2, <1>3, <1>8, <1>10, <1>11 DEF TypeOK, Node
  <2>2. element'[Head] = NULL /\ element'[Tail] = NULL
    BY <1>1, <1>2, <1>4 DEF TypeOK, Node
  <2>3. QED BY <1>1, <1>9, <2>1, <2>2 DEF IInv, deleted
<1>13. /\ k \in Keys /\ k \in Ordered!Bound /\ map[k] = element[n]
       /\ \A j \in Ordered!Bound : k <= j
  BY <1>2, <1>3, <1>4, BoundKeys, MapFacts DEF DeletionInv, n, k
<1>14. map' = [map EXCEPT ![k] = NULL]
  <2>1. ASSUME NEW j \in Keys PROVE map'[j] = IF j = k THEN NULL ELSE map[j]
    <3> DEFINE at == {m \in heap : KeyAt[m] = j}
               at2 == {m \in heap' : KeyAt'[m] = j}
    <3>1. /\ map[j] = IF at = {} THEN NULL ELSE element[CHOOSE m \in at : TRUE]
          /\ map'[j] = IF at2 = {} THEN NULL ELSE element'[CHOOSE m \in at2 : TRUE]
      BY DEF map
    <3>2. at2 = IF j = k THEN {} ELSE at
      BY <1>1, <1>4, <1>6, <1>7 DEF k
    <3>3. \A m \in at2 : element'[m] = element[m]
      BY <1>1, <1>5
    <3> HIDE DEF at, at2
    <3>4. at # {} => (CHOOSE m \in at : TRUE) \in at
      OBVIOUS
    <3>5. QED BY <3>1, <3>2, <3>3, <3>4
  <2>2. DOMAIN map = Keys /\ map = [j \in Keys |-> map[j]] /\ map' = [j \in Keys |-> map'[j]]
    BY DEF map
  <2>3. QED BY <2>1, <2>2
<1>15. Ordered!hand_out
  BY <1>1, <1>13, <1>14 DEF Ordered!hand_out, Ordered!deleted, deleted, Ordered!Bind
<1>16. QED
  BY <1>12, <1>15 DEF Done, Ordered!Next

LEMMA InitInv == Init => IInv /\ Ordered!Init
<1>1. SUFFICES ASSUME Init PROVE IInv /\ Ordered!Init
  OBVIOUS
<1>2. /\ heap = {} /\ element = [n \in Node |-> NULL] /\ top = [n \in Node |-> 0]
      /\ nxt = [n \in Node |-> [l \in Level |-> IF n = Head THEN Tail ELSE NoNode]]
      /\ answered = [op |-> "new", arg |-> NULL, answer |-> NULL] /\ freed = {}
      /\ node_iter = NoNode
  BY <1>1 DEF Init
<1>3. answered.op = "new" /\ answered.arg = NULL /\ answered.answer = NULL /\ ~deleted
  BY <1>2 DEF deleted
<1>4. 0 \in Level /\ Head \in Node /\ Tail \in Node
  BY DEF Level, Node
<1>5. TypeOK
  BY <1>2, <1>3, <1>4 DEF TypeOK
<1>6. KeyAt[Head] = -1 /\ KeyAt[Tail] = MaxKey + 1
  BY <1>2, <1>4 DEF KeyAt
<1>7. ASSUME NEW l \in Level PROVE P!SortedList(ListNodes(l), l)
  <2>1. \A m : m \in ListNodes(l) <=> m = Head \/ m = Tail
    BY <1>2 DEF ListNodes
  <2>2. nxt[Head][l] = Tail
    BY <1>2, <1>4
  <2>3. QED BY <1>4, <1>6, <2>1, <2>2 DEF P!SortedList
<1>8. map = [k \in Keys |-> NULL]
  BY <1>2 DEF map
<1>9. element[Head] = NULL /\ element[Tail] = NULL
  BY <1>2, <1>4
<1>10. QED
  BY <1>2, <1>3, <1>5, <1>7, <1>8, <1>9 DEF IInv, ListsInv, Ordered!Init

LEMMA NextDone == IInv /\ [Next]_vars => IInv' /\ [Ordered!Next]_(Ordered!vars)
<1>1. SUFFICES ASSUME IInv, [Next]_vars PROVE Done
  BY DEF Done
<1>2. CASE UNCHANGED vars
  <2>1. NodesTyped' /\ map' = map /\ KeyAt' = KeyAt /\ (~deleted => ListsInv')
    BY <1>1, <1>2, ReadStep DEF vars
  <2>2. /\ answered' = answered /\ freed' = freed /\ deleted' = deleted
        /\ node_iter' = node_iter /\ heap' = heap /\ element' = element /\ nxt' = nxt
    BY <1>2 DEF vars, nodes, deleted
  <2>3. TypeOK'
    BY <1>1, <2>1, <2>2 DEF TypeOK, NodesTyped, IInv
  <2>4. deleted => DeletionInv'
    BY <1>1, <2>1, <2>2 DEF IInv, DeletionInv
  <2>5. QED BY <1>1, <2>1, <2>2, <2>3, <2>4 DEF Done, IInv, NodesTyped, Ordered!vars
<1>3. CASE Next /\ deleted
  <2>1. UNCHANGED vars \/ FreeNode
    BY <1>3 DEF Next, skiplist_put, skiplist_put_new, skiplist_remove, skiplist_lookup,
       member, skiplist_next, skiplist_previous, skiplist_first, skiplist_last,
       skiplist_delete, Reads, Answers, Terminated
  <2>2. QED BY <1>1, <1>2, <2>1, FreeNodeStep
<1>4. CASE Next /\ ~deleted
  <2>1. \/ \E e \in Elements : skiplist_put(e) \/ skiplist_put_new(e)
        \/ \E k \in Keys : skiplist_remove(k)
        \/ \E k \in Keys : \/ skiplist_lookup(k) \/ member(k)
                           \/ skiplist_next(k) \/ skiplist_previous(k)
        \/ skiplist_first \/ skiplist_last
        \/ skiplist_delete
    BY <1>4 DEF Next, Terminated, FreeNode
  <2>2. /\ \A e \in Elements : skiplist_put(e) \/ skiplist_put_new(e) => Done
        /\ \A k \in Keys : skiplist_remove(k) => Done
    BY <1>1, <1>4, UpdateSteps
  <2>3. /\ \A k \in Keys : skiplist_lookup(k) \/ member(k) => Done
        /\ \A k \in Keys : skiplist_next(k) \/ skiplist_previous(k) => Done
        /\ skiplist_first \/ skiplist_last => Done
    BY <1>1, <1>4, ReadSteps
  <2>4. skiplist_delete => Done
    BY <1>1, DeleteStep
  <2>5. QED BY <2>1, <2>2, <2>3, <2>4
<1>5. QED
  BY <1>1, <1>2, <1>3, <1>4

-----------------------------------------------------------------------------
(* The theorems.                                                           *)

\* Every operation leaves the lists those of the nodes in use, sorted by keys
\* that are all different.
THEOREM Invariance == Spec => []IInv
<1>1. QED
  BY InitInv, NextDone, PTL DEF Spec

\* Every field keeps its type, the answers and the elements handed out too.
THEOREM TypeCorrect == Spec => []TypeOK
<1>1. IInv => TypeOK
  BY DEF IInv
<1>2. QED
  BY <1>1, Invariance, PTL

\* Whatever heights rand() gives, insert_sublist and skiplist_remove leave each
\* list the sorted one of the nodes that reach it (lines 163-182, 286-291).
THEOREM ListsLaidOut == Spec => []Layout
<1>1. ASSUME IInv PROVE Layout
  <2>1. SUFFICES ASSUME ~deleted, NEW n \in heap \cup {Head}, NEW l \in Level, l >= top[n]
                 PROVE  LET right == {m \in heap : top[m] <= l /\ KeyAt[m] > KeyAt[n]}
                        IN  IF right = {} THEN nxt[n][l] = Tail
                            ELSE /\ nxt[n][l] \in right
                                 /\ \A m \in right : KeyAt[nxt[n][l]] <= KeyAt[m]
    BY DEF Layout
  <2> DEFINE right == {m \in heap : top[m] <= l /\ KeyAt[m] > KeyAt[n]}
  <2>2. P!SortedList(ListNodes(l), l)
    BY <1>1, <2>1 DEF IInv, ListsInv
  <2>3. /\ KeyAt[Head] = -1 /\ \A m \in heap : m # Head /\ m # Tail
    BY <1>1, <2>1, KeyFacts
  <2>4. \A m \in heap \cup {Head} : m \in Node /\ top[m] \in Level
    BY <1>1, KeyFacts, <2>1 DEF IInv, TypeOK, Node
  <2>5. n \in ListNodes(l) /\ n # Tail
    BY <2>1, <2>3, <2>4 DEF ListNodes, Level
  <2>6. /\ nxt[n][l] \in ListNodes(l) /\ KeyAt[n] < KeyAt[nxt[n][l]]
        /\ \A m \in ListNodes(l) : KeyAt[n] < KeyAt[m] => KeyAt[nxt[n][l]] <= KeyAt[m]
        /\ \A m \in ListNodes(l) : KeyAt[m] \in Int /\ KeyAt[Head] <= KeyAt[m]
                                   /\ KeyAt[m] <= KeyAt[Tail]
        /\ \A m, o \in ListNodes(l) : KeyAt[m] = KeyAt[o] => m = o
    BY <2>2, <2>5 DEF P!SortedList
  <2>7. \A m : m \in right <=> m \in ListNodes(l) \ {Head, Tail} /\ KeyAt[m] > KeyAt[n]
    BY <2>3 DEF ListNodes
  <2>8. nxt[n][l] # Head
    BY <2>5, <2>6
  <2> HIDE DEF right
  <2>9. nxt[n][l] = Tail => right = {}
    <3>1. SUFFICES ASSUME nxt[n][l] = Tail, NEW m \in right PROVE FALSE
      OBVIOUS
    <3>2. m \in ListNodes(l) /\ m # Tail /\ KeyAt[n] < KeyAt[m] /\ Tail \in ListNodes(l)
      BY <2>5, <2>6, <2>7, <3>1 DEF ListNodes
    <3>3. KeyAt[m] = KeyAt[Tail]
      BY <2>6, <3>1, <3>2
    <3>4. QED BY <2>6, <3>2, <3>3
  <2>10. nxt[n][l] # Tail => nxt[n][l] \in right /\ \A m \in right : KeyAt[nxt[n][l]] <= KeyAt[m]
    BY <2>5, <2>6, <2>7, <2>8
  <2>11. IF right = {} THEN nxt[n][l] = Tail
         ELSE nxt[n][l] \in right /\ \A m \in right : KeyAt[nxt[n][l]] <= KeyAt[m]
    BY <2>9, <2>10
  <2>12. QED BY <2>11 DEF right
<1>2. QED
  BY <1>1, Invariance, PTL

\* skiplist_delete never stands on a node it has freed (lines 205-212).
THEOREM DeleteStandsClear == Spec => []LeftBeforeFreed
<1>1. IInv => LeftBeforeFreed
  BY DEF IInv, DeletionInv, LeftBeforeFreed
<1>2. QED
  BY <1>1, Invariance, PTL

\* When it has come to the end, it has freed every node, of whatever height.
THEOREM NothingLeaks == Spec => []AllFreed
<1>1. ASSUME IInv, deleted, node_iter = Tail PROVE heap = {}
  <2>1. KeyAt[Tail] = MaxKey + 1 /\ \A n \in heap : KeyAt[n] \in Keys
    BY <1>1, KeyFacts
  <2>2. \A n \in heap : KeyAt[Tail] <= KeyAt[n]
    BY <1>1 DEF IInv, DeletionInv
  <2>3. QED BY <2>1, <2>2 DEF Keys
<1>2. IInv => AllFreed
  BY <1>1 DEF AllFreed
<1>3. QED
  BY <1>2, Invariance, PTL

\* All ten operations do to the map, and answer, what those of an ordered map do.
THEOREM IsOrderedMap == Spec => ImplementsOrderedMap
<1>1. Init => IInv /\ Ordered!Init
  BY InitInv
<1>2. IInv /\ [Next]_vars => [Ordered!Next]_(Ordered!vars)
  BY NextDone
<1>3. QED
  BY <1>1, <1>2, Invariance, PTL DEF Spec, Ordered!Spec, ImplementsOrderedMap
=============================================================================
