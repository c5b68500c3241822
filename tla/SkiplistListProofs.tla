-------------------------- MODULE SkiplistListProofs --------------------------
(***************************************************************************)
(* ListInv is inductive together with IInv and HeldInv: which nodes are on *)
(* which lists, and what the removals under way will find there.  A        *)
(* removal that has marked a node unlinks that node, from all its lists,   *)
(* and no other.                                                           *)
(***************************************************************************)
EXTENDS SkiplistLockProofs, FiniteSetTheorems

USE NumLevelsAssumption, BorderAssumption, ThreadAssumption
    DEF Level, Bottom

-----------------------------------------------------------------------------
(* Chains.                                                                 *)

\* The nodes of a chain, and their keys.
Ends(S, K) ==
    /\ Head \in S /\ Tail \in S
    /\ \A n \in S : K[n] \in Int /\ K[Head] <= K[n] /\ K[n] <= K[Tail]

\* Every node but the first follows some node.
LEMMA ChainPred ==
    ASSUME NEW S, NEW next, NEW K, IsChain(S, next, K), Ends(S, K),
           NEW m \in S, m # Head
    PROVE  \E n \in S \ {Tail} : next[n] = m /\ K[n] < K[m]
<1> DEFINE B == {n \in S : K[n] < K[m]}
           D == {K[m] - K[n] : n \in B}
<1>1. Head \in B
  BY DEF IsChain, Ends
<1>2. D \in SUBSET Nat /\ D # {}
  BY <1>1 DEF Ends
<1>3. \E d \in D : \A e \in D : d <= e
  <2> HIDE DEF D
  <2>1. QED BY <1>2, LeastNat
<1>4. PICK n \in B : \A o \in B : K[m] - K[n] <= K[m] - K[o]
  BY <1>3
<1>5. \A o \in B : K[o] <= K[n]
  BY <1>4 DEF Ends
<1>6. n \in S \ {Tail} /\ next[n] \in S /\ K[n] < K[next[n]] /\ K[next[n]] <= K[m]
  BY <1>4 DEF IsChain, Ends
<1>7. K[next[n]] = K[m]
  <2>1. next[n] \notin B
    BY <1>5, <1>6 DEF Ends
  <2>2. QED BY <1>6, <2>1 DEF Ends
<1>8. next[n] = m
  BY <1>6, <1>7 DEF IsChain
<1>9. QED
  BY <1>4, <1>6, <1>8

\* Reach gets to the nodes of a chain one after the other.
LEMMA ReachChain ==
    ASSUME NEW S, NEW next, NEW K, IsChain(S, next, K), Ends(S, K),
           IsFiniteSet(S), NEW N \in Nat, Cardinality(S) <= N + 2
    PROVE  Reach(next)[N + 1] = S
<1> DEFINE Smaller(n) == {m \in S : K[m] < K[n]}
           Rank(n) == Cardinality(Smaller(n))
           r == [i \in Nat |-> {n \in S : Rank(n) <= i}]
           Grow(f, i) == IF i = 0 THEN {Head}
                         ELSE f[i - 1] \cup {next[n] : n \in f[i - 1] \ {Tail}}
<1>1. \A n \in S : IsFiniteSet(Smaller(n)) /\ Rank(n) \in Nat /\ Rank(n) <= N + 1
  <2>1. SUFFICES ASSUME NEW n \in S
                 PROVE  IsFiniteSet(Smaller(n)) /\ Rank(n) \in Nat /\ Rank(n) <= N + 1
    OBVIOUS
  <2>2. Smaller(n) \subseteq S \ {n}
    BY DEF Ends
  <2>3. IsFiniteSet(S \ {n}) /\ Cardinality(S \ {n}) = Cardinality(S) - 1
    BY FS_RemoveElement
  <2>4. IsFiniteSet(Smaller(n)) /\ Rank(n) <= Cardinality(S \ {n})
    BY <2>2, <2>3, FS_Subset
  <2>5. Rank(n) \in Nat /\ Cardinality(S) \in Nat
    BY <2>4, FS_CardinalityType
  <2>6. QED BY <2>3, <2>4, <2>5
<1>2. Rank(Head) = 0
  <2>1. Smaller(Head) = {}
    BY DEF Ends
  <2>2. QED BY <2>1, FS_EmptySet
<1>3. \A n \in S \ {Tail} : next[n] \in S /\ Rank(next[n]) = Rank(n) + 1
  <2>1. SUFFICES ASSUME NEW n \in S \ {Tail}
                 PROVE  next[n] \in S /\ Rank(next[n]) = Rank(n) + 1
    OBVIOUS
  <2>2. next[n] \in S /\ K[n] < K[next[n]]
    BY DEF IsChain
  <2>3. \A m \in S : K[m] < K[next[n]] => m = n \/ K[m] < K[n]
    BY <2>2 DEF IsChain, Ends
  <2>4. Smaller(next[n]) = Smaller(n) \cup {n} /\ n \notin Smaller(n)
    BY <2>2, <2>3 DEF Ends
  <2>5. QED BY <1>1, <2>2, <2>4, FS_AddElement
<1>4. \A m \in S \ {Head} : \E n \in S \ {Tail} : next[n] = m
  BY ChainPred
<1>5. \A m \in S \ {Head} : Rank(m) # 0
  <2> HIDE DEF Rank, Smaller
  <2>1. QED BY <1>1, <1>3, <1>4
<1>6. \A i \in Nat : r[i] = Grow(r, i)
  <2> HIDE DEF Rank, Smaller
  <2>1. SUFFICES ASSUME NEW i \in Nat PROVE r[i] = Grow(r, i)
    OBVIOUS
  <2>2. CASE i = 0
    BY <1>1, <1>2, <1>5, <2>2 DEF Ends
  <2>3. CASE i # 0
    <3>1. i - 1 \in Nat /\ r[i - 1] = {n \in S : Rank(n) <= i - 1}
      BY <2>3
    <3>2. \A n \in r[i - 1] : n \in r[i]
      BY <1>1, <3>1
    <3>3. \A n \in r[i - 1] \ {Tail} : next[n] \in r[i]
      BY <1>1, <1>3, <3>1
    <3>4. ASSUME NEW m \in r[i], m \notin r[i - 1]
          PROVE  \E n \in r[i - 1] \ {Tail} : m = next[n]
      <4>1. m \in S /\ Rank(m) = i
        BY <1>1, <3>1, <3>4
      <4>2. m # Head
        BY <1>2, <2>3, <4>1
      <4>3. PICK n \in S \ {Tail} : next[n] = m
        BY <1>4, <4>1, <4>2
      <4>4. Rank(m) = Rank(n) + 1 /\ Rank(n) \in Nat
        BY <1>1, <1>3, <4>3
      <4>5. QED BY <3>1, <4>1, <4>3, <4>4
    <3>5. r[i] = r[i - 1] \cup {next[n] : n \in r[i - 1] \ {Tail}}
      <4> HIDE DEF r
      <4>1. QED BY <3>2, <3>3, <3>4
    <3>6. QED BY <2>3, <3>5
  <2>4. QED BY <2>2, <2>3
<1>7. r = [i \in Nat |-> Grow(r, i)]
  <2> HIDE DEF Grow
  <2>1. QED BY <1>6
<1>8. \A f : f = [i \in Nat |-> Grow(f, i)] => f = r
  <2> HIDE DEF r
  <2>1. SUFFICES ASSUME NEW f, f = [i \in Nat |-> Grow(f, i)] PROVE f = r
    OBVIOUS
  <2>2. ASSUME f # r PROVE FALSE
    <3> DEFINE W == {i \in Nat : f[i] # r[i]}
    <3>1. W \in SUBSET Nat /\ W # {}
      BY <1>7, <2>1, <2>2
    <3>2. PICK i \in W : \A j \in W : i <= j
      <4> HIDE DEF W
      <4>1. QED BY <3>1, LeastNat
    <3>3. i # 0 => f[i - 1] = r[i - 1]
      BY <3>2
    <3>4. Grow(f, i) = Grow(r, i)
      BY <3>3
    <3>5. f[i] = Grow(f, i) /\ r[i] = Grow(r, i)
      <4> HIDE DEF Grow
      <4>1. QED BY <1>6, <2>1, <3>2
    <3>6. QED BY <3>2, <3>4, <3>5
  <2>3. QED BY <2>2
<1>9. Reach(next) = CHOOSE f : f = [i \in Nat |-> Grow(f, i)]
  BY Zenon DEF Reach
<1>10. Reach(next) = r
  <2> HIDE DEF r, Grow
  <2>1. QED BY <1>7, <1>8, <1>9, Zenon
<1>11. r[N + 1] = S
  <2> HIDE DEF Rank, Smaller
  <2>1. QED BY <1>1
<1>12. QED
  BY <1>10, <1>11

\* A chain stays one where neither its keys nor its pointers change, ...
LEMMA ChainKeep ==
    ASSUME NEW S, NEW next, NEW K, NEW next2, NEW K2, IsChain(S, next, K),
           \A m \in S : K2[m] = K[m], \A m \in S \ {Tail} : next2[m] = next[m]
    PROVE  IsChain(S, next2, K2)
<1>1. QED
  BY DEF IsChain

\* ... when a node goes in between two others, ...
LEMMA ChainInsert ==
    ASSUME NEW S, NEW next, NEW K, NEW next2, NEW p \in S \ {Tail}, NEW n,
           IsChain(S, next, K), Ends(S, K), n \notin S, K[n] \in Int,
           K[p] < K[n], K[n] < K[next[p]], next2[p] = n, next2[n] = next[p],
           \A m \in S \ {Tail, p} : next2[m] = next[m]
    PROVE  IsChain(S \cup {n}, next2, K)
<1> DEFINE T == S \cup {n}
<1>1. /\ Head \in S /\ Tail \in S /\ \A m \in S : K[m] \in Int
      /\ \A m, o \in S : K[m] = K[o] => m = o
      /\ \A m \in S \ {Tail} :
           next[m] \in S /\ K[m] < K[next[m]] /\ \A o \in S : K[m] < K[o] => K[next[m]] <= K[o]
  BY DEF IsChain, Ends
<1>2. ASSUME NEW m \in S PROVE K[m] <= K[p] \/ K[next[p]] <= K[m]
  BY <1>1
<1>3. \A m, o \in T : K[m] = K[o] => m = o
  BY <1>1, <1>2
<1>4. ASSUME NEW m \in T \ {Tail}
      PROVE  next2[m] \in T /\ K[m] < K[next2[m]]
             /\ \A o \in T : K[m] < K[o] => K[next2[m]] <= K[o]
  <2>1. CASE m = p
    BY <1>1, <1>2, <2>1
  <2>2. CASE m = n
    BY <1>1, <1>2, <2>2
  <2>3. CASE m # p /\ m # n
    <3>1. m \in S \ {Tail} /\ next2[m] = next[m]
      BY <2>3
    <3>2. K[m] < K[n] => K[next[m]] <= K[n]
      <4>1. K[m] < K[n] => K[m] < K[p]
        BY <1>1, <1>2, <2>3, <3>1
      <4>2. QED BY <1>1, <3>1, <4>1
    <3>3. QED BY <1>1, <3>1, <3>2
  <2>4. QED BY <2>1, <2>2, <2>3
<1>5. QED
  BY <1>1, <1>3, <1>4 DEF IsChain

\* ... and when one is taken out.
LEMMA ChainRemove ==
    ASSUME NEW S, NEW next, NEW K, NEW next2, NEW p \in S \ {Tail}, NEW n \in S,
           IsChain(S, next, K), Ends(S, K), n # Head, n # Tail,
           next[p] = n, next2[p] = next[n],
           \A m \in S \ {Tail, p} : next2[m] = next[m]
    PROVE  IsChain(S \ {n}, next2, K)
<1> DEFINE T == S \ {n}
<1>1. /\ Head \in S /\ Tail \in S /\ \A m \in S : K[m] \in Int
      /\ \A m, o \in S : K[m] = K[o] => m = o
      /\ \A m \in S \ {Tail} :
           next[m] \in S /\ K[m] < K[next[m]] /\ \A o \in S : K[m] < K[o] => K[next[m]] <= K[o]
  BY DEF IsChain, Ends
<1>2. K[p] < K[n] /\ K[n] < K[next[n]]
  BY <1>1
<1>3. ASSUME NEW m \in T \ {Tail}
      PROVE  next2[m] \in T /\ K[m] < K[next2[m]]
             /\ \A o \in T : K[m] < K[o] => K[next2[m]] <= K[o]
  <2>1. CASE m = p
    <3>1. next2[m] = next[n] /\ n \in S \ {Tail} /\ next[n] \in S
      BY <1>1, <2>1
    <3>2. K[m] < K[n] /\ K[n] < K[next[n]] /\ K[m] \in Int /\ K[n] \in Int /\ K[next[n]] \in Int
      BY <1>1, <1>2, <2>1, <3>1
    <3>3. \A o \in T : K[m] < K[o] => K[n] < K[o]
      <4>1. SUFFICES ASSUME NEW o \in T, K[m] < K[o] PROVE K[n] < K[o]
        OBVIOUS
      <4>2. K[n] <= K[o] /\ K[n] # K[o] /\ K[o] \in Int
        BY <1>1, <2>1, <4>1
      <4>3. QED BY <3>2, <4>2
    <3>4. QED BY <1>1, <3>1, <3>2, <3>3
  <2>2. CASE m # p
    <3>1. next2[m] = next[m] /\ m \in S \ {Tail}
      BY <2>2
    <3>2. next[m] # n
      <4>1. SUFFICES ASSUME next[m] = n PROVE FALSE
        OBVIOUS
      <4>2. K[m] < K[p] \/ K[p] < K[m]
        BY <1>1, <2>2, <3>1
      <4>3. QED BY <1>1, <1>2, <3>1, <4>1, <4>2
    <3>3. QED BY <1>1, <3>1, <3>2
  <2>3. QED BY <2>1, <2>2
<1>4. QED
  BY <1>1, <1>3 DEF IsChain

-----------------------------------------------------------------------------
(* The lists of a state.                                                   *)

\* The nodes of a list are built, and their keys lie between the borders'.
LEMMA ListNodes ==
    ASSUME TypeOK, HeapInv, NEW l \in Level, NEW S, IsList(l, S)
    PROVE  /\ S \subseteq heap \cup {Head, Tail} /\ S \subseteq Node
           /\ S \subseteq Built \cup {Tail} /\ Ends(S, KeyAt)
           /\ \A m \in S \ {Tail} : m \in Built
<1>1. S \subseteq Built \cup {Tail} /\ Head \in S /\ Tail \in S
  BY DEF IsList, IsChain
<1>2. \A n \in S : KeyAt[n] \in Int /\ KeyAt[Head] <= KeyAt[n] /\ KeyAt[n] <= KeyAt[Tail]
  BY <1>1, NodeFacts, MaxKeyAssumption DEF Keys
<1>3. QED
  BY <1>1, <1>2, NodeFacts DEF Ends

\* A list is known as soon as a chain of nodes is.
ListsAreChains ==
    \A l \in Level : \A S : IsList(l, S) => Listed(l) = S

LEMMA ListedIs == TypeOK /\ HeapInv => ListsAreChains
<1>1. SUFFICES ASSUME TypeOK, HeapInv, NEW l \in Level, NEW S, IsList(l, S)
               PROVE  Listed(l) = S
  BY DEF ListsAreChains
<1> DEFINE next == [n \in Node |-> nxt[n][l]]
<1>2. S \subseteq heap \cup {Head, Tail} /\ Ends(S, KeyAt)
  BY <1>1, ListNodes
<1>3. IsFiniteSet(heap) /\ Cardinality(heap) \in Nat
  BY <1>1, NodeAssumption, FS_Subset, FS_CardinalityType DEF TypeOK
<1>4. /\ IsFiniteSet(heap \cup {Head} \cup {Tail})
      /\ Cardinality(heap \cup {Head} \cup {Tail}) <= Cardinality(heap) + 2
  <2>1. /\ IsFiniteSet(heap \cup {Head})
        /\ Cardinality(heap \cup {Head}) \in {Cardinality(heap), Cardinality(heap) + 1}
    BY <1>3, FS_AddElement
  <2>2. /\ IsFiniteSet(heap \cup {Head} \cup {Tail})
        /\ Cardinality(heap \cup {Head} \cup {Tail}) \in
             {Cardinality(heap \cup {Head}), Cardinality(heap \cup {Head}) + 1}
    BY <2>1, FS_AddElement
  <2>3. QED BY <1>3, <2>1, <2>2
<1>5. IsFiniteSet(S) /\ Cardinality(S) <= Cardinality(heap) + 2
  <2>1. S \subseteq heap \cup {Head} \cup {Tail}
    BY <1>2
  <2>2. IsFiniteSet(S) /\ Cardinality(S) <= Cardinality(heap \cup {Head} \cup {Tail})
    BY <1>4, <2>1, FS_Subset
  <2>3. Cardinality(S) \in Nat /\ Cardinality(heap \cup {Head} \cup {Tail}) \in Nat
    BY <1>4, <2>2, FS_CardinalityType
  <2>4. QED BY <1>3, <1>4, <2>2, <2>3
<1>6. IsChain(S, next, KeyAt)
  BY <1>1 DEF IsList
<1>7. Reach(next)[Cardinality(heap) + 1] = S
  <2> HIDE DEF next
  <2>1. QED BY <1>2, <1>3, <1>5, <1>6, ReachChain
<1>8. QED
  BY <1>7 DEF Listed

LEMMA ListedIsNext == TypeOK' /\ HeapInv' => ListsAreChains'
<1>1. QED
  BY ListedIs, PTL

\* What being a list says of the nodes of one.
LEMMA ListFacts ==
    ASSUME IInv, NEW l \in Level, NEW L, IsList(l, L)
    PROVE  /\ Head \in L /\ Tail \in L
           /\ \A n \in L : /\ n \in Node /\ n \in Built \cup {Tail} /\ KeyAt[n] \in Int
                           /\ top[n] \in Level /\ l >= top[n]
           /\ \A m \in L \ {Tail} :
                /\ m \in Built /\ nxt[m][l] \in L /\ KeyAt[m] < KeyAt[nxt[m][l]]
                /\ \A n \in L : KeyAt[m] < KeyAt[n] => KeyAt[nxt[m][l]] <= KeyAt[n]
           /\ \A m, n \in L : KeyAt[m] = KeyAt[n] => m = n
<1> DEFINE next == [n \in Node |-> nxt[n][l]]
<1>1. TypeOK /\ HeapInv
  BY DEF IInv
<1>2. L \subseteq Node /\ L \subseteq Built \cup {Tail} /\ Ends(L, KeyAt)
  BY <1>1, ListNodes
<1>3. IsChain(L, next, KeyAt) /\ \A n \in L : top[n] <= l
  BY DEF IsList
<1>4. \A m \in L : next[m] = nxt[m][l]
  BY <1>2
<1>5. \A n \in L : top[n] \in Level /\ l >= top[n]
  BY <1>1, <1>2, <1>3, NodeFacts
<1>6. /\ Head \in L /\ Tail \in L
      /\ \A m \in L \ {Tail} :
           /\ next[m] \in L /\ KeyAt[m] < KeyAt[next[m]]
           /\ \A n \in L : KeyAt[m] < KeyAt[n] => KeyAt[next[m]] <= KeyAt[n]
      /\ \A m, n \in L : KeyAt[m] = KeyAt[n] => m = n
  <2> HIDE DEF next
  <2>1. QED BY <1>3 DEF IsChain
<1>7. QED
  BY <1>2, <1>4, <1>5, <1>6 DEF Ends

\* Some node of the list points to each node of it but the head.
LEMMA ListPred ==
    ASSUME IInv, NEW l \in Level, NEW L, IsList(l, L), NEW n \in L, n # Head
    PROVE  \E m \in L \ {Tail} : m \in Built /\ nxt[m][l] = n
<1> DEFINE next == [o \in Node |-> nxt[o][l]]
<1>1. L \subseteq Node /\ Ends(L, KeyAt) /\ \A m \in L \ {Tail} : m \in Built
  BY ListNodes DEF IInv
<1>2. IsChain(L, next, KeyAt)
  BY DEF IsList
<1>3. \E m \in L \ {Tail} : next[m] = n
  <2> HIDE DEF next
  <2>1. QED BY <1>1, <1>2, ChainPred
<1>4. QED
  BY <1>1, <1>3

\* A node on a list that is not fully linked is being linked.
LEMMA HalfOn ==
    ASSUME IInv, HeldInv, ShapeInv, NEW l \in Level, NEW n \in Listed(l),
           n \notin fully_linked
    PROVE  \E t \in Threads : pc[t] \in {"link", "publish"} /\ node[t] = n
<1>1. PICK L : L = Listed(l) /\ IsList(l, L)
  BY DEF ShapeInv
<1>2. n # Head /\ n # NoNode
  BY <1>1, ListFacts DEF HeldInv
<1>3. PICK m \in Built : nxt[m][l] = n
  BY <1>1, <1>2, ListPred
<1>4. QED
  BY <1>2, <1>3 DEF HeldInv, HalfLinkedIsLocked

\* Built nodes other than the head are live, marked or not fully linked.
LEMMA NodeKinds ==
    ASSUME IInv, NEW n \in Built, n # Head, n \notin marked, n \in fully_linked
    PROVE  n \in Live
<1>1. n \in heap
  BY NodeFacts DEF IInv
<1>2. QED
  BY <1>1 DEF Live

\* Going down a level, a node that is not marked stays on the list.
LEMMA Downward ==
    ASSUME IInv, HeldInv, ShapeInv, NEW l \in Level, NEW k \in Level, l <= k,
           NEW n \in Listed(l), n # Tail
    PROVE  n \in Listed(k) \cup marked
<1>1. PICK L : L = Listed(l) /\ IsList(l, L)
  BY DEF ShapeInv
<1>2. n \in Built /\ top[n] \in Level /\ l >= top[n] /\ k >= top[n]
  BY <1>1, ListFacts
<1>3. CASE n = Head
  <2>1. PICK K : K = Listed(k) /\ IsList(k, K)
    BY DEF ShapeInv
  <2>2. QED BY <1>3, <2>1, ListFacts
<1>4. CASE n # Head /\ n \in fully_linked /\ n \notin marked
  BY <1>2, <1>4, NodeKinds DEF ShapeInv, LiveIsListed
<1>5. CASE n \notin fully_linked
  <2>1. PICK t \in Threads : pc[t] \in {"link", "publish"} /\ node[t] = n
    BY <1>5, HalfOn
  <2>2. LinkingInv(t) /\ level[t] \in Level
    BY DEF ShapeInv, IInv, TypeOK
  <2>3. Rewritten(t, l)
    BY <1>2, <2>1, <2>2 DEF LinkingInv
  <2>4. Rewritten(t, k)
    BY <2>2, <2>3 DEF Rewritten
  <2>5. QED BY <1>2, <2>1, <2>2, <2>4 DEF LinkingInv
<1>6. QED
  BY <1>3, <1>4, <1>5

\* A predecessor that is locked and validated is on its list, and next to it
\* the node that is linked or unlinked there.
LEMMA PredListed ==
    ASSUME IInv, HeldInv, ShapeInv, NEW t \in Threads, NEW l \in Validated(t)
    PROVE  /\ l \in Level /\ Searched(t) /\ before[t][l] \in Listed(l) \ {Tail}
           /\ before[t][l] \notin marked /\ nxt[before[t][l]][l] = PointsTo(t, l)
           /\ PointsTo(t, l) \in Listed(l)
<1>1. l \in Level /\ Searched(t)
  BY DEF Validated, Searched
<1>2. before[t][l] \notin marked /\ nxt[before[t][l]][l] = PointsTo(t, l)
  BY DEF HeldInv, LevelsInv
<1>3. before[t][l] \in Listed(l) \ {Tail}
  <2>1. before[t][l] \in Built
    BY <1>1, PredFacts
  <2>2. before[t][l] \in Listed(l) \cup marked
    BY <1>1 DEF ShapeInv, PredsInv
  <2>3. QED BY <1>2, <2>1, <2>2, NodeFacts DEF IInv
<1>4. nxt[before[t][l]][l] \in Listed(l)
  <2>1. PICK L : L = Listed(l) /\ IsList(l, L)
    BY <1>1 DEF ShapeInv
  <2>2. QED BY <1>1, <1>3, <2>1, ListFacts
<1>5. QED
  BY <1>1, <1>2, <1>3, <1>4

\* A node that is on some of its lists, but not on this one, points past itself.
LEMMA OffList ==
    ASSUME IInv, HeldInv, ShapeInv, HasRemover, NEW m \in Attached, m # Tail,
           NEW l \in Level, l >= top[m], m \notin Listed(l)
    PROVE  \E p \in Listed(l) \ {Tail} :
             /\ nxt[p][l] = nxt[m][l] /\ KeyAt[p] < KeyAt[m]
             /\ KeyAt[m] < KeyAt[nxt[m][l]]
             /\ m \in marked \/ \E k \in Level : l < k /\ m \in Listed(k)
<1>1. PICK k \in Level : m \in Listed(k)
  BY DEF Attached
<1>2. PICK K, L : /\ K = Listed(k) /\ IsList(k, K)
                  /\ L = Listed(l) /\ IsList(l, L)
  BY DEF ShapeInv
<1>3. m \in Built /\ m # Head /\ k >= top[m] /\ top[m] \in Level
  BY <1>1, <1>2, ListFacts
<1>4. m \in marked \/ m \notin fully_linked
  BY <1>3, NodeKinds DEF ShapeInv, LiveIsListed
<1>5. CASE m \in marked
  <2>1. PICK t \in Threads : Pending(t) /\ VictimOf(t, m)
    BY <1>5 DEF HasRemover
  <2>2. pc[t] = "unlink" /\ Rewritten(t, l)
    BY <2>1 DEF VictimOf
  <2>3. Searched(t) /\ op[t] = "remove" /\ found[t] = m
    BY <2>1, <2>2 DEF Searched, VictimOf, Pending
  <2>4. l \in Validated(t)
    BY <2>2, <2>3 DEF Validated, LevelTo
  <2>5. nxt[m][l] = after[t][l] /\ PointsTo(t, l) = after[t][l]
    BY <2>2, <2>3, <2>4 DEF HeldInv, LevelsInv, PointsTo
  <2>6. /\ before[t][l] \in Listed(l) \ {Tail} /\ nxt[before[t][l]][l] = after[t][l]
    BY <2>4, <2>5, PredListed
  <2>7. KeyAt[m] = key[t] /\ KeyAt[before[t][l]] < key[t] /\ key[t] < KeyAt[after[t][l]]
    BY <2>1, <2>3, PredFacts DEF VictimOf
  <2>8. QED BY <1>5, <2>5, <2>6, <2>7
<1>6. CASE m \notin fully_linked
  <2>1. PICK t \in Threads : pc[t] \in {"link", "publish"} /\ node[t] = m
    BY <1>1, <1>6, HalfOn
  <2>2. /\ LinkingInv(t) /\ ControlInv(t) /\ NodeInv(t) /\ level[t] \in Level
        /\ op[t] # "remove" /\ KeyAt[m] = key[t] /\ Searched(t)
    BY <1>3, <2>1, NodeFacts
    DEF ShapeInv, IInv, ThreadInv, ControlInv, NodeInv, IsPut, TypeOK, Searched
  <2>3. ~Rewritten(t, l) /\ nxt[m][l] = after[t][l] /\ Rewritten(t, k)
    BY <1>1, <1>3, <2>1, <2>2 DEF LinkingInv
  <2>4. l \in Validated(t)
    BY <2>1, <2>2, <2>3 DEF Validated, LevelTo, Rewritten
  <2>5. PointsTo(t, l) = after[t][l]
    BY <2>2, <2>3 DEF PointsTo
  <2>6. before[t][l] \in Listed(l) \ {Tail} /\ nxt[before[t][l]][l] = after[t][l]
    BY <2>4, <2>5, PredListed
  <2>7. KeyAt[before[t][l]] < key[t] /\ key[t] < KeyAt[after[t][l]]
    BY <2>2, PredFacts
  <2>8. l < k
    BY <2>1, <2>2, <2>3 DEF Rewritten
  <2>9. QED BY <1>1, <2>2, <2>3, <2>6, <2>7, <2>8
<1>7. QED
  BY <1>4, <1>5, <1>6

\* From a node that is on some list a search gets to such nodes only, and it
\* comes to every node of the bottom list whose key it looks for.
LEMMA AttachedNodes ==
    ASSUME IInv, ShapeInv
    PROVE  /\ Attached \subseteq Built \cup {Tail} /\ Head \in Attached /\ Tail \in Attached
           /\ \A m \in Attached \ {Tail} : m \in Built
           /\ \A n \in Listed(Bottom) : n \in Attached
<1>1. ASSUME NEW l \in Level, NEW n \in Listed(l) PROVE n \in Built \cup {Tail}
  <2>1. PICK L : L = Listed(l) /\ IsList(l, L)
    BY DEF ShapeInv
  <2>2. QED BY <1>1, <2>1, ListFacts
<1>2. Bottom \in Level /\ Head \in Listed(Bottom) /\ Tail \in Listed(Bottom)
  <2>1. Bottom \in Level
    OBVIOUS
  <2>2. PICK L : L = Listed(Bottom) /\ IsList(Bottom, L)
    BY <2>1 DEF ShapeInv
  <2>3. QED BY <2>1, <2>2, ListFacts
<1> HIDE DEF Bottom
<1>3. QED
  BY <1>1, <1>2 DEF Attached

LEMMA AttachedTrack ==
    ASSUME IInv, HeldInv, ShapeInv, HasRemover
    PROVE  Track(Attached)
<1>1. SUFFICES ASSUME NEW m \in Attached \ {Tail}, NEW l \in Level, l >= top[m]
               PROVE  nxt[m][l] \in Attached
  BY DEF Track
<1>2. PICK L : L = Listed(l) /\ IsList(l, L)
  BY DEF ShapeInv
<1>3. nxt[m][l] \in L
  <2>1. CASE m \in L
    BY <1>2, <2>1, ListFacts
  <2>2. CASE m \notin L
    <3>1. PICK p \in L \ {Tail} : nxt[p][l] = nxt[m][l]
      BY <1>1, <1>2, <2>2, OffList
    <3>2. QED BY <1>2, <3>1, ListFacts
  <2>3. QED BY <2>1, <2>2
<1>4. QED
  BY <1>2, <1>3 DEF Attached

LEMMA AttachedFinds ==
    ASSUME IInv, HeldInv, ShapeInv, HasRemover, NEW n \in Listed(Bottom)
    PROVE  Finds(Attached, n)
<1>1. PICK L : L = Listed(Bottom) /\ IsList(Bottom, L) /\ Bottom \in Level
  BY DEF ShapeInv
<1>2. ASSUME NEW m \in Attached, m \notin L
      PROVE  \E p \in L \ {Tail} :
               /\ nxt[p][Bottom] = nxt[m][Bottom] /\ KeyAt[p] < KeyAt[m]
               /\ KeyAt[m] < KeyAt[nxt[m][Bottom]]
  <2>1. m # Tail
    BY <1>1, <1>2, ListFacts
  <2>2. Bottom >= top[m]
    <3>1. m \in Built
      BY <1>2, <2>1, AttachedNodes
    <3>2. QED BY <3>1, NodeFacts DEF IInv
  <2>3. QED BY <1>1, <1>2, <2>1, <2>2, OffList
<1>3. ASSUME NEW m \in Attached
      PROVE  KeyAt[m] \in Int
  BY AttachedNodes, NodeFacts DEF IInv
<1>4. /\ \A m \in L \ {Tail} :
           /\ nxt[m][Bottom] \in L
           /\ \A o \in L : KeyAt[m] < KeyAt[o] => KeyAt[nxt[m][Bottom]] <= KeyAt[o]
      /\ \A m, o \in L : KeyAt[m] = KeyAt[o] => m = o
      /\ \A o \in L : KeyAt[o] \in Int
  BY <1>1, ListFacts
<1>5. ASSUME NEW m \in Attached \ {Tail}, KeyAt[m] < KeyAt[n]
      PROVE  KeyAt[nxt[m][Bottom]] <= KeyAt[n]
  <2>1. CASE m \in L
    BY <1>1, <1>4, <1>5, <2>1
  <2>2. CASE m \notin L
    <3>1. PICK p \in L \ {Tail} : nxt[p][Bottom] = nxt[m][Bottom] /\ KeyAt[p] < KeyAt[m]
      BY <1>2, <2>2
    <3>2. KeyAt[p] < KeyAt[n]
      BY <1>1, <1>3, <1>4, <1>5, <3>1
    <3>3. QED BY <1>1, <1>4, <3>1, <3>2
  <2>3. QED BY <2>1, <2>2
<1>6. ASSUME NEW m \in Attached, KeyAt[m] = KeyAt[n]
      PROVE  m = n
  <2>1. CASE m \in L
    BY <1>1, <1>4, <1>6, <2>1
  <2>2. CASE m \notin L
    <3>1. PICK p \in L \ {Tail} :
            /\ nxt[p][Bottom] = nxt[m][Bottom] /\ KeyAt[p] < KeyAt[m]
            /\ KeyAt[m] < KeyAt[nxt[m][Bottom]]
      BY <1>2, <2>2
    <3>2. KeyAt[nxt[p][Bottom]] <= KeyAt[n]
      BY <1>1, <1>4, <1>6, <3>1
    <3>3. KeyAt[nxt[p][Bottom]] \in Int
      BY <1>4, <3>1
    <3>4. QED BY <1>1, <1>4, <1>6, <3>1, <3>2, <3>3
  <2>3. QED BY <2>1, <2>2
<1>7. QED
  BY <1>5, <1>6 DEF Finds

-----------------------------------------------------------------------------
(* How the lists change.                                                   *)

\* Only the loops over link_level write the pointers of nodes already built.
LEMMA PointersKept ==
    ASSUME IInv, HeldInv, NEW t \in Threads, Invoke(t) \/ Step(t), ~Link(t), ~Unlink(t),
           NEW m \in Built
    PROVE  nxt'[m] = nxt[m]
<1>1. m \in Node /\ NodeInv(t)
  BY NodeFacts DEF IInv, ThreadInv
<1>2. CASE LocalAction(t)
  BY <1>2, LocalActionFacts DEF shared
<1>3. CASE LockPred(t) \/ UnlockPred(t) \/ LockElement(t) \/ UnlockElement(t)
  BY <1>3 DEF LockPred, UnlockPred, LockElement, UnlockElement
<1>4. CASE PutAbsent(t) \/ Fill(t)
  BY <1>1, <1>4, PutAbsentFacts, FillFacts
<1>5. CASE PutDone(t) \/ PutOver(t) \/ RemoveMark(t) \/ Publish(t)
  BY <1>5 DEF PutDone, PutOver, RemoveMark, Publish
<1>6. QED
  BY <1>2, <1>3, <1>4, <1>5 DEF Step, LocalAction

LEMMA KeptLists ==
    ASSUME IInv, IInv', HeldInv, ShapeInv, NEW t \in Threads, Invoke(t) \/ Step(t),
           ~Link(t), ~Unlink(t), NEW l \in Level
    PROVE  IsList(l, Listed(l))' /\ Listed(l)' = Listed(l)
<1>1. PICK L : L = Listed(l) /\ IsList(l, L)
  BY DEF ShapeInv
<1>2. L \subseteq Built \cup {Tail} /\ L \subseteq Node /\ \A m \in L \ {Tail} : m \in Built
  BY <1>1, ListNodes DEF IInv
<1>3. KeepsBuilt
  BY StepGuarantee DEF Guarantee, KeepsOthers
<1>4. L \subseteq Built' \cup {Tail} /\ \A m \in L : KeyAt'[m] = KeyAt[m] /\ top'[m] = top[m]
  BY <1>2, <1>3 DEF KeepsBuilt, KeepsNode
<1>5. \A m \in L \ {Tail} : nxt'[m] = nxt[m]
  BY <1>2, PointersKept
<1>6. IsChain(L, [n \in Node |-> nxt'[n][l]], KeyAt')
  <2> DEFINE next == [n \in Node |-> nxt[n][l]]
             next2 == [n \in Node |-> nxt'[n][l]]
  <2>1. \A m \in L \ {Tail} : next2[m] = next[m]
    BY <1>2, <1>5
  <2>2. IsChain(L, next, KeyAt)
    BY <1>1 DEF IsList
  <2> HIDE DEF next, next2
  <2>3. IsChain(L, next2, KeyAt')
    BY <1>4, <2>1, <2>2, ChainKeep
  <2>4. QED BY <2>3 DEF next2
<1>7. IsList(l, L)'
  BY <1>1, <1>4, <1>6 DEF IsList
<1>8. Listed(l)' = L
  BY <1>7, ListedIsNext DEF ListsAreChains, IInv
<1>9. QED
  BY <1>1, <1>7, <1>8

\* A loop over link_level changes the list of its level only, ...
LEMMA OtherLists ==
    ASSUME IInv, IInv', HeldInv, ShapeInv, NEW t \in Threads, Link(t) \/ Unlink(t),
           NEW l \in Level, l # level[t]
    PROVE  IsList(l, Listed(l))' /\ Listed(l)' = Listed(l)
<1> DEFINE next == [n \in Node |-> nxt[n][l]]
           next2 == [n \in Node |-> nxt'[n][l]]
<1>1. PICK L : L = Listed(l) /\ IsList(l, L)
  BY DEF ShapeInv
<1>2. /\ \A n \in Node : nxt'[n][l] = nxt[n][l]
      /\ Built' = Built /\ KeyAt' = KeyAt /\ top' = top
  BY RedirectFacts
<1>3. next2 = next
  BY <1>2
<1>4. IsChain(L, next2, KeyAt')
  <2> HIDE DEF next, next2
  <2>1. IsChain(L, next, KeyAt)
    BY <1>1 DEF IsList, next
  <2>2. QED BY <1>2, <1>3, <2>1
<1>5. IsList(l, L)'
  BY <1>1, <1>2, <1>4 DEF IsList
<1>6. Listed(l)' = L
  BY <1>5, ListedIsNext DEF ListsAreChains, IInv
<1>7. QED
  BY <1>1, <1>5, <1>6

\* ... to which Link adds its node ...
LEMMA LinkLists ==
    ASSUME IInv, IInv', HeldInv, ShapeInv, NEW t \in Threads, Link(t),
           NEW l \in Level, l = level[t]
    PROVE  /\ IsList(l, Listed(l))'
           /\ node[t] \notin Listed(l) /\ Listed(l)' = Listed(l) \cup {node[t]}
<1>1. l = level[t]
  OBVIOUS
<1> DEFINE p == before[t][l]
           n == node[t]
           next == [o \in Node |-> nxt[o][l]]
           next2 == [o \in Node |-> nxt'[o][l]]
<1>2. /\ l \in Level /\ l \in Validated(t) /\ l >= LevelTo(t) /\ Searched(t)
      /\ p \in Built /\ p \in Node /\ op[t] # "remove" /\ pc[t] = "link"
      /\ \A o \in Node : nxt'[o][l] = IF o = p THEN n ELSE nxt[o][l]
      /\ Built' = Built /\ KeyAt' = KeyAt /\ top' = top
  <2>1. op[t] # "remove" /\ pc[t] = "link"
    BY DEF Link, IInv, ThreadInv, ControlInv, IsPut
  <2>2. /\ l \in Level /\ l \in Validated(t) /\ l >= LevelTo(t) /\ Searched(t)
        /\ p \in Built /\ p \in Node
        /\ Built' = Built /\ KeyAt' = KeyAt /\ top' = top
    BY <1>1, RedirectFacts
  <2>3. \A o \in Node : nxt'[o][l] = IF o = p THEN n ELSE nxt[o][l]
    BY <1>1, <2>1, <2>2, RedirectFacts
  <2>4. QED BY <2>1, <2>2, <2>3
<1>3. n \in Built /\ n \in Node /\ KeyAt[n] = key[t] /\ top[n] <= l /\ KeyAt[n] \in Int
  <2>1. n \in Built /\ KeyAt[n] = key[t] /\ top[n] = LevelTo(t)
    BY <1>2, NodeFacts DEF IInv, ThreadInv, NodeInv, LevelTo
  <2>2. QED BY <1>2, <2>1, NodeFacts DEF IInv
<1>4. PICK L : L = Listed(l) /\ IsList(l, L)
  BY <1>2 DEF ShapeInv
<1>5. n \notin L /\ nxt[n][l] = after[t][l]
  <2>1. LinkingInv(t) /\ ~Rewritten(t, l) /\ l >= top[n]
    BY <1>1, <1>2, <1>3 DEF ShapeInv, Rewritten, LevelTo
  <2>2. QED BY <1>2, <1>4, <2>1 DEF LinkingInv
<1>6. p \in L \ {Tail} /\ nxt[p][l] = after[t][l]
  <2>1. PointsTo(t, l) = after[t][l]
    BY <1>1, <1>2 DEF PointsTo, Rewritten
  <2>2. QED BY <1>2, <1>4, <2>1, PredListed
<1>7. KeyAt[p] < KeyAt[n] /\ KeyAt[n] < KeyAt[nxt[p][l]]
  BY <1>2, <1>3, <1>6, PredFacts
<1>8. L \subseteq Node /\ Ends(L, KeyAt) /\ IsChain(L, next, KeyAt)
  BY <1>2, <1>4, ListNodes DEF IInv, IsList
<1>9. /\ next2[p] = n /\ next2[n] = next[p] /\ next[p] = nxt[p][l]
      /\ \A m \in L \ {Tail, p} : next2[m] = next[m]
  BY <1>2, <1>3, <1>5, <1>6, <1>8
<1>10. IsChain(L \cup {n}, next2, KeyAt)
  <2> HIDE DEF next, next2, n, p
  <2>1. QED BY <1>3, <1>5, <1>6, <1>7, <1>8, <1>9, ChainInsert
<1>11. PICK M : M = L \cup {n}
  OBVIOUS
<1>12. M \subseteq Built' \cup {Tail} /\ \A m \in M : top'[m] <= l
  BY <1>2, <1>3, <1>4, <1>11 DEF IsList
<1>13. IsList(l, M)'
  BY <1>2, <1>10, <1>11, <1>12 DEF IsList
<1>14. Listed(l)' = M
  BY <1>2, <1>13, ListedIsNext DEF ListsAreChains, IInv
<1>15. IsList(l, Listed(l))' /\ Listed(l)' = Listed(l) \cup {node[t]}
  BY <1>4, <1>11, <1>13, <1>14
<1>16. QED
  BY <1>1, <1>2, <1>4, <1>5, <1>15

\* ... and from which Unlink takes the node it removes.
LEMMA UnlinkedVictim ==
    ASSUME IInv, ListInv, NEW t \in Threads, pc[t] = "unlink"
    PROVE  /\ Pending(t) /\ found[t] \in marked /\ VictimOf(t, found[t])
           /\ LevelTo(t) = top[found[t]]
           /\ \A l \in Level : l >= LevelTo(t) =>
                (found[t] \in Listed(l) <=> ~Rewritten(t, l))
<1>1. op[t] = "remove" /\ took[t] /\ Searched(t)
  BY DEF IInv, ThreadInv, ControlInv, Searched
<1>2. Pending(t)
  BY <1>1 DEF Pending
<1>3. PICK n \in marked : VictimOf(t, n)
  BY <1>2 DEF ListInv, HasVictim
<1>4. n = found[t]
  BY <1>1, <1>3 DEF VictimOf
<1>5. QED
  BY <1>1, <1>2, <1>3, <1>4 DEF VictimOf, LevelTo

LEMMA UnlinkLists ==
    ASSUME IInv, IInv', HeldInv, ListInv, NEW t \in Threads, Unlink(t),
           NEW l \in Level, l = level[t]
    PROVE  /\ IsList(l, Listed(l))'
           /\ found[t] \in Listed(l) /\ Listed(l)' = Listed(l) \ {found[t]}
<1>1. l = level[t]
  OBVIOUS
<1> DEFINE p == before[t][l]
           n == found[t]
           next == [o \in Node |-> nxt[o][l]]
           next2 == [o \in Node |-> nxt'[o][l]]
<1>2. /\ l \in Level /\ l \in Validated(t) /\ l >= LevelTo(t) /\ Searched(t)
      /\ p \in Built /\ p \in Node /\ op[t] = "remove" /\ pc[t] = "unlink"
      /\ \A o \in Node : nxt'[o][l] = IF o = p THEN after[t][l] ELSE nxt[o][l]
      /\ Built' = Built /\ KeyAt' = KeyAt /\ top' = top
  <2>1. op[t] = "remove" /\ pc[t] = "unlink"
    BY DEF Unlink, IInv, ThreadInv, ControlInv
  <2>2. /\ l \in Level /\ l \in Validated(t) /\ l >= LevelTo(t) /\ Searched(t)
        /\ p \in Built /\ p \in Node
        /\ Built' = Built /\ KeyAt' = KeyAt /\ top' = top
    BY <1>1, RedirectFacts
  <2>3. \A o \in Node : nxt'[o][l] = IF o = p THEN after[t][l] ELSE nxt[o][l]
    BY <1>1, <2>1, <2>2, RedirectFacts
  <2>4. QED BY <2>1, <2>2, <2>3
<1>3. n \in Node /\ n # Head /\ n # Tail
  <2>1. n # NoNode
    BY <1>2, LevelToFacts
  <2>2. QED BY <1>2, <2>1, FoundFacts DEF Node
<1>4. PICK L : L = Listed(l) /\ IsList(l, L)
  BY <1>2 DEF ListInv, ShapeInv
<1>5. n \in L
  BY <1>1, <1>2, <1>4, UnlinkedVictim DEF Rewritten
<1>6. p \in L \ {Tail} /\ nxt[p][l] = n /\ nxt[n][l] = after[t][l]
  <2>1. PointsTo(t, l) = n
    BY <1>1, <1>2 DEF PointsTo, Rewritten
  <2>2. nxt[n][l] = after[t][l]
    BY <1>2 DEF HeldInv, LevelsInv
  <2>3. QED BY <1>2, <1>4, <2>1, <2>2, PredListed DEF ListInv
<1>7. L \subseteq Node /\ Ends(L, KeyAt) /\ IsChain(L, next, KeyAt)
  BY <1>2, <1>4, ListNodes DEF IInv, IsList
<1>8. /\ next[p] = n /\ next2[p] = next[n]
      /\ \A m \in L \ {Tail, p} : next2[m] = next[m]
  BY <1>2, <1>3, <1>6, <1>7
<1>9. IsChain(L \ {n}, next2, KeyAt)
  <2> HIDE DEF next, next2, n, p
  <2>1. QED BY <1>3, <1>5, <1>6, <1>7, <1>8, ChainRemove
<1>10. PICK M : M = L \ {n}
  OBVIOUS
<1>11. M \subseteq Built' \cup {Tail} /\ \A m \in M : top'[m] <= l
  BY <1>2, <1>4, <1>10 DEF IsList
<1>12. IsList(l, M)'
  BY <1>2, <1>9, <1>10, <1>11 DEF IsList
<1>13. Listed(l)' = M
  BY <1>2, <1>12, ListedIsNext DEF ListsAreChains, IInv
<1>14. IsList(l, Listed(l))' /\ Listed(l)' = Listed(l) \ {found[t]}
  BY <1>4, <1>10, <1>12, <1>13
<1>15. QED
  BY <1>1, <1>2, <1>4, <1>5, <1>14

\* The three ways a step treats the lists.
ListsKept     == \A l \in Level : Listed(l)' = Listed(l)
ListsGrow(t)  == \A l \in Level :
    Listed(l)' = IF l = level[t] THEN Listed(l) \cup {node[t]} ELSE Listed(l)
ListsShrink(t) == \A l \in Level :
    Listed(l)' = IF l = level[t] THEN Listed(l) \ {found[t]} ELSE Listed(l)

LEMMA ListsStep ==
    ASSUME IInv, HeldInv, ListInv, NEW t \in Threads, Invoke(t) \/ Step(t)
    PROVE  /\ \A l \in Level : IsList(l, Listed(l))'
           /\ \/ ~Link(t) /\ ~Unlink(t) /\ ListsKept
              \/ Link(t) /\ ListsGrow(t) /\ node[t] \notin Listed(level[t])
              \/ Unlink(t) /\ ListsShrink(t) /\ found[t] \in Listed(level[t])
<1>1. IInv' /\ ShapeInv
  BY StepInv DEF ListInv
<1>2. level[t] \in Level
  BY DEF IInv, TypeOK
<1>3. CASE Link(t)
  <2>1. ASSUME NEW l \in Level
        PROVE  /\ IsList(l, Listed(l))'
               /\ Listed(l)' = IF l = level[t] THEN Listed(l) \cup {node[t]} ELSE Listed(l)
               /\ l = level[t] => node[t] \notin Listed(l)
    BY <1>1, <1>3, LinkLists, OtherLists
  <2>2. QED BY <1>2, <1>3, <2>1 DEF ListsGrow
<1>4. CASE Unlink(t)
  <2>1. ASSUME NEW l \in Level
        PROVE  /\ IsList(l, Listed(l))'
               /\ Listed(l)' = IF l = level[t] THEN Listed(l) \ {found[t]} ELSE Listed(l)
               /\ l = level[t] => found[t] \in Listed(l)
    BY <1>1, <1>4, UnlinkLists, OtherLists
  <2>2. QED BY <1>2, <1>4, <2>1 DEF ListsShrink
<1>5. CASE ~Link(t) /\ ~Unlink(t)
  BY <1>1, <1>5, KeptLists DEF ListsKept
<1>6. QED
  BY <1>3, <1>4, <1>5

\* Only marked nodes leave a list.
LEMMA ListsGoOn ==
    ASSUME IInv, HeldInv, ListInv, NEW t \in Threads, Invoke(t) \/ Step(t), NEW l \in Level
    PROVE  /\ Listed(l) \subseteq Listed(l)' \cup marked
           /\ \A n : n \notin marked /\ n \in Listed(l) => n \in Listed(l)'
           /\ \A n : n \in Listed(l)' => n \in Listed(l) \/ (Link(t) /\ n = node[t])
           /\ Listed(l) \cup marked \subseteq Listed(l)' \cup marked'
<1>1. marked \subseteq marked'
  BY StepGuarantee DEF Guarantee, KeepsOthers
<1>2. Unlink(t) => found[t] \in marked
  BY UnlinkedVictim DEF Unlink
<1>3. QED
  BY <1>1, <1>2, ListsStep DEF ListsKept, ListsGrow, ListsShrink

-----------------------------------------------------------------------------
(* ShapeInv is preserved.                                                  *)

\* What ListFacts says of a list holds in the next state as well.
ListOrder(l, L) ==
    \A m \in L \ {Tail} :
        /\ m \in Built /\ nxt[m][l] \in L /\ KeyAt[m] < KeyAt[nxt[m][l]]
        /\ \A n \in L : KeyAt[m] < KeyAt[n] => KeyAt[nxt[m][l]] <= KeyAt[n]

ListsOrdered == \A l \in Level : \A L : IsList(l, L) => ListOrder(l, L)

LEMMA ListsOrder == IInv => ListsOrdered
<1>1. QED
  BY ListFacts DEF ListsOrdered, ListOrder

LEMMA ListsOrderNext == IInv' => ListsOrdered'
<1>1. QED
  BY ListsOrder, PTL

\* A pointer that is written leads to the list of its level.
LEMMA WrittenPointer ==
    ASSUME IInv, HeldInv, ListInv, NEW t \in Threads, Invoke(t) \/ Step(t),
           NEW m \in Built, NEW l \in Level, nxt'[m][l] # nxt[m][l]
    PROVE  /\ Link(t) \/ Unlink(t)
           /\ m = before[t][l] /\ l = level[t] /\ l \in Validated(t)
           /\ m \in Listed(l) /\ m \in Listed(l)' /\ nxt'[m][l] \in Listed(l)'
<1>1. Link(t) \/ Unlink(t)
  BY PointersKept
<1>2. m = before[t][l] /\ l = level[t] /\ l \in Validated(t)
  <2>1. m \in Node
    BY NodeFacts DEF IInv
  <2>2. QED BY <1>1, <2>1, RedirectFacts
<1>3. m \in Listed(l) /\ m \notin marked /\ m # Tail
  BY <1>2, PredListed DEF ListInv
<1>4. m \in Listed(l)'
  BY <1>3, ListsGoOn
<1>5. PICK L : L = Listed(l)'
  OBVIOUS
<1>6. IsList(l, L)'
  BY <1>5, ListsStep
<1>7. nxt'[m][l] \in L
  BY <1>3, <1>4, <1>5, <1>6, StepInv, ListsOrderNext DEF ListsOrdered, ListOrder
<1>8. QED
  BY <1>1, <1>2, <1>3, <1>4, <1>5, <1>7

LEMMA LiveStep ==
    ASSUME IInv, HeldInv, ListInv, NEW t \in Threads, Invoke(t) \/ Step(t)
    PROVE  LiveIsListed'
<1>1. SUFFICES ASSUME NEW n \in Live', NEW l \in Level, l >= top'[n]
               PROVE  n \in Listed(l)'
  BY DEF LiveIsListed
<1>2. /\ n \in heap' /\ n \notin marked' /\ n \in fully_linked'
      /\ marked \subseteq marked' /\ n # Head /\ n # Tail
      /\ \A m \in Built : top'[m] = top[m]
  <2>1. Guarantee(t) /\ TypeOK'
    BY StepGuarantee, StepInv DEF IInv
  <2>2. marked \subseteq marked' /\ \A m \in Built : top'[m] = top[m]
    BY <2>1 DEF Guarantee, KeepsOthers, KeepsBuilt, KeepsNode
  <2>3. n \in heap' /\ n \notin marked' /\ n \in fully_linked'
    BY <1>1 DEF Live
  <2>4. n # Head /\ n # Tail
    BY <2>1, <2>3 DEF TypeOK
  <2>5. QED BY <2>2, <2>3, <2>4
<1>3. CASE n \in fully_linked
  <2>1. n \in Built /\ n \in Live
    BY <1>2, <1>3, NodeKinds DEF HeldInv
  <2>2. n \in Listed(l) /\ n \notin marked
    BY <1>1, <1>2, <2>1 DEF ListInv, ShapeInv, LiveIsListed
  <2>3. QED BY <2>2, ListsGoOn
<1>4. CASE n \notin fully_linked
  <2>1. Publish(t) /\ n = node[t] /\ pc[t] = "publish"
    <3>1. Publish(t)
      BY <1>2, <1>4, PublishOnly
    <3>2. QED BY <1>2, <1>4, <3>1 DEF Publish
  <2>2. LinkingInv(t) /\ n \in Built
    BY <2>1 DEF ListInv, ShapeInv, IInv, ThreadInv, NodeInv
  <2>3. n \in Listed(l)
    BY <1>1, <1>2, <2>1, <2>2 DEF LinkingInv, Rewritten
  <2>4. n \notin marked
    BY <1>2
  <2>5. QED BY <2>3, <2>4, ListsGoOn
<1>5. QED
  BY <1>3, <1>4

LEMMA LeadsStep ==
    ASSUME IInv, HeldInv, ListInv, NEW t \in Threads, Invoke(t) \/ Step(t)
    PROVE  Leads'
<1>1. SUFFICES ASSUME NEW m \in Built', NEW l \in Level, l >= top'[m]
               PROVE  nxt'[m][l] \in Listed(l)' \cup marked'
  BY DEF Leads
<1>2. Listed(l) \cup marked \subseteq Listed(l)' \cup marked'
  BY ListsGoOn
<1>3. CASE m \in Built /\ nxt'[m][l] = nxt[m][l]
  <2>1. top'[m] = top[m]
    BY <1>3, StepGuarantee DEF Guarantee, KeepsOthers, KeepsBuilt, KeepsNode
  <2>2. nxt[m][l] \in Listed(l) \cup marked
    BY <1>1, <1>3, <2>1 DEF ListInv, ShapeInv, Leads
  <2>3. QED BY <1>2, <1>3, <2>2
<1>4. CASE m \in Built /\ nxt'[m][l] # nxt[m][l]
  BY <1>4, WrittenPointer
<1>5. CASE m \notin Built
  <2>1. Fill(t) /\ m = node[t]
    BY <1>5, BuiltOnly
  <2>2. top'[m] = top[m] /\ pc[t] = "fill" /\ op[t] # "remove"
    BY <2>1, FillFacts DEF Fill, IsPut
  <2>3. l >= LevelTo(t) /\ l \in Validated(t) /\ ~Rewritten(t, l)
    BY <1>1, <2>1, <2>2 DEF LevelTo, Validated, Rewritten
  <2>4. nxt'[m][l] = after[t][l] /\ PointsTo(t, l) = after[t][l]
    BY <2>1, <2>2, <2>3, FillFacts DEF PointsTo
  <2>5. nxt'[m][l] \in Listed(l)
    BY <2>3, <2>4, PredListed DEF ListInv
  <2>6. QED BY <1>2, <2>5
<1>6. QED
  BY <1>3, <1>4, <1>5

\* A thread gets to link a node, or goes on with it, in these steps only.
LEMMA LinkingSteps ==
    ASSUME IInv, NEW t \in Threads, Invoke(t) \/ Step(t), pc'[t] \in {"link", "publish"}
    PROVE  Fill(t) \/ Link(t)
<1>1. pc \in [Threads -> PCs]
  BY DEF IInv, TypeOK
<1> USE DEF Goto, Answer
<1>2. CASE Invoke(t) \/ Return(t) \/ UnlockElement(t) \/ PutDone(t)
  BY <1>1, <1>2 DEF Invoke, Return, UnlockElement, PutDone, StartFind
<1>3. CASE FindRight(t) \/ FindDown(t) \/ FindHit(t) \/ FindAfter(t)
  BY <1>1, <1>3 DEF FindRight, FindDown, FindHit, FindAfter, Descend
<1>4. CASE LookupFound(t) \/ LookupMarked(t) \/ LookupElement(t)
  BY <1>1, <1>4 DEF LookupFound, LookupMarked, LookupElement
<1>5. CASE LockPred(t) \/ CheckFails(t) \/ CheckNext(t) \/ CheckDone(t) \/ UnlockPred(t)
  BY <1>1, <1>5 DEF LockPred, CheckFails, CheckNext, CheckDone, UnlockPred
<1>6. CASE PutAbsent(t) \/ PutFound(t) \/ PutNewFound(t) \/ PutNewDone(t)
  BY <1>1, <1>6 DEF PutAbsent, PutFound, PutNewFound, PutNewDone, StartLocking
<1>7. CASE Publish(t) \/ Unlink(t)
  BY <1>1, <1>7 DEF Publish, Unlink, NextLevelUp
<1>8. CASE WaitLinked(t) \/ LockElement(t) \/ LostRace(t) \/ PutOver(t)
  BY <1>1, <1>8 DEF WaitLinked, LockElement, LostRace, PutOver, StartLocking
<1>9. CASE RemoveMark(t) \/ RemoveFound(t) \/ RemoveUnlocked(t)
  BY <1>1, <1>9 DEF RemoveMark, RemoveFound, RemoveUnlocked, StartLocking
<1>10. QED
  BY <1>2, <1>3, <1>4, <1>5, <1>6, <1>7, <1>8, <1>9 DEF Step

\* The node another thread links is not moved, nor written where it is not
\* on the list yet.
LEMMA LinkingOther ==
    ASSUME IInv, HeldInv, ListInv, NEW t \in Threads, Invoke(t) \/ Step(t),
           NEW u \in Threads, u # t
    PROVE  LinkingInv(u)'
<1>1. SUFFICES ASSUME pc'[u] \in {"link", "publish"}, NEW l \in Level, l >= top'[node'[u]]
               PROVE  /\ node'[u] \in Listed(l)' <=> Rewritten(u, l)'
                      /\ ~Rewritten(u, l)' => nxt'[node'[u]][l] = after'[u][l]
  BY DEF LinkingInv
<1>2. SameLocals(u) /\ Guarantee(t)
  BY StepLocals, StepGuarantee DEF IInv
<1>3. /\ pc[u] \in {"link", "publish"} /\ node'[u] = node[u] /\ after'[u] = after[u]
      /\ Rewritten(u, l)' <=> Rewritten(u, l)
  BY <1>1, <1>2 DEF SameLocals, Rewritten
<1>4. /\ node[u] \in Built /\ node[u] # NoNode /\ node[u] # node[t]
      /\ node[u] \notin fully_linked /\ node[u] \notin marked
      /\ top'[node[u]] = top[node[u]]
  <2>1. /\ node[u] \in Built /\ node[u] # NoNode /\ node[u] # node[t] /\ ~took[u]
    BY <1>3 DEF IInv, ThreadInv, NodeInv, ControlInv
  <2>2. node[u] \notin fully_linked /\ node[u] \notin marked
    BY <2>1 DEF HeldInv, LinkedInv
  <2>3. QED BY <1>2, <2>1, <2>2 DEF Guarantee, KeepsOthers, KeepsNode
<1>5. /\ node[u] \in Listed(l) <=> Rewritten(u, l)
      /\ ~Rewritten(u, l) => nxt[node[u]][l] = after[u][l]
  BY <1>1, <1>3, <1>4 DEF ListInv, ShapeInv, LinkingInv
<1>6. node[u] \in Listed(l)' <=> node[u] \in Listed(l)
  BY <1>4, ListsGoOn
<1>7. ~Rewritten(u, l) => nxt'[node[u]][l] = nxt[node[u]][l]
  BY <1>4, <1>5, WrittenPointer
<1>8. QED
  BY <1>3, <1>5, <1>6, <1>7

LEMMA LinkingOwn ==
    ASSUME IInv, HeldInv, ListInv, NEW t \in Threads, Invoke(t) \/ Step(t)
    PROVE  LinkingInv(t)'
<1>1. SUFFICES ASSUME pc'[t] \in {"link", "publish"}, NEW l \in Level, l >= top'[node'[t]]
               PROVE  /\ node'[t] \in Listed(l)' <=> Rewritten(t, l)'
                      /\ ~Rewritten(t, l)' => nxt'[node'[t]][l] = after'[t][l]
  BY DEF LinkingInv
<1>2. CASE Fill(t)
  <2>1. /\ node' = node /\ top' = top /\ after' = after /\ level' = level
        /\ pc'[t] = "link" /\ level[t] = Bottom /\ IsPut(t) /\ node[t] \notin Built
        /\ node[t] \in heap
    BY <1>2, FillFacts DEF Fill, search, HeldInv, LevelsInv
  <2>2. ~Rewritten(t, l)' /\ l >= LevelTo(t)
    BY <1>1, <2>1 DEF Rewritten, LevelTo, IsPut
  <2>3. node[t] \notin Listed(l)
    <3>1. PICK L : L = Listed(l) /\ IsList(l, L)
      BY DEF ListInv, ShapeInv
    <3>2. node[t] # Tail
      BY <2>1 DEF IInv, TypeOK
    <3>3. QED BY <2>1, <3>1, <3>2, ListFacts
  <2>4. node[t] \notin Listed(l)'
    <3>1. ~Link(t)
      BY <1>2 DEF Fill, Link
    <3>2. QED BY <2>3, <3>1, ListsGoOn
  <2>5. QED BY <1>2, <2>1, <2>2, <2>4, FillFacts
<1>3. CASE Link(t)
  <2>1. /\ LinkingInv(t) /\ pc[t] = "link" /\ op[t] # "remove" /\ node[t] \in Built
    BY <1>3 DEF ListInv, ShapeInv, IInv, ThreadInv, ControlInv, NodeInv, IsPut, Link
  <2>2. /\ UNCHANGED <<top, node, search>> /\ level[t] \in Level
        /\ \/ pc' = pc /\ level'[t] = level[t] - 1
           \/ pc'[t] = "publish" /\ level[t] = LevelTo(t)
        /\ \A m \in Level : m # level[t] => nxt'[node[t]][m] = nxt[node[t]][m]
    BY <1>3, <2>1, RedirectFacts, NodeFacts DEF IInv
  <2>3. LevelTo(t) = top[node[t]] /\ l >= top[node[t]] /\ top[node[t]] \in Level
    BY <1>1, <2>1, <2>2, NodeFacts DEF LevelTo, IInv
  <2>4. Rewritten(t, l)' <=> Rewritten(t, l) \/ l = level[t]
    BY <2>1, <2>2, <2>3 DEF Rewritten
  <2>5. node[t] \in Listed(l)' <=> node[t] \in Listed(l) \/ l = level[t]
    <3>1. ~Unlink(t)
      BY <2>1 DEF Unlink
    <3>2. QED BY <1>3, <3>1, ListsStep DEF ListsGrow
  <2>6. /\ node[t] \in Listed(l) <=> Rewritten(t, l)
        /\ ~Rewritten(t, l) => nxt[node[t]][l] = after[t][l]
    BY <2>1, <2>3 DEF LinkingInv
  <2>7. ~Rewritten(t, l)' => nxt'[node[t]][l] = after[t][l]
    BY <2>2, <2>4, <2>6
  <2>8. QED BY <2>2, <2>4, <2>5, <2>6, <2>7 DEF search
<1>4. QED
  BY <1>1, <1>2, <1>3, LinkingSteps

\* Every step starts a search, goes on with one, or leaves what it has found.
SearchStep(t) == FindRight(t) \/ FindDown(t) \/ FindHit(t) \/ FindAfter(t)

LEMMA SearchSteps ==
    ASSUME IInv, NEW t \in Threads, Invoke(t) \/ Step(t)
    PROVE  \/ StartFind(t)
           \/ SearchStep(t)
           \/ /\ ~Searching(t)'
              /\ Searched(t)' => /\ Searched(t) /\ before'[t] = before[t]
                                 /\ found'[t] = found[t]
<1>1. pc \in [Threads -> PCs] /\ before' \in [Threads -> [Level -> Node \cup {NoNode}]]
  BY StepInv DEF IInv, TypeOK
<1> USE DEF Goto, Answer, Searching, Searched, search
<1>2. CASE Invoke(t) \/ Return(t)
  BY <1>1, <1>2 DEF Invoke, Return
<1>3. CASE UnlockElement(t) \/ PutDone(t)
  BY <1>1, <1>3 DEF UnlockElement, PutDone
<1>4. CASE LookupFound(t) \/ LookupMarked(t) \/ LookupElement(t)
  BY <1>1, <1>4 DEF LookupFound, LookupMarked, LookupElement
<1>5. CASE LockPred(t) \/ UnlockPred(t)
  BY <1>1, <1>5 DEF LockPred, UnlockPred
<1>6. CASE CheckFails(t) \/ CheckNext(t) \/ CheckDone(t)
  BY <1>1, <1>6 DEF CheckFails, CheckNext, CheckDone
<1>7. CASE PutAbsent(t) \/ PutFound(t) \/ PutNewFound(t) \/ PutNewDone(t)
  BY <1>1, <1>7 DEF PutAbsent, PutFound, PutNewFound, PutNewDone, StartLocking
<1>8. CASE Fill(t) \/ Publish(t)
  BY <1>1, <1>8 DEF Fill, Publish
<1>9. CASE Link(t) \/ Unlink(t)
  BY <1>1, <1>9 DEF Link, Unlink, NextLevelUp
<1>10. CASE WaitLinked(t) \/ LockElement(t) \/ LostRace(t) \/ PutOver(t)
  BY <1>1, <1>10 DEF WaitLinked, LockElement, LostRace, PutOver, StartLocking
<1>11. CASE RemoveMark(t) \/ RemoveFound(t) \/ RemoveUnlocked(t)
  BY <1>1, <1>11 DEF RemoveMark, RemoveFound, RemoveUnlocked, StartLocking
<1>12. QED
  BY <1>2, <1>3, <1>4, <1>5, <1>6, <1>7, <1>8, <1>9, <1>10, <1>11 DEF Step, SearchStep

\* What a predecessor found earlier is: on its list, or marked.
OnOrMarked(n, l) == n \in Listed(l) \cup marked

LEMMA OnOrMarkedStep ==
    ASSUME IInv, HeldInv, ListInv, NEW t \in Threads, Invoke(t) \/ Step(t),
           NEW n, NEW l \in Level, OnOrMarked(n, l)
    PROVE  OnOrMarked(n, l)'
<1>1. QED
  BY ListsGoOn DEF OnOrMarked

LEMMA PredsSearch ==
    ASSUME IInv, HeldInv, ListInv, NEW t \in Threads, SearchStep(t)
    PROVE  PredsInv(t)'
<1>1. /\ TypeOK /\ PredsInv(t) /\ Searching(t) /\ level[t] \in Level /\ prev[t] \in Built
      /\ prev[t] # Tail /\ level[t] >= top[prev[t]] /\ (Invoke(t) \/ Step(t))
  <2>1. TypeOK /\ PredsInv(t) /\ Searching(t) /\ level[t] \in Level /\ (Invoke(t) \/ Step(t))
    BY DEF IInv, TypeOK, ListInv, ShapeInv, SearchStep, FindRight, FindDown, FindHit,
           FindAfter, Searching, Step
  <2>2. prev[t] \in Built /\ top[prev[t]] <= level[t]
    BY <2>1 DEF IInv, ThreadInv, SearchInv, IsBefore
  <2>3. QED BY <2>1, <2>2, NodeFacts DEF IInv
<1>2. /\ OnOrMarked(prev[t], level[t])
      /\ \A l \in Level : l < level[t] => OnOrMarked(before[t][l], l)
  BY <1>1 DEF PredsInv, OnOrMarked
<1>3. \A n : \A l \in Level : OnOrMarked(n, l) => OnOrMarked(n, l)'
  BY <1>1, OnOrMarkedStep
<1>4. CASE FindRight(t)
  <2>1. /\ prev'[t] = nxt[prev[t]][level[t]]
        /\ UNCHANGED <<pc, level, before>> /\ Searching(t)
    BY <1>1, <1>4 DEF FindRight, Ahead, TypeOK
  <2>2. OnOrMarked(nxt[prev[t]][level[t]], level[t])
    BY <1>1 DEF ListInv, ShapeInv, Leads, OnOrMarked
  <2>3. PICK n : n = nxt[prev[t]][level[t]]
    OBVIOUS
  <2>4. PICK k \in Level : k = level[t]
    BY <1>1
  <2>5. OnOrMarked(n, k)'
    BY <1>3, <2>2, <2>3, <2>4
  <2>6. \A l \in Level : l < k => before[t][l] \in Listed(l)' \cup marked'
    BY <1>2, <1>3, <2>4 DEF OnOrMarked
  <2>7. QED BY <1>1, <2>1, <2>3, <2>4, <2>5, <2>6 DEF PredsInv, Searching, Searched, OnOrMarked
<1>5. CASE FindHit(t)
  <2>1. UNCHANGED <<prev, level, before>> /\ pc'[t] = "after"
    BY <1>1, <1>5 DEF FindHit, Goto, TypeOK
  <2>2. PICK n : n = prev[t]
    OBVIOUS
  <2>3. PICK k \in Level : k = level[t]
    BY <1>1
  <2>4. OnOrMarked(n, k)' /\ \A l \in Level : l < k => before[t][l] \in Listed(l)' \cup marked'
    BY <1>2, <1>3, <2>2, <2>3 DEF OnOrMarked
  <2>5. QED BY <1>1, <2>1, <2>2, <2>3, <2>4 DEF PredsInv, Searching, Searched, OnOrMarked
<1>6. CASE FindDown(t) \/ FindAfter(t)
  <2>1. PICK n : n = prev[t]
    OBVIOUS
  <2>2. PICK k \in Level : k = level[t]
    BY <1>1
  <2>3. /\ prev' = prev
        /\ \A l \in Level : before'[t][l] = IF l = k THEN n ELSE before[t][l]
    BY <1>1, <1>6, <2>1, <2>2 DEF FindDown, FindAfter, TypeOK
  <2>4. \/ k = Bottom /\ pc'[t] = "found"
        \/ k # Bottom /\ pc'[t] = "find" /\ level'[t] = k + 1
    BY <1>1, <1>6, <2>2 DEF FindDown, FindAfter, Descend, Goto, TypeOK
  <2>5. OnOrMarked(n, k)' /\ \A l \in Level : l < k => before[t][l] \in Listed(l)' \cup marked'
    BY <1>2, <1>3, <2>1, <2>2 DEF OnOrMarked
  <2>6. \A l \in Level : l <= k => before'[t][l] \in Listed(l)' \cup marked'
    BY <2>2, <2>3, <2>5 DEF OnOrMarked
  <2>7. CASE k = Bottom
    <3>1. ~Searching(t)'
      BY <2>4, <2>7 DEF Searching
    <3>2. QED BY <2>6, <2>7, <3>1 DEF PredsInv
  <2>8. CASE k # Bottom
    <3>1. k + 1 \in Level /\ level'[t] = k + 1 /\ pc'[t] = "find"
      BY <2>4, <2>8
    <3>2. OnOrMarked(n, k + 1)
      <4>1. n \in marked \/ n \in Listed(k)
        BY <1>2, <2>1, <2>2 DEF OnOrMarked
      <4>2. n \in Listed(k) => n \in Listed(k + 1) \cup marked
        BY <1>1, <2>1, <3>1, Downward DEF ListInv
      <4>3. QED BY <4>1, <4>2 DEF OnOrMarked
    <3>3. PICK j \in Level : j = k + 1
      BY <3>1
    <3>4. OnOrMarked(n, j)'
      BY <1>3, <3>2, <3>3
    <3>5. QED
      BY <2>1, <2>3, <2>6, <3>1, <3>3, <3>4 DEF PredsInv, Searching, Searched, OnOrMarked
  <2>9. QED BY <2>7, <2>8
<1>7. QED
  BY <1>4, <1>5, <1>6 DEF SearchStep

LEMMA PredsStep ==
    ASSUME IInv, HeldInv, ListInv, NEW t \in Threads, Invoke(t) \/ Step(t), NEW u \in Threads
    PROVE  PredsInv(u)'
<1>1. \A n : \A l \in Level : OnOrMarked(n, l) => OnOrMarked(n, l)'
  BY OnOrMarkedStep
<1>2. PredsInv(u) /\ level[u] \in Level
  BY DEF ListInv, ShapeInv, IInv, TypeOK
<1>3. CASE u # t
  <2>1. SameLocals(u)
    BY <1>3, StepLocals DEF IInv
  <2>2. PICK n : n = prev[u]
    OBVIOUS
  <2>3. PICK b : b = before[u]
    OBVIOUS
  <2>4. PICK k \in Level : k = level[u]
    BY <1>2
  <2>5. /\ Searching(u) => OnOrMarked(n, k) /\ \A l \in Level : l < k => OnOrMarked(b[l], l)
        /\ Searched(u) => \A l \in Level : OnOrMarked(b[l], l)
    BY <1>2, <2>2, <2>3, <2>4 DEF PredsInv, OnOrMarked
  <2>6. Searching(u) =>
          OnOrMarked(n, k)' /\ \A l \in Level : l < k => b[l] \in Listed(l)' \cup marked'
    BY <1>1, <2>5 DEF OnOrMarked
  <2>7. Searched(u) => \A l \in Level : b[l] \in Listed(l)' \cup marked'
    BY <1>1, <2>5 DEF OnOrMarked
  <2>8. QED
    BY <2>1, <2>2, <2>3, <2>4, <2>6, <2>7 DEF SameLocals, PredsInv, Searching, Searched, OnOrMarked
<1>4. CASE u = t /\ StartFind(t)
  <2>1. prev'[t] = Head /\ level'[t] = 0 /\ pc'[t] = "find" /\ 0 \in Level
    BY <1>4 DEF StartFind, Goto, IInv, TypeOK
  <2>2. PICK k \in Level : k = 0
    BY <2>1
  <2>3. PICK L : L = Listed(k) /\ IsList(k, L)
    BY DEF ListInv, ShapeInv
  <2>4. OnOrMarked(Head, k)'
    BY <1>1, <2>3, ListFacts DEF OnOrMarked
  <2>5. \A l \in Level : ~(l < k)
    BY <2>2
  <2>6. QED BY <1>4, <2>1, <2>2, <2>4, <2>5 DEF PredsInv, Searching, Searched, OnOrMarked
<1>5. CASE u = t /\ SearchStep(t)
  BY <1>5, PredsSearch
<1>6. CASE /\ u = t /\ ~Searching(t)'
           /\ Searched(t)' => Searched(t) /\ before'[t] = before[t] /\ found'[t] = found[t]
  <2>1. PICK b : b = before[t]
    OBVIOUS
  <2>2. Searched(t) => \A l \in Level : OnOrMarked(b[l], l)
    BY <1>2, <1>6, <2>1 DEF PredsInv, OnOrMarked
  <2>3. Searched(t) => \A l \in Level : b[l] \in Listed(l)' \cup marked'
    BY <1>1, <2>2 DEF OnOrMarked
  <2>4. QED BY <1>6, <2>1, <2>3 DEF PredsInv
<1>7. QED
  BY <1>3, <1>4, <1>5, <1>6, SearchSteps

LEMMA ShapePreserved ==
    ASSUME IInv, HeldInv, ListInv, NEW t \in Threads, Invoke(t) \/ Step(t)
    PROVE  ShapeInv'
<1>1. \A u \in Threads : LinkingInv(u)' /\ PredsInv(u)'
  BY LinkingOther, LinkingOwn, PredsStep
<1>2. \A l \in Level : IsList(l, Listed(l))'
  BY ListsStep
<1>3. QED
  BY <1>1, <1>2, LiveStep, LeadsStep DEF ShapeInv

-----------------------------------------------------------------------------
(* The node a removal has marked.                                          *)

\* Where a thread is that has marked a node and has not unlinked it yet.
LEMMA PendingFacts ==
    ASSUME IInv, HeldInv, NEW t \in Threads, Pending(t)
    PROVE  /\ op[t] = "remove" /\ took[t]
           /\ \/ pc[t] \in {"find", "after", "found", "lockelem"}
              \/ pc[t] \in {"lock", "check", "unlink"} /\ valid[t] /\ LevelTo(t) = top[found[t]]
              \/ pc[t] \in {"unlock", "unlockelem"} /\ ~valid[t]
<1>1. /\ ControlInv(t) /\ LinkedInv(t) /\ pc[t] \in PCs
      /\ op[t] = "remove" /\ took[t] /\ pc[t] # "return"
      /\ ~(pc[t] \in {"unlock", "unlockelem"} /\ valid[t])
  BY DEF IInv, ThreadInv, TypeOK, HeldInv, Pending
<1>2. pc[t] \notin {"idle", "wait", "locked", "fill", "link", "publish",
                    "read_marked", "read_element"}
  BY <1>1 DEF ControlInv, LinkedInv, IsPut, ReadOp
<1>3. pc[t] \in {"lock", "check", "unlink"} => valid[t] /\ LevelTo(t) = top[found[t]]
  BY <1>1 DEF ControlInv, LevelTo
<1>4. QED
  BY <1>1, <1>2, <1>3 DEF PCs

\* It is one node: before the search has come to it, it is on the bottom list.
OneVictim ==
    \A t \in Threads : Pending(t) =>
        \A m, n : VictimOf(t, m) /\ VictimOf(t, n) => m = n

LEMMA VictimIsOne == IInv /\ HeldInv /\ ShapeInv => OneVictim
<1>1. SUFFICES ASSUME IInv, HeldInv, ShapeInv, NEW t \in Threads, Pending(t), NEW m, NEW n,
                      VictimOf(t, m), VictimOf(t, n)
               PROVE  m = n
  BY DEF OneVictim
<1>2. CASE pc[t] = "find"
  <2>1. /\ Bottom \in Level /\ m \in Built /\ n \in Built
        /\ Bottom >= top[m] /\ Bottom >= top[n]
    BY <1>1, NodeFacts DEF IInv, HeapInv, VictimOf
  <2>2. m \in Listed(Bottom) /\ n \in Listed(Bottom) /\ KeyAt[m] = KeyAt[n]
    BY <1>1, <1>2, <2>1 DEF VictimOf
  <2>3. PICK L : L = Listed(Bottom) /\ IsList(Bottom, L)
    BY <1>1, <2>1 DEF ShapeInv
  <2>4. QED BY <1>1, <2>1, <2>2, <2>3, ListFacts
<1>3. CASE pc[t] # "find"
  <2>1. Searched(t) \/ pc[t] = "after"
    BY <1>1, <1>3, PendingFacts DEF Searched
  <2>2. QED BY <1>1, <2>1 DEF VictimOf
<1>4. QED
  BY <1>2, <1>3

LEMMA VictimIsOneNext == IInv' /\ HeldInv' /\ ShapeInv' => OneVictim'
<1>1. QED
  BY VictimIsOne, PTL

\* Before it unlinks it, its remover finds it on the bottom list.
LEMMA VictimFacts ==
    ASSUME IInv, HeldInv, ListInv, NEW t \in Threads, Pending(t), NEW n, VictimOf(t, n)
    PROVE  /\ n \in marked /\ n \in Built /\ n \in fully_linked /\ KeyAt[n] = key[t]
           /\ top[n] \in Level /\ Bottom \in Level /\ Bottom >= top[n]
           /\ pc[t] # "unlink" => n \in Listed(Bottom)
           /\ Searching(t) => OnTrack(t, n)
<1>1. /\ n \in marked /\ n \in Built /\ n \in fully_linked /\ KeyAt[n] = key[t]
      /\ top[n] \in Level /\ Bottom \in Level /\ Bottom >= top[n]
  BY NodeFacts DEF IInv, HeapInv, HeldInv, VictimOf
<1>2. pc[t] # "unlink" => n \in Listed(Bottom)
  BY <1>1 DEF VictimOf
<1>3. PICK m : VictimOf(t, m) /\ (Searching(t) => OnTrack(t, m))
  BY DEF ListInv, HasVictim
<1>4. m = n
  BY <1>3, VictimIsOne DEF OneVictim, ListInv
<1>5. QED
  BY <1>1, <1>2, <1>3, <1>4

\* What every step leaves of a marked node.
LEMMA MarkedStep ==
    ASSUME IInv, HeldInv, ListInv, NEW t \in Threads, Invoke(t) \/ Step(t), NEW n \in marked
    PROVE  /\ n \in marked' /\ KeyAt'[n] = KeyAt[n] /\ element'[n] = element[n]
           /\ top'[n] = top[n]
           /\ \A l \in Level : n \in Listed(l)' <=>
                n \in Listed(l) /\ ~(Unlink(t) /\ l = level[t] /\ n = found[t])
<1>1. n \in fully_linked /\ n \in Built
  BY DEF HeldInv, IInv, HeapInv
<1>2. element'[n] = element[n]
  BY <1>1, WriteFacts
<1>3. n \in marked' /\ KeyAt'[n] = KeyAt[n] /\ top'[n] = top[n]
  BY <1>1, StepGuarantee DEF Guarantee, KeepsOthers, KeepsBuilt, KeepsNode
<1>4. Link(t) => n # node[t]
  <2>1. SUFFICES ASSUME Link(t) PROVE n # node[t]
    OBVIOUS
  <2>2. ControlInv(t) /\ LinkedInv(t) /\ pc[t] = "link"
    BY <2>1 DEF Link, HeldInv, IInv, ThreadInv
  <2>3. node[t] # NoNode /\ ~took[t]
    BY <2>2 DEF ControlInv
  <2>4. QED BY <1>1, <2>2, <2>3 DEF LinkedInv
<1>5. ~(Link(t) /\ Unlink(t))
  BY DEF Link, Unlink
<1>6. QED
  BY <1>2, <1>3, <1>4, <1>5, ListsStep DEF ListsKept, ListsGrow, ListsShrink

\* The other removals still have theirs after a step.
LEMMA VictimOther ==
    ASSUME IInv, HeldInv, ListInv, NEW t \in Threads, Invoke(t) \/ Step(t),
           NEW u \in Threads, u # t
    PROVE  /\ Pending(u)' <=> Pending(u)
           /\ Pending(u) => \A n : VictimOf(u, n) => VictimOf(u, n)'
<1>1. SameLocals(u) /\ result'[u] = result[u]
  BY StepLocals DEF IInv
<1>2. Pending(u)' <=> Pending(u)
  BY <1>1 DEF SameLocals, Pending
<1>3. ASSUME Pending(u), NEW n, VictimOf(u, n) PROVE VictimOf(u, n)'
  <2>1. n \in marked
    BY <1>3 DEF VictimOf
  <2>2. ~(Unlink(t) /\ n = found[t])
    <3>1. SUFFICES ASSUME Unlink(t), n = found[t] PROVE FALSE
      OBVIOUS
    <3>2. Pending(t) /\ VictimOf(t, n)
      BY <3>1, UnlinkedVictim DEF Unlink
    <3>3. QED BY <1>3, <2>1, <3>2 DEF ListInv, OneRemover
  <2>3. /\ n \in marked' /\ KeyAt'[n] = KeyAt[n] /\ element'[n] = element[n]
        /\ top'[n] = top[n] /\ \A l \in Level : n \in Listed(l)' <=> n \in Listed(l)
    BY <2>1, <2>2, MarkedStep
  <2>4. QED BY <1>1, <1>3, <2>3 DEF VictimOf, SameLocals, Searched, Rewritten
<1>4. QED
  BY <1>2, <1>3

-----------------------------------------------------------------------------
(* A step of the removal itself.                                           *)

\* Marking a node is how a removal comes to have one.
LEMMA PendingSteps ==
    ASSUME IInv, HeldInv, NEW t \in Threads, Invoke(t) \/ Step(t), Pending(t)'
    PROVE  RemoveMark(t) \/ Pending(t)
<1>1. TypeOK /\ ControlInv(t) /\ LinkedInv(t)
  BY DEF IInv, ThreadInv, HeldInv
<1> USE DEF Goto, Answer, Pending, request, search
<1>2. CASE Invoke(t) \/ Return(t)
  BY <1>1, <1>2 DEF Invoke, Return, StartFind, TypeOK, ControlInv
<1>3. CASE FindRight(t) \/ FindDown(t) \/ FindHit(t) \/ FindAfter(t)
  BY <1>1, <1>3 DEF FindRight, FindDown, FindHit, FindAfter
<1>4. CASE LookupFound(t) \/ LookupMarked(t) \/ LookupElement(t)
  BY <1>1, <1>4 DEF LookupFound, LookupMarked, LookupElement
<1>5. CASE LockPred(t) \/ UnlockPred(t)
  BY <1>1, <1>5 DEF LockPred, UnlockPred
<1>6. CASE CheckFails(t) \/ CheckNext(t) \/ CheckDone(t)
  BY <1>1, <1>6 DEF CheckFails, CheckNext, CheckDone
<1>7. CASE PutAbsent(t) \/ PutFound(t) \/ PutNewFound(t) \/ PutDone(t) \/ PutNewDone(t)
  BY <1>1, <1>7 DEF PutAbsent, PutFound, PutNewFound, PutDone, PutNewDone
<1>8. CASE Fill(t) \/ Publish(t) \/ Link(t)
  BY <1>1, <1>8 DEF Fill, Publish, Link, ControlInv, IsPut
<1>9. CASE Unlink(t)
  BY <1>1, <1>9 DEF Unlink
<1>10. CASE WaitLinked(t) \/ LockElement(t) \/ LostRace(t)
  BY <1>1, <1>10 DEF WaitLinked, LockElement, LostRace, LinkedInv
<1>11. CASE PutOver(t)
  BY <1>1, <1>11 DEF PutOver
<1>12. CASE RemoveFound(t) \/ RemoveUnlocked(t)
  <2>1. op' = op /\ took' = took /\ valid' = valid /\ op[t] = "remove"
    BY <1>12 DEF RemoveFound, RemoveUnlocked
  <2>2. CASE RemoveFound(t)
    BY <2>1, <2>2 DEF RemoveFound
  <2>3. CASE RemoveUnlocked(t)
    <3>1. pc[t] = "unlock" /\ pc' = [pc EXCEPT ![t] = "unlockelem"]
      BY <2>3 DEF RemoveUnlocked
    <3>2. pc'[t] = "unlockelem"
      BY <1>1, <3>1 DEF TypeOK
    <3>3. QED BY <2>1, <3>1, <3>2
  <2>4. QED BY <1>12, <2>2, <2>3
<1>13. CASE UnlockElement(t)
  <2>1. op'[t] = op[t] /\ took'[t] = took[t]
    BY <1>13 DEF UnlockElement
  <2>2. Finished(t) => pc'[t] = "return"
    BY <1>1, <1>13 DEF UnlockElement, TypeOK
  <2>3. pc[t] = "unlockelem" /\ ~Finished(t)
    BY <1>13, <2>2 DEF UnlockElement
  <2>4. QED BY <2>1, <2>3 DEF Finished
<1>14. QED
  BY <1>2, <1>3, <1>4, <1>5, <1>6, <1>7, <1>8, <1>9, <1>10, <1>11, <1>12, <1>13 DEF Step

\* A removal that has marked its node goes on until it has unlinked it: it
\* searches, locks, fails to validate and searches again.
GoesOn(t) ==
    /\ Pending(t)' /\ key'[t] = key[t] /\ result'[t] = result[t]
    /\ pc[t] # "unlink" /\ pc'[t] # "after"
    /\ pc'[t] = "unlink" => level'[t] = Bottom
    /\ Searched(t)' => Searched(t) /\ found'[t] = found[t]

LEMMA PendingGoesOn ==
    ASSUME IInv, HeldInv, NEW t \in Threads, Invoke(t) \/ Step(t), Pending(t),
           pc[t] = "found" => found[t] # NoNode
    PROVE  SearchStep(t) \/ Unlink(t) \/ GoesOn(t)
<1>1. /\ TypeOK /\ op[t] = "remove" /\ took[t]
      /\ \/ pc[t] \in {"find", "after", "found", "lockelem"}
         \/ pc[t] \in {"lock", "check", "unlink"} /\ valid[t]
         \/ pc[t] \in {"unlock", "unlockelem"} /\ ~valid[t]
  BY PendingFacts DEF IInv
<1> USE DEF Goto, Answer, GoesOn, request, search
<1>2. CASE Invoke(t) \/ Return(t)
  BY <1>1, <1>2 DEF Invoke, Return
<1>3. CASE FindRight(t) \/ FindDown(t) \/ FindHit(t) \/ FindAfter(t)
  BY <1>3 DEF SearchStep
<1>4. CASE LookupFound(t) \/ LookupMarked(t) \/ LookupElement(t)
  BY <1>1, <1>4 DEF LookupFound, LookupMarked, LookupElement, ReadOp
<1>5. CASE LockPred(t) \/ UnlockPred(t)
  BY <1>1, <1>5 DEF LockPred, UnlockPred, Pending, Searched, TypeOK
<1>6. CASE CheckFails(t) \/ CheckNext(t) \/ CheckDone(t)
  BY <1>1, <1>6 DEF CheckFails, CheckNext, CheckDone, Pending, Searched, TypeOK
<1>7. CASE PutAbsent(t) \/ PutFound(t) \/ PutNewFound(t) \/ PutDone(t) \/ PutNewDone(t)
  BY <1>1, <1>7 DEF PutAbsent, PutFound, PutNewFound, PutDone, PutNewDone
<1>8. CASE Fill(t) \/ Publish(t) \/ Link(t)
  BY <1>1, <1>8 DEF Fill, Publish, Link
<1>9. CASE WaitLinked(t) \/ LostRace(t) \/ PutOver(t) \/ RemoveMark(t)
  BY <1>1, <1>9 DEF WaitLinked, LostRace, PutOver, RemoveMark
<1>10. CASE LockElement(t)
  BY <1>1, <1>10 DEF LockElement, StartLocking, Pending, Searched, TypeOK
<1>11. CASE RemoveFound(t)
  <2>1. /\ pc' = [pc EXCEPT ![t] = "lockelem"] /\ pc[t] = "found"
        /\ UNCHANGED <<op, key, took, valid, result, found>>
    BY <1>1, <1>11 DEF RemoveFound
  <2>2. pc'[t] = "lockelem"
    BY <1>1, <2>1 DEF TypeOK
  <2>3. QED BY <1>1, <2>1, <2>2 DEF Pending, Searched
<1>12. CASE RemoveUnlocked(t)
  <2>1. /\ pc' = [pc EXCEPT ![t] = "unlockelem"] /\ pc[t] = "unlock"
        /\ UNCHANGED <<op, key, took, valid, result, found>>
    BY <1>12 DEF RemoveUnlocked
  <2>2. pc'[t] = "unlockelem"
    BY <1>1, <2>1 DEF TypeOK
  <2>3. QED BY <1>1, <2>1, <2>2 DEF Pending, Searched
<1>13. CASE UnlockElement(t)
  <2>1. /\ pc[t] = "unlockelem" /\ ~Finished(t) /\ StartFind(t)
        /\ UNCHANGED <<op, key, took, valid, result>>
    BY <1>1, <1>13 DEF UnlockElement, Finished
  <2>2. pc'[t] = "find"
    BY <1>1, <2>1 DEF StartFind, TypeOK
  <2>3. QED BY <1>1, <2>1, <2>2 DEF Pending, Searched
<1>14. QED
  BY <1>2, <1>3, <1>4, <1>5, <1>6, <1>7, <1>8, <1>9, <1>10, <1>11, <1>12, <1>13 DEF Step

\* Its search finds it.
LEMMA VictimSearch ==
    ASSUME IInv, HeldInv, ListInv, NEW t \in Threads, SearchStep(t), Pending(t),
           NEW n, VictimOf(t, n)
    PROVE  Pending(t)' /\ VictimOf(t, n)'
<1>1. TypeOK /\ pc[t] \in {"find", "after"} /\ Step(t) /\ level[t] \in Level
  BY DEF IInv, TypeOK, SearchStep, FindRight, FindDown, FindHit, FindAfter, Step
<1>2. /\ n \in marked /\ n \in Built /\ KeyAt[n] = key[t] /\ n \in Listed(Bottom)
      /\ Bottom \in Level /\ top[n] \in Level /\ OnTrack(t, n)
  BY <1>1, VictimFacts DEF Searching
<1>3. /\ n \in marked' /\ KeyAt'[n] = KeyAt[n] /\ element'[n] = element[n] /\ top'[n] = top[n]
      /\ \A l \in Level : n \in Listed(l)' <=> n \in Listed(l)
  <2>1. ~Unlink(t)
    BY <1>1 DEF Unlink
  <2>2. QED BY <1>1, <1>2, <2>1, MarkedStep
<1>4. /\ prev[t] \in Built /\ prev[t] # Tail /\ level[t] >= top[prev[t]]
      /\ KeyAt[prev[t]] < key[t] /\ KeyAt[n] \in Int
  <2>1. IsBefore(t, prev[t], level[t])
    BY <1>1 DEF IInv, ThreadInv, SearchInv, Searching
  <2>2. QED BY <1>2, <2>1, NodeFacts DEF IsBefore, IInv
<1>5. PICK S \in SUBSET (Built \cup {Tail}) : prev[t] \in S /\ Track(S) /\ Finds(S, n)
  BY <1>2 DEF OnTrack
<1>6. UNCHANGED <<op, key, took, valid, result>> /\ pc'[t] \in {"find", "after", "found"}
  BY <1>1 DEF SearchStep, FindRight, FindDown, FindHit, FindAfter, Descend, Goto, request,
              TypeOK
<1>7. pc'[t] \in {"after", "found"} => found'[t] = n
  <2>1. CASE FindRight(t)
    BY <1>1, <2>1 DEF FindRight
  <2>2. CASE FindDown(t)
    <3>1. SUFFICES ASSUME level[t] = Bottom PROVE FALSE
      BY <1>1, <2>2 DEF FindDown, Descend, Goto, TypeOK
    <3>2. KeyAt[nxt[prev[t]][Bottom]] <= KeyAt[n]
      BY <1>2, <1>4, <1>5 DEF Finds
    <3>3. KeyAt[nxt[prev[t]][Bottom]] > KeyAt[n]
      BY <1>2, <2>2, <3>1 DEF FindDown, Ahead
    <3>4. KeyAt[nxt[prev[t]][Bottom]] \in Int
      <4>1. nxt[prev[t]][Bottom] \in Built \cup {Tail}
        BY <1>1, <1>4, <3>1 DEF IInv, Sorted
      <4>2. QED BY <4>1, NodeFacts DEF IInv
    <3>5. QED BY <1>4, <3>2, <3>3, <3>4
  <2>3. CASE FindHit(t)
    <3>1. found'[t] = nxt[prev[t]][level[t]] /\ KeyAt[nxt[prev[t]][level[t]]] = key[t]
      BY <1>1, <2>3 DEF FindHit, Ahead, TypeOK
    <3>2. nxt[prev[t]][level[t]] \in S
      BY <1>1, <1>4, <1>5 DEF Track
    <3>3. nxt[prev[t]][level[t]] = n
      BY <1>2, <1>5, <3>1, <3>2 DEF Finds
    <3>4. QED BY <3>1, <3>3
  <2>4. CASE FindAfter(t)
    <3>1. pc[t] = "after" /\ found' = found
      BY <2>4 DEF FindAfter
    <3>2. QED BY <3>1 DEF VictimOf
  <2>5. QED BY <2>1, <2>2, <2>3, <2>4 DEF SearchStep
<1>8. Pending(t)'
  BY <1>6 DEF Pending
<1>9. VictimOf(t, n)'
  BY <1>1, <1>3, <1>6, <1>7 DEF VictimOf, Searched
<1>10. QED
  BY <1>8, <1>9

\* It unlinks it from one list after the other, and is done after the last.
LEMMA VictimUnlink ==
    ASSUME IInv, HeldInv, ListInv, NEW t \in Threads, Unlink(t), Pending(t),
           NEW n, VictimOf(t, n)
    PROVE  \/ Pending(t)' /\ VictimOf(t, n)'
           \/ ~Pending(t)' /\ \A l \in Level : n \notin Listed(l)'
<1>1. /\ TypeOK /\ pc[t] = "unlink" /\ Step(t) /\ Searched(t) /\ found[t] = n
      /\ n \in marked /\ n \in Built /\ LevelTo(t) = top[n] /\ top[n] \in Level
      /\ valid[t] /\ op[t] = "remove" /\ took[t]
  <2>1. TypeOK /\ pc[t] = "unlink" /\ Step(t) /\ Searched(t)
    BY DEF IInv, Unlink, Searched, Step
  <2>2. found[t] = n
    BY <2>1 DEF VictimOf
  <2>3. QED BY <2>1, <2>2, VictimFacts, PendingFacts
<1>2. /\ n \in marked' /\ KeyAt'[n] = KeyAt[n] /\ element'[n] = element[n] /\ top'[n] = top[n]
      /\ \A l \in Level : n \in Listed(l)' <=> n \in Listed(l) /\ l # level[t]
  BY <1>1, MarkedStep
<1>3. /\ UNCHANGED <<op, key, took, valid, result, found>> /\ level[t] \in Level
      /\ \/ pc' = pc /\ level'[t] = level[t] - 1
         \/ pc'[t] = "unlock" /\ level[t] = top[n]
  BY <1>1, RedirectFacts DEF request, search
<1>4. CASE pc' = pc /\ level'[t] = level[t] - 1
  <2>1. Pending(t)'
    BY <1>1, <1>3, <1>4 DEF Pending
  <2>2. \A l \in Level : Rewritten(t, l)' <=> Rewritten(t, l) \/ l = level[t]
    BY <1>1, <1>3, <1>4 DEF Rewritten
  <2>3. VictimOf(t, n)'
    BY <1>1, <1>2, <1>3, <1>4, <2>2 DEF VictimOf, Searched
  <2>4. QED BY <2>1, <2>3
<1>5. CASE pc'[t] = "unlock" /\ level[t] = top[n]
  <2>1. ~Pending(t)'
    BY <1>1, <1>3, <1>5 DEF Pending
  <2>2. ASSUME NEW l \in Level, n \in Listed(l)' PROVE FALSE
    <3>1. n \in Listed(l) /\ l # level[t]
      BY <1>2, <2>2
    <3>2. PICK L : L = Listed(l) /\ IsList(l, L)
      BY DEF ListInv, ShapeInv
    <3>3. l >= top[n] /\ l > level[t]
      <4>1. n \in L /\ IsList(l, L) /\ l \in Level
        BY <2>2, <3>1, <3>2
      <4>2. l >= top[n]
        BY <4>1, ListFacts
      <4>3. QED BY <1>1, <1>3, <1>5, <3>1, <4>1, <4>2 DEF Level
    <3>4. Rewritten(t, l)
      BY <1>1, <3>3 DEF Rewritten
    <3>5. QED BY <1>1, <3>1, <3>3, <3>4 DEF VictimOf
  <2>3. QED BY <2>1, <2>2
<1>6. QED
  BY <1>3, <1>4, <1>5

LEMMA VictimOwn ==
    ASSUME IInv, HeldInv, ListInv, NEW t \in Threads, Invoke(t) \/ Step(t), Pending(t),
           NEW n, VictimOf(t, n)
    PROVE  \/ Pending(t)' /\ VictimOf(t, n)'
           \/ ~Pending(t)' /\ \A l \in Level : n \notin Listed(l)'
<1>1. pc[t] = "found" => found[t] # NoNode
  <2>1. n # NoNode
    BY VictimFacts, NodeFacts DEF IInv
  <2>2. QED BY <2>1 DEF VictimOf, Searched
<1>2. CASE GoesOn(t)
  <2>1. ~Unlink(t) /\ n \in marked
    BY <1>2 DEF GoesOn, Unlink, VictimOf
  <2>2. /\ n \in marked' /\ KeyAt'[n] = KeyAt[n] /\ element'[n] = element[n]
        /\ top'[n] = top[n] /\ \A l \in Level : n \in Listed(l)' <=> n \in Listed(l)
    BY <2>1, MarkedStep
  <2>3. \A l \in Level : ~(pc'[t] = "unlink" /\ Rewritten(t, l)')
    BY <1>2 DEF GoesOn, Rewritten
  <2>4. VictimOf(t, n)'
    BY <1>2, <2>2, <2>3 DEF GoesOn, VictimOf
  <2>5. QED BY <1>2, <2>4 DEF GoesOn
<1>3. QED
  BY <1>1, <1>2, PendingGoesOn, VictimSearch, VictimUnlink

\* The node it marks is on all its lists.
LEMMA VictimNew ==
    ASSUME IInv, HeldInv, ListInv, NEW t \in Threads, RemoveMark(t)
    PROVE  /\ Pending(t)' /\ ~Searching(t)'
           /\ \E n : n = found[t] /\ n \notin marked /\ VictimOf(t, n)'
<1>1. /\ TypeOK /\ pc[t] = "locked" /\ op[t] = "remove" /\ ~took[t] /\ Searched(t)
      /\ found[t] # NoNode /\ found[t] \in fully_linked /\ Step(t)
  <2>1. pc[t] = "locked" /\ op[t] = "remove" /\ LinkedInv(t) /\ ControlInv(t)
    BY DEF RemoveMark, HeldInv, IInv, ThreadInv
  <2>2. QED BY <2>1 DEF IInv, Searched, LinkedInv, ControlInv, Step
<1>2. PICK n : n = found[t]
  OBVIOUS
<1>3. n \in Built /\ n # Head /\ n \notin marked /\ KeyAt[n] = key[t]
  BY <1>1, <1>2, FoundFacts DEF RemoveMark, Unmarked
<1>4. \A l \in Level : l >= top[n] => n \in Listed(l)
  BY <1>1, <1>2, <1>3, NodeKinds DEF ListInv, ShapeInv, LiveIsListed
<1>5. \A l \in Level : Listed(l)' = Listed(l)
  <2>1. ~Link(t) /\ ~Unlink(t)
    BY <1>1 DEF Link, Unlink
  <2>2. QED BY <1>1, <2>1, ListsStep DEF ListsKept
<1>6. /\ pc'[t] = "lock" /\ took'[t] /\ result'[t] = element[n]
      /\ UNCHANGED <<op, key, found, element, top>> /\ n \in marked'
  BY <1>1, <1>2 DEF RemoveMark, StartLocking, Goto, TakeEffect, TypeOK, request, search
<1>7. KeyAt' = KeyAt
  BY <1>6 DEF KeyAt
<1>8. Pending(t)' /\ ~Searching(t)'
  BY <1>1, <1>6 DEF Pending, Searching
<1>9. VictimOf(t, n)'
  BY <1>2, <1>3, <1>4, <1>5, <1>6, <1>7 DEF VictimOf
<1>10. QED
  BY <1>2, <1>3, <1>6, <1>8, <1>9

-----------------------------------------------------------------------------
(* The removals under way and their nodes.                                 *)

\* Whose a node is, before a step and after it.
LEMMA VictimStep ==
    ASSUME IInv, HeldInv, ListInv, NEW t \in Threads, Invoke(t) \/ Step(t),
           NEW u \in Threads
    PROVE  /\ Pending(u) => \A n : VictimOf(u, n) =>
                 \/ Pending(u)' /\ VictimOf(u, n)'
                 \/ ~Pending(u)' /\ \A l \in Level : n \notin Listed(l)'
           /\ Pending(u)' =>
                 \/ Pending(u) /\ \E n \in marked : VictimOf(u, n) /\ VictimOf(u, n)'
                 \/ u = t /\ RemoveMark(t) /\ \E n : n \notin marked /\ VictimOf(u, n)'
<1>1. Pending(u) => \A n : VictimOf(u, n) =>
         \/ Pending(u)' /\ VictimOf(u, n)'
         \/ ~Pending(u)' /\ \A l \in Level : n \notin Listed(l)'
  BY VictimOther, VictimOwn
<1>2. Pending(u) => \E n \in marked : VictimOf(u, n)
  BY DEF ListInv, HasVictim
<1>3. Pending(u)' => Pending(u) \/ (u = t /\ RemoveMark(t))
  <2>1. CASE u # t
    BY <2>1, VictimOther
  <2>2. CASE u = t
    BY <2>2, PendingSteps
  <2>3. QED BY <2>1, <2>2
<1>4. RemoveMark(t) => \E n : n \notin marked /\ VictimOf(t, n)'
  BY VictimNew
<1>5. QED
  BY <1>1, <1>2, <1>3, <1>4

LEMMA HasRemoverStep ==
    ASSUME IInv, HeldInv, ListInv, NEW t \in Threads, Invoke(t) \/ Step(t)
    PROVE  HasRemover'
<1>1. SUFFICES ASSUME NEW n \in marked', NEW l \in Level, n \in Listed(l)'
               PROVE  \E u \in Threads : Pending(u)' /\ VictimOf(u, n)'
  BY DEF HasRemover, Attached
<1>2. CASE n \in marked
  <2>1. n \in Listed(l)
    BY <1>1, <1>2, MarkedStep
  <2>2. PICK u \in Threads : Pending(u) /\ VictimOf(u, n)
    BY <1>2, <2>1 DEF ListInv, HasRemover, Attached
  <2>3. QED BY <1>1, <2>2, VictimStep
<1>3. CASE n \notin marked
  <2>1. RemoveMark(t)
    BY <1>1, <1>3, MarkOnly
  <2>2. n = found[t]
    BY <1>1, <1>3, <2>1 DEF RemoveMark
  <2>3. Pending(t)' /\ VictimOf(t, n)'
    BY <2>1, <2>2, VictimNew
  <2>4. QED BY <2>3
<1>4. QED
  BY <1>2, <1>3

LEMMA OneRemoverStep ==
    ASSUME IInv, HeldInv, ListInv, NEW t \in Threads, Invoke(t) \/ Step(t)
    PROVE  OneRemover'
<1>1. SUFFICES ASSUME NEW u \in Threads, NEW v \in Threads, NEW n,
                      Pending(u)', Pending(v)', VictimOf(u, n)', VictimOf(v, n)', u # v
               PROVE  FALSE
  BY DEF OneRemover
<1>2. OneVictim'
  BY StepInv, HeldStep, ShapePreserved, VictimIsOneNext
<1>3. ASSUME NEW w \in Threads, Pending(w)', VictimOf(w, n)'
      PROVE  \/ n \in marked /\ Pending(w) /\ VictimOf(w, n)
             \/ w = t /\ n \notin marked
  <2>1. \A m : VictimOf(w, m)' => m = n
    BY <1>2, <1>3 DEF OneVictim
  <2>2. \/ Pending(w) /\ \E m \in marked : VictimOf(w, m) /\ VictimOf(w, m)'
        \/ w = t /\ \E m : m \notin marked /\ VictimOf(w, m)'
    BY <1>3, VictimStep
  <2>3. QED BY <2>1, <2>2
<1>4. QED
  BY <1>1, <1>3 DEF ListInv, OneRemover

-----------------------------------------------------------------------------
(* The searches for them.                                                  *)

\* What the nodes on the lists are to a search, in one formula.
TrackedLists ==
    /\ Attached \subseteq Built \cup {Tail} /\ Head \in Attached
    /\ \A n \in Listed(Bottom) : n \in Attached /\ Finds(Attached, n)
    /\ Track(Attached)

LEMMA ListsTracked == IInv /\ HeldInv /\ ShapeInv /\ HasRemover => TrackedLists
<1>1. QED
  BY AttachedNodes, AttachedTrack, AttachedFinds, Zenon DEF TrackedLists

LEMMA ListsTrackedNext ==
    IInv' /\ HeldInv' /\ ShapeInv' /\ HasRemover' => TrackedLists'
<1>1. QED
  BY ListsTracked, PTL

\* Where a search could get to before a step, and the nodes on the lists after
\* it, are all it can get to now: a pointer is only written to a listed node.
LEMMA TrackStep ==
    ASSUME IInv, HeldInv, ListInv, NEW t \in Threads, Invoke(t) \/ Step(t),
           NEW S \in SUBSET (Built \cup {Tail}), Track(S), NEW n \in Built, Finds(S, n),
           n \in Listed(Bottom)'
    PROVE  \E R \in SUBSET (Built' \cup {Tail}) :
             /\ S \subseteq R /\ \A m \in R : m \in S \/ m \in Attached'
             /\ Track(R)' /\ Finds(R, n)'
<1>1. TrackedLists'
  BY StepInv, HeldStep, ShapePreserved, HasRemoverStep, ListsTrackedNext
<1>2. PICK M : M = Attached'
  OBVIOUS
<1>3. /\ M \subseteq Built' \cup {Tail} /\ n \in M
      /\ \A m \in M \ {Tail} : \A l \in Level : l >= top'[m] => nxt'[m][l] \in M
      /\ \A m \in M \ {Tail} : KeyAt'[m] < KeyAt'[n] => KeyAt'[nxt'[m][Bottom]] <= KeyAt'[n]
      /\ \A m \in M : KeyAt'[m] = KeyAt'[n] => m = n
  BY <1>1, <1>2 DEF TrackedLists, Track, Finds
<1>4. \A l \in Level : \A m : m \in Listed(l)' => m \in M
  BY <1>2 DEF Attached
<1>5. /\ Built \subseteq Built'
      /\ \A m \in Built \cup {Tail} : KeyAt'[m] = KeyAt[m] /\ top'[m] = top[m]
  BY StepGuarantee DEF Guarantee, KeepsOthers, KeepsBuilt, KeepsNode
<1>6. ASSUME NEW m \in S \ {Tail}, NEW l \in Level, nxt'[m][l] # nxt[m][l]
      PROVE  m \in M /\ nxt'[m][l] \in M
  <2>1. m \in Built
    OBVIOUS
  <2>2. QED BY <1>4, <1>6, <2>1, WrittenPointer
<1>7. PICK R : R = S \cup M
  OBVIOUS
<1>8. ASSUME NEW m \in R \ {Tail}, NEW l \in Level, l >= top'[m] PROVE nxt'[m][l] \in R
  <2>1. CASE m \in M
    BY <1>3, <1>7, <1>8, <2>1
  <2>2. CASE m \in S
    <3>1. l >= top[m]
      BY <1>5, <1>8, <2>2
    <3>2. nxt[m][l] \in S
      BY <1>8, <2>2, <3>1 DEF Track
    <3>3. QED BY <1>6, <1>7, <1>8, <2>2, <3>2
  <2>3. QED BY <1>7, <2>1, <2>2
<1>9. ASSUME NEW m \in R \ {Tail}, KeyAt'[m] < KeyAt'[n]
      PROVE  KeyAt'[nxt'[m][Bottom]] <= KeyAt'[n]
  <2>1. CASE m \in M
    BY <1>3, <1>9, <2>1
  <2>2. CASE m \in S /\ m \notin M
    <3>1. m \in Built /\ Bottom \in Level /\ Bottom >= top[m]
      BY <1>9, <2>2, NodeFacts DEF IInv
    <3>2. nxt'[m][Bottom] = nxt[m][Bottom]
      BY <1>6, <1>9, <2>2, <3>1
    <3>3. nxt[m][Bottom] \in Built \cup {Tail}
      BY <3>1 DEF IInv, Sorted
    <3>4. KeyAt[nxt[m][Bottom]] <= KeyAt[n]
      BY <1>5, <1>9, <2>2, <3>1 DEF Finds
    <3>5. QED BY <1>5, <3>2, <3>3, <3>4
  <2>3. QED BY <1>7, <1>9, <2>1, <2>2
<1>10. ASSUME NEW m \in R, KeyAt'[m] = KeyAt'[n] PROVE m = n
  <2>1. CASE m \in M
    BY <1>3, <1>10, <2>1
  <2>2. CASE m \in S
    BY <1>5, <1>10, <2>2 DEF Finds
  <2>3. QED BY <1>7, <2>1, <2>2
<1>11. /\ R \subseteq Built' \cup {Tail} /\ S \subseteq R
       /\ \A m \in R : m \in S \/ m \in Attached'
  BY <1>2, <1>3, <1>5, <1>7
<1>12. Track(R)'
  BY <1>8 DEF Track
<1>13. Finds(R, n)'
  BY <1>9, <1>10 DEF Finds
<1>14. QED
  BY <1>11, <1>12, <1>13

\* A search goes on from where it was, or starts at the head.
LEMMA SearchMoves ==
    ASSUME IInv, NEW t \in Threads, Invoke(t) \/ Step(t),
           NEW u \in Threads, Searching(u)'
    PROVE  \/ prev'[u] = Head
           \/ /\ Searching(u)
              /\ \/ u # t /\ SameLocals(u)
                 \/ u = t /\ SearchStep(t)
              /\ \A S : prev[u] \in S /\ Track(S) => prev'[u] \in S
<1>1. CASE u # t
  <2>1. SameLocals(u)
    BY <1>1, StepLocals DEF IInv
  <2>2. QED BY <1>1, <2>1 DEF SameLocals, Searching
<1>2. CASE u = t /\ StartFind(t)
  BY <1>2 DEF StartFind, IInv, TypeOK
<1>3. CASE u = t /\ SearchStep(t)
  <2>1. TypeOK /\ Searching(t) /\ level[t] \in Level
    BY <1>3 DEF IInv, TypeOK, SearchStep, FindRight, FindDown, FindHit, FindAfter, Searching
  <2>2. prev[t] # Tail /\ level[t] >= top[prev[t]]
    <3>1. IsBefore(t, prev[t], level[t])
      BY <2>1 DEF IInv, ThreadInv, SearchInv
    <3>2. QED BY <2>1, <3>1, NodeFacts DEF IsBefore, IInv
  <2>3. prev'[t] = prev[t] \/ prev'[t] = nxt[prev[t]][level[t]]
    BY <1>3, <2>1 DEF SearchStep, FindRight, FindDown, FindHit, FindAfter, Ahead, TypeOK
  <2>4. ASSUME NEW S, prev[t] \in S, Track(S) PROVE prev'[t] \in S
    BY <2>1, <2>2, <2>3, <2>4 DEF Track
  <2>5. QED BY <1>3, <2>1, <2>4
<1>4. QED
  BY <1>1, <1>2, <1>3, SearchSteps

LEMMA SearchGoesOn ==
    ASSUME IInv, HeldInv, ListInv, NEW t \in Threads, Invoke(t) \/ Step(t),
           NEW u \in Threads, Pending(u)', Searching(u)'
    PROVE  \/ prev'[u] = Head
           \/ /\ Pending(u) /\ Searching(u)
              /\ \A S : prev[u] \in S /\ Track(S) => prev'[u] \in S
<1>1. CASE u # t
  BY <1>1, SearchMoves, VictimOther
<1>2. CASE u = t /\ SearchStep(t)
  <2>1. ~RemoveMark(t)
    BY <1>2 DEF SearchStep, FindRight, FindDown, FindHit, FindAfter, RemoveMark
  <2>2. Pending(t)
    BY <1>2, <2>1, PendingSteps
  <2>3. QED BY <1>2, <2>2, SearchMoves
<1>3. QED
  BY <1>1, <1>2, SearchMoves

LEMMA OnTrackStep ==
    ASSUME IInv, HeldInv, ListInv, NEW t \in Threads, Invoke(t) \/ Step(t),
           NEW u \in Threads, Pending(u)', Searching(u)', NEW n, VictimOf(u, n)'
    PROVE  OnTrack(u, n)'
<1>1. n \in marked' /\ n \in Built' /\ n \in Listed(Bottom)' /\ IInv'
  <2>1. IInv' /\ n \in marked' /\ Bottom \in Level
    BY StepInv DEF VictimOf
  <2>2. n \in Built' /\ Bottom >= top'[n]
    <3>1. n \in Built' /\ top'[n] \in Level
      <4>1. \A m \in Built' : m \in Node
        BY <2>1 DEF IInv, TypeOK, Built, Node
      <4>2. n \in Built'
        BY <2>1 DEF IInv, HeapInv
      <4>3. QED BY <2>1, <4>1, <4>2 DEF IInv, TypeOK
    <3>2. QED BY <3>1
  <2>3. pc'[u] # "unlink"
    BY DEF Searching
  <2>4. QED BY <2>1, <2>2, <2>3 DEF VictimOf
<1>2. CASE prev'[u] = Head
  <2>1. TrackedLists'
    BY StepInv, HeldStep, ShapePreserved, HasRemoverStep, ListsTrackedNext
  <2>2. PICK M : M = Attached'
    OBVIOUS
  <2>3. M \subseteq Built' \cup {Tail} /\ Head \in M /\ Track(M)' /\ Finds(M, n)'
    BY <1>1, <2>1, <2>2 DEF TrackedLists, Track, Finds
  <2>4. QED BY <1>2, <2>3 DEF OnTrack
<1>3. CASE /\ Pending(u) /\ Searching(u)
           /\ \A S : prev[u] \in S /\ Track(S) => prev'[u] \in S
  <2>1. VictimOf(u, n)
    <3>1. PICK m : VictimOf(u, m)
      BY <1>3 DEF ListInv, HasVictim
    <3>2. VictimOf(u, m)'
      BY <1>3, <3>1, VictimStep
    <3>3. OneVictim'
      BY StepInv, HeldStep, ShapePreserved, VictimIsOneNext
    <3>4. m = n
      BY <3>2, <3>3 DEF OneVictim
    <3>5. QED BY <3>1, <3>4
  <2>2. n \in Built /\ OnTrack(u, n)
    BY <1>3, <2>1, VictimFacts
  <2>3. PICK S \in SUBSET (Built \cup {Tail}) : prev[u] \in S /\ Track(S) /\ Finds(S, n)
    BY <2>2 DEF OnTrack
  <2>4. PICK R \in SUBSET (Built' \cup {Tail}) : S \subseteq R /\ Track(R)' /\ Finds(R, n)'
    BY <1>1, <2>2, <2>3, TrackStep
  <2>5. prev'[u] \in R
    BY <1>3, <2>3, <2>4
  <2>6. QED BY <2>4, <2>5 DEF OnTrack
<1>4. QED
  BY <1>2, <1>3, SearchGoesOn

LEMMA ListStep ==
    ASSUME IInv, HeldInv, ListInv, NEW t \in Threads, Invoke(t) \/ Step(t)
    PROVE  ListInv'
<1>1. ASSUME NEW u \in Threads, Pending(u)'
      PROVE  \E n \in marked' : VictimOf(u, n)' /\ (Searching(u)' => OnTrack(u, n)')
  <2>1. PICK n : VictimOf(u, n)'
    BY <1>1, VictimStep
  <2>2. n \in marked'
    BY <2>1 DEF VictimOf
  <2>3. QED BY <1>1, <2>1, <2>2, OnTrackStep
<1>2. HasVictim'
  BY <1>1 DEF HasVictim
<1>3. QED
  BY <1>2, ShapePreserved, HasRemoverStep, OneRemoverStep DEF ListInv

-----------------------------------------------------------------------------
(* ListInv holds in every reachable state.                                 *)

\* new_skiplist and the puts before the threads start leave sorted lists.
LEMMA ListInitLists ==
    ASSUME Init, NEW l \in Level
    PROVE  LET L == {n \in heap \cup {Head, Tail} : top[n] <= l}
           IN  IsList(l, L) /\ Listed(l) = L
<1> DEFINE L == {n \in heap \cup {Head, Tail} : top[n] <= l}
           next == [n \in Node |-> nxt[n][l]]
<1>1. IInv /\ Built = heap \cup {Head} /\ heap \subseteq Node
  BY InitFacts, NodeFacts DEF IInv
<1>2. /\ top[Head] = 0 /\ top[Tail] = 0 /\ KeyAt[Head] = -1 /\ KeyAt[Tail] = MaxKey + 1
      /\ \A n \in heap : KeyAt[n] \in 0..MaxKey /\ top[n] \in Level
      /\ Head \notin heap /\ Tail \notin heap
  BY <1>1, NodeFacts DEF IInv, HeapInv, TypeOK, Keys
<1>3. \A m, n \in heap : KeyAt[m] = KeyAt[n] => m = n
  <2>1. PICK c \in Contents :
          /\ heap = DOMAIN c
          /\ element = [n \in Node |-> IF n \in DOMAIN c THEN c[n].elem ELSE NULL]
    BY DEF Init
  <2>2. \A m, n \in DOMAIN c : KeyOf[c[m].elem] = KeyOf[c[n].elem] => m = n
    BY ContentsAssumption
  <2>3. \A n \in heap : KeyAt[n] = KeyOf[c[n].elem]
    BY <1>1, <1>2, <2>1 DEF KeyAt
  <2>4. QED BY <2>1, <2>2, <2>3
<1>4. Head \in L /\ Tail \in L
  BY <1>2
<1>5. \A m, n \in L : KeyAt[m] = KeyAt[n] => m = n
  BY <1>2, <1>3, MaxKeyAssumption
<1>6. ASSUME NEW m \in L \ {Tail}
      PROVE  /\ next[m] \in L /\ KeyAt[m] < KeyAt[next[m]]
             /\ \A n \in L : KeyAt[m] < KeyAt[n] => KeyAt[next[m]] <= KeyAt[n]
  <2>1. PICK s : s = Successor(heap, m, l)
    OBVIOUS
  <2>2. m \in heap \cup {Head} /\ m \in Node /\ top[m] \in Level /\ l >= top[m]
    BY <1>1, <1>2, NodeFacts DEF IInv
  <2>3. next[m] = s
    BY <2>1, <2>2 DEF Init
  <2>4. /\ s = Tail \/ s \in Following(heap, m, l)
        /\ \A o \in Following(heap, m, l) :
             s \in Following(heap, m, l) /\ KeyAt[s] <= KeyAt[o]
    BY <1>2, <2>1, SuccessorFacts
  <2>5. s \in L /\ KeyAt[m] < KeyAt[s]
    BY <1>2, <2>2, <2>4, MaxKeyAssumption DEF Following
  <2>6. ASSUME NEW n \in L, KeyAt[m] < KeyAt[n] PROVE KeyAt[s] <= KeyAt[n]
    <3>1. CASE n = Tail
      BY <1>2, <2>5, <3>1, MaxKeyAssumption
    <3>2. CASE n = Head
      BY <1>2, <2>2, <2>6, <3>2
    <3>3. CASE n \in heap
      BY <2>4, <2>6, <3>3 DEF Following
    <3>4. QED BY <3>1, <3>2, <3>3
  <2>7. QED BY <2>3, <2>5, <2>6
<1>7. IsChain(L, next, KeyAt)
  <2> HIDE DEF L, next
  <2>1. QED BY <1>4, <1>5, <1>6 DEF IsChain
<1>8. IsList(l, L)
  BY <1>1, <1>7 DEF IsList
<1>9. Listed(l) = L
  <2> HIDE DEF L
  <2>1. QED BY <1>1, <1>8, ListedIs DEF IInv, ListsAreChains
<1>10. QED
  BY <1>8, <1>9

LEMMA ListInit == Init => ListInv
<1>1. SUFFICES ASSUME Init PROVE ListInv
  OBVIOUS
<1>2. /\ marked = {} /\ Built = heap \cup {Head} /\ Sorted
      /\ \A t \in Threads : pc[t] = "idle" /\ op[t] = "none"
  BY <1>1, InitFacts DEF Init, IInv
<1>3. ASSUME NEW l \in Level
      PROVE  /\ IsList(l, Listed(l))
             /\ \A n : n \in Listed(l) <=> n \in heap \cup {Head, Tail} /\ top[n] <= l
  <2>1. PICK L : L = {n \in heap \cup {Head, Tail} : top[n] <= l}
    OBVIOUS
  <2>2. IsList(l, L) /\ Listed(l) = L
    BY <1>1, <2>1, ListInitLists
  <2>3. QED BY <2>1, <2>2
<1>4. \A n \in heap \cup {Head} : top[n] \in Level
  BY <1>1, <1>2, InitInv, NodeFacts DEF IInv
<1>5. LiveIsListed
  BY <1>3, <1>4 DEF LiveIsListed, Live
<1>6. Leads
  BY <1>2, <1>3, <1>4 DEF Leads, Sorted
<1>7. ASSUME NEW t \in Threads PROVE LinkingInv(t) /\ PredsInv(t) /\ ~Pending(t)
  BY <1>2 DEF LinkingInv, PredsInv, Searching, Searched, Pending
<1>8. QED
  BY <1>2, <1>3, <1>5, <1>6, <1>7 DEF ListInv, ShapeInv, HasVictim, HasRemover, OneRemover

LEMMA ListStutter ==
    ASSUME ListInv, UNCHANGED vars
    PROVE  ListInv'
<1> USE DEF vars, shared, request, search, history
<1>1. Built' = Built /\ KeyAt' = KeyAt /\ \A l : Listed(l)' = Listed(l)
  BY DEF Built, KeyAt, Listed
<1>2. /\ \A l : \A S : IsList(l, S)' <=> IsList(l, S)
      /\ \A u, l : Rewritten(u, l)' <=> Rewritten(u, l)
  BY <1>1 DEF IsList, Rewritten
<1>3. \A l \in Level : IsList(l, Listed(l))'
  <2>1. SUFFICES ASSUME NEW l \in Level PROVE IsList(l, Listed(l))'
    OBVIOUS
  <2>2. PICK L : L = Listed(l) /\ IsList(l, L)
    BY DEF ListInv, ShapeInv
  <2>3. L = Listed(l)' /\ IsList(l, L)'
    BY <1>1, <1>2, <2>2
  <2>4. QED BY <2>3
<1>4. LiveIsListed' /\ Leads'
  BY <1>1 DEF ListInv, ShapeInv, LiveIsListed, Live, Leads
<1>5. ASSUME NEW u \in Threads PROVE LinkingInv(u)' /\ PredsInv(u)'
  BY <1>1, <1>2 DEF ListInv, ShapeInv, LinkingInv, PredsInv, Searching, Searched
<1>6. ASSUME NEW u \in Threads
      PROVE  /\ Pending(u)' <=> Pending(u)
             /\ Searching(u)' <=> Searching(u)
             /\ \A n : VictimOf(u, n)' <=> VictimOf(u, n)
             /\ \A n : OnTrack(u, n)' <=> OnTrack(u, n)
  <2>1. (Pending(u)' <=> Pending(u)) /\ (Searching(u)' <=> Searching(u))
    BY DEF Pending, Searching
  <2>2. \A n : VictimOf(u, n)' <=> VictimOf(u, n)
    BY <1>1, <1>2 DEF VictimOf, Searched
  <2>3. \A n : OnTrack(u, n)' <=> OnTrack(u, n)
    BY <1>1 DEF OnTrack, Track, Finds
  <2>4. QED BY <2>1, <2>2, <2>3
<1>7. HasVictim' /\ OneRemover'
  BY <1>6 DEF ListInv, HasVictim, OneRemover
<1>8. HasRemover'
  BY <1>1, <1>6 DEF ListInv, HasRemover, Attached
<1>9. QED
  BY <1>3, <1>4, <1>5, <1>7, <1>8 DEF ListInv, ShapeInv

LEMMA ListNext == IInv /\ HeldInv /\ ListInv /\ [Next]_vars => ListInv'
<1>1. ASSUME IInv, HeldInv, ListInv, NEW t \in Threads, Invoke(t) \/ Step(t) PROVE ListInv'
  BY <1>1, ListStep
<1>2. ASSUME ListInv, UNCHANGED vars PROVE ListInv'
  BY <1>2, ListStutter
<1>3. QED
  BY <1>1, <1>2 DEF Next, Terminated

\* In every reachable state each list is the chain of its nodes in the order of
\* keys, with every live node on it, and every removal under way has its own
\* node, which its search (find_neigbours) comes to however often it is repeated.
THEOREM ListInvariance == Spec => []ListInv
<1>1. Init => IInv /\ HeldInv /\ ListInv
  BY InitInv, HeldInit, ListInit
<1>2. (IInv /\ HeldInv /\ ListInv) /\ [Next]_vars => (IInv /\ HeldInv /\ ListInv)'
  BY NextInv, HeldNext, ListNext
<1>3. QED
  BY <1>1, <1>2, PTL DEF Spec

-----------------------------------------------------------------------------
(* What follows from it.                                                   *)

\* No link or unlink beside it takes a live node off a list it belongs to.
THEOREM LiveNodesListed == Spec => []LiveIsListed
<1>1. ListInv => LiveIsListed
  BY DEF ListInv, ShapeInv
<1>2. QED
  BY <1>1, ListInvariance, PTL

\* A node that has left the list below it is in the middle of being unlinked.
THEOREM ListsNested == Spec => []ListHierarchy
<1>1. ASSUME IInv, HeldInv, ListInv PROVE ListHierarchy
  <2>1. SUFFICES ASSUME NEW l \in Level \ {Bottom}, NEW n \in Listed(l), n \notin Listed(l + 1)
                 PROVE  n \in marked /\ \E t \in Threads : pc[t] = "unlink" /\ found[t] = n
    BY DEF ListHierarchy
  <2>2. l + 1 \in Level /\ l \in Level
    OBVIOUS
  <2>3. PICK K, L : K = Listed(l) /\ IsList(l, K) /\ L = Listed(l + 1) /\ IsList(l + 1, L)
    BY <1>1, <2>2 DEF ListInv, ShapeInv
  <2>4. n # Tail /\ l + 1 >= top[n] /\ top[n] \in Level
    <3>1. Tail \in L /\ l >= top[n] /\ top[n] \in Level
      BY <1>1, <2>1, <2>2, <2>3, ListFacts
    <3>2. QED BY <2>1, <2>2, <2>3, <3>1
  <2>5. n \in marked
    BY <1>1, <2>1, <2>2, <2>4, Downward DEF ListInv
  <2>6. PICK t \in Threads : Pending(t) /\ VictimOf(t, n)
    BY <1>1, <2>2, <2>5 DEF ListInv, HasRemover, Attached
  <2>7. pc[t] = "unlink"
    BY <2>1, <2>2, <2>4, <2>6 DEF VictimOf
  <2>8. found[t] = n
    BY <2>6, <2>7 DEF VictimOf, Searched
  <2>9. QED BY <2>5, <2>7, <2>8
<1>2. QED
  BY <1>1, Invariance, HeldInvariance, ListInvariance, PTL

\* A marked node that is still on a list has its remover at work on it.
THEOREM NoZombieLeft == Spec => []NoZombie
<1>1. ASSUME IInv, HeldInv, ListInv PROVE NoZombie
  <2>1. SUFFICES ASSUME NEW n \in marked, NEW l \in Level, n \in Listed(l)
                 PROVE  \E t \in Threads : RemovedBy(n, t)
    BY DEF NoZombie
  <2>2. PICK t \in Threads : Pending(t) /\ VictimOf(t, n)
    BY <1>1, <2>1 DEF ListInv, HasRemover, Attached
  <2>3. pc[t] \notin {"idle", "return"} /\ op[t] = "remove" /\ took[t] /\ key[t] = KeyAt[n]
    BY <1>1, <2>2, PendingFacts DEF VictimOf
  <2>4. QED BY <2>3 DEF RemovedBy
<1>2. QED
  BY <1>1, Invariance, HeldInvariance, ListInvariance, PTL

\* A removal that has to search again finds the very node it has marked.
THEOREM VictimFound == Spec => []OwnVictim
<1>1. ASSUME IInv, HeldInv, ListInv PROVE OwnVictim
  <2>1. SUFFICES ASSUME NEW t \in Threads, pc[t] \in {"found", "lockelem"},
                        op[t] = "remove", took[t]
                 PROVE  found[t] \in marked /\ element[found[t]] = result[t]
    BY DEF OwnVictim
  <2>2. Pending(t) /\ Searched(t)
    BY <2>1 DEF Pending, Searched
  <2>3. PICK n \in marked : VictimOf(t, n)
    BY <1>1, <2>2 DEF ListInv, HasVictim
  <2>4. QED BY <2>2, <2>3 DEF VictimOf
<1>2. QED
  BY <1>1, Invariance, HeldInvariance, ListInvariance, PTL

\* When no call is under way the lists are exactly those of the live nodes.
LEMMA QuietLists ==
    ASSUME IInv, HeldInv, ListInv, \A t \in Threads : pc[t] = "idle", NEW l \in Level
    PROVE  \A n : n \in Listed(l) <=>
             \/ n \in {Head, Tail}
             \/ n \in Live /\ l >= top[n]
<1>1. PICK L : L = Listed(l) /\ IsList(l, L)
  BY DEF ListInv, ShapeInv
<1>2. ASSUME NEW n \in L PROVE n \in {Head, Tail} \/ (n \in Live /\ l >= top[n])
  <2>1. n \in Built \cup {Tail} /\ l >= top[n]
    BY <1>1, ListFacts
  <2>2. n \in fully_linked
    BY <1>1, HalfOn DEF ListInv
  <2>3. n \notin marked
    <3>1. SUFFICES ASSUME n \in marked PROVE FALSE
      OBVIOUS
    <3>2. PICK t \in Threads : Pending(t)
      BY <1>1, <3>1 DEF ListInv, HasRemover, Attached
    <3>3. QED BY <3>2, PendingFacts
  <2>4. QED BY <2>1, <2>2, <2>3, NodeKinds
<1>3. Head \in L /\ Tail \in L
  BY <1>1, ListFacts
<1>4. ASSUME NEW n \in Live, l >= top[n] PROVE n \in L
  BY <1>1, <1>4 DEF ListInv, ShapeInv, LiveIsListed
<1>5. QED
  BY <1>1, <1>2, <1>3, <1>4

\* Between calls the skiplist is the sorted one of its live nodes, unlocked.
THEOREM QuietLayout == Spec => []QuiescentLayout
<1>1. ASSUME IInv, HeldInv, ListInv PROVE QuiescentLayout
  <2>1. SUFFICES ASSUME \A t \in Threads : pc[t] = "idle"
                 PROVE  /\ \A n \in Node : lock[n] = NoThread
                        /\ \A n \in Live \cup {Head} : \A l \in Level :
                             l >= top[n] => nxt[n][l] = Successor(Live \ {Tail, Head}, n, l)
    BY DEF QuiescentLayout
  <2>2. ASSUME NEW n \in Node, lock[n] # NoThread PROVE FALSE
    <3>1. PICK t \in Threads : lock[n] = t
      BY <1>1, <2>2 DEF IInv, TypeOK
    <3>2. LockInv(t) /\ LinkedInv(t) /\ pc[t] = "idle"
      BY <1>1, <2>1 DEF IInv, ThreadInv, HeldInv
    <3>3. QED BY <3>1, <3>2 DEF LockInv, HasElementLock, LinkedInv
  <2>3. ASSUME NEW n \in Live \cup {Head}, NEW l \in Level, l >= top[n]
        PROVE  nxt[n][l] = Successor(Live \ {Tail, Head}, n, l)
    <3>1. PICK L : L = Listed(l) /\ IsList(l, L)
      BY <1>1 DEF ListInv, ShapeInv
    <3>2. \A m : m \in L <=> m \in {Head, Tail} \/ (m \in Live /\ l >= top[m])
      BY <1>1, <2>1, <3>1, QuietLists
    <3>3. Live \ {Tail, Head} = Live /\ Tail \notin Live /\ \A m \in Live : m \in Built
      <4>1. Live \subseteq heap /\ heap \subseteq Nodes /\ Live \subseteq fully_linked
        BY <1>1 DEF Live, IInv, TypeOK
      <4>2. QED BY <1>1, <4>1 DEF HeldInv
    <3>4. PICK F : F = Following(Live, n, l)
      OBVIOUS
    <3>5. \A m : m \in F <=> m \in Live /\ l >= top[m] /\ KeyAt[m] > KeyAt[n]
      BY <1>1, <3>3, <3>4, NodeFacts DEF Following, IInv
    <3>6. n \in L \ {Tail}
      BY <2>3, <3>2, <3>3
    <3>7. PICK s : s = nxt[n][l]
      OBVIOUS
    <3>8. /\ s \in L /\ KeyAt[n] < KeyAt[s]
          /\ \A m \in L : KeyAt[n] < KeyAt[m] => KeyAt[s] <= KeyAt[m]
          /\ \A m, o \in L : KeyAt[m] = KeyAt[o] => m = o
          /\ \A m \in L : KeyAt[m] \in Int
      BY <1>1, <3>1, <3>6, <3>7, ListFacts
    <3>9. CASE s = Tail
      <4>1. ASSUME NEW m \in F PROVE FALSE
        <5>1. m \in Built /\ m # Head /\ KeyAt[n] < KeyAt[m] /\ m \in L
          BY <1>1, <3>2, <3>3, <3>5, <3>8, NodeFacts DEF IInv, TypeOK, Live
        <5>2. KeyAt[Tail] <= KeyAt[m] /\ KeyAt[m] \in Keys
          BY <1>1, <3>8, <3>9, <5>1, NodeFacts DEF IInv
        <5>3. QED BY <1>1, <5>2, NodeFacts, MaxKeyAssumption DEF IInv, Keys
      <4>2. F = {}
        BY <4>1
      <4>3. QED BY <3>3, <3>4, <3>7, <3>9, <4>2 DEF Successor
    <3>10. CASE s # Tail
      <4>1. s # Head
        BY <1>1, <3>6, <3>8, <3>1, ListFacts, NodeFacts DEF IInv, Keys
      <4>2. s \in F
        BY <3>2, <3>5, <3>8, <3>10, <4>1
      <4>3. \A o \in F : KeyAt[s] <= KeyAt[o] /\ o \in L
        BY <3>2, <3>5, <3>8
      <4>4. \A m \in F : (\A o \in F : KeyAt[m] <= KeyAt[o]) => m = s
        BY <3>8, <4>2, <4>3
      <4>5. PICK c : c = CHOOSE m \in F : \A o \in F : KeyAt[m] <= KeyAt[o]
        OBVIOUS
      <4>6. c = s
        BY <4>2, <4>3, <4>4, <4>5
      <4>7. Successor(Live, n, l) = c
        BY <3>4, <4>2, <4>5 DEF Successor
      <4>8. QED BY <3>3, <3>7, <4>6, <4>7
    <3>11. QED BY <3>9, <3>10
  <2>4. QED BY <2>2, <2>3
<1>2. QED
  BY <1>1, Invariance, HeldInvariance, ListInvariance, PTL

-----------------------------------------------------------------------------
(* put_new by one writer.                                                  *)

\* The operation of a call stays, and is one its thread may call.
LEMMA StepOp ==
    ASSUME TypeOK, NEW t \in Threads, Invoke(t) \/ Step(t)
    PROVE  op'[t] \in {op[t], "none"} \/ \E c \in CallsOf[t] : op'[t] = c.op
<1>1. CASE Invoke(t)
  BY <1>1 DEF Invoke, TypeOK
<1>2. CASE Return(t)
  BY <1>2 DEF Return, TypeOK
<1>3. CASE ~Invoke(t) /\ ~Return(t)
  <2>1. op' = op
    BY <1>3
    DEF Step, FindRight, FindDown, FindHit, FindAfter, LookupFound, LookupMarked,
        LookupElement, LockPred, CheckFails, CheckNext, CheckDone, UnlockPred, PutAbsent,
        PutFound, PutNewFound, Fill, Link, Publish, PutDone, PutNewDone, WaitLinked,
        LockElement, LostRace, PutOver, RemoveMark, UnlockElement, RemoveFound, Unlink,
        RemoveUnlocked, request
  <2>2. QED BY <2>1
<1>4. QED
  BY <1>1, <1>2, <1>3

\* Beside a put_new the others only read, and change no memory.
LEMMA OthersRead ==
    ASSUME PutNewAlone, IInv, HeldInv, AloneInv, NEW t \in Threads, op[t] = "put_new",
           NEW u \in Threads, u # t
    PROVE  /\ op[u] \in {"none", "lookup", "member"}
           /\ pc[u] \notin {"lock", "check", "fill", "link", "publish", "unlink", "unlock",
                           "wait", "lockelem", "locked", "unlockelem"}
<1>1. op[u] \in {"none", "lookup", "member"}
  <2>1. \E c \in CallsOf[t] : c.op = "put_new"
    BY DEF AloneInv
  <2>2. \A c \in CallsOf[u] : c.op \in {"lookup", "member"}
    BY <2>1 DEF PutNewAlone
  <2>3. QED BY <2>2 DEF AloneInv
<1>2. QED
  BY <1>1 DEF IInv, ThreadInv, ControlInv, IsPut

LEMMA ReaderStep ==
    ASSUME PutNewAlone, IInv, HeldInv, AloneInv, NEW t \in Threads, op[t] = "put_new",
           NEW u \in Threads, u # t, Invoke(u) \/ Step(u)
    PROVE  UNCHANGED shared
<1>1. /\ op[u] \notin {"put", "put_new", "remove"}
      /\ pc[u] \notin {"lock", "check", "fill", "link", "publish", "unlink", "unlock",
                      "wait", "lockelem", "locked", "unlockelem"}
  BY OthersRead
<1>2. LocalAction(u)
  BY <1>1
  DEF Step, LocalAction, LockPred, UnlockPred, PutAbsent, Fill, Link, Publish, PutDone,
      LockElement, PutOver, RemoveMark, UnlockElement, Unlink
<1>3. QED
  BY <1>2, LocalActionFacts

\* What is on a list while a put_new searches is fully linked and not marked.
LEMMA ListsAtRest ==
    ASSUME PutNewAlone, IInv, HeldInv, ListInv, AloneInv,
           NEW t \in Threads, op[t] = "put_new", Searching(t),
           NEW l \in Level, NEW n \in Listed(l)
    PROVE  n \notin marked /\ n \in fully_linked
<1>1. n \notin marked
  <2>1. SUFFICES ASSUME n \in marked PROVE FALSE
    OBVIOUS
  <2>2. PICK u \in Threads : Pending(u)
    BY <2>1 DEF ListInv, HasRemover, Attached
  <2>3. QED BY <2>2, OthersRead DEF Pending
<1>2. n \in fully_linked
  <2>1. SUFFICES ASSUME n \notin fully_linked PROVE FALSE
    OBVIOUS
  <2>2. PICK u \in Threads : pc[u] \in {"link", "publish"}
    BY <2>1, HalfOn DEF ListInv
  <2>3. QED BY <2>2, OthersRead DEF Searching
<1>3. QED
  BY <1>1, <1>2

\* The search of a put_new goes along the list of its level.
LEMMA NewAhead ==
    ASSUME PutNewAlone, IInv, HeldInv, ListInv, AloneInv,
           NEW t \in Threads, op[t] = "put_new", pc[t] = "find"
    PROVE  /\ prev[t] \notin marked /\ Ahead(t) \notin marked /\ Ahead(t) \in fully_linked
           /\ top[Ahead(t)] <= level[t] /\ Ahead(t) \in Built \cup {Tail}
           /\ found[t] # NoNode => KeyAt[Ahead(t)] <= key[t]
<1>1. /\ prev[t] \in Built /\ level[t] \in Level /\ key[t] \in Keys /\ prev[t] # Tail
      /\ Ahead(t) \in Built \cup {Tail} /\ top[Ahead(t)] <= level[t]
      /\ KeyAt[prev[t]] < key[t]
  BY AheadFacts, NodeFacts DEF IInv, ThreadInv, SearchInv, Searching, IsBefore
<1>2. NewInv(t) /\ Searching(t)
  BY DEF AloneInv, Searching
<1>3. prev[t] \notin marked /\ prev[t] \in Listed(level[t])
  BY <1>1, <1>2 DEF NewInv, ListInv, ShapeInv, PredsInv
<1>4. PICK L : L = Listed(level[t]) /\ IsList(level[t], L)
  BY <1>1 DEF ListInv, ShapeInv
<1>5. Ahead(t) \in L
  BY <1>1, <1>3, <1>4, ListFacts DEF Ahead
<1>6. Ahead(t) \notin marked /\ Ahead(t) \in fully_linked
  BY <1>1, <1>2, <1>4, <1>5, ListsAtRest
<1>7. ASSUME found[t] # NoNode PROVE KeyAt[Ahead(t)] <= key[t]
  <2>1. found[t] \in Live /\ KeyAt[found[t]] = key[t] /\ top[found[t]] <= level[t]
    BY <1>2, <1>7 DEF NewInv
  <2>2. top[found[t]] \in Level
    BY <2>1 DEF Live, IInv, TypeOK, Node
  <2>3. found[t] \in L
    BY <1>1, <1>4, <2>1, <2>2 DEF ListInv, ShapeInv, LiveIsListed
  <2>4. QED BY <1>1, <1>3, <1>4, <2>1, <2>3, ListFacts DEF Ahead
<1>8. QED
  BY <1>1, <1>3, <1>6, <1>7

\* The search of a put_new ends at a live node, or with every level as it is.
LEMMA NewSearch ==
    ASSUME PutNewAlone, IInv, HeldInv, ListInv, AloneInv,
           NEW t \in Threads, op[t] = "put_new",
           FindRight(t) \/ FindDown(t) \/ FindHit(t) \/ FindAfter(t)
    PROVE  NewInv(t)'
<1>1. /\ TypeOK /\ NewInv(t) /\ SearchInv(t)
      /\ level[t] \in Level /\ Bottom \in Int /\ Level \subseteq Int
      /\ prev \in [Threads -> Node \cup {NoNode}] /\ found \in [Threads -> Node \cup {NoNode}]
      /\ pc \in [Threads -> PCs] /\ level \in [Threads -> Level]
      /\ before \in [Threads -> [Level -> Node \cup {NoNode}]]
      /\ after \in [Threads -> [Level -> Node \cup {NoNode}]]
  BY NumLevelsAssumption DEF IInv, TypeOK, ThreadInv, AloneInv, Level, Bottom
<1>2. UNCHANGED shared
  BY LocalActionFacts DEF LocalAction
<1>3. KeyAt' = KeyAt /\ Live' = Live /\ UNCHANGED <<top, nxt, marked, fully_linked, key>>
  BY <1>2 DEF KeyAt, Live, shared, FindRight, FindDown, FindHit, FindAfter, request
<1>4. CASE FindRight(t)
  <2>1. /\ prev'[t] = Ahead(t) /\ Ahead(t) \notin marked
        /\ UNCHANGED <<pc, level, found, before, after, valid, took, result>>
    BY <1>1, <1>4, NewAhead DEF FindRight
  <2>2. QED BY <1>1, <1>3, <2>1 DEF NewInv, Searching, Passed
<1>5. CASE FindDown(t)
  <2>1. /\ prev[t] \notin marked /\ Ahead(t) \in fully_linked
        /\ KeyAt[Ahead(t)] \in Int /\ key[t] \in Int
        /\ found[t] # NoNode => KeyAt[Ahead(t)] <= key[t]
    BY <1>1, <1>5, NewAhead, AheadFacts DEF FindDown, Keys
  <2>2. /\ pc[t] = "find" /\ found[t] = NoNode /\ found'[t] = NoNode /\ prev' = prev
        /\ before'[t] = [before[t] EXCEPT ![level[t]] = prev[t]]
        /\ after'[t] = [after[t] EXCEPT ![level[t]] = Ahead(t)]
    BY <1>1, <1>5, <2>1 DEF FindDown
  <2>3. \/ level[t] = Bottom /\ pc'[t] = "found" /\ level'[t] = level[t]
        \/ level[t] # Bottom /\ pc'[t] = "find" /\ level'[t] = level[t] + 1
    BY <1>1, <1>5 DEF FindDown, Descend, Goto
  <2>4. ASSUME NEW l \in Passed(t)', l # level[t] PROVE l \in Passed(t)
    BY <1>1, <2>2, <2>3, <2>4 DEF Passed, Searching, Level, Bottom
  <2>5. ASSUME NEW l \in Passed(t)'
        PROVE  before'[t][l] \notin marked /\ after'[t][l] \in fully_linked
               /\ nxt[before'[t][l]][l] = after'[t][l]
    <3>1. l \in Level
      BY DEF Passed
    <3>2. CASE l = level[t]
      BY <1>1, <2>1, <2>2, <3>2 DEF Ahead
    <3>3. CASE l # level[t]
      <4>1. before'[t][l] = before[t][l] /\ after'[t][l] = after[t][l]
        BY <1>1, <2>2, <3>1, <3>3
      <4>2. l \in Passed(t)
        BY <2>4, <3>3
      <4>3. QED BY <1>1, <2>2, <4>1, <4>2 DEF NewInv
    <3>4. QED BY <3>2, <3>3
  <2>6. QED BY <1>3, <2>1, <2>2, <2>3, <2>5 DEF NewInv
<1>6. CASE FindHit(t)
  <2>1. /\ Ahead(t) \notin marked /\ Ahead(t) \in fully_linked /\ prev[t] \notin marked
        /\ Ahead(t) \in Built \cup {Tail} /\ KeyAt[Ahead(t)] = key[t] /\ key[t] \in Keys
    BY <1>1, <1>6, NewAhead, AheadFacts DEF FindHit
  <2>2. Ahead(t) \in Built /\ Ahead(t) # Head
    BY <1>1, <2>1, NodeFacts, MaxKeyAssumption DEF IInv, Keys
  <2>3. Ahead(t) \in Live /\ Ahead(t) # NoNode
    BY <1>1, <2>1, <2>2, NodeKinds, NodeFacts DEF IInv
  <2>4. /\ found'[t] = Ahead(t) /\ pc'[t] = "after" /\ prev' = prev
    BY <1>1, <1>6 DEF FindHit, Goto
  <2>5. QED BY <1>1, <1>3, <2>1, <2>3, <2>4 DEF NewInv
<1>7. CASE FindAfter(t)
  <2>1. /\ pc[t] = "after" /\ found[t] \in Built /\ top[found[t]] <= level[t]
        /\ top[found[t]] \in Level /\ found[t] # NoNode
    BY <1>1, <1>7, NodeFacts DEF FindAfter, SearchInv, IsHit, IInv
  <2>2. UNCHANGED <<found, prev>>
    BY <1>7 DEF FindAfter
  <2>3. \/ pc'[t] = "found"
        \/ pc'[t] = "find" /\ level'[t] = level[t] + 1
    BY <1>1, <1>7 DEF FindAfter, Descend, Goto
  <2>4. found[t] \in Live /\ KeyAt[found[t]] = key[t] /\ prev[t] \notin marked
    BY <1>1, <2>1 DEF NewInv, Searching
  <2>5. pc'[t] = "find" => top[found[t]] <= level'[t]
    BY <1>1, <2>1, <2>3
  <2>6. pc'[t] # "unlock"
    BY <2>3
  <2>7. QED BY <1>3, <2>1, <2>2, <2>4, <2>5, <2>6 DEF NewInv
<1>8. QED
  BY <1>4, <1>5, <1>6, <1>7

\* What it has found stays, so that it validates every level and links its node.
LEMMA NewLinks ==
    ASSUME PutNewAlone, IInv, HeldInv, ListInv, AloneInv,
           NEW t \in Threads, op[t] = "put_new", Step(t),
           ~(FindRight(t) \/ FindDown(t) \/ FindHit(t) \/ FindAfter(t) \/ Return(t))
    PROVE  NewInv(t)'
<1>1. /\ TypeOK /\ NewInv(t) /\ FoundInv(t) /\ ControlInv(t)
      /\ pc \in [Threads -> PCs] /\ level[t] \in Level
      /\ after \in [Threads -> [Level -> Node \cup {NoNode}]]
      /\ valid \in [Threads -> BOOLEAN] /\ took \in [Threads -> BOOLEAN]
      /\ result \in [Threads -> Answers]
  BY DEF IInv, TypeOK, ThreadInv, AloneInv
<1>2. CASE LockPred(t)
  <2>1. /\ pc[t] = "lock" /\ pc'[t] = "check"
        /\ UNCHANGED <<nxt, marked, fully_linked, found, before, after>>
    BY <1>1, <1>2 DEF LockPred, Goto, search
  <2>2. QED BY <1>1, <2>1 DEF NewInv, Passed, Searching
<1>3. CASE CheckFails(t) \/ CheckNext(t)
  <2>1. pc[t] = "check" /\ found[t] = NoNode /\ Passed(t) = Level
    BY <1>1, <1>3 DEF CheckFails, CheckNext, ControlInv, Passed
  <2>2. Succs(t) = after[t][level[t]] /\ LevelIsValid(t)
    BY <1>1, <2>1 DEF NewInv, Succs, Expected, LevelIsValid
  <2>3. CheckNext(t)
    BY <1>3, <2>2 DEF CheckFails
  <2>4. after' = after
    BY <1>1, <2>2, <2>3 DEF CheckNext
  <2>5. /\ pc'[t] \in {"check", "lock"}
        /\ UNCHANGED <<nxt, marked, fully_linked, found, before>>
    BY <1>1, <2>3 DEF CheckNext, Goto, shared
  <2>6. QED BY <1>1, <2>1, <2>4, <2>5 DEF NewInv, Passed, Searching
<1>4. CASE CheckDone(t) \/ Fill(t)
  <2>1. pc'[t] \in {"fill", "link"} /\ found' = found
    BY <1>1, <1>4 DEF CheckDone, Fill, Goto, search
  <2>2. QED BY <2>1 DEF NewInv, Passed, Searching
<1>5. CASE Link(t)
  <2>1. pc'[t] \in {"link", "publish"}
    BY <1>1, <1>5, NextLevelUpType DEF Link, PCs
  <2>2. QED BY <2>1 DEF NewInv, Passed, Searching
<1>6. CASE UnlockPred(t)
  <2>1. pc'[t] = "unlock" /\ pc[t] = "unlock" /\ UNCHANGED <<valid, took, result>>
    BY <1>6 DEF UnlockPred
  <2>2. QED BY <1>1, <2>1 DEF NewInv, Passed, Searching
<1>7. CASE Publish(t)
  <2>1. pc'[t] = "unlock" /\ valid'[t] /\ took'[t] /\ result'[t] = 1
    BY <1>1, <1>7 DEF Publish, TakeEffect, Goto, ControlInv
  <2>2. QED BY <2>1 DEF NewInv, Passed, Searching
<1>8. CASE PutAbsent(t)
  <2>1. PICK n : /\ n \notin Built
                 /\ \A m \in Node : m # n => nxt'[m] = nxt[m]
                 /\ pc'[t] = "lock"
    BY <1>8, PutAbsentFacts
  <2>2. /\ pc[t] = "found" /\ UNCHANGED <<marked, fully_linked, found, before, after>>
    BY <1>8 DEF PutAbsent, search
  <2>3. \A l \in Level : before[t][l] \in Built /\ before[t][l] \in Node
    BY <1>1, <2>2, NodeFacts DEF FoundInv, Searched, IsBefore, IInv
  <2>4. \A l \in Level : nxt'[before[t][l]] = nxt[before[t][l]]
    BY <2>1, <2>3
  <2>5. QED BY <1>1, <2>1, <2>2, <2>4 DEF NewInv, Passed, Searching
<1>9. CASE PutNewFound(t) \/ PutNewDone(t)
  <2>1. pc'[t] = "return"
    BY <1>1, <1>9 DEF PutNewFound, PutNewDone, Answer, Goto
  <2>2. QED BY <2>1 DEF NewInv, Passed, Searching
<1>10. QED
  BY <1>1, <1>2, <1>3, <1>4, <1>5, <1>6, <1>7, <1>8, <1>9
  DEF Step, ControlInv, ReadOp, LookupFound, LookupMarked, LookupElement, PutFound,
      PutDone, WaitLinked, LockElement, LostRace, PutOver, RemoveMark, UnlockElement,
      RemoveFound, Unlink, RemoveUnlocked

LEMMA AloneStep ==
    ASSUME PutNewAlone, IInv, HeldInv, ListInv, AloneInv,
           NEW t \in Threads, Invoke(t) \/ Step(t)
    PROVE  AloneInv'
<1>1. /\ TypeOK /\ \A u \in Threads : u # t => SameLocals(u) /\ result'[u] = result[u]
      /\ marked \subseteq Nodes /\ Head \notin Nodes
  BY StepLocals, BorderAssumption DEF IInv, TypeOK
<1>2. ASSUME NEW u \in Threads, op'[u] # "none"
      PROVE  \E c \in CallsOf[u] : c.op = op'[u]
  BY <1>1, <1>2, StepOp DEF AloneInv, SameLocals
<1>3. ASSUME NEW u \in Threads, u # t, op'[u] = "put_new" PROVE NewInv(u)'
  <2>1. op[u] = "put_new" /\ SameLocals(u) /\ result'[u] = result[u] /\ NewInv(u)
    BY <1>1, <1>3 DEF SameLocals, AloneInv
  <2>2. UNCHANGED shared
    BY <1>3, <2>1, ReaderStep
  <2>3. KeyAt' = KeyAt /\ Live' = Live /\ UNCHANGED <<top, nxt, marked, fully_linked>>
    BY <2>2 DEF shared, KeyAt, Live
  <2>4. Passed(u)' = Passed(u)
    BY <2>1 DEF Passed, Searching, SameLocals
  <2>5. QED BY <2>1, <2>3, <2>4 DEF NewInv, Searching, SameLocals
<1>4. ASSUME op'[t] = "put_new" PROVE NewInv(t)'
  <2>1. CASE Invoke(t)
    <3>1. /\ pc'[t] = "find" /\ prev'[t] = Head /\ found'[t] = NoNode /\ level'[t] = 0
          /\ marked' = marked
      BY <1>1, <2>1 DEF Invoke, StartFind, Goto, TypeOK, shared
    <3>2. Passed(t)' = {}
      BY <3>1 DEF Passed, Searching, Level
    <3>3. QED BY <1>1, <3>1, <3>2 DEF NewInv
  <2>2. CASE Return(t)
    BY <1>1, <1>4, <2>2 DEF Return, TypeOK
  <2>3. CASE Step(t) /\ ~Return(t)
    <3>1. op' = op
      BY <2>3
      DEF Step, FindRight, FindDown, FindHit, FindAfter, LookupFound, LookupMarked,
          LookupElement, LockPred, CheckFails, CheckNext, CheckDone, UnlockPred, PutAbsent,
          PutFound, PutNewFound, Fill, Link, Publish, PutDone, PutNewDone, WaitLinked,
          LockElement, LostRace, PutOver, RemoveMark, UnlockElement, RemoveFound, Unlink,
          RemoveUnlocked, request
    <3>2. QED BY <1>4, <2>3, <3>1, NewSearch, NewLinks
  <2>4. QED BY <2>1, <2>2, <2>3
<1>5. QED
  BY <1>2, <1>3, <1>4 DEF AloneInv

LEMMA AloneNext ==
    ASSUME PutNewAlone
    PROVE  IInv /\ HeldInv /\ ListInv /\ AloneInv /\ [Next]_vars => AloneInv'
<1>1. ASSUME IInv, HeldInv, ListInv, AloneInv, NEW t \in Threads, Invoke(t) \/ Step(t)
      PROVE  AloneInv'
  BY <1>1, AloneStep
<1>2. ASSUME AloneInv, UNCHANGED vars PROVE AloneInv'
  <2>1. \A t \in Threads : NewInv(t)' <=> NewInv(t)
    BY <1>2 DEF NewInv, Passed, Searching, Live, KeyAt, vars, shared, search, request
  <2>2. QED BY <1>2, <2>1 DEF AloneInv, vars, request
<1>3. QED BY <1>1, <1>2 DEF Next, Terminated

\* A put_new with no other update beside it validates every level: it answers 0
\* of a key that is bound, and 1 only having stored its element, although it
\* looks at no result of try_insert_sublist (line 453; line 441 asks for care).
THEOREM PutNewSucceeds ==
    ASSUME PutNewAlone
    PROVE  Spec => []AloneInv
<1>1. Init => AloneInv
  BY DEF Init, AloneInv
<1>2. QED
  BY <1>1, AloneNext, Invariance, HeldInvariance, ListInvariance, PTL DEF Spec

-----------------------------------------------------------------------------
(* The nodes malloc has given out.                                         *)

\* A node that is not linked stays with its put until it is linked or freed.
LEMMA AccountOwn ==
    ASSUME IInv, AccountInv, NEW t \in Threads, Invoke(t) \/ Step(t), Unlinked(t),
           ~(op[t] = "put_new" /\ CheckFails(t))
    PROVE  \/ node[t] \in fully_linked'
           \/ node[t] \notin heap' /\ node'[t] = NoNode
           \/ /\ node'[t] = node[t] /\ IsPut(t)'
              /\ pc'[t] \in {"lock", "check", "fill", "link", "publish", "unlock"}
              /\ pc'[t] = "unlock" => op'[t] = "put" /\ ~valid'[t]
<1>1. /\ TypeOK /\ IsPut(t) /\ ControlInv(t)
      /\ pc[t] \in {"lock", "check", "fill", "link", "publish", "unlock"}
      /\ pc[t] = "unlock" => op[t] = "put" /\ ~valid[t]
  BY DEF IInv, ThreadInv, AccountInv
<1>2. CASE LockPred(t) \/ UnlockPred(t)
  BY <1>1, <1>2 DEF IsPut, LockPred, UnlockPred, Goto, TypeOK, request
<1>3. CASE CheckFails(t) \/ CheckNext(t) \/ CheckDone(t)
  BY <1>1, <1>3 DEF IsPut, CheckFails, CheckNext, CheckDone, Goto, TypeOK, request
<1>4. CASE Fill(t)
  BY <1>1, <1>4 DEF IsPut, Fill, Goto, TypeOK, request
<1>5. CASE Link(t)
  <2>1. pc'[t] \in {"link", "publish"} /\ UNCHANGED <<node, op>>
    BY <1>1, <1>5, NextLevelUpType DEF Link, NextLevelUp, Goto, TypeOK, request
  <2>2. QED BY <1>1, <2>1 DEF IsPut
<1>6. CASE Publish(t)
  BY <1>6 DEF Publish
<1>7. CASE PutDone(t)
  BY <1>1, <1>7, PutDoneFacts DEF PutDone
<1>8. QED
  BY <1>1, <1>2, <1>3, <1>4, <1>5, <1>6, <1>7
  DEF Step, Invoke, Return, FindRight, FindDown, FindHit, FindAfter, LookupFound,
      LookupMarked, LookupElement, PutAbsent, PutFound, PutNewFound, PutNewDone,
      WaitLinked, LockElement, LostRace, PutOver, RemoveMark, UnlockElement,
      RemoveFound, Unlink, RemoveUnlocked

\* Only PutAbsent gets a node.
LEMMA AccountNew ==
    ASSUME IInv, NEW t \in Threads, Invoke(t) \/ Step(t), ~PutAbsent(t)
    PROVE  heap' \subseteq heap /\ node'[t] \in {node[t], NoNode}
<1>1. TypeOK
  BY DEF IInv
<1>2. CASE LocalAction(t)
  <2>1. heap' = heap
    BY <1>2, LocalActionFacts DEF shared
  <2>2. CASE Return(t)
    BY <1>1, <2>1, <2>2 DEF Return, TypeOK
  <2>3. CASE ~Return(t)
    <3>1. node' = node
      BY <1>2, <2>3
      DEF LocalAction, Invoke, FindRight, FindDown, FindHit, FindAfter, LookupFound,
          LookupMarked, LookupElement, CheckFails, CheckNext, CheckDone, PutFound,
          PutNewFound, PutNewDone, WaitLinked, LostRace, RemoveFound, RemoveUnlocked
    <3>2. QED BY <2>1, <3>1
  <2>4. QED BY <2>2, <2>3
<1>3. CASE PutDone(t)
  BY <1>3, PutDoneFacts DEF nodeFields
<1>4. CASE \/ LockPred(t) \/ UnlockPred(t) \/ LockElement(t) \/ UnlockElement(t)
           \/ Fill(t) \/ Link(t) \/ Unlink(t) \/ Publish(t) \/ PutOver(t) \/ RemoveMark(t)
  BY <1>4 DEF LockPred, UnlockPred, LockElement, UnlockElement, Fill, Link, Unlink,
              Publish, PutOver, RemoveMark
<1>5. QED
  BY <1>2, <1>3, <1>4 DEF Step, LocalAction

LEMMA AccountStep ==
    ASSUME PutNewAlone, IInv, HeldInv, ListInv, AloneInv, AccountInv,
           NEW t \in Threads, Invoke(t) \/ Step(t)
    PROVE  AccountInv'
<1>1. /\ TypeOK /\ \A u \in Threads : u # t => SameLocals(u)
      /\ fully_linked \subseteq fully_linked' /\ NoNode \notin Node
      /\ \A u \in Threads : node[u] # NoNode => node[u] \in heap
      /\ \A u \in Threads \ {t} : node[u] # NoNode => node[u] # node[t]
      /\ fully_linked' \subseteq fully_linked \cup {node[t]}
  BY StepLocals, StepGuarantee
  DEF IInv, Guarantee, KeepsOthers, ThreadInv, NodeInv
<1>2. ~(op[t] = "put_new" /\ CheckFails(t))
  <2>1. SUFFICES ASSUME op[t] = "put_new", CheckFails(t) PROVE FALSE
    OBVIOUS
  <2>2. op'[t] = "put_new" /\ pc'[t] = "unlock" /\ ~valid'[t]
    BY <1>1, <2>1 DEF CheckFails, Goto, TypeOK, request
  <2>3. AloneInv'
    BY AloneStep
  <2>4. QED BY <2>2, <2>3 DEF AloneInv, NewInv
<1>3. ASSUME NEW u \in Threads, Unlinked(u)'
      PROVE  /\ IsPut(u)'
             /\ pc'[u] \in {"lock", "check", "fill", "link", "publish", "unlock"}
             /\ pc'[u] = "unlock" => op'[u] = "put" /\ ~valid'[u]
  <2>1. CASE u # t
    BY <1>1, <1>3, <2>1 DEF AccountInv, Unlinked, SameLocals, IsPut
  <2>2. CASE u = t /\ PutAbsent(t)
    <3>1. pc'[t] = "lock"
      BY <2>2, PutAbsentFacts
    <3>2. op' = op /\ op[t] \in {"put", "put_new"}
      BY <2>2 DEF PutAbsent, request
    <3>3. QED BY <2>2, <3>1, <3>2 DEF IsPut
  <2>3. CASE u = t /\ ~PutAbsent(t)
    <3>1. node'[t] = node[t] /\ node[t] # NoNode /\ node[t] \notin fully_linked'
      BY <1>3, <2>3, AccountNew DEF Unlinked
    <3>2. Unlinked(t)
      BY <1>1, <3>1 DEF Unlinked
    <3>3. QED BY <1>2, <2>3, <3>1, <3>2, AccountOwn
  <2>4. QED BY <2>1, <2>2, <2>3
<1>4. ASSUME NEW n \in heap' \ fully_linked'
      PROVE  \E u \in Threads : node'[u] = n /\ pc'[u] \notin {"idle", "return"}
  <2>1. CASE n \notin heap
    <3>1. PutAbsent(t)
      BY <1>4, <2>1, AccountNew
    <3>2. node'[t] = n /\ pc'[t] = "lock"
      BY <1>4, <2>1, <3>1, PutAbsentFacts
    <3>3. QED BY <3>2
  <2>2. CASE n \in heap
    <3>1. PICK u \in Threads : node[u] = n /\ pc[u] \notin {"idle", "return"}
      BY <1>1, <1>4, <2>2 DEF AccountInv, NodeAccounted
    <3>2. CASE u # t
      BY <1>1, <3>1, <3>2 DEF SameLocals
    <3>3. CASE u = t
      <4>1. Unlinked(t)
        BY <1>1, <1>4, <2>2, <3>1, <3>3 DEF Unlinked, TypeOK, Node
      <4>2. node'[t] = n /\ pc'[t] \in {"lock", "check", "fill", "link", "publish", "unlock"}
        BY <1>2, <1>4, <3>1, <3>3, <4>1, AccountOwn
      <4>3. QED BY <4>2
    <3>4. QED BY <3>2, <3>3
  <2>3. QED BY <2>1, <2>2
<1>5. QED
  BY <1>3, <1>4 DEF AccountInv, NodeAccounted

\* If who calls put_new is the only one to update the set, no node is lost: what
\* malloc gave out is linked, or a put still has it and will link it or free it
\* (lines 404-413), and a put_new does not return without its node (line 453).
THEOREM NodesAccounted ==
    ASSUME PutNewAlone
    PROVE  Spec => []NodeAccounted
<1>1. Init => AccountInv
  <2>1. SUFFICES ASSUME Init PROVE AccountInv
    OBVIOUS
  <2>2. /\ heap \subseteq fully_linked
        /\ \A t \in Threads : op[t] = "none" /\ node[t] = NoNode
    BY <2>1 DEF Init
  <2>3. QED BY <2>2 DEF AccountInv, NodeAccounted, Unlinked
<1>2. IInv /\ HeldInv /\ ListInv /\ AloneInv /\ AccountInv /\ [Next]_vars => AccountInv'
  <2>1. ASSUME IInv, HeldInv, ListInv, AloneInv, AccountInv, NEW t \in Threads, Invoke(t) \/ Step(t)
        PROVE  AccountInv'
    BY <2>1, AccountStep
  <2>2. ASSUME AccountInv, UNCHANGED vars PROVE AccountInv'
    BY <2>2 DEF IsPut, AccountInv, NodeAccounted, Unlinked, vars, shared, request
  <2>3. QED BY <2>1, <2>2 DEF Next, Terminated
<1>3. AccountInv => NodeAccounted
  BY DEF AccountInv
<1>4. QED
  BY <1>1, <1>2, <1>3, Invariance, HeldInvariance, ListInvariance, PutNewSucceeds, PTL DEF Spec
=============================================================================
