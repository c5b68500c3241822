------------------------- MODULE SkiplistQueriesProofs -------------------------
(***************************************************************************)
(* What the search and the queries of SkiplistQueries answer on lists that *)
(* are sorted and nested.  The lemmas are about one state, so they hold of *)
(* every module that instantiates SkiplistQueries.                         *)
(***************************************************************************)
EXTENDS SkiplistQueries, FiniteSetTheorems, WellFoundedInduction, TLAPS

-----------------------------------------------------------------------------
(* Loops.                                                                  *)

\* Induction, for a set: NatInduction has an operator parameter.
LEMMA NatClosed ==
    ASSUME NEW S, 0 \in S, \A i \in Nat : i \in S => i + 1 \in S
    PROVE  Nat \subseteq S
<1> DEFINE Below == {p \in Nat \X Nat : p[1] < p[2]}
           T == Nat \ S
<1>1. IsWellFoundedOn(OpToRel(<, Nat), Nat)
  BY NatLessThanWellFounded
<1>2. OpToRel(<, Nat) = Below
  BY Zenon DEF OpToRel
<1>3. IsWellFoundedOn(Below, Nat)
  BY <1>1, <1>2, Zenon
<1>4. SUFFICES ASSUME T # {} PROVE FALSE
  OBVIOUS
<1> HIDE DEF Below
<1>5. PICK i \in T : \A j \in T : <<j, i>> \notin Below
  <2>1. T \subseteq Nat
    OBVIOUS
  <2> HIDE DEF T
  <2>2. QED BY <1>3, <1>4, <2>1, WFMin, Zenon
<1>6. i - 1 \in Nat /\ <<i - 1, i>> \in Below
  BY <1>5, SMT DEF Below
<1>7. i - 1 \in S
  BY <1>5, <1>6
<1>8. QED
  BY <1>5, <1>6, <1>7

\* f is a loop's path up to round i.
Path(f, step, n, i) ==
    \A j \in 0..i : f[j] = IF j = 0 THEN n ELSE step[f[j - 1]]

\* A loop has one path, however far.
LEMMA PathExists ==
    ASSUME NEW step, NEW n, NEW i \in Nat
    PROVE  \E f : Path(f, step, n, i)
<1> DEFINE S == {j \in Nat : \E f : Path(f, step, n, j)}
<1>1. 0 \in S
  <2>1. Path([j \in {0} |-> n], step, n, 0)
    BY DEF Path
  <2>2. QED BY <2>1
<1>2. ASSUME NEW j \in Nat, j \in S PROVE j + 1 \in S
  <2>1. PICK f : Path(f, step, n, j)
    BY <1>2
  <2> DEFINE g == [k \in 0..j + 1 |-> IF k = j + 1 THEN step[f[j]] ELSE f[k]]
  <2>2. Path(g, step, n, j + 1)
    BY <2>1 DEF Path
  <2>3. QED BY <2>2
<1>3. Nat \subseteq S
  <2> HIDE DEF S
  <2>1. QED BY <1>1, <1>2, NatClosed
<1>4. QED
  BY <1>3

LEMMA PathUnique ==
    ASSUME NEW step, NEW n, NEW f, NEW g, NEW i \in Nat, NEW j \in Nat, j <= i,
           Path(f, step, n, i), Path(g, step, n, j)
    PROVE  \A k \in 0..j : f[k] = g[k]
<1> DEFINE S == {k \in Nat : k <= j => f[k] = g[k]}
<1>1. 0 \in S
  BY DEF Path
<1>2. ASSUME NEW k \in Nat, k \in S PROVE k + 1 \in S
  BY <1>2 DEF Path
<1>3. Nat \subseteq S
  <2> HIDE DEF S
  <2>1. QED BY <1>1, <1>2, NatClosed
<1>4. QED
  BY <1>3

\* Walk is the path: it starts with n, and each round takes one step.
LEMMA WalkDef ==
    ASSUME NEW step, NEW n
    PROVE  /\ Walk(step, n)[0] = n
           /\ \A i \in Nat : Walk(step, n)[i + 1] = step[Walk(step, n)[i]]
<1> DEFINE Def(f, i) == IF i = 0 THEN n ELSE step[f[i - 1]]
           Some(i) == CHOOSE f : Path(f, step, n, i)
           w == [i \in Nat |-> Some(i)[i]]
<1>1. \A i \in Nat : Path(Some(i), step, n, i)
  BY PathExists, Zenon
<1>2. \A i \in Nat : w[i] = Def(w, i)
  <2>1. SUFFICES ASSUME NEW i \in Nat PROVE w[i] = Def(w, i)
    OBVIOUS
  <2>2. CASE i = 0
    <3>1. Path(Some(0), step, n, 0)
      BY <1>1
    <3> HIDE DEF Some
    <3>2. QED BY <2>2, <3>1 DEF Path
  <2>3. CASE i # 0
    <3>1. i - 1 \in Nat /\ i - 1 <= i
      BY <2>3
    <3>2. Path(Some(i), step, n, i) /\ Path(Some(i - 1), step, n, i - 1)
      BY <1>1, <3>1
    <3> HIDE DEF Some
    <3>3. Some(i)[i - 1] = Some(i - 1)[i - 1]
      BY <3>1, <3>2, PathUnique
    <3>4. Some(i)[i] = step[Some(i)[i - 1]]
      BY <2>3, <3>2 DEF Path
    <3>5. QED BY <2>3, <3>1, <3>3, <3>4
  <2>4. QED BY <2>2, <2>3
<1>3. w = [i \in Nat |-> Def(w, i)]
  <2> HIDE DEF Def
  <2>1. QED BY <1>2
<1>4. Walk(step, n) = CHOOSE f : f = [i \in Nat |-> Def(f, i)]
  BY Zenon DEF Walk
<1>5. Walk(step, n) = [i \in Nat |-> Def(Walk(step, n), i)]
  <2> HIDE DEF Def, w
  <2>1. QED BY <1>3, <1>4, Zenon
<1>6. \A i \in Nat : Walk(step, n)[i] = Def(Walk(step, n), i)
  <2> DEFINE W == Walk(step, n)
  <2>1. W = [i \in Nat |-> Def(W, i)]
    BY <1>5
  <2> HIDE DEF W, Def
  <2>2. \A i \in Nat : W[i] = Def(W, i)
    BY <2>1
  <2>3. QED BY <2>2 DEF W
<1>7. QED
  BY <1>6

-----------------------------------------------------------------------------
(* The lists.                                                              *)

\* The nodes S of list l, from Head to Tail, in the order of their keys.
SortedList(S, l) ==
    /\ S \subseteq Node /\ Head \in S /\ Tail \in S
    /\ \A m \in S : KeyAt[m] \in Int /\ KeyAt[Head] <= KeyAt[m] /\ KeyAt[m] <= KeyAt[Tail]
    /\ \A m \in S \ {Tail} :
         /\ nxt[m][l] \in S /\ KeyAt[m] < KeyAt[nxt[m][l]]
         /\ \A n \in S : KeyAt[m] < KeyAt[n] => KeyAt[nxt[m][l]] <= KeyAt[n]
    /\ \A m, n \in S : KeyAt[m] = KeyAt[n] => m = n

\* L[l] is list l, and what is on it is on the lists below.
Layered(L) ==
    \A l \in Level : SortedList(L[l], l) /\ (l # Bottom => L[l] \subseteq L[l + 1])

\* The nodes are numbered along a list, with fewer numbers than nodes.
Smaller(S, n) == {m \in S : KeyAt[m] < KeyAt[n]}
Rank(S, n)    == Cardinality(Smaller(S, n))

LEMMA RankFacts ==
    ASSUME NEW l, NEW S, SortedList(S, l), IsFiniteSet(Node), NEW n \in S
    PROVE  /\ Rounds \in Nat /\ Rank(S, n) \in Nat /\ Rank(S, n) < Rounds
           /\ n # Tail => Rank(S, nxt[n][l]) >= Rank(S, n) + 1
<1>1. Smaller(S, n) \subseteq Node \ {n} /\ n \in Node
  BY DEF Smaller, SortedList
<1>2. IsFiniteSet(Node \ {n}) /\ Cardinality(Node \ {n}) = Cardinality(Node) - 1
  BY <1>1, FS_RemoveElement
<1>3. /\ Rounds \in Nat
      /\ IsFiniteSet(Smaller(S, n)) /\ Rank(S, n) \in Nat /\ Rank(S, n) <= Rounds - 1
  BY <1>1, <1>2, FS_Subset, FS_CardinalityType DEF Rank, Rounds
<1>4. ASSUME n # Tail PROVE Rank(S, nxt[n][l]) >= Rank(S, n) + 1
  <2> DEFINE m == nxt[n][l]
  <2>1. m \in S /\ KeyAt[n] < KeyAt[m]
    BY <1>4 DEF SortedList
  <2>2. Smaller(S, m) \subseteq Node
    BY DEF Smaller, SortedList
  <2>3. IsFiniteSet(Smaller(S, m))
    BY <2>2, FS_Subset
  <2>4. Smaller(S, n) \cup {n} \subseteq Smaller(S, m) /\ n \notin Smaller(S, n)
    <3>1. \A o \in S : KeyAt[o] \in Int
      BY DEF SortedList
    <3>2. QED BY <2>1, <3>1 DEF Smaller
  <2>5. Cardinality(Smaller(S, n) \cup {n}) = Rank(S, n) + 1
    BY <1>3, <2>4, FS_AddElement DEF Rank
  <2>6. Cardinality(Smaller(S, n) \cup {n}) <= Cardinality(Smaller(S, m))
    BY <2>3, <2>4, FS_Subset
  <2>7. Cardinality(Smaller(S, m)) \in Nat
    BY <2>3, FS_CardinalityType
  <2>8. QED BY <1>3, <2>5, <2>6, <2>7 DEF Rank
<1>5. QED
  BY <1>3, <1>4

\* p is the last node of list S before k.
LastBefore(p, S, k) ==
    /\ p \in S \ {Tail} /\ KeyAt[p] < k
    /\ \A m \in S : KeyAt[m] < k => KeyAt[m] <= KeyAt[p]

\* A loop that steps right from a node before k, as long as the next one is
\* before k too, ends at the last one.
LEMMA WalkRight ==
    ASSUME NEW l, NEW S, SortedList(S, l), IsFiniteSet(Node), NEW n \in S, NEW k \in Int,
           KeyAt[n] < k, k <= KeyAt[Tail]
    PROVE  LastBefore(find_neigbours_1_level(n, l, k), S, k)
<1> DEFINE right == [m \in Node |-> IF KeyAt[nxt[m][l]] < k THEN nxt[m][l] ELSE m]
           w == Walk(right, n)
           Stopped(m) == ~(KeyAt[nxt[m][l]] < k)
           T == {i \in Nat : /\ w[i] \in S \ {Tail} /\ KeyAt[w[i]] < k
                             /\ Stopped(w[i]) \/ Rank(S, w[i]) >= i}
<1>1. /\ S \subseteq Node /\ Tail \in S /\ \A m \in S : KeyAt[m] \in Int
      /\ \A m \in S \ {Tail} : nxt[m][l] \in S /\ KeyAt[m] < KeyAt[nxt[m][l]]
  BY DEF SortedList
<1>2. w[0] = n /\ \A i \in Nat : w[i + 1] = right[w[i]]
  <2> HIDE DEF right
  <2>1. QED BY WalkDef
<1>3. 0 \in T
  <2>1. w[0] = n
    BY <1>2
  <2>2. n \in S \ {Tail}
    BY <1>1
  <2>3. Rank(S, n) >= 0
    <3>1. Rank(S, n) \in Nat
      BY RankFacts
    <3>2. QED BY <3>1
  <2> HIDE DEF w, Stopped
  <2>4. QED BY <2>1, <2>2, <2>3
<1>4. ASSUME NEW i \in Nat, i \in T PROVE i + 1 \in T
  <2> DEFINE m == w[i]
  <2>1. m \in S \ {Tail} /\ KeyAt[m] < k /\ (Stopped(m) \/ Rank(S, m) >= i)
    BY <1>4
  <2>2. w[i + 1] = IF Stopped(m) THEN m ELSE nxt[m][l]
    <3>1. m \in Node /\ w[i + 1] = right[m]
      BY <1>1, <1>2, <2>1
    <3> HIDE DEF m, w
    <3>2. QED BY <3>1
  <2>3. CASE Stopped(m)
    <3> HIDE DEF m, w, Stopped
    <3>1. QED BY <2>1, <2>2, <2>3
  <2>4. CASE ~Stopped(m)
    <3>1. nxt[m][l] \in S /\ KeyAt[nxt[m][l]] < k /\ nxt[m][l] # Tail
      <4> HIDE DEF m, w
      <4>1. QED BY <1>1, <2>1, <2>4
    <3>2. Rank(S, nxt[m][l]) >= i + 1
      <4>1. Rank(S, nxt[m][l]) \in Nat /\ Rank(S, m) \in Nat
        BY <2>1, <3>1, RankFacts
      <4>2. Rank(S, nxt[m][l]) >= Rank(S, m) + 1
        BY <2>1, RankFacts
      <4> HIDE DEF m, w, Stopped
      <4>3. QED BY <2>1, <2>4, <4>1, <4>2
    <3> HIDE DEF m, w, Stopped
    <3>3. QED BY <2>2, <2>4, <3>1, <3>2
  <2>5. QED BY <2>3, <2>4
<1>5. Nat \subseteq T
  <2> HIDE DEF T
  <2>1. QED BY <1>3, <1>4, NatClosed
<1> DEFINE p == w[Rounds]
<1>6. Rounds \in T
  BY <1>5, RankFacts
<1>7. p \in S \ {Tail} /\ KeyAt[p] < k /\ (Stopped(p) \/ Rank(S, p) >= Rounds)
  BY <1>6
<1>8. Stopped(p)
  <2>1. Rank(S, p) \in Nat /\ Rank(S, p) < Rounds /\ Rounds \in Nat
    BY <1>7, RankFacts
  <2> HIDE DEF p, Stopped
  <2>2. QED BY <1>7, <2>1
<1>9. \A m \in S : KeyAt[m] < k => KeyAt[m] <= KeyAt[p]
  <2>1. \A m \in S : KeyAt[p] < KeyAt[m] => KeyAt[nxt[p][l]] <= KeyAt[m]
    BY <1>7 DEF SortedList
  <2>2. KeyAt[nxt[p][l]] \in Int
    BY <1>1, <1>7
  <2> HIDE DEF p
  <2>3. QED BY <1>1, <1>7, <1>8, <2>1, <2>2
<1>10. find_neigbours_1_level(n, l, k) = p
  BY DEF find_neigbours_1_level
<1>11. QED
  <2> HIDE DEF p
  <2>1. QED BY <1>7, <1>9, <1>10 DEF LastBefore

-----------------------------------------------------------------------------
(* The search.                                                             *)

\* Before goes down the levels, on each from where the one above has led to.
LEMMA BeforeDef ==
    ASSUME NEW k, NumLevels \in Nat \ {0}
    PROVE  \A l \in Level :
             Before(k)[l] =
               find_neigbours_1_level(IF l = 0 THEN Head ELSE Before(k)[l - 1], l, k)
<1> DEFINE At(f, l) == find_neigbours_1_level(IF l = 0 THEN Head ELSE f[l - 1], l, k)
           S == {i \in Nat : \E f : \A j \in 0..i : f[j] = At(f, j)}
<1>1. 0 \in S
  <2> DEFINE f == [j \in {0} |-> find_neigbours_1_level(Head, 0, k)]
  <2>1. f[0] = At(f, 0)
    <3>1. (IF 0 = 0 THEN Head ELSE f[0 - 1]) = Head
      OBVIOUS
    <3> HIDE DEF f
    <3>2. At(f, 0) = find_neigbours_1_level(Head, 0, k)
      BY <3>1, Zenon
    <3>3. QED BY <3>2 DEF f
  <2> HIDE DEF f, At
  <2>2. QED BY <2>1
<1>2. ASSUME NEW i \in Nat, i \in S PROVE i + 1 \in S
  <2>1. PICK f : \A j \in 0..i : f[j] = At(f, j)
    BY <1>2
  <2> DEFINE g == [j \in 0..i + 1 |-> IF j = i + 1 THEN At(f, i + 1) ELSE f[j]]
  <2>2. ASSUME NEW j \in 0..i + 1 PROVE At(g, j) = At(f, j)
    <3>1. (IF j = 0 THEN Head ELSE g[j - 1]) = (IF j = 0 THEN Head ELSE f[j - 1])
      OBVIOUS
    <3> HIDE DEF g
    <3>2. QED BY <3>1
  <2>3. \A j \in 0..i + 1 : g[j] = IF j = i + 1 THEN At(f, j) ELSE f[j]
    BY Zenon
  <2> HIDE DEF g, At
  <2>4. \A j \in 0..i + 1 : g[j] = At(g, j)
    BY <2>1, <2>2, <2>3
  <2>5. QED BY <2>4
<1>3. Nat \subseteq S
  <2> HIDE DEF S
  <2>1. QED BY <1>1, <1>2, NatClosed
<1>4. PICK f : \A j \in 0..Bottom : f[j] = At(f, j)
  <2>1. Bottom \in S
    <3> HIDE DEF S
    <3>1. QED BY <1>3 DEF Bottom
  <2> HIDE DEF At
  <2>2. QED BY <2>1
<1> DEFINE b == [l \in Level |-> f[l]]
<1>5. ASSUME NEW l \in Level PROVE At(b, l) = At(f, l)
  <2>1. (IF l = 0 THEN Head ELSE b[l - 1]) = (IF l = 0 THEN Head ELSE f[l - 1])
    BY DEF Level
  <2> HIDE DEF b
  <2>2. QED BY <2>1
<1>6. b = [l \in Level |-> At(b, l)]
  <2> HIDE DEF At
  <2>1. QED BY <1>4, <1>5 DEF Level, Bottom
<1>7. Before(k) = CHOOSE g : g = [l \in Level |-> At(g, l)]
  BY Zenon DEF Before
<1>8. Before(k) = [l \in Level |-> At(Before(k), l)]
  <2> HIDE DEF At, b
  <2>1. QED BY <1>6, <1>7, Zenon
<1>9. \A l \in Level : Before(k)[l] = At(Before(k), l)
  <2> DEFINE B == Before(k)
  <2> HIDE DEF At, B
  <2>1. B = [l \in Level |-> At(B, l)] => \A l \in Level : B[l] = At(B, l)
    OBVIOUS
  <2>2. QED BY <1>8, <2>1 DEF B
<1>10. QED
  BY <1>9

\* On every level the search ends at the last node before k.
LEMMA BeforeIsLast ==
    ASSUME NEW L, Layered(L), IsFiniteSet(Node), NumLevels \in Nat \ {0},
           NEW k \in Int, KeyAt[Head] < k, k <= KeyAt[Tail]
    PROVE  \A l \in Level : LastBefore(Before(k)[l], L[l], k)
<1> DEFINE S == {i \in Nat : i \in Level => LastBefore(Before(k)[i], L[i], k)}
<1>1. 0 \in S
  <2>1. SortedList(L[0], 0) /\ 0 \in Level
    BY DEF Layered, Level
  <2>2. Before(k)[0] = find_neigbours_1_level(Head, 0, k)
    BY <2>1, BeforeDef
  <2>3. Head \in L[0]
    BY <2>1 DEF SortedList
  <2>4. LastBefore(Before(k)[0], L[0], k)
    BY <2>1, <2>2, <2>3, WalkRight
  <2>5. QED BY <2>4
<1>2. ASSUME NEW i \in Nat, i \in S PROVE i + 1 \in S
  <2>1. SUFFICES ASSUME i + 1 \in Level PROVE LastBefore(Before(k)[i + 1], L[i + 1], k)
    OBVIOUS
  <2> DEFINE n == Before(k)[i]
  <2>2. i \in Level /\ i # Bottom
    BY <2>1 DEF Level, Bottom
  <2>3. n \in L[i] /\ KeyAt[n] < k
    BY <1>2, <2>2 DEF LastBefore
  <2>4. n \in L[i + 1] /\ SortedList(L[i + 1], i + 1)
    BY <2>1, <2>2, <2>3 DEF Layered
  <2>5. Before(k)[i + 1] = find_neigbours_1_level(n, i + 1, k)
    <3>1. i + 1 # 0 /\ (i + 1) - 1 = i
      OBVIOUS
    <3>2. QED BY <2>1, <3>1, BeforeDef
  <2>6. QED BY <2>3, <2>4, <2>5, WalkRight
<1>3. Nat \subseteq S
  <2> HIDE DEF S
  <2>1. QED BY <1>1, <1>2, NatClosed
<1>4. QED
  BY <1>3 DEF Level

\* p is the first node of list S after k.
FirstAfter(p, S, k) ==
    /\ p \in S /\ KeyAt[p] > k
    /\ \A m \in S : KeyAt[m] > k => KeyAt[m] >= KeyAt[p]

\* The search finds, on every level, the nodes before and after k, and the
\* node with key k if the bottom list has one.
LEMMA SearchFacts ==
    ASSUME NEW L, Layered(L), IsFiniteSet(Node), NumLevels \in Nat \ {0}, NoNode \notin Node,
           NEW k \in Int, KeyAt[Head] < k, k < KeyAt[Tail]
    PROVE  /\ \A l \in Level : /\ LastBefore(find_neigbours(k).before[l], L[l], k)
                               /\ FirstAfter(find_neigbours(k).after[l], L[l], k)
           /\ \A l \in Level : \A n \in L[l] : KeyAt[n] = k =>
                nxt[find_neigbours(k).before[l]][l] = n /\ nxt[n][l] = find_neigbours(k).after[l]
           /\ \A l \in Level : (\A n \in L[l] : KeyAt[n] # k) =>
                nxt[find_neigbours(k).before[l]][l] = find_neigbours(k).after[l]
           /\ \A n \in L[Bottom] : KeyAt[n] = k <=> find_neigbours(k).found = n
           /\ (\A n \in L[Bottom] : KeyAt[n] # k) => find_neigbours(k).found = NoNode
<1> DEFINE b == Before(k)
           ahead == [l \in Level |-> nxt[b[l]][l]]
           hit(l) == KeyAt[ahead[l]] = k
           f == find_neigbours(k)
<1>1. ASSUME NEW l \in Level
      PROVE  /\ L[l] \subseteq Node /\ Tail \in L[l] /\ \A m \in L[l] : KeyAt[m] \in Int
             /\ \A m, n \in L[l] : KeyAt[m] = KeyAt[n] => m = n
             /\ \A m \in L[l] \ {Tail} :
                  /\ nxt[m][l] \in L[l] /\ KeyAt[m] < KeyAt[nxt[m][l]]
                  /\ \A n \in L[l] : KeyAt[m] < KeyAt[n] => KeyAt[nxt[m][l]] <= KeyAt[n]
  BY DEF Layered, SortedList
<1>2. \A l \in Level : LastBefore(b[l], L[l], k)
  <2>1. k <= KeyAt[Tail]
    <3>1. 0 \in Level
      BY DEF Level
    <3>2. KeyAt[Tail] \in Int
      BY <1>1, <3>1
    <3>3. QED BY <3>2
  <2>2. QED BY <2>1, BeforeIsLast
<1>3. f = [before |-> b,
           after  |-> [l \in Level |-> IF hit(l) THEN nxt[ahead[l]][l] ELSE ahead[l]],
           found  |-> IF hit(Bottom) THEN ahead[Bottom] ELSE NoNode]
  BY Zenon DEF find_neigbours
<1>4. f.before = b /\ f.found = (IF hit(Bottom) THEN ahead[Bottom] ELSE NoNode)
      /\ \A l \in Level : f.after[l] = IF hit(l) THEN nxt[ahead[l]][l] ELSE ahead[l]
  <2> HIDE DEF f, b, ahead
  <2>1. QED BY <1>3
<1>5. ASSUME NEW l \in Level
      PROVE  /\ ahead[l] \in L[l] /\ KeyAt[ahead[l]] >= k
             /\ \A m \in L[l] : KeyAt[m] >= k => KeyAt[m] >= KeyAt[ahead[l]]
  <2>1. ahead[l] = nxt[b[l]][l]
    BY Zenon
  <2>2. LastBefore(b[l], L[l], k)
    BY <1>2
  <2> HIDE DEF ahead, b
  <2>3. /\ nxt[b[l]][l] \in L[l] /\ KeyAt[b[l]] < KeyAt[nxt[b[l]][l]] /\ b[l] \in L[l]
        /\ \A n \in L[l] : KeyAt[b[l]] < KeyAt[n] => KeyAt[nxt[b[l]][l]] <= KeyAt[n]
    BY <1>1, <2>2 DEF LastBefore
  <2>4. ~(KeyAt[ahead[l]] < k)
    BY <1>1, <2>1, <2>2, <2>3 DEF LastBefore
  <2>5. QED BY <1>1, <2>1, <2>2, <2>3, <2>4 DEF LastBefore
<1> HIDE DEF ahead, b, f
<1>6. ASSUME NEW l \in Level PROVE FirstAfter(f.after[l], L[l], k)
  <2>1. CASE hit(l)
    <3>1. ahead[l] # Tail /\ f.after[l] = nxt[ahead[l]][l]
      BY <1>1, <1>4, <2>1
    <3>2. QED BY <1>1, <1>5, <2>1, <3>1 DEF FirstAfter
  <2>2. CASE ~hit(l)
    BY <1>1, <1>4, <1>5, <2>2 DEF FirstAfter
  <2>3. QED BY <2>1, <2>2
<1>7. ASSUME NEW l \in Level, NEW n \in L[l], KeyAt[n] = k
      PROVE  hit(l) /\ ahead[l] = n
  BY <1>1, <1>5, <1>7
<1>8. \A l \in Level : ahead[l] = nxt[f.before[l]][l]
  BY <1>4 DEF ahead
<1>9. \A l \in Level : \A n \in L[l] : KeyAt[n] = k =>
        nxt[f.before[l]][l] = n /\ nxt[n][l] = f.after[l]
  BY <1>4, <1>7, <1>8
<1>10. \A l \in Level : (\A n \in L[l] : KeyAt[n] # k) => nxt[f.before[l]][l] = f.after[l]
  BY <1>4, <1>5, <1>8
<1>11. Bottom \in Level
  BY DEF Bottom, Level
<1>12. \A n \in L[Bottom] : KeyAt[n] = k <=> f.found = n
  BY <1>1, <1>4, <1>5, <1>7, <1>11
<1>13. (\A n \in L[Bottom] : KeyAt[n] # k) => f.found = NoNode
  BY <1>4, <1>5, <1>11
<1>14. QED
  BY <1>2, <1>4, <1>6, <1>9, <1>10, <1>12, <1>13 DEF f

-----------------------------------------------------------------------------
(* The queries.                                                            *)

\* The queries answer with the first node, the last, the first after k and
\* the last before k of the bottom list.
LEMMA QueryFacts ==
    ASSUME NEW L, Layered(L), IsFiniteSet(Node), NumLevels \in Nat \ {0}, NoNode \notin Node,
           Head # Tail
    PROVE  /\ \E n : FirstAfter(n, L[Bottom], KeyAt[Head]) /\ skiplist_first = element[n]
           /\ \E n : LastBefore(n, L[Bottom], KeyAt[Tail]) /\ skiplist_last = element[n]
           /\ \A k \in Int : KeyAt[Head] < k /\ k < KeyAt[Tail] =>
                /\ \E n : FirstAfter(n, L[Bottom], k) /\ skiplist_next(k) = element[n]
                /\ \E n : LastBefore(n, L[Bottom], k) /\ skiplist_previous(k) = element[n]
<1>1. SortedList(L[Bottom], Bottom) /\ Bottom \in Level
  BY DEF Layered, Level, Bottom
<1>2. FirstAfter(nxt[Head][Bottom], L[Bottom], KeyAt[Head])
  BY <1>1 DEF SortedList, FirstAfter
<1>3. KeyAt[Tail] \in Int /\ KeyAt[Head] < KeyAt[Tail]
  BY <1>1 DEF SortedList
<1>4. LastBefore(Before(KeyAt[Tail])[Bottom], L[Bottom], KeyAt[Tail])
  BY <1>1, <1>3, BeforeIsLast
<1>5. ASSUME NEW k \in Int, KeyAt[Head] < k, k < KeyAt[Tail]
      PROVE  /\ FirstAfter(find_neigbours(k).after[Bottom], L[Bottom], k)
             /\ LastBefore(find_neigbours(k).before[Bottom], L[Bottom], k)
  BY <1>1, <1>5, SearchFacts
<1>6. QED
  BY <1>2, <1>4, <1>5 DEF skiplist_first, skiplist_last, skiplist_next, skiplist_previous

\* skiplist_delete frees the nodes of the bottom list between the borders.
LEMMA DeletedNodes ==
    ASSUME NEW L, Layered(L), IsFiniteSet(Node), NumLevels \in Nat \ {0}, Head # Tail
    PROVE  Deleted = L[Bottom] \ {Head, Tail}
<1> DEFINE S == L[Bottom]
           next == [m \in Node |-> IF m = Tail THEN Tail ELSE nxt[m][Bottom]]
           w == Walk(next, nxt[Head][Bottom])
<1>1. SortedList(S, Bottom)
  BY DEF Layered, Level, Bottom
<1> HIDE DEF S
<1>2. /\ S \subseteq Node /\ Head \in S /\ Tail \in S
      /\ \A m \in S : KeyAt[m] \in Int /\ KeyAt[Head] <= KeyAt[m]
      /\ \A m \in S \ {Tail} : nxt[m][Bottom] \in S /\ KeyAt[m] < KeyAt[nxt[m][Bottom]]
      /\ \A m \in S \ {Tail} : \A n \in S :
           KeyAt[m] < KeyAt[n] => KeyAt[nxt[m][Bottom]] <= KeyAt[n]
      /\ \A m, n \in S : KeyAt[m] = KeyAt[n] => m = n
  BY <1>1 DEF SortedList
<1>3. w[0] = nxt[Head][Bottom] /\ \A i \in Nat : w[i + 1] = next[w[i]]
  <2> HIDE DEF next
  <2>1. QED BY WalkDef
<1>4. \A i \in Nat : w[i] \in Node => w[i + 1] = IF w[i] = Tail THEN Tail ELSE nxt[w[i]][Bottom]
  <2> HIDE DEF w
  <2>1. QED BY <1>3
<1>5. w[0] = nxt[Head][Bottom]
  BY <1>3
<1> HIDE DEF w
<1> DEFINE T == {i \in Nat : w[i] \in S \ {Head}}
<1>6. 0 \in T
  BY <1>2, <1>5
<1>7. ASSUME NEW i \in Nat, i \in T PROVE i + 1 \in T
  <2>1. w[i] \in S /\ w[i] \in Node /\ w[i] # Head
    BY <1>2, <1>7
  <2>2. w[i + 1] = IF w[i] = Tail THEN Tail ELSE nxt[w[i]][Bottom]
    BY <1>4, <2>1
  <2>3. w[i + 1] \in S \ {Head}
    <3>1. CASE w[i] = Tail
      BY <1>2, <2>2, <3>1
    <3>2. CASE w[i] # Tail
      <4>1. nxt[w[i]][Bottom] \in S /\ KeyAt[w[i]] < KeyAt[nxt[w[i]][Bottom]]
        BY <1>2, <2>1, <3>2
      <4>2. nxt[w[i]][Bottom] # Head
        BY <1>2, <2>1, <4>1
      <4>3. QED BY <2>2, <3>2, <4>1, <4>2
    <3>3. QED BY <3>1, <3>2
  <2>4. QED BY <2>3
<1>8. \A i \in Nat : w[i] \in S \ {Head}
  <2>1. Nat \subseteq T
    <3> HIDE DEF T
    <3>1. QED BY <1>6, <1>7, NatClosed
  <2>2. QED BY <2>1
<1>9. ASSUME NEW m \in S \ {Head, Tail} PROVE \E i \in 0..Rounds : w[i] = m
  <2>1. SUFFICES ASSUME \A i \in 0..Rounds : w[i] # m PROVE FALSE
    OBVIOUS
  <2> DEFINE U == {i \in Nat : i <= Rounds =>
                     w[i] # Tail /\ KeyAt[w[i]] < KeyAt[m] /\ Rank(S, w[i]) >= i}
  <2>2. ASSUME NEW n \in S \ {Tail}, KeyAt[n] < KeyAt[m], nxt[n][Bottom] # m
        PROVE  nxt[n][Bottom] # Tail /\ KeyAt[nxt[n][Bottom]] < KeyAt[m]
    <3>1. nxt[n][Bottom] \in S /\ KeyAt[nxt[n][Bottom]] <= KeyAt[m]
      BY <1>2, <2>2
    <3>2. KeyAt[nxt[n][Bottom]] # KeyAt[m]
      BY <1>2, <2>2, <3>1
    <3>3. KeyAt[m] <= KeyAt[Tail]
      BY <1>1 DEF SortedList
    <3>4. QED BY <1>2, <3>1, <3>2, <3>3
  <2>3. Rounds \in Nat /\ \A n \in S : Rank(S, n) \in Nat /\ Rank(S, n) < Rounds
    BY <1>1, RankFacts
  <2>4. 0 \in U
    <3>1. KeyAt[Head] < KeyAt[m] /\ w[0] # m
      BY <1>2, <2>1, <2>3
    <3>2. w[0] # Tail /\ KeyAt[w[0]] < KeyAt[m]
      BY <1>2, <1>5, <2>2, <3>1
    <3>3. Rank(S, w[0]) >= 0
      BY <1>8, <2>3
    <3>4. QED BY <3>2, <3>3
  <2>5. ASSUME NEW i \in Nat, i \in U PROVE i + 1 \in U
    <3>1. SUFFICES ASSUME i + 1 <= Rounds
                   PROVE  w[i + 1] # Tail /\ KeyAt[w[i + 1]] < KeyAt[m] /\ Rank(S, w[i + 1]) >= i + 1
      OBVIOUS
    <3>2. w[i] \in S \ {Tail} /\ KeyAt[w[i]] < KeyAt[m] /\ Rank(S, w[i]) >= i
      BY <1>8, <2>3, <2>5, <3>1
    <3>3. w[i + 1] = nxt[w[i]][Bottom]
      BY <1>2, <1>4, <3>2
    <3>4. w[i + 1] # m
      BY <2>1, <2>3, <3>1
    <3>5. w[i + 1] # Tail /\ KeyAt[w[i + 1]] < KeyAt[m]
      BY <2>2, <3>2, <3>3, <3>4
    <3>6. Rank(S, w[i + 1]) >= Rank(S, w[i]) + 1
      BY <1>1, <3>2, <3>3, RankFacts
    <3>7. Rank(S, w[i + 1]) \in Nat /\ Rank(S, w[i]) \in Nat
      BY <1>8, <2>3
    <3>8. QED BY <3>2, <3>5, <3>6, <3>7
  <2>6. Nat \subseteq U
    <3> HIDE DEF U
    <3>1. QED BY <2>4, <2>5, NatClosed
  <2>7. Rank(S, w[Rounds]) >= Rounds
    BY <2>3, <2>6
  <2>8. QED BY <1>8, <2>3, <2>7
<1>10. Deleted = {w[i] : i \in 0..Rounds} \ {Tail}
  BY DEF Deleted, w
<1>11. Rounds \in Nat
  BY <1>1, <1>2, RankFacts
<1>12. Deleted = S \ {Head, Tail}
  BY <1>8, <1>9, <1>10, <1>11
<1>13. QED
  BY <1>12 DEF S

-----------------------------------------------------------------------------
(* The queries, by keys.                                                   *)

\* M is what S holds between the borders.
Between(M, S) ==
    /\ \A n : n \in S <=> n \in {Head, Tail} \cup M
    /\ \A m \in M : KeyAt[m] \in Int /\ KeyAt[Head] < KeyAt[m] /\ KeyAt[m] < KeyAt[Tail]

\* The first node after k has the smallest of the keys after k, unless there is none.
LEMMA SmallestAfter ==
    ASSUME NEW M, NEW S, Between(M, S), NEW k \in Int, KeyAt[Head] <= k,
           KeyAt[Head] \in Int, KeyAt[Tail] \in Int, NEW n, FirstAfter(n, S, k),
           NEW B, \A j : j \in B <=> j > k /\ \E m \in M : KeyAt[m] = j
    PROVE  \/ B = {} /\ n = Tail
           \/ n \in M /\ KeyAt[n] \in B /\ \A j \in B : KeyAt[n] <= j /\ j \in Int
<1>1. n \in S /\ KeyAt[n] > k /\ \A m \in S : KeyAt[m] > k => KeyAt[m] >= KeyAt[n]
  BY DEF FirstAfter
<1>2. CASE n \in M
  <2>1. KeyAt[n] \in B
    BY <1>1, <1>2
  <2>2. ASSUME NEW j \in B PROVE KeyAt[n] <= j
    BY <1>1 DEF Between
  <2>3. \A i \in B : i \in Int
    BY DEF Between
  <2>4. QED BY <1>2, <2>1, <2>2, <2>3
<1>3. CASE n = Tail
  <2>1. ASSUME NEW j \in B PROVE FALSE
    <3>1. PICK m \in M : KeyAt[m] = j
      BY <2>1
    <3>2. m \in S
      BY DEF Between
    <3>3. QED BY <1>1, <1>3, <2>1, <3>1, <3>2 DEF Between
  <2>2. QED BY <1>3, <2>1
<1>4. n # Head
  BY <1>1
<1>5. QED
  BY <1>1, <1>2, <1>3, <1>4 DEF Between

\* The last node before k has the greatest of the keys before k, unless there is none.
LEMMA GreatestBefore ==
    ASSUME NEW M, NEW S, Between(M, S), NEW k \in Int, k <= KeyAt[Tail],
           KeyAt[Head] \in Int, KeyAt[Tail] \in Int, NEW n, LastBefore(n, S, k),
           NEW B, \A j : j \in B <=> j < k /\ \E m \in M : KeyAt[m] = j
    PROVE  \/ B = {} /\ n = Head
           \/ n \in M /\ KeyAt[n] \in B /\ \A j \in B : KeyAt[n] >= j /\ j \in Int
<1>1. /\ n \in S /\ n # Tail /\ KeyAt[n] < k
      /\ \A m \in S : KeyAt[m] < k => KeyAt[m] <= KeyAt[n]
  BY DEF LastBefore
<1>2. CASE n \in M
  <2>1. KeyAt[n] \in B
    BY <1>1, <1>2
  <2>2. ASSUME NEW j \in B PROVE KeyAt[n] >= j
    BY <1>1 DEF Between
  <2>3. \A i \in B : i \in Int
    BY DEF Between
  <2>4. QED BY <1>2, <2>1, <2>2, <2>3
<1>3. CASE n = Head
  <2>1. ASSUME NEW j \in B PROVE FALSE
    <3>1. PICK m \in M : KeyAt[m] = j
      BY <2>1
    <3>2. m \in S
      BY DEF Between
    <3>3. QED BY <1>1, <1>3, <2>1, <3>1, <3>2 DEF Between
  <2>2. QED BY <1>3, <2>1
<1>4. QED
  BY <1>1, <1>2, <1>3 DEF Between
=============================================================================
