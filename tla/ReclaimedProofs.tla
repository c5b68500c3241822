--------------------------- MODULE ReclaimedProofs ---------------------------
(***************************************************************************)
(* What the ordered queries answer between calls, and which nodes are      *)
(* freed.                                                                  *)
(***************************************************************************)
EXTENDS ReclaimedSkiplist, SkiplistAnswersProofs

Q == INSTANCE SkiplistQueriesProofs

-----------------------------------------------------------------------------
(* The ordered queries.                                                    *)

LEMMA SameQueries ==
    /\ Lists!skiplist_first = Q!skiplist_first
    /\ Lists!skiplist_last = Q!skiplist_last
    /\ \A k : Lists!skiplist_next(k) = Q!skiplist_next(k)
    /\ \A k : Lists!skiplist_previous(k) = Q!skiplist_previous(k)
    /\ Lists!Deleted = Q!Deleted
<1>1. Lists!Level = Q!Level /\ Lists!Bottom = Q!Bottom /\ Lists!Rounds = Q!Rounds
  BY Zenon DEF Lists!Level, Q!Level, Lists!Bottom, Q!Bottom, Lists!Rounds, Q!Rounds,
    Lists!Cardinality, Q!Cardinality
<1>2. \A step, n : Lists!Walk(step, n) = Q!Walk(step, n)
  BY Zenon DEF Lists!Walk, Q!Walk
<1>3. \A n, l, k : Lists!find_neigbours_1_level(n, l, k) = Q!find_neigbours_1_level(n, l, k)
  BY Zenon, <1>1, <1>2 DEF Lists!find_neigbours_1_level, Q!find_neigbours_1_level
<1>4. \A k : Lists!Before(k) = Q!Before(k)
  BY Zenon, <1>1, <1>3 DEF Lists!Before, Q!Before
<1>5. \A k : Lists!find_neigbours(k) = Q!find_neigbours(k)
  <2>1. SUFFICES ASSUME NEW k PROVE Lists!find_neigbours(k) = Q!find_neigbours(k)
    OBVIOUS
  <2>2. Lists!Before(k) = Q!Before(k) /\ Lists!Level = Q!Level /\ Lists!Bottom = Q!Bottom
    BY <1>1, <1>4
  <2>3. QED BY <2>2 DEF Lists!find_neigbours, Q!find_neigbours
<1>6. Lists!Deleted = Q!Deleted
  BY Zenon, <1>1, <1>2 DEF Lists!Deleted, Q!Deleted
<1>7. QED
  BY <1>1, <1>4, <1>5, <1>6
  DEF Lists!skiplist_first, Lists!skiplist_last, Lists!skiplist_next, Lists!skiplist_previous,
      Q!skiplist_first, Q!skiplist_last, Q!skiplist_next, Q!skiplist_previous

LEMMA NodesFinite == IsFiniteSet(Node) /\ Q!IsFiniteSet(Node)
<1>1. IsFiniteSet(Nodes \cup {Head})
  BY NodeAssumption, FS_AddElement
<1>2. IsFiniteSet((Nodes \cup {Head}) \cup {Tail})
  BY <1>1, FS_AddElement
<1>3. (Nodes \cup {Head}) \cup {Tail} = Node
  BY DEF Node
<1>4. IsFiniteSet(Node)
  BY <1>2, <1>3
<1>5. \A S : IsFiniteSet(S) => Q!IsFiniteSet(S)
  BY Zenon DEF IsFiniteSet, Q!IsFiniteSet
<1>6. QED
  BY <1>4, <1>5

\* Between calls the lists are sorted and nested: each is that of the live
\* nodes of its level.
LEMMA QuietLayered ==
    ASSUME IInv, HeldInv, ListInv, Quiet
    PROVE  /\ Q!Layered([l \in Level |-> Listed(l)])
           /\ Q!Bottom = Bottom /\ Bottom \in Level
           /\ \A n : n \in Listed(Bottom) <=> n \in {Head, Tail} \cup Live
<1> DEFINE L == [l \in Level |-> Listed(l)]
<1>1. /\ Q!Bottom = Bottom /\ Bottom \in Level /\ Q!Level = Level
      /\ \A l \in Level : l # Bottom => l + 1 \in Level /\ l < l + 1
  BY NumLevelsAssumption DEF Q!Bottom, Q!Level, Bottom, Level
<1>2. ASSUME NEW l \in Level
      PROVE  \A n : n \in Listed(l) <=> n \in {Head, Tail} \/ (n \in Live /\ l >= top[n])
  BY <1>2, QuietLists DEF Quiet
<1>3. \A n \in Live : top[n] \in Level
  BY DEF Live, IInv, TypeOK, Node
<1>4. ASSUME NEW l \in Level PROVE Q!SortedList(Listed(l), l)
  <2>1. PICK S : S = Listed(l) /\ IsList(l, S)
    BY DEF ListInv, ShapeInv
  <2>2. /\ Head \in S /\ Tail \in S
        /\ \A n \in S : /\ n \in Node /\ n \in Built \cup {Tail} /\ KeyAt[n] \in Int
        /\ \A m \in S \ {Tail} :
             /\ nxt[m][l] \in S /\ KeyAt[m] < KeyAt[nxt[m][l]]
             /\ \A n \in S : KeyAt[m] < KeyAt[n] => KeyAt[nxt[m][l]] <= KeyAt[n]
        /\ \A m, n \in S : KeyAt[m] = KeyAt[n] => m = n
    BY <2>1, ListFacts
  <2>3. \A n \in S : KeyAt[Head] <= KeyAt[n] /\ KeyAt[n] <= KeyAt[Tail]
    BY <2>2, NodeFacts, MaxKeyAssumption DEF IInv, Keys
  <2>4. QED BY <2>1, <2>2, <2>3 DEF Q!SortedList
<1>5. ASSUME NEW l \in Level, l # Bottom PROVE Listed(l) \subseteq Listed(l + 1)
  <2>1. l + 1 \in Level
    BY <1>1, <1>5
  <2>2. \A n \in Live : l >= top[n] => l + 1 >= top[n]
    BY <1>3 DEF Level
  <2>3. QED BY <1>2, <2>1, <2>2
<1>6. \A n \in Live : Bottom >= top[n]
  BY <1>3, NumLevelsAssumption DEF Level, Bottom
<1>7. Q!Layered(L)
  <2>1. \A l \in Level : L[l] = Listed(l)
    OBVIOUS
  <2> HIDE DEF L
  <2>2. QED BY <1>1, <1>4, <1>5, <2>1 DEF Q!Layered
<1>8. QED
  BY <1>1, <1>2, <1>6, <1>7

\* The borders hold no element: the queries answer NULL from them.
BordersEmpty == element[Head] = NULL /\ element[Tail] = NULL

LEMMA BordersStep ==
    ASSUME IInv, HeldInv, BordersEmpty, [Next]_vars
    PROVE  BordersEmpty'
<1>1. {Head, Tail} \subseteq fully_linked
  BY DEF HeldInv
<1>2. ASSUME NEW t \in Threads, Invoke(t) \/ Step(t), NEW n \in {Head, Tail},
             element'[n] # element[n]
      PROVE  FALSE
  <2>1. PutOver(t) /\ n = found[t]
    BY <1>1, <1>2, ElementOnly
  <2>2. KeyAt[found[t]] = key[t] /\ key[t] \in Keys
    BY <2>1 DEF PutOver, IInv, TypeOK, ThreadInv, FoundInv, ControlInv, Searched, IsHit
  <2>3. KeyAt[Head] = -1 /\ KeyAt[Tail] = MaxKey + 1
    BY NodeFacts DEF IInv
  <2>4. QED BY <1>2, <2>1, <2>2, <2>3, MaxKeyAssumption DEF Keys
<1>3. CASE UNCHANGED vars
  BY <1>3 DEF vars, shared, BordersEmpty
<1>4. QED
  BY <1>2, <1>3 DEF BordersEmpty, Next, Terminated

LEMMA BordersInit == Init => BordersEmpty
<1>1. SUFFICES ASSUME Init PROVE BordersEmpty
  OBVIOUS
<1>2. PICK c \in Contents :
        /\ heap = DOMAIN c
        /\ element = [n \in Node |-> IF n \in DOMAIN c THEN c[n].elem ELSE NULL]
        /\ top = [n \in Node |-> IF n \in DOMAIN c THEN c[n].top ELSE 0]
  BY <1>1 DEF Init
<1>3. DOMAIN c \subseteq Nodes
  BY ContentsAssumption
<1>4. QED
  BY <1>2, <1>3, BorderAssumption DEF Node, BordersEmpty

\* A border, or what some key is bound to: what a node on the bottom list holds.
Holds ==
    /\ \A k \in Keys : map[k] # NULL <=> \E n \in Live : KeyAt[n] = k
    /\ \A n \in Live : KeyAt[n] \in Keys /\ map[KeyAt[n]] = element[n]
    /\ KeyAt[Head] = -1 /\ KeyAt[Tail] = MaxKey + 1
    /\ Keys \subseteq 0..MaxKey

LEMMA HoldsFacts ==
    ASSUME IInv, HeldInv, ListInv
    PROVE  Holds
<1>1. LiveNodes /\ MapIs
  BY LiveFacts, MapFacts DEF ListInv
<1>2. \A n \in Live : element[n] # NULL
  BY ElementAssumption DEF IInv, HeapInv, Live
<1>3. \A n \in Live : KeyAt[n] \in Keys /\ map[KeyAt[n]] = element[n]
  BY <1>1 DEF LiveNodes, MapIs
<1>4. \A k \in Keys : map[k] # NULL <=> \E n \in Live : KeyAt[n] = k
  BY <1>1, <1>2, <1>3 DEF MapIs
<1>5. QED
  BY <1>3, <1>4, NodeFacts DEF Holds, IInv, Keys

\* The first node after k holds what the smallest key bound after k is bound to.
LEMMA SmallestHeld ==
    ASSUME Holds, BordersEmpty, NEW S, \A n : n \in S <=> n \in {Head, Tail} \cup Live,
           NEW k \in Int, -1 <= k, NEW n, Q!FirstAfter(n, S, k)
    PROVE  element[n] = Ordered!AtSmallest({j \in Ordered!Bound : j > k})
<1> DEFINE B == {j \in Ordered!Bound : j > k}
<1>1. \A j : j \in B <=> j > k /\ \E m \in Live : KeyAt[m] = j
  BY DEF Ordered!Bound, Holds
<1>2. Q!Between(Live, S) /\ KeyAt[Head] \in Int /\ KeyAt[Tail] \in Int
  BY MaxKeyAssumption DEF Q!Between, Holds, Keys
<1> HIDE DEF B
<1>3. KeyAt[Head] <= k
  BY MaxKeyAssumption DEF Holds
<1>4. \/ B = {} /\ n = Tail
      \/ /\ n \in Live /\ KeyAt[n] \in B
         /\ \A j \in B : KeyAt[n] <= j /\ j \in Int
  BY <1>1, <1>2, <1>3, Q!SmallestAfter
<1>5. Ordered!AtSmallest(B) = IF B = {} THEN NULL ELSE map[CHOOSE i \in B : \A j \in B : i <= j]
  BY Zenon DEF Ordered!AtSmallest
<1>6. KeyAt[n] \in B => (CHOOSE i \in B : \A j \in B : i <= j) = KeyAt[n]
  <2>1. SUFFICES ASSUME KeyAt[n] \in B PROVE \A i \in B : (\A j \in B : i <= j) => i = KeyAt[n]
    BY <1>4
  <2>2. QED BY <1>4, <2>1
<1>7. QED
  BY <1>4, <1>5, <1>6 DEF B, Holds, BordersEmpty

\* The last node before k holds what the greatest key bound before k is bound to.
LEMMA GreatestHeld ==
    ASSUME Holds, BordersEmpty, NEW S, \A n : n \in S <=> n \in {Head, Tail} \cup Live,
           NEW k \in Int, k <= MaxKey + 1, NEW n, Q!LastBefore(n, S, k)
    PROVE  element[n] = Ordered!AtGreatest({j \in Ordered!Bound : j < k})
<1> DEFINE B == {j \in Ordered!Bound : j < k}
<1>1. \A j : j \in B <=> j < k /\ \E m \in Live : KeyAt[m] = j
  BY DEF Ordered!Bound, Holds
<1>2. Q!Between(Live, S) /\ KeyAt[Head] \in Int /\ KeyAt[Tail] \in Int
  BY MaxKeyAssumption DEF Q!Between, Holds, Keys
<1> HIDE DEF B
<1>3. k <= KeyAt[Tail]
  BY MaxKeyAssumption DEF Holds
<1>4. \/ B = {} /\ n = Head
      \/ /\ n \in Live /\ KeyAt[n] \in B
         /\ \A j \in B : KeyAt[n] >= j /\ j \in Int
  <2>1. PICK M : M = Live
    OBVIOUS
  <2>2. PICK D : D = B
    OBVIOUS
  <2>3. /\ Q!Between(M, S) /\ Q!LastBefore(n, S, k)
        /\ \A j : j \in D <=> j < k /\ \E m \in M : KeyAt[m] = j
    BY <1>1, <1>2, <2>1, <2>2
  <2>4. \/ D = {} /\ n = Head
        \/ /\ n \in M /\ KeyAt[n] \in D
           /\ \A j \in D : KeyAt[n] >= j /\ j \in Int
    <3>1. k \in Int /\ k <= KeyAt[Tail] /\ KeyAt[Head] \in Int /\ KeyAt[Tail] \in Int
      BY <1>2, <1>3
    <3>2. QED BY <2>3, <3>1, Q!GreatestBefore, ZenonT(60)
  <2>5. QED BY <2>1, <2>2, <2>4
<1>5. Ordered!AtGreatest(B) = IF B = {} THEN NULL ELSE map[CHOOSE i \in B : \A j \in B : i >= j]
  BY Zenon DEF Ordered!AtGreatest
<1>6. KeyAt[n] \in B => (CHOOSE i \in B : \A j \in B : i >= j) = KeyAt[n]
  <2>1. SUFFICES ASSUME KeyAt[n] \in B PROVE \A i \in B : (\A j \in B : i >= j) => i = KeyAt[n]
    BY <1>4
  <2>2. QED BY <1>4, <2>1
<1>7. QED
  BY <1>4, <1>5, <1>6 DEF B, Holds, BordersEmpty

\* The queries by order, asked between calls, answer from the map that the
\* updates have made.
THEOREM QueriesCorrect == Spec => []QueriesAgree
<1>1. ASSUME IInv, HeldInv, ListInv, BordersEmpty PROVE QueriesAgree
  <2>1. SUFFICES ASSUME Quiet
                 PROVE  /\ skiplist_first = Ordered!AtSmallest(Ordered!Bound)
                        /\ skiplist_last = Ordered!AtGreatest(Ordered!Bound)
                        /\ \A k \in Keys :
                             /\ skiplist_next(k) = Ordered!AtSmallest({j \in Ordered!Bound : j > k})
                             /\ skiplist_previous(k) = Ordered!AtGreatest({j \in Ordered!Bound : j < k})
    BY DEF QueriesAgree
  <2>2. PICK S : S = Listed(Bottom)
    OBVIOUS
  <2>3. \A n : n \in S <=> n \in {Head, Tail} \cup Live
    BY <1>1, <2>1, <2>2, QuietLayered
  <2>4. Holds
    BY <1>1, HoldsFacts
  <2>5. /\ \E n : Q!FirstAfter(n, S, KeyAt[Head]) /\ Q!skiplist_first = element[n]
        /\ \E n : Q!LastBefore(n, S, KeyAt[Tail]) /\ Q!skiplist_last = element[n]
        /\ \A k \in Int : KeyAt[Head] < k /\ k < KeyAt[Tail] =>
             /\ \E n : Q!FirstAfter(n, S, k) /\ Q!skiplist_next(k) = element[n]
             /\ \E n : Q!LastBefore(n, S, k) /\ Q!skiplist_previous(k) = element[n]
    <3>1. PICK L : L = [l \in Level |-> Listed(l)]
      OBVIOUS
    <3>2. Q!Layered(L) /\ L[Q!Bottom] = S
      BY <1>1, <2>1, <2>2, <3>1, QuietLayered
    <3>3. Q!IsFiniteSet(Node)
      BY NodesFinite
    <3>4. QED BY <3>2, <3>3, Q!QueryFacts, NumLevelsAssumption, BorderAssumption
  <2>6. \A j \in Ordered!Bound : j \in Int /\ j > -1 /\ j < MaxKey + 1
    BY <2>4, MaxKeyAssumption DEF Ordered!Bound, Keys
  <2>7. \A k \in Keys : k \in Int /\ -1 < k /\ k < MaxKey + 1 /\ -1 \in Int /\ MaxKey + 1 \in Int
    BY MaxKeyAssumption DEF Keys
  <2>8. KeyAt[Head] = -1 /\ KeyAt[Tail] = MaxKey + 1
    BY <2>4 DEF Holds
  <2>9. skiplist_first = Ordered!AtSmallest(Ordered!Bound)
    <3>1. PICK n : Q!FirstAfter(n, S, -1) /\ Q!skiplist_first = element[n]
      BY <2>5, <2>8
    <3>2. element[n] = Ordered!AtSmallest({j \in Ordered!Bound : j > -1})
      BY <1>1, <2>3, <2>4, <3>1, SmallestHeld
    <3>3. {j \in Ordered!Bound : j > -1} = Ordered!Bound
      BY <2>6
    <3>4. QED BY <3>1, <3>2, <3>3, SameQueries DEF skiplist_first
  <2>10. skiplist_last = Ordered!AtGreatest(Ordered!Bound)
    <3>1. PICK n : Q!LastBefore(n, S, MaxKey + 1) /\ Q!skiplist_last = element[n]
      BY <2>5, <2>8
    <3>2. element[n] = Ordered!AtGreatest({j \in Ordered!Bound : j < MaxKey + 1})
      BY <1>1, <2>3, <2>4, <3>1, GreatestHeld, MaxKeyAssumption
    <3>3. {j \in Ordered!Bound : j < MaxKey + 1} = Ordered!Bound
      BY <2>6
    <3>4. QED BY <3>1, <3>2, <3>3, SameQueries DEF skiplist_last
  <2>11. ASSUME NEW k \in Keys
         PROVE  skiplist_next(k) = Ordered!AtSmallest({j \in Ordered!Bound : j > k})
    <3>1. PICK n : Q!FirstAfter(n, S, k) /\ Q!skiplist_next(k) = element[n]
      BY <2>5, <2>7, <2>8
    <3>2. element[n] = Ordered!AtSmallest({j \in Ordered!Bound : j > k})
      BY <1>1, <2>3, <2>4, <2>7, <3>1, SmallestHeld
    <3>3. QED BY <3>1, <3>2, SameQueries DEF skiplist_next
  <2>12. ASSUME NEW k \in Keys
         PROVE  skiplist_previous(k) = Ordered!AtGreatest({j \in Ordered!Bound : j < k})
    <3>1. PICK n : Q!LastBefore(n, S, k) /\ Q!skiplist_previous(k) = element[n]
      BY <2>5, <2>7, <2>8
    <3>2. element[n] = Ordered!AtGreatest({j \in Ordered!Bound : j < k})
      BY <1>1, <2>3, <2>4, <2>7, <3>1, GreatestHeld
    <3>3. QED BY <3>1, <3>2, SameQueries DEF skiplist_previous
  <2>13. QED BY <2>9, <2>10, <2>11, <2>12
<1>2. Init => BordersEmpty
  BY BordersInit
<1>3. IInv /\ HeldInv /\ BordersEmpty /\ [Next]_vars => BordersEmpty'
  BY BordersStep
<1>4. QED
  BY <1>1, <1>2, <1>3, Invariance, HeldInvariance, ListInvariance, PTL DEF Spec

\* Between calls the linked nodes are those that hold an element: delete_table
\* frees them itself.
LEMMA LinkedIsLive ==
    ASSUME IInv, HeldInv, ListInv, Quiet
    PROVE  LinkedNodes = Live
<1>1. PICK L : L = [l \in Level |-> Listed(l)]
  OBVIOUS
<1>2. Q!Layered(L) /\ Q!Bottom = Bottom /\ \A n : n \in L[Bottom] <=> n \in {Head, Tail} \cup Live
  BY <1>1, QuietLayered
<1>3. Q!IsFiniteSet(Node)
  BY NodesFinite
<1>4. Q!Deleted = L[Q!Bottom] \ {Head, Tail}
  BY <1>2, <1>3, Q!DeletedNodes, NumLevelsAssumption, BorderAssumption
<1>5. Head \notin Live /\ Tail \notin Live
  BY BorderAssumption DEF Live, IInv, TypeOK
<1>6. Lists!Deleted = Live
  BY <1>2, <1>4, <1>5, SameQueries
<1>7. QED
  BY <1>6 DEF LinkedNodes

\* If who calls put_new is the only one to update the set, the nodes delete_table
\* frees itself and the removed ones are together all that malloc has given out,
\* and no node is both.
THEOREM DeleteSharesNodes ==
    ASSUME PutNewAlone
    PROVE  Spec => []DeleteShares
<1>1. ASSUME IInv, HeldInv, ListInv, NodeAccounted PROVE DeleteShares
  <2>1. SUFFICES ASSUME Quiet PROVE LinkedNodes = heap \ marked
    BY DEF DeleteShares
  <2>2. heap \ marked \subseteq fully_linked
    BY <1>1, <2>1 DEF Quiet, NodeAccounted
  <2>3. QED BY <1>1, <2>1, <2>2, LinkedIsLive DEF Live
<1>2. QED
  BY <1>1, Invariance, HeldInvariance, ListInvariance, NodesAccounted, PTL

-----------------------------------------------------------------------------
(* The steps with memory, as steps of the skiplist.                        *)

\* t hands the node over that it has removed.
Leaves(t) == pc[t] = "unlockelem" /\ Departing(t)

Handed(t) == retired' = IF Leaves(t) THEN [retired EXCEPT ![t] = @ \cup {found[t]}]
                        ELSE retired

\* A step of the skiplist: nothing is freed, and a node is handed over only by
\* the removal that leaves it.
ListStepOf(t) ==
    /\ Invoke(t) \/ Step(t)
    /\ pc[t] = "idle" => ~deleted
    /\ Handed(t) /\ frees' = frees /\ deleted' = deleted

\* A step of a call, or of a scan, at the slots alone.
SlotStepOf(t) ==
    /\ pc[t] # "idle"
    /\ UNCHANGED <<lists, retired, frees, deleted>>

LEMMA MemoryKinds ==
    ASSUME MemoryNext
    PROVE  \/ \E t \in Threads : ListStepOf(t)
           \/ \E t \in Threads : SlotStepOf(t)
           \/ \E t \in Threads : Sweep(t)
           \/ DeleteTable
           \/ UNCHANGED <<lists, memory>>
<1> USE DEF Handed, Leaves, ListStepOf
<1>1. ASSUME NEW t \in Threads, FindKnown(t) \/ FindStep(t) PROVE ListStepOf(t)
  <2>1. /\ SearchOn(t) /\ Finding(t)
        /\ retired' = retired /\ frees' = frees /\ deleted' = deleted
    BY <1>1 DEF FindKnown, FindStep
  <2>2. FindRight(t) \/ FindHit(t) \/ FindDown(t) \/ FindAfter(t)
    BY <2>1 DEF SearchOn
  <2>3. pc[t] \in {"find", "after"}
    BY <2>1 DEF Finding
  <2>4. QED BY <2>1, <2>2, <2>3 DEF Step
<1>2. ASSUME NEW t \in Threads, LockStep(t) PROVE ListStepOf(t)
  <2>1. LockPred(t) \/ CheckFails(t) \/ CheckNext(t) \/ CheckDone(t)
    BY <1>2 DEF LockStep
  <2>2. pc[t] \in {"lock", "check"}
    BY <2>1 DEF LockPred, CheckFails, CheckNext, CheckDone
  <2>3. QED BY <1>2, <2>1, <2>2 DEF Step, LockStep, memory
<1>3. ASSUME NEW t \in Threads, AnswerStep(t) PROVE ListStepOf(t)
  <2>1. /\ \/ PutFound(t) \/ PutNewFound(t) \/ RemoveFound(t)
           \/ LookupFound(t) \/ LookupMarked(t) \/ LookupElement(t)
        /\ UNCHANGED <<retired, frees, deleted>>
    BY <1>3 DEF AnswerStep
  <2>2. pc[t] \in {"found", "read_marked", "read_element"}
    BY <2>1 DEF PutFound, PutNewFound, RemoveFound, LookupFound, LookupMarked, LookupElement
  <2>3. QED BY <2>1, <2>2 DEF Step
<1>4. ASSUME NEW t \in Threads, PutStep(t) PROVE ListStepOf(t)
  <2>1. /\ PutDone(t) \/ PutOver(t)
        /\ UNCHANGED <<retired, frees, deleted>>
    BY <1>4 DEF PutStep
  <2>2. pc[t] \in {"unlock", "locked"}
    BY <2>1 DEF PutDone, PutOver
  <2>3. QED BY <2>1, <2>2 DEF Step
<1>5. ASSUME NEW t \in Threads, LostStep(t) PROVE ListStepOf(t)
  <2>1. LostRace(t) /\ pc[t] = "locked" /\ UNCHANGED <<retired, frees, deleted>>
    BY <1>5 DEF LostStep, LostRace
  <2>2. QED BY <2>1 DEF Step
<1>6. ASSUME NEW t \in Threads, UnlockStep(t) PROVE ListStepOf(t)
  <2>1. /\ UnlockElement(t) /\ pc[t] = "unlockelem" /\ retired' = Retired(t)
        /\ UNCHANGED <<frees, deleted>>
    BY <1>6 DEF UnlockStep, UnlockElement
  <2>2. QED BY <2>1 DEF Step, Retired, Departing
<1>7. ASSUME NEW t \in Threads, OtherStep(t) PROVE ListStepOf(t)
  <2>1. /\ \/ UnlockPred(t) \/ PutAbsent(t) \/ Fill(t) \/ Link(t) \/ Publish(t)
           \/ WaitLinked(t) \/ LockElement(t) \/ RemoveMark(t) \/ Unlink(t)
           \/ RemoveUnlocked(t) \/ PutNewDone(t) \/ Return(t)
           \/ ~deleted /\ Invoke(t)
        /\ UNCHANGED memory
    BY <1>7 DEF OtherStep
  <2>2. pc[t] # "unlockelem" /\ (pc[t] = "idle" => ~deleted)
    BY <2>1 DEF UnlockPred, PutAbsent, Fill, Link, Publish, WaitLinked, LockElement,
       RemoveMark, Unlink, RemoveUnlocked, PutNewDone, Return, Invoke
  <2>3. QED BY <2>1, <2>2 DEF Step, memory
<1>8. ASSUME NEW t \in Threads, StartLoop(t) \/ CopySlot(t) \/ SetHazard(t) \/ ScanSlot(t)
      PROVE  SlotStepOf(t)
  <2>1. pc[t] # "idle"
    BY <1>8 DEF StartLoop, CopySlot, SetHazard, ScanSlot, Finding, Reading
  <2>2. UNCHANGED <<lists, retired, frees, deleted>>
    BY <1>8 DEF StartLoop, CopySlot, SetHazard, ScanSlot
  <2>3. QED BY <2>1, <2>2 DEF SlotStepOf
<1>9. QED
  <2>1. CASE \E t \in Threads : FindKnown(t) \/ FindStep(t) \/ LockStep(t) \/ AnswerStep(t)
                              \/ PutStep(t) \/ LostStep(t) \/ UnlockStep(t) \/ OtherStep(t)
    BY <1>1, <1>2, <1>3, <1>4, <1>5, <1>6, <1>7, <2>1
  <2>2. CASE \E t \in Threads : StartLoop(t) \/ CopySlot(t) \/ SetHazard(t) \/ ScanSlot(t)
    BY <1>8, <2>2
  <2>3. QED BY <2>1, <2>2 DEF MemoryNext

\* Slots, scans and delete_table leave the lists alone.
LEMMA MemoryNextLists ==
    ASSUME MemoryNext
    PROVE  \/ \E t \in Threads : Invoke(t) \/ Step(t)
           \/ UNCHANGED vars
<1>1. QED
  BY MemoryKinds DEF ListStepOf, SlotStepOf, Sweep, DeleteTable, lists

\* The steps of the model with memory are those of the skiplist, or leave it
\* alone: its invariants hold here.  (That no call uses freed memory is not among
\* them.)
LEMMA MemorySteps == MemorySpec => Spec
<1>1. MemoryInit => Init
  BY DEF MemoryInit
<1>2. [MemoryNext]_<<lists, memory>> => [Next]_vars
  BY MemoryNextLists DEF Next, lists
<1>3. QED
  BY <1>1, <1>2, PTL DEF MemorySpec, Spec

-----------------------------------------------------------------------------
(* Removed nodes and the lists.                                            *)

USE NumLevelsAssumption, BorderAssumption, ThreadAssumption
    DEF Level, Bottom

\* A removal that has unlinked its node keeps it until it hands it over.
LEMMA DepartingKept ==
    ASSUME IInv, NEW t \in Threads, Invoke(t) \/ Step(t), Departing(t), ~Leaves(t)
    PROVE  Departing(t)' /\ found'[t] = found[t]
<1>1. /\ pc[t] = "unlock" /\ op[t] = "remove" /\ took[t] /\ valid[t] /\ TypeOK
  BY DEF Departing, Leaves, Finished, IInv
<1>2. UnlockPred(t) \/ RemoveUnlocked(t)
  <2>1. ~Invoke(t) /\ ~Return(t)
    BY <1>1 DEF Invoke, Return
  <2>2. ~FindRight(t) /\ ~FindDown(t) /\ ~FindHit(t) /\ ~FindAfter(t)
    BY <1>1 DEF FindRight, FindDown, FindHit, FindAfter
  <2>3. ~LookupFound(t) /\ ~LookupMarked(t) /\ ~LookupElement(t)
    BY <1>1 DEF LookupFound, LookupMarked, LookupElement
  <2>4. ~LockPred(t) /\ ~CheckFails(t) /\ ~CheckNext(t) /\ ~CheckDone(t)
    BY <1>1 DEF LockPred, CheckFails, CheckNext, CheckDone
  <2>5. ~PutAbsent(t) /\ ~PutFound(t) /\ ~PutNewFound(t) /\ ~PutDone(t) /\ ~PutNewDone(t)
    BY <1>1 DEF PutAbsent, PutFound, PutNewFound, PutDone, PutNewDone
  <2>6. ~Fill(t) /\ ~Link(t) /\ ~Publish(t) /\ ~Unlink(t) /\ ~RemoveFound(t)
    BY <1>1 DEF Fill, Link, Publish, Unlink, RemoveFound
  <2>7. ~WaitLinked(t) /\ ~LockElement(t) /\ ~LostRace(t) /\ ~PutOver(t) /\ ~RemoveMark(t)
        /\ ~UnlockElement(t)
    BY <1>1 DEF WaitLinked, LockElement, LostRace, PutOver, RemoveMark, UnlockElement
  <2>8. QED BY <2>1, <2>2, <2>3, <2>4, <2>5, <2>6, <2>7 DEF Step
<1>3. /\ pc'[t] \in {"unlock", "unlockelem"} /\ op'[t] = op[t] /\ took'[t] = took[t]
      /\ valid'[t] = valid[t] /\ found'[t] = found[t]
  BY <1>1, <1>2 DEF UnlockPred, RemoveUnlocked, Goto, TypeOK, request, search
<1>4. QED
  BY <1>1, <1>3 DEF Departing, Finished

\* It is the last Unlink that brings it there.
LEMMA DepartingNew ==
    ASSUME IInv, HeldInv, NEW t \in Threads, Invoke(t) \/ Step(t), Departing(t)'
    PROVE  /\ found'[t] = found[t]
           /\ (Departing(t) /\ ~Leaves(t)) \/ (Unlink(t) /\ level[t] = LevelTo(t))
<1>1. /\ TypeOK /\ ControlInv(t) /\ LinkedInv(t)
      /\ op'[t] = "remove" /\ took'[t] /\ valid'[t] /\ pc'[t] \in {"unlock", "unlockelem"}
  BY DEF IInv, ThreadInv, HeldInv, Departing, Finished
<1> USE DEF Goto, Answer, request, search
<1>2. CASE Invoke(t) \/ Return(t)
  BY <1>1, <1>2 DEF Invoke, Return, StartFind, TypeOK
<1>3. CASE FindRight(t) \/ FindDown(t) \/ FindHit(t) \/ FindAfter(t)
  BY <1>1, <1>3 DEF FindRight, FindDown, FindHit, FindAfter, Descend, TypeOK
<1>4. CASE LookupFound(t) \/ LookupMarked(t) \/ LookupElement(t)
  BY <1>1, <1>4 DEF LookupFound, LookupMarked, LookupElement, TypeOK
<1>5. CASE LockPred(t) \/ CheckNext(t) \/ CheckDone(t)
  BY <1>1, <1>5 DEF LockPred, CheckNext, CheckDone, TypeOK
<1>6. CASE CheckFails(t)
  BY <1>1, <1>6 DEF CheckFails, TypeOK
<1>7. CASE PutAbsent(t) \/ PutFound(t) \/ PutNewFound(t) \/ PutDone(t) \/ PutNewDone(t)
  BY <1>1, <1>7 DEF PutAbsent, PutFound, PutNewFound, PutDone, PutNewDone, StartLocking,
     StartFind, TypeOK
<1>8. CASE Fill(t) \/ Publish(t) \/ Link(t) \/ PutOver(t)
  BY <1>1, <1>8 DEF Fill, Publish, Link, PutOver, ControlInv, IsPut
<1>9. CASE Unlink(t)
  <2>1. pc[t] = "unlink" /\ found'[t] = found[t] /\ level[t] >= LevelTo(t)
    BY <1>1, <1>9 DEF Unlink, ControlInv
  <2>2. ~(level[t] > LevelTo(t))
    BY <1>1, <1>9, <2>1 DEF Unlink, NextLevelUp
  <2>3. level[t] \in Int /\ LevelTo(t) \in Int
    BY <1>1, <2>1, LevelToFacts DEF TypeOK
  <2>4. QED BY <1>9, <2>1, <2>2, <2>3
<1>10. CASE WaitLinked(t) \/ LockElement(t) \/ LostRace(t) \/ RemoveMark(t) \/ RemoveFound(t)
  BY <1>1, <1>10 DEF WaitLinked, LockElement, LostRace, RemoveMark, RemoveFound, StartLocking,
     LinkedInv, TypeOK
<1>11. CASE UnlockPred(t) \/ RemoveUnlocked(t)
  BY <1>1, <1>11 DEF UnlockPred, RemoveUnlocked, Departing, Finished, Leaves
<1>12. CASE UnlockElement(t)
  BY <1>1, <1>12 DEF UnlockElement, StartFind, TypeOK
<1>13. QED
  BY <1>2, <1>3, <1>4, <1>5, <1>6, <1>7, <1>8, <1>9, <1>10, <1>11, <1>12 DEF Step

\* The threads that have unlinked their nodes have one each.
LEMMA DepartingOwn ==
    ASSUME HeldInv, NEW t \in Threads, NEW u \in Threads, Departing(t), Departing(u), t # u
    PROVE  found[t] # found[u]
<1>1. HasElementLock(t) /\ HasElementLock(u)
  BY DEF Departing, HasElementLock
<1>2. lock[found[t]] = t /\ lock[found[u]] = u
  BY <1>1 DEF HeldInv, OwnLocks
<1>3. QED
  BY <1>2

\* A marked node comes on no list again.
LEMMA MarkedStaysOff ==
    ASSUME IInv, HeldInv, ListInv, NEW t \in Threads, Invoke(t) \/ Step(t), NEW n \in marked,
           n \notin Attached
    PROVE  n \in marked' /\ n \notin Attached'
<1>1. n \in marked'
  BY MarkedStep
<1>2. ASSUME NEW l \in Level, n \in Listed(l)' PROVE FALSE
  <2>1. n \notin Listed(l)
    BY DEF Attached
  <2>2. Link(t) /\ n = node[t]
    BY <1>2, <2>1, ListsGoOn
  <2>3. pc[t] = "link" /\ node[t] # NoNode /\ ~took[t]
    BY <2>2 DEF Link, IInv, ThreadInv, ControlInv
  <2>4. n \notin fully_linked
    BY <2>2, <2>3 DEF HeldInv, LinkedInv
  <2>5. QED BY <2>4 DEF HeldInv
<1>3. QED
  BY <1>1, <1>2 DEF Attached

\* A node is on its lists when it is marked.
LEMMA MarkedWhenOn ==
    ASSUME IInv, HeldInv, ListInv, NEW t \in Threads, Invoke(t) \/ Step(t),
           NEW n \in marked', n \notin marked
    PROVE  n \in Attached'
<1>1. RemoveMark(t)
  BY MarkOnly
<1>2. n = found[t] /\ pc[t] = "locked" /\ op[t] = "remove"
  BY <1>1 DEF RemoveMark
<1>3. n \in Live
  <2>1. n \in fully_linked /\ n # NoNode
    BY <1>2 DEF HeldInv, LinkedInv, IInv, ThreadInv, ControlInv
  <2>2. n \in Nodes
    BY <1>1, StepInv DEF IInv, TypeOK
  <2>3. n \in heap
    BY <2>1, <2>2, NodeFacts, BorderAssumption DEF HeldInv, IInv
  <2>4. QED BY <2>1, <2>3 DEF Live
<1>4. n \in Listed(Bottom) /\ Bottom \in Level
  BY <1>3, LiveFacts DEF LiveNodes, ListInv
<1>5. n \in Listed(Bottom)'
  BY <1>4, ListsGoOn
<1>6. QED
  BY <1>4, <1>5 DEF Attached

\* It leaves the last of them when its remover has got to its highest list.
LEMMA LeavesLast ==
    ASSUME IInv, HeldInv, ListInv, NEW t \in Threads, Unlink(t)
    PROVE  /\ found[t] \in Attached /\ found[t] \in marked
           /\ level[t] = LevelTo(t) => found[t] \notin Attached'
           /\ found[t] \notin Attached' => Departing(t)' /\ found'[t] = found[t]
<1>1. /\ pc[t] = "unlink" /\ found[t] \in marked /\ LevelTo(t) = top[found[t]]
      /\ level[t] \in Level /\ LevelTo(t) \in Level /\ level[t] >= LevelTo(t) /\ op[t] = "remove" /\ took[t] /\ valid[t]
      /\ \A l \in Level : l >= LevelTo(t) => (found[t] \in Listed(l) <=> ~Rewritten(t, l))
  BY UnlinkedVictim, LevelToFacts DEF Unlink, IInv, ThreadInv, ControlInv, TypeOK
<1>2. ListsShrink(t) /\ found[t] \in Listed(level[t])
  BY <1>1, ListsStep DEF Unlink, Link, Step
<1>3. ASSUME level[t] = LevelTo(t), NEW l \in Level PROVE found[t] \notin Listed(l)'
  <2>1. CASE l < LevelTo(t)
    <3>1. PICK L : L = Listed(l) /\ IsList(l, L)
      BY DEF ListInv, ShapeInv
    <3>2. \A n \in L : top[n] \in Level /\ l >= top[n]
      BY <3>1, ListFacts
    <3>3. found[t] \notin L
      BY <1>1, <2>1, <3>2
    <3>4. QED BY <1>2, <3>1, <3>3 DEF ListsShrink
  <2>2. CASE l > LevelTo(t)
    BY <1>1, <1>2, <1>3, <2>2 DEF ListsShrink, Rewritten
  <2>3. CASE l = LevelTo(t)
    BY <1>2, <1>3, <2>3 DEF ListsShrink
  <2>4. QED BY <1>1, <2>1, <2>2, <2>3
<1>4. ASSUME level[t] # LevelTo(t) PROVE found[t] \in Attached'
  <2>1. PICK l \in Level : l = LevelTo(t) /\ l < level[t]
    BY <1>1, <1>4
  <2>2. found[t] \in Listed(l)
    BY <1>1, <2>1 DEF Rewritten
  <2>3. found[t] \in Listed(l)'
    BY <1>2, <2>1, <2>2 DEF ListsShrink
  <2>4. QED BY <2>1, <2>3 DEF Attached
<1>5. level[t] = LevelTo(t) => Departing(t)' /\ found'[t] = found[t]
  <2>1. level[t] = LevelTo(t) => pc'[t] = "unlock"
    BY <1>1 DEF Unlink, NextLevelUp, Goto, IInv, TypeOK
  <2>2. op' = op /\ took' = took /\ valid' = valid /\ found' = found
    BY DEF Unlink, request, search
  <2>3. QED BY <1>1, <2>1, <2>2 DEF Departing, Finished
<1>6. QED
  BY <1>1, <1>2, <1>3, <1>4, <1>5 DEF Attached

-----------------------------------------------------------------------------
(* What is freed.                                                          *)

\* A step of the skiplist hands over at most the node of a removal that leaves.
LEMMA HandedStep ==
    ASSUME IInv, HeldInv, ListInv, HandedInv, retired \in [Threads -> SUBSET Nodes],
           NEW t \in Threads, ListStepOf(t)
    PROVE  HandedInv' /\ retired' \in [Threads -> SUBSET Nodes]
<1>1. /\ Invoke(t) \/ Step(t)
      /\ Handed(t) /\ frees' = frees
  BY DEF ListStepOf
<1>2. /\ Freed' = Freed
      /\ \A u \in Threads \ {t} : retired'[u] = retired[u]
      /\ retired'[t] = retired[t] \cup (IF Leaves(t) THEN {found[t]} ELSE {})
  BY <1>1 DEF Freed, Handed
<1>3. Leaves(t) => Departing(t)
  BY DEF Leaves
<1>4. /\ \A u \in Threads : retired[u] \subseteq HandedOver
      /\ Freed \subseteq HandedOver
      /\ HandedOver' = HandedOver \cup (IF Leaves(t) THEN {found[t]} ELSE {})
  BY <1>2 DEF HandedOver
<1>5. \A u \in Threads \ {t} : /\ found'[u] = found[u]
                               /\ Departing(u)' <=> Departing(u)
  BY <1>1, StepLocals DEF SameLocals, Departing, Finished, IInv
<1>6. \A n \in marked : n \notin Attached => n \in marked' /\ n \notin Attached'
  BY <1>1, MarkedStaysOff
<1>7. \A u \in Threads : Departing(u) => found[u] \in marked \ (Attached \cup HandedOver)
  BY DEF HandedInv
<1>8. HandedOver' \subseteq (marked \ Attached)'
  BY <1>3, <1>4, <1>6, <1>7 DEF HandedInv
<1>9. ASSUME NEW n \in marked'
      PROVE  \/ n \in Attached' \/ n \in HandedOver'
             \/ \E u \in Threads : Departing(u)' /\ n = found'[u]
  <2>1. CASE n \notin marked
    BY <1>1, <2>1, MarkedWhenOn
  <2>2. CASE n \in HandedOver
    BY <1>4, <2>2
  <2>3. CASE n \in marked /\ n \in Attached
    <3>1. CASE n \in Attached'
      BY <3>1
    <3>2. CASE n \notin Attached'
      <4>1. PICK l \in Level : n \in Listed(l)
        BY <2>3 DEF Attached
      <4>2. n \notin Listed(l)'
        BY <3>2 DEF Attached
      <4>3. Unlink(t) /\ n = found[t]
        BY <1>1, <4>1, <4>2, ListsStep DEF ListsKept, ListsGrow, ListsShrink
      <4>4. Departing(t)' /\ found'[t] = found[t]
        BY <3>2, <4>3, LeavesLast
      <4>5. QED BY <4>3, <4>4
    <3>3. QED BY <3>1, <3>2
  <2>4. ASSUME NEW u \in Threads, Departing(u), n = found[u]
        PROVE  n \in HandedOver' \/ \E v \in Threads : Departing(v)' /\ n = found'[v]
    <3>1. CASE u = t /\ Leaves(t)
      BY <1>4, <2>4, <3>1
    <3>2. CASE u = t /\ ~Leaves(t)
      BY <1>1, <2>4, <3>2, DepartingKept
    <3>3. CASE u # t
      BY <1>5, <2>4, <3>3
    <3>4. QED BY <3>1, <3>2, <3>3
  <2>5. \/ n \notin marked \/ n \in HandedOver \/ (n \in marked /\ n \in Attached)
        \/ \E u \in Threads : Departing(u) /\ n = found[u]
    BY DEF HandedInv
  <2>6. QED BY <2>1, <2>2, <2>3, <2>4, <2>5
<1>10. ASSUME NEW u \in Threads, Departing(u)'
       PROVE  found'[u] \in (marked \ (Attached \cup HandedOver))'
  <2>1. CASE u # t
    <3>1. Departing(u) /\ found'[u] = found[u] /\ found[u] \in marked
          /\ found[u] \notin Attached /\ found[u] \notin HandedOver
      BY <1>5, <1>7, <1>10, <2>1
    <3>2. Leaves(t) => found[t] # found[u]
      BY <1>3, <2>1, <3>1, DepartingOwn
    <3>3. QED BY <1>4, <1>6, <3>1, <3>2
  <2>2. CASE u = t /\ Departing(t) /\ ~Leaves(t)
    <3>1. found'[t] = found[t] /\ found[t] \in marked /\ found[t] \notin Attached
          /\ found[t] \notin HandedOver
      BY <1>1, <1>7, <2>2, DepartingKept
    <3>2. QED BY <1>4, <1>6, <2>2, <3>1
  <2>3. CASE u = t /\ Unlink(t) /\ level[t] = LevelTo(t)
    <3>1. found'[t] = found[t] /\ found[t] \in marked /\ found[t] \in Attached
          /\ found[t] \notin Attached' /\ ~Leaves(t)
      BY <1>1, <1>10, <2>3, LeavesLast, DepartingNew DEF Leaves, Unlink
    <3>2. found[t] \notin HandedOver /\ found[t] \in marked'
      BY <1>1, <3>1, MarkedStep DEF HandedInv
    <3>3. QED BY <1>4, <2>3, <3>1, <3>2
  <2>4. QED BY <1>1, <1>10, <2>1, <2>2, <2>3, DepartingNew
<1>11. ASSUME NEW u \in Threads
       PROVE  /\ retired'[u] \cap Freed' = {}
              /\ \A v \in Threads \ {u} : retired'[u] \cap retired'[v] = {}
  <2>1. Leaves(t) => /\ found[t] \notin Freed
                     /\ \A v \in Threads : found[t] \notin retired[v]
    BY <1>3, <1>4, <1>7
  <2>2. /\ \A v \in Threads : retired[v] \cap Freed = {}
        /\ \A v, w \in Threads : v # w => retired[v] \cap retired[w] = {}
    BY DEF HandedInv
  <2>3. \A v \in Threads : /\ v # t => retired'[v] = retired[v]
                           /\ v = t => retired'[v] = retired[t] \cup (IF Leaves(t) THEN {found[t]} ELSE {})
    BY <1>2
  <2>4. retired'[u] \cap Freed' = {}
    BY <1>2, <2>1, <2>2, <2>3
  <2>5. ASSUME NEW v \in Threads \ {u} PROVE retired'[u] \cap retired'[v] = {}
    BY <2>1, <2>2, <2>3, <2>5
  <2>6. QED BY <2>4, <2>5
<1>12. retired' \in [Threads -> SUBSET Nodes]
  <2>1. Leaves(t) => found[t] \in Nodes
    BY <1>3, <1>7 DEF IInv, TypeOK
  <2>2. QED BY <1>1, <2>1 DEF Handed
<1>13. QED
  BY <1>8, <1>9, <1>10, <1>11, <1>12 DEF HandedInv

\* As long as the lists and the node of each removal stay as they are, it is
\* the nodes handed over that count.
LEMMA HandedStutter ==
    ASSUME HandedInv, UNCHANGED vars, HandedOver' = HandedOver,
           \A t \in Threads : /\ retired'[t] \cap Freed' = {}
                              /\ \A u \in Threads \ {t} : retired'[t] \cap retired'[u] = {}
    PROVE  HandedInv'
<1>1. marked' = marked /\ found' = found /\ Attached' = Attached
  BY DEF vars, shared, search, Attached, Listed
<1>2. \A t \in Threads : Departing(t)' <=> Departing(t)
  BY DEF vars, request, Departing, Finished
<1>3. /\ HandedOver' \subseteq (marked \ Attached)'
      /\ \A t \in Threads : Departing(t)' => found'[t] \in (marked \ (Attached \cup HandedOver))'
  BY <1>1, <1>2 DEF HandedInv
<1>4. (marked \subseteq Attached \cup HandedOver
                       \cup {found[t] : t \in {u \in Threads : Departing(u)}})'
  BY <1>1, <1>2 DEF HandedInv
<1>5. QED
  BY <1>3, <1>4 DEF HandedInv

\* A scan frees what is in one release list, and in no other, once.
LEMMA SweepStep ==
    ASSUME HandedInv, retired \in [Threads -> SUBSET Nodes], frees \in [Nodes -> 0..1],
           NEW t \in Threads, Sweep(t)
    PROVE  HandedInv' /\ retired' \in [Threads -> SUBSET Nodes] /\ frees' \in [Nodes -> 0..1]
<1> DEFINE G == retired[t] \ kept[t]
<1>1. /\ frees' = [n \in Nodes |-> frees[n] + One(n \in G)]
      /\ retired' = [retired EXCEPT ![t] = retired[t] \cap kept[t]]
      /\ UNCHANGED vars
  BY DEF Sweep, Kept, lists
<1>2. /\ G \subseteq retired[t] /\ G \subseteq Nodes
      /\ \A n \in G : n \notin Freed
  BY DEF HandedInv
<1>3. \A n \in Nodes : frees[n] \in 0..1 /\ (n \in Freed <=> frees[n] = 1)
  BY DEF Freed
<1>4. /\ retired' \in [Threads -> SUBSET Nodes]
      /\ retired'[t] = retired[t] \ G
      /\ \A u \in Threads : u # t => retired'[u] = retired[u]
  BY <1>1
<1> HIDE DEF G
<1>5. \A n \in Nodes : frees'[n] \in 0..1 /\ (frees'[n] > 0 <=> n \in Freed \/ n \in G)
  <2>1. SUFFICES ASSUME NEW n \in Nodes
                 PROVE  frees'[n] \in 0..1 /\ (frees'[n] > 0 <=> n \in Freed \/ n \in G)
    OBVIOUS
  <2>2. frees'[n] = frees[n] + One(n \in G)
    BY <1>1
  <2>3. CASE n \in G
    <3>1. frees[n] = 0 /\ One(n \in G) = 1
      BY <1>2, <1>3, <2>3 DEF One
    <3>2. QED BY <2>2, <2>3, <3>1
  <2>4. CASE n \notin G
    <3>1. frees[n] \in 0..1 /\ One(n \in G) = 0
      BY <1>3, <2>4 DEF One
    <3>2. QED BY <1>3, <2>2, <2>4, <3>1
  <2>5. QED BY <2>3, <2>4
<1>6. frees' \in [Nodes -> 0..1] /\ Freed' = Freed \cup G
  <2>1. Freed \subseteq Nodes
    BY DEF Freed
  <2>2. QED BY <1>1, <1>2, <1>5, <2>1 DEF Freed
<1>7. HandedOver' = HandedOver
  <2>1. \A n : (\E u \in Threads : n \in retired'[u]) \/ n \in G
               <=> \E u \in Threads : n \in retired[u]
    BY <1>2, <1>4
  <2>2. QED BY <1>6, <2>1 DEF HandedOver
<1>8. ASSUME NEW u \in Threads
      PROVE  /\ retired'[u] \cap Freed' = {}
             /\ \A v \in Threads \ {u} : retired'[u] \cap retired'[v] = {}
  <2>1. /\ \A v \in Threads : retired[v] \cap Freed = {}
        /\ \A v, w \in Threads : v # w => retired[v] \cap retired[w] = {}
    BY DEF HandedInv
  <2>2. \A v \in Threads : retired'[v] \subseteq retired[v]
    BY <1>4
  <2>3. retired'[u] \cap Freed' = {}
    BY <1>2, <1>4, <1>6, <2>1
  <2>4. QED BY <2>1, <2>2, <2>3
<1>9. QED
  BY <1>1, <1>4, <1>6, <1>7, <1>8, HandedStutter

\* What the release lists hold and no hazard pointer does.
Unheld == {n \in Nodes : \E t \in Threads : n \in retired[t] /\ n \notin Held}

\* delete_table meets no node twice.
LEMMA DeleteStep ==
    ASSUME IInv, HeldInv, ListInv, HandedInv, retired \in [Threads -> SUBSET Nodes],
           frees \in [Nodes -> 0..1], DeleteTable
    PROVE  /\ frees' \in [Nodes -> 0..1]
           /\ Freed' = Freed \cup Live \cup Unheld
<1> DEFINE By(n) == {t \in Threads : n \in retired[t] \ Held}
<1>1. /\ Quiet
      /\ frees' = [n \in Nodes |-> frees[n] + One(n \in LinkedNodes) + Cardinality(By(n))]
  BY DEF DeleteTable
<1>2. LinkedNodes = Live
  BY <1>1, LinkedIsLive
<1>3. \A n \in HandedOver : n \in marked
  BY DEF HandedInv
<1>4. \A n \in Live : n \notin Freed /\ \A t \in Threads : n \notin retired[t]
  BY <1>3 DEF Live, HandedOver
<1>5. \A n \in Nodes : frees[n] \in 0..1 /\ (n \in Freed <=> frees[n] = 1)
  BY DEF Freed
<1>6. ASSUME NEW n \in Nodes
      PROVE  \/ By(n) = {} /\ Cardinality(By(n)) = 0
             \/ /\ Cardinality(By(n)) = 1 /\ n \notin Freed /\ n \notin Live
                /\ n \in Unheld
  <2>1. CASE By(n) = {}
    BY <2>1, FS_EmptySet
  <2>2. CASE By(n) # {}
    <3>1. PICK t \in Threads : n \in retired[t] \ Held
      BY <2>2
    <3>2. \A u \in Threads : u # t => n \notin retired[u]
      BY <3>1 DEF HandedInv
    <3>3. By(n) = {t}
      BY <3>1, <3>2
    <3>4. Cardinality(By(n)) = 1
      <4> HIDE DEF By
      <4>1. QED BY <3>3, FS_Singleton
    <3>5. n \notin Freed /\ n \notin Live
      BY <1>4, <3>1 DEF HandedInv
    <3>6. n \in Unheld
      BY <3>1 DEF Unheld
    <3> HIDE DEF By
    <3>7. QED BY <3>4, <3>5, <3>6
  <2>3. QED BY <2>1, <2>2
<1>7. ASSUME NEW n \in Nodes
      PROVE  /\ frees'[n] \in 0..1
             /\ frees'[n] > 0 <=> \/ n \in Freed \/ n \in Live
                                  \/ n \in Unheld
  <2>1. frees'[n] = frees[n] + One(n \in Live) + Cardinality(By(n))
    BY <1>1, <1>2
  <2>2. By(n) = {} => n \notin Unheld
    <3>1. SUFFICES ASSUME n \in Unheld
                   PROVE  By(n) # {}
      OBVIOUS
    <3>2. PICK t \in Threads : n \in retired[t] \ Held
      BY <3>1 DEF Unheld
    <3>3. t \in By(n)
      BY <3>2
    <3>4. QED BY <3>3
  <2>3. One(n \in Live) = IF n \in Live THEN 1 ELSE 0
    BY DEF One
  <2> HIDE DEF By
  <2>4. CASE By(n) = {} /\ Cardinality(By(n)) = 0
    <3>1. CASE n \in Live
      BY <1>4, <1>5, <2>1, <2>2, <2>3, <2>4, <3>1
    <3>2. CASE n \notin Live
      BY <1>5, <2>1, <2>2, <2>3, <2>4, <3>2
    <3>3. QED BY <3>1, <3>2
  <2>5. CASE /\ Cardinality(By(n)) = 1 /\ n \notin Freed /\ n \notin Live
             /\ n \in Unheld
    BY <1>5, <2>1, <2>3, <2>5
  <2>6. QED BY <1>6, <2>4, <2>5
<1>8. Live \subseteq Nodes /\ Freed \subseteq Nodes
  BY DEF Live, Freed, IInv, TypeOK
<1>9. Unheld \subseteq Nodes
  BY DEF Unheld
<1> HIDE DEF By
<1>10. \A n \in Nodes : frees'[n] > 0 <=> n \in Freed \cup Live \cup Unheld
  BY <1>7
<1>11. Freed' = {n \in Nodes : frees'[n] > 0}
  BY DEF Freed
<1>12. Freed' = Freed \cup Live \cup Unheld
  BY <1>8, <1>9, <1>10, <1>11
<1>13. frees' \in [Nodes -> 0..1]
  BY <1>1, <1>7
<1>14. QED
  BY <1>12, <1>13

\* delete_table leaves what a hazard pointer holds, and nothing else.
LEMMA DeleteLeaves ==
    ASSUME IInv, HeldInv, ListInv, NodeAccounted, FreeingInv, DeleteTable
    PROVE  heap' \ Freed' \subseteq Held'
<1>1. /\ Quiet /\ HandedInv /\ retired \in [Threads -> SUBSET Nodes]
      /\ heap' = heap /\ Held' = Held
  BY DEF DeleteTable, FreeingInv, lists, hazards, vars, shared, Held
<1>2. Freed' = Freed \cup Live \cup Unheld
  BY <1>1, DeleteStep DEF FreeingInv
<1>3. \A t \in Threads : ~Departing(t)
  BY <1>1 DEF Quiet, Departing
<1>4. \A n \in marked : n \notin Attached
  <2>1. ASSUME NEW n \in marked, n \in Attached PROVE FALSE
    <3>1. PICK t \in Threads : Pending(t)
      BY <2>1 DEF ListInv, HasRemover
    <3>2. pc[t] # "idle"
      BY <3>1, PendingFacts
    <3>3. QED BY <1>1, <3>2 DEF Quiet
  <2>2. QED BY <2>1
<1>5. \A n \in marked : n \in HandedOver
  BY <1>1, <1>3, <1>4 DEF HandedInv
<1>6. \A n \in heap : n \in fully_linked
  BY <1>1 DEF Quiet, NodeAccounted
<1>7. ASSUME NEW n \in heap, n \notin Freed, n \notin Live, n \notin Held
      PROVE  n \in Unheld
  <2>1. n \in HandedOver
    BY <1>5, <1>6, <1>7 DEF Live
  <2>2. PICK t \in Threads : n \in retired[t]
    BY <1>7, <2>1 DEF HandedOver
  <2>3. QED BY <1>1, <1>7, <2>2 DEF Unheld
<1>8. QED
  BY <1>1, <1>2, <1>7

LEMMA FreeingInit == MemoryInit => FreeingInv /\ DeleteFreesAll
<1>1. SUFFICES ASSUME MemoryInit PROVE FreeingInv /\ DeleteFreesAll
  OBVIOUS
<1>2. /\ marked = {} /\ \A t \in Threads : op[t] = "none"
      /\ \A t \in Threads : retired[t] = {}
      /\ retired \in [Threads -> SUBSET Nodes]
      /\ \A n \in Nodes : frees[n] = 0
      /\ frees \in [Nodes -> 0..1]
      /\ deleted = FALSE
  BY <1>1 DEF MemoryInit, Init
<1>3. Freed = {} /\ \A t \in Threads : ~Departing(t)
  BY <1>2 DEF Freed, Departing
<1>4. HandedOver = {}
  BY <1>2, <1>3 DEF HandedOver
<1>5. HandedInv
  BY <1>2, <1>3, <1>4 DEF HandedInv
<1>6. QED
  BY <1>2, <1>5 DEF FreeingInv, DeleteFreesAll

\* After delete_table nothing happens any more.
LEMMA NothingAfter ==
    ASSUME FreeingInv, deleted, [MemoryNext]_<<lists, memory>>
    PROVE  UNCHANGED <<lists, memory>>
<1>1. \A t \in Threads : pc[t] = "idle"
  BY DEF FreeingInv, Quiet
<1>2. \A t \in Threads : ~ListStepOf(t)
  BY <1>1 DEF ListStepOf
<1>3. \A t \in Threads : ~SlotStepOf(t) /\ ~Sweep(t)
  BY <1>1 DEF SlotStepOf, Sweep
<1>4. ~DeleteTable
  BY DEF DeleteTable
<1>5. QED
  BY <1>2, <1>3, <1>4, MemoryKinds

LEMMA FreeingNext ==
    ASSUME IInv, HeldInv, ListInv, FreeingInv, [MemoryNext]_<<lists, memory>>
    PROVE  FreeingInv'
<1>1. /\ retired \in [Threads -> SUBSET Nodes] /\ frees \in [Nodes -> 0..1]
      /\ deleted \in BOOLEAN
  BY DEF FreeingInv
<1>2. ASSUME UNCHANGED <<lists, memory>> PROVE FreeingInv'
  <2>1. /\ retired' = retired /\ frees' = frees /\ deleted' = deleted /\ pc' = pc
        /\ UNCHANGED vars
    BY <1>2 DEF memory, lists, vars, request
  <2>2. HandedOver' = HandedOver /\ Freed' = Freed
    BY <2>1 DEF HandedOver, Freed
  <2>3. HandedInv => HandedInv'
    <3>1. HandedInv => \A t \in Threads : /\ retired'[t] \cap Freed' = {}
             /\ \A u \in Threads \ {t} : retired'[t] \cap retired'[u] = {}
      BY <2>1, <2>2 DEF HandedInv
    <3>2. QED BY <2>1, <2>2, <3>1, HandedStutter
  <2>4. QED BY <2>1, <2>3 DEF FreeingInv, Quiet
<1>3. CASE deleted
  BY <1>2, <1>3, NothingAfter
<1>4. CASE ~deleted
  <2>1. HandedInv
    BY <1>4 DEF FreeingInv
  <2>2. ASSUME NEW t \in Threads, ListStepOf(t) PROVE FreeingInv'
    BY <1>1, <1>4, <2>1, <2>2, HandedStep DEF FreeingInv, ListStepOf
  <2>3. ASSUME NEW t \in Threads, SlotStepOf(t) PROVE FreeingInv'
    <3>1. UNCHANGED vars /\ retired' = retired /\ frees' = frees /\ deleted' = deleted
      BY <2>3 DEF SlotStepOf, lists
    <3>2. HandedOver' = HandedOver /\ Freed' = Freed
      BY <3>1 DEF HandedOver, Freed
    <3>3. HandedInv'
      BY <2>1, <3>1, <3>2, HandedStutter DEF HandedInv
    <3>4. QED BY <1>1, <1>4, <3>1, <3>3 DEF FreeingInv
  <2>4. ASSUME NEW t \in Threads, Sweep(t) PROVE FreeingInv'
    BY <1>1, <1>4, <2>1, <2>4, SweepStep DEF FreeingInv, Sweep
  <2>5. ASSUME DeleteTable PROVE FreeingInv'
    <3>1. frees' \in [Nodes -> 0..1]
      BY <1>1, <2>1, <2>5, DeleteStep
    <3>2. Quiet' /\ retired' = retired /\ deleted'
      BY <2>5 DEF DeleteTable, Quiet, lists, vars, request
    <3>3. deleted' \in BOOLEAN
      BY <2>5 DEF DeleteTable
    <3>4. QED BY <1>1, <3>1, <3>2, <3>3 DEF FreeingInv
  <2>6. QED BY <1>2, <2>2, <2>3, <2>4, <2>5, MemoryKinds
<1>5. QED
  BY <1>1, <1>3, <1>4

\* In every reachable state, with any number of nodes, threads and levels, what
\* has been handed to hazard_pointer_free is off every list, is in one release
\* list only or has been freed, and no removed node is left out.
THEOREM FreeingInvariance == MemorySpec => []FreeingInv
<1>1. MemoryInit => FreeingInv
  BY FreeingInit
<1>2. IInv /\ HeldInv /\ ListInv /\ FreeingInv /\ [MemoryNext]_<<lists, memory>> => FreeingInv'
  BY FreeingNext
<1>3. MemorySpec => [](IInv /\ HeldInv /\ ListInv)
  BY MemorySteps, Invariance, HeldInvariance, ListInvariance, PTL
<1>4. QED
  BY <1>1, <1>2, <1>3, PTL DEF MemorySpec

\* No node is freed twice, by scans and delete_table together, and as long as
\* the table lives none that a search can still reach (lines 488-495, 372).
THEOREM NodesFreedOnce == MemorySpec => []FreedOnce
<1>1. ASSUME FreeingInv PROVE FreedOnce
  <2>1. \A n \in Nodes : frees[n] <= 1
    BY <1>1 DEF FreeingInv
  <2>2. ASSUME ~deleted, NEW l \in Level PROVE Listed(l) \cap Freed = {}
    BY <1>1, <2>2 DEF FreeingInv, HandedInv, HandedOver, Attached
  <2>3. QED BY <2>1, <2>2 DEF FreedOnce
<1>2. QED
  BY <1>1, FreeingInvariance, PTL

\* If who calls put_new is the only one to update the set, delete_table frees
\* what is linked, the scans what has been removed, and no node is lost between
\* the two, save those that a hazard pointer of an idle thread still holds.
THEOREM DeleteFreesTheTable ==
    ASSUME PutNewAlone
    PROVE  MemorySpec => []DeleteFreesAll
<1>1. ASSUME IInv, HeldInv, ListInv, NodeAccounted, FreeingInv, DeleteFreesAll,
             [MemoryNext]_<<lists, memory>>
      PROVE  DeleteFreesAll'
  <2>1. CASE deleted
    <3>1. heap' = heap /\ frees' = frees /\ hp' = hp
      BY <1>1, <2>1, NothingAfter DEF lists, vars, shared, memory, hazards
    <3>2. QED BY <1>1, <2>1, <3>1 DEF DeleteFreesAll, Freed, Held
  <2>2. CASE ~deleted
    <3>1. CASE DeleteTable
      BY <1>1, <3>1, DeleteLeaves DEF DeleteFreesAll
    <3>2. CASE ~DeleteTable
      <4>1. deleted' = deleted
        BY <1>1, <3>2, MemoryKinds DEF ListStepOf, SlotStepOf, Sweep, memory
      <4>2. QED BY <2>2, <4>1 DEF DeleteFreesAll
    <3>3. QED BY <3>1, <3>2
  <2>3. QED BY <2>1, <2>2
<1>2. MemoryInit => DeleteFreesAll
  BY FreeingInit
<1>3. MemorySpec => [](IInv /\ HeldInv /\ ListInv /\ NodeAccounted)
  BY MemorySteps, Invariance, HeldInvariance, ListInvariance, NodesAccounted, PTL
<1>4. QED
  BY <1>1, <1>2, <1>3, FreeingInvariance, PTL DEF MemorySpec

\* Links and elements are changed at nodes that are not marked (lines 336, 421),
\* and a node is marked before it is freed (line 505).
THEOREM FreedStaysFrozen == MemorySpec => FreedFrozen
<1> DEFINE Frozen == \A n \in Freed :
                       n \in Freed' /\ nxt'[n] = nxt[n] /\ element'[n] = element[n]
<1>1. ASSUME IInv, HeldInv, ListInv, FreeingInv, ~deleted, [MemoryNext]_<<lists, memory>>
      PROVE  Frozen
  <2>1. \A n \in Freed : n \in marked /\ n \in fully_linked /\ n \in Nodes
    BY <1>1 DEF FreeingInv, HandedInv, HandedOver, HeldInv, Freed
  <2>2. \A n \in Freed : nxt'[n] = nxt[n] /\ element'[n] = element[n]
    <3>1. ASSUME NEW t \in Threads, Invoke(t) \/ Step(t), NEW n \in Freed
          PROVE  nxt'[n] = nxt[n] /\ element'[n] = element[n]
      BY <1>1, <2>1, <3>1, WriteFacts
    <3>2. UNCHANGED vars => nxt' = nxt /\ element' = element
      BY DEF vars, shared
    <3>3. QED BY <1>1, <3>1, <3>2, MemoryNextLists DEF lists
  <2>3. \A n \in Freed : n \in Freed'
    <3>1. ASSUME NEW t \in Threads, Sweep(t) PROVE \A n \in Freed : n \in Freed'
      <4>1. \A n \in Nodes : frees'[n] = frees[n] + One(n \in retired[t] \ kept[t])
        BY <3>1 DEF Sweep
      <4>2. \A b : One(b) \in {0, 1}
        BY DEF One
      <4>3. \A n \in Nodes : frees[n] \in 0..1
        BY <1>1 DEF FreeingInv
      <4>4. \A n \in Nodes : frees[n] > 0 => frees'[n] > 0
        BY <4>1, <4>2, <4>3
      <4>5. QED BY <4>4 DEF Freed
    <3>2. DeleteTable => \A n \in Freed : n \in Freed'
      BY <1>1, DeleteStep DEF FreeingInv
    <3>3. frees' = frees => Freed' = Freed
      BY DEF Freed
    <3>4. QED BY <1>1, <3>1, <3>2, <3>3, MemoryKinds DEF ListStepOf, SlotStepOf, memory
  <2>4. QED BY <2>2, <2>3
<1>2. IInv /\ HeldInv /\ ListInv /\ FreeingInv /\ [MemoryNext]_<<lists, memory>>
      => [~deleted => Frozen]_<<lists, memory>>
  BY <1>1
<1>3. MemorySpec => [](IInv /\ HeldInv /\ ListInv /\ FreeingInv)
  BY MemorySteps, Invariance, HeldInvariance, ListInvariance, FreeingInvariance, PTL
<1>4. QED
  BY <1>2, <1>3, PTL DEF MemorySpec, FreedFrozen
=============================================================================
