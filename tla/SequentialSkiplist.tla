------------------------- MODULE SequentialSkiplist -------------------------
(***************************************************************************)
(* The skiplist of src/src/maps/skiplist.c, which one thread uses: an      *)
(* operation is one step, but for skiplist_delete, which is one per node.  *)
(* As in ConcurrentSkiplist a node is on the lists top[n]..Bottom, and     *)
(* nxt[n][l] is lower_lists[l - top[n]].                                   *)
(***************************************************************************)
EXTENDS Integers, FiniteSets

CONSTANTS
    Nodes,          \* the nodes malloc can return
    Head, Tail, NoNode,
    Elements, KeyOf, NULL,
    MaxKey,         \* keys are 0..MaxKey
    NumLevels,      \* SKIPLIST_NUM_OF_LEVELS
    RAND_MAX        \* rand() returns 0..RAND_MAX

Keys   == 0..MaxKey
Level  == 0..NumLevels - 1
Bottom == NumLevels - 1
Node   == Nodes \cup {Head, Tail}

ASSUME NumberAssumption ==
    NumLevels \in Nat \ {0} /\ MaxKey \in Nat /\ RAND_MAX \in Nat
ASSUME NodeAssumption == IsFiniteSet(Nodes)
ASSUME ElementAssumption == NULL \notin Elements /\ KeyOf \in [Elements -> Keys]
ASSUME BorderAssumption ==
    Head \notin Nodes /\ Tail \notin Nodes /\ Head # Tail /\ NoNode \notin Node

VARIABLES
    heap,               \* nodes malloc has given out
    element, top, nxt,  \* their fields
    node_iter,          \* where the loop of skiplist_delete is
    answered, freed     \* the last operation: see OrderedMap

nodes == <<heap, element, top, nxt>>
vars  == <<nodes, node_iter, answered, freed>>

Ops == {"put", "put_new", "remove", "lookup", "member", "first", "last", "next",
        "previous"}

TypeOK ==
    /\ heap \subseteq Nodes
    /\ element \in [Node -> Elements \cup {NULL}]
    /\ top \in [Node -> Level]
    /\ nxt \in [Node -> [Level -> Node \cup {NoNode}]]
    /\ node_iter \in Node \cup {NoNode}
    /\ answered.op \in Ops \cup {"new", "delete_table"}
    /\ answered.arg \in Elements \cup Keys \cup {NULL}
    /\ answered.answer \in Elements \cup {NULL, 0, 1}
    /\ freed \subseteq Elements

\* The order of compare.
KeyAt == [n \in Node |-> IF n = Head THEN -1
                          ELSE IF n \in heap THEN KeyOf[element[n]]
                          ELSE MaxKey + 1]

Q == INSTANCE SkiplistQueries

NoNodes == [l \in Level |-> NoNode]

\* new_skiplist
Init ==
    /\ heap = {}
    /\ element = [n \in Node |-> NULL]
    /\ top = [n \in Node |-> 0]
    /\ nxt = [n \in Node |-> [l \in Level |-> IF n = Head THEN Tail ELSE NoNode]]
    /\ node_iter = NoNode
    /\ answered = [op |-> "new", arg |-> NULL, answer |-> NULL]
    /\ freed = {}

deleted == answered.op = "delete_table"

Answers(op, arg, answer) ==
    /\ ~deleted
    /\ answered' = [op |-> op, arg |-> arg, answer |-> answer]
    /\ UNCHANGED <<node_iter, freed>>

\* Mutants of random_level: one too many; the bound is not halved again.
random_levelAbove(r) ==
    LET from[i \in 0..Bottom] ==
          IF i > 0 /\ r <= RAND_MAX \div 2^(NumLevels - i) THEN from[i - 1] ELSE i + 1
    IN  from[Bottom]
random_levelFixed(r) ==
    LET from[i \in 0..Bottom] ==
          IF i > 0 /\ r <= RAND_MAX \div 2 THEN from[i - 1] ELSE i
    IN  from[Bottom]

\* The level for r drawn by rand().
random_level(r) ==
    LET from[i \in 0..Bottom] ==
          IF i > 0 /\ r <= RAND_MAX \div 2^(NumLevels - i) THEN from[i - 1] ELSE i
    IN  from[Bottom]

-----------------------------------------------------------------------------
(* Changing the lists.                                                     *)

\* Mutant of insert_sublist: the old node stays where the new one is not.
insert_sublistOnly(f, n, insert, remove) ==
    [m \in Node |-> [l \in Level |->
       CASE m = n /\ l >= insert           -> f.after[l]
         [] m = f.before[l] /\ l >= insert -> n
         [] OTHER                          -> nxt[m][l]]]

\* n is linked from `insert' down; above, from `remove' on, the node that was
\* found is only taken out.
insert_sublist(f, n, insert, remove) ==
    [m \in Node |-> [l \in Level |->
       CASE m = n /\ l >= insert           -> f.after[l]
         [] m = f.before[l] /\ l >= insert -> n
         [] m = f.before[l] /\ remove <= l /\ l < insert -> f.after[l]
         [] OTHER                          -> nxt[m][l]]]

\* A node that is freed is blank: malloc may return it again.
Insert(e, f) ==
    \E n \in Nodes \ heap, r \in 0..RAND_MAX :
      LET level == random_level(r)
          old   == f.found
          links == insert_sublist(f, n, level, IF old = NoNode THEN level ELSE top[old])
      IN  /\ heap' = (heap \cup {n}) \ {old}
          /\ element' = [m \in Node |-> IF m = n THEN e ELSE IF m = old THEN NULL
                                         ELSE element[m]]
          /\ top' = [m \in Node |-> IF m = n THEN level ELSE IF m = old THEN 0
                                     ELSE top[m]]
          /\ nxt' = [m \in Node |-> IF m = old THEN NoNodes ELSE links[m]]

ElementAt(n) == IF n = NoNode THEN NULL ELSE element[n]

skiplist_put(e) ==
    LET f == Q!find_neigbours(KeyOf[e])
    IN  Answers("put", e, ElementAt(f.found)) /\ Insert(e, f)

skiplist_put_new(e) ==
    LET f == Q!find_neigbours(KeyOf[e])
    IN  \/ f.found = NoNode /\ Answers("put_new", e, 1) /\ Insert(e, f)
        \/ f.found # NoNode /\ Answers("put_new", e, 0) /\ UNCHANGED nodes

skiplist_remove(k) ==
    LET f == Q!find_neigbours(k)
        old == f.found
    IN  /\ Answers("remove", k, ElementAt(old))
        /\ IF old = NoNode THEN UNCHANGED nodes
           ELSE /\ heap' = heap \ {old}
                /\ element' = [element EXCEPT ![old] = NULL]
                /\ top' = [top EXCEPT ![old] = 0]
                /\ nxt' = [m \in Node |-> IF m = old THEN NoNodes ELSE [l \in Level |->
                             IF m = f.before[l] /\ l >= top[old] THEN f.after[l]
                             ELSE nxt[m][l]]]

-----------------------------------------------------------------------------
(* Reading them, and the end.                                              *)

Reads(op, arg, answer) == Answers(op, arg, answer) /\ UNCHANGED nodes

skiplist_lookup(k) == Reads("lookup", k, ElementAt(Q!find_neigbours(k).found))
member(k) ==
    Reads("member", k, IF Q!find_neigbours(k).found = NoNode THEN 0 ELSE 1)

skiplist_first       == Reads("first", NULL, Q!skiplist_first)
skiplist_last        == Reads("last", NULL, Q!skiplist_last)
skiplist_next(k)     == Reads("next", k, Q!skiplist_next(k))
skiplist_previous(k) == Reads("previous", k, Q!skiplist_previous(k))

\* skiplist_delete begins with the first node of the bottom list.
skiplist_delete ==
    /\ ~deleted
    /\ answered' = [op |-> "delete_table", arg |-> NULL, answer |-> NULL]
    /\ node_iter' = nxt[Head][Bottom]
    /\ UNCHANGED <<nodes, freed>>

\* What free leaves of a node: nothing that may be read.
Blank(n) ==
    /\ heap' = heap \ {n}
    /\ element' = [element EXCEPT ![n] = NULL]
    /\ top' = [top EXCEPT ![n] = 0]
    /\ nxt' = [nxt EXCEPT ![n] = NoNodes]

\* Mutants of FreeNode: the node is freed before it is left; it is left by its
\* highest list.
FreeNodeFirst ==
    /\ deleted /\ node_iter \in Nodes
    /\ freed' = freed \cup {element[node_iter]}
    /\ Blank(node_iter)
    /\ node_iter' = nxt'[node_iter][Bottom]
    /\ UNCHANGED answered
FreeNodeAtTop ==
    /\ deleted /\ node_iter \in Nodes
    /\ node_iter' = nxt[node_iter][top[node_iter]]
    /\ freed' = freed \cup {element[node_iter]}
    /\ Blank(node_iter)
    /\ UNCHANGED answered

\* One round: the node is left, its element is handed out, the node is freed.
FreeNode ==
    /\ deleted /\ node_iter \in Nodes
    /\ node_iter' = nxt[node_iter][Bottom]
    /\ freed' = freed \cup {element[node_iter]}
    /\ Blank(node_iter)
    /\ UNCHANGED answered

\* The loop has come to the end node.
Terminated == deleted /\ node_iter = Tail /\ UNCHANGED vars

Next ==
    \/ \E e \in Elements : skiplist_put(e) \/ skiplist_put_new(e)
    \/ \E k \in Keys : \/ skiplist_remove(k) \/ skiplist_lookup(k) \/ member(k)
                       \/ skiplist_next(k) \/ skiplist_previous(k)
    \/ skiplist_first \/ skiplist_last
    \/ skiplist_delete \/ FreeNode
    \/ Terminated

Spec == Init /\ [][Next]_vars

-----------------------------------------------------------------------------
(* Properties.                                                             *)

\* Whatever the heights drawn, each list holds exactly the nodes in use that
\* reach it, by ascending key: an element put over another in a node of a
\* different height leaves nothing of the old node behind (lines 170-182).
Layout ==
    ~deleted =>
      \A n \in heap \cup {Head} : \A l \in Level : l >= top[n] =>
        LET right == {m \in heap : top[m] <= l /\ KeyAt[m] > KeyAt[n]}
        IN  IF right = {} THEN nxt[n][l] = Tail
            ELSE nxt[n][l] \in right /\ \A m \in right : KeyAt[nxt[n][l]] <= KeyAt[m]

\* skiplist_delete leaves each node before it frees it: the loop never stands on
\* a freed node (lines 205-212).
LeftBeforeFreed == deleted => node_iter \in heap \cup {Tail}

\* It leaves no node behind, although it follows one list only.
AllFreed == deleted /\ node_iter = Tail => heap = {}

\* The height of a node in use is one that all numbers up to its list's share
\* give: half of those of the list below, 1 in 2^Bottom for the highest (lines
\* 68-76).
LevelsHalve ==
    \A n \in heap :
      Cardinality({r \in 0..RAND_MAX : random_level(r) <= top[n]}) * 2^(Bottom - top[n])
        = RAND_MAX + 1

\* The ordered map the skiplist represents.
map == [k \in Keys |->
          LET at == {n \in heap : KeyAt[n] = k}
          IN  IF at = {} THEN NULL ELSE element[CHOOSE n \in at : TRUE]]

Ordered == INSTANCE OrderedMap

\* All ten operations change the map and answer as an ordered map does, the
\* queries at the borders and for keys that are not there among them.
ImplementsOrderedMap == Ordered!Spec
=============================================================================
