-------------------------- MODULE SkiplistQueries --------------------------
(***************************************************************************)
(* What the functions of a skiplist compute when nobody changes the lists: *)
(* the search, and the queries by order.  src/src/maps/skiplist.c and      *)
(* src/src/maps/concurrent_skiplist.c share this code.  The lists are the  *)
(* state of the module that instantiates this one.                         *)
(***************************************************************************)
EXTENDS Integers, FiniteSets

CONSTANTS Node, Head, Tail, NoNode, NumLevels

VARIABLES
    nxt,        \* nxt[n][l] is lower_lists[l - top[n]] of n
    element,
    KeyAt       \* what compare goes by: the borders are outside the keys

Level  == 0..NumLevels - 1
Bottom == NumLevels - 1

\* Where a loop that goes from m on to step[m] has come to after each round.
Walk(step, n) ==
    LET walk[i \in Nat] == IF i = 0 THEN n ELSE step[walk[i - 1]]
    IN  walk

\* No list has more nodes than there are: by then a loop along it has ended.
Rounds == Cardinality(Node)

\* The last node before k on list l, from n on.
find_neigbours_1_level(n, l, k) ==
    LET right == [m \in Node |-> IF KeyAt[nxt[m][l]] < k THEN nxt[m][l] ELSE m]
    IN  Walk(right, n)[Rounds]

\* On each list, from where the list above has led to.
Before(k) ==
    LET before[l \in Level] ==
          find_neigbours_1_level(IF l = 0 THEN Head ELSE before[l - 1], l, k)
    IN  before

\* struct find_result: a node with key k itself is passed over.
find_neigbours(k) ==
    LET before == Before(k)
        ahead  == [l \in Level |-> nxt[before[l]][l]]
        hit(l) == KeyAt[ahead[l]] = k
    IN  [before |-> before,
         after  |-> [l \in Level |-> IF hit(l) THEN nxt[ahead[l]][l] ELSE ahead[l]],
         found  |-> IF hit(Bottom) THEN ahead[Bottom] ELSE NoNode]

\* A border holds no element: both tests of info come down to its NULL.
skiplist_first == element[nxt[Head][Bottom]]

\* On each list as far right as it goes: compare takes no part.
skiplist_last == element[Before(KeyAt[Tail])[Bottom]]

\* Mutant of skiplist_next: what the search has found is not passed over.
skiplist_nextFound(k) == element[nxt[Before(k)[Bottom]][Bottom]]

skiplist_next(k)     == element[find_neigbours(k).after[Bottom]]
skiplist_previous(k) == element[find_neigbours(k).before[Bottom]]

\* The nodes skiplist_delete frees: those of the bottom list.
Deleted ==
    LET next == [m \in Node |-> IF m = Tail THEN Tail ELSE nxt[m][Bottom]]
        walk == Walk(next, nxt[Head][Bottom])
    IN  {walk[i] : i \in 0..Rounds} \ {Tail}
=============================================================================
