------------------------- MODULE SkiplistProperties -------------------------
(***************************************************************************)
(* What makes the skiplist of ConcurrentSkiplist correct: the shape of its *)
(* lists under every interleaving, its locking discipline, and the key-    *)
(* value set it implements.                                                *)
(***************************************************************************)
EXTENDS ConcurrentSkiplist

\* The nodes whose own pointers have been written.
Built == {n \in heap \cup {Head} : nxt[n][Bottom] # NoNode}

\* The nodes that next leads to from the head, in i steps or less.
Reach(next) ==
    LET reach[i \in Nat] ==
          IF i = 0 THEN {Head}
          ELSE LET S == reach[i - 1]
               IN  S \cup {next[n] : n \in S \ {Tail}}
    IN  reach

\* The nodes on the list of level l, which has no more than there are nodes.
Listed(l) == Reach([n \in Node |-> nxt[n][l]])[Cardinality(heap) + 1]

\* The pointers (node, level) the next step of t reads or writes.
Touched(t) ==
    LET l == level[t]
        victim == IF found[t] = NoNode THEN {} ELSE {<<found[t], l>>}
    IN  CASE pc[t] = "find"   -> {<<prev[t], l>>}
          [] pc[t] = "after"  -> {<<found[t], l>>}
          [] pc[t] = "check"  -> {<<before[t][l], l>>} \cup victim
          [] pc[t] = "link"   -> {<<before[t][l], l>>}
          [] pc[t] = "unlink" -> {<<before[t][l], l>>, <<found[t], l>>}
          [] OTHER            -> {}

\* The lock a thread is waiting for is that of n.
Wants(t, n) ==
    \/ pc[t] = "lock" /\ n = before[t][level[t]]
    \/ pc[t] = "lockelem" /\ n = found[t]

\* The removal of n is under way: marked by t, not finished yet.
RemovedBy(n, t) == /\ pc[t] \notin {"idle", "return"} /\ op[t] = "remove"
                   /\ took[t] /\ key[t] = KeyAt[n]

-----------------------------------------------------------------------------
(* The lists.                                                              *)

\* Every pointer leads to a greater key and to a node that is on that list's
\* level, from nodes already removed too: a search that has strayed onto a
\* removed node still goes forward, and ends (find_neigbours_1_level).
Sorted ==
    \A n \in Built : \A l \in Level :
        l >= top[n] =>
            /\ nxt[n][l] \in Built \cup {Tail}
            /\ KeyAt[n] < KeyAt[nxt[n][l]]
            /\ top[nxt[n][l]] <= l

\* No step follows or writes lower_lists below index 0, an uninitialised
\* pointer or NULL: level_pos (lines 148, 164, 172, 242, 263) is in range
\* although the nodes were found by searches of other states of the lists.
InBounds ==
    \A t \in Threads : \A p \in Touched(t) :
        p[1] \in Built /\ p[2] >= top[p[1]] /\ nxt[p[1]][p[2]] # NoNode

\* A node that holds an element is on every one of its lists: no concurrent
\* link or unlink beside it loses it (the point of validate_and_lock).
LiveIsListed ==
    \A n \in Live : \A l \in Level : l >= top[n] => n \in Listed(l)

\* A node on a list is on the list below too, except while the thread that
\* removes it is in the middle of unlinking it, bottom list first.
ListHierarchy ==
    \A l \in Level \ {Bottom} : \A n \in Listed(l) \ Listed(l + 1) :
        n \in marked /\ \E t \in Threads : pc[t] = "unlink" /\ found[t] = n

\* A marked node still on some list has its remover at work on it, retrying
\* until it is unlinked from all of them (deleted_by_us, line 481).
NoZombie ==
    \A n \in marked :
        (\E l \in Level : n \in Listed(l)) => \E t \in Threads : RemovedBy(n, t)

\* The remover that must search again finds the very node it has marked: it
\* never answers NULL after having taken the element (lines 478-483).
OwnVictim ==
    \A t \in Threads :
        pc[t] \in {"found", "lockelem"} /\ op[t] = "remove" /\ took[t] =>
            found[t] \in marked /\ element[found[t]] = result[t]

\* A pointer to a node that is not fully linked can only be read in a node
\* locked by the thread that links it: who holds the predecessor's lock never
\* sees a half-linked successor.
HalfLinkedIsLocked ==
    \A m \in Built : \A l \in Level :
        nxt[m][l] \notin fully_linked \cup {NoNode} =>
            \E t \in Threads : /\ pc[t] \in {"link", "publish"}
                               /\ node[t] = nxt[m][l] /\ lock[m] = t

\* A node malloc gave out is linked, or is still being built by a put that
\* will link or free it: no retry leaks a node (lines 404-413).
NodeAccounted ==
    \A n \in heap \ fully_linked :
        \E t \in Threads : node[t] = n /\ pc[t] \notin {"idle", "return"}

\* Between calls the skiplist is exactly the sorted one of its live nodes, on
\* every level, with no lock held and no removed node left on a list.
QuiescentLayout ==
    (\A t \in Threads : pc[t] = "idle") =>
        /\ \A n \in Node : lock[n] = NoThread
        /\ \A n \in Live \cup {Head} : \A l \in Level :
             l >= top[n] => nxt[n][l] = Successor(Live \ {Tail, Head}, n, l)

-----------------------------------------------------------------------------
(* The locks.                                                              *)

\* Locks are taken in the order of descending keys: the lock a thread waits
\* for is that of a node before every node it has locked.  No cycle of
\* threads can wait for each other (lines 252-257, 416, 485, 502).
LockOrder ==
    \A t \in Threads : \A m, n \in Node :
        Wants(t, n) /\ lock[m] = t => KeyAt[n] < KeyAt[m]

\* A linked node's pointers, element and mark change only while some thread
\* has its lock, although they are written far from where it was taken.
WritesUnderLock ==
    [][\A n \in fully_linked :
         \/ nxt'[n] # nxt[n] \/ element'[n] # element[n]
         \/ (n \in marked) # (n \in marked')
         => lock[n] # NoThread /\ lock'[n] = lock[n]]_vars

\* Once marked, a node never changes again: nothing is linked behind a node
\* that is leaving the lists, and no element is stored in it.
MarkedFrozen ==
    [][\A n \in marked :
         n \in marked' /\ nxt'[n] = nxt[n] /\ element'[n] = element[n]]_vars

-----------------------------------------------------------------------------
(* The operations.                                                         *)

KV == INSTANCE KVSet WITH
    status <- [t \in Threads |-> IF pc[t] = "idle" THEN "idle"
                                 ELSE IF pc[t] = "return" THEN "returned"
                                 ELSE "called"],
    ret <- result

\* The skiplist is the key-value set of KVSet: put, put_new and remove act at
\* one instant, lookup and member answer what their key was bound to at some
\* instant of the call.
KVSpec == KV!Spec

\* A validation that takes the lock of a marked node, which its remover needs
\* back to search again and unlink it (line 483).
Overtakes(t) ==
    /\ LockPred(t)
    /\ \E u \in Threads : pc[u] = "lockelem" /\ took[u] /\ found[u] = before[t][level[t]]

\* Every call returns, although locks are not fair, unless removers that search
\* again are overtaken for ever: no deadlock, and no other retry without end.
ReturnsUnlessOvertaken ==
    \/ \A t \in Threads : pc[t] # "idle" ~> pc[t] = "idle"
    \/ []<><<\E t \in Threads : Overtakes(t)>>_vars

-----------------------------------------------------------------------------
(* The inductive invariant behind Sorted, InBounds and LockOrder.          *)

\* The shared memory: what a node in use holds.
HeapInv ==
    /\ \A n \in heap : element[n] \in Elements
    /\ marked \subseteq Built
    /\ top[Head] = 0 /\ top[Tail] = 0
    /\ Head \in Built

\* n precedes, or follows, the key t looks for and can be used at level l.
IsBefore(t, n, l) == n \in Built /\ top[n] <= l /\ KeyAt[n] < key[t]
IsAfter(t, n, l)  == n \in Built \cup {Tail} /\ top[n] <= l /\ key[t] < KeyAt[n]
IsHit(t, n)       == n \in Built /\ KeyAt[n] = key[t]
SameOrBefore(m, n) == m = n \/ KeyAt[m] < KeyAt[n]

IsPut(t)     == op[t] \in {"put", "put_new"}
Searching(t) == pc[t] \in {"find", "after"}
Searched(t)  == pc[t] \notin {"idle", "find", "after", "return"}

\* A put's argument has the key it is stored under.
CallInv(t) == IsPut(t) => arg[t] \in Elements /\ KeyOf[arg[t]] = key[t]

\* The search goes right and down: predecessors of lower lists are no less.
SearchInv(t) ==
    /\ Searching(t) =>
        /\ IsBefore(t, prev[t], level[t])
        /\ \A l \in Level : l < level[t] =>
             /\ IsBefore(t, before[t][l], l)
             /\ IsAfter(t, after[t][l], l)
             /\ SameOrBefore(before[t][l], prev[t])
        /\ \A l, m \in Level :
             l < m /\ m < level[t] => SameOrBefore(before[t][l], before[t][m])
    /\ pc[t] = "after" => IsHit(t, found[t]) /\ top[found[t]] <= level[t]

FoundInv(t) ==
    Searched(t) =>
        /\ \A l \in Level :
             IsBefore(t, before[t][l], l) /\ IsAfter(t, after[t][l], l)
        /\ \A l, m \in Level :
             l < m => SameOrBefore(before[t][l], before[t][m])
        /\ found[t] = NoNode \/ IsHit(t, found[t])

\* Which operation is where, and what it has in hand there.
ControlInv(t) ==
    /\ pc[t] = "idle" => ~took[t]
    /\ IsPut(t) /\ took[t] =>
         valid[t] /\ pc[t] \in {"unlock", "unlockelem", "return"}
    /\ pc[t] \in {"wait", "lockelem", "locked", "unlockelem", "unlink"} =>
         found[t] # NoNode /\ op[t] \in {"put", "remove"}
    /\ pc[t] \in {"read_marked", "read_element"} => found[t] # NoNode /\ ReadOp(t)
    /\ pc[t] \in {"lock", "check", "unlock"} =>
         IF op[t] = "remove" THEN found[t] # NoNode /\ took[t]
         ELSE IsPut(t) /\ node[t] # NoNode /\ found[t] = NoNode
    /\ pc[t] \in {"fill", "link", "publish"} =>
         IsPut(t) /\ node[t] # NoNode /\ found[t] = NoNode
    /\ pc[t] = "unlink" => op[t] = "remove" /\ took[t]
    /\ pc[t] \in {"lock", "check", "fill", "link", "publish", "unlink"} => valid[t]
    /\ pc[t] \in {"lock", "check", "fill", "link", "unlink"} => level[t] >= LevelTo(t)

\* The node a put builds is its own, and points nowhere until it is filled.
NodeInv(t) ==
    /\ node[t] # NoNode =>
        /\ node[t] \in heap /\ KeyAt[node[t]] = key[t]
        /\ \A u \in Threads : node[u] = node[t] => u = t
    /\ pc[t] = "idle" => node[t] = NoNode
    /\ pc[t] \in {"lock", "check", "fill"} /\ IsPut(t) => node[t] \notin Built
    /\ pc[t] = "unlock" /\ IsPut(t) /\ ~valid[t] => node[t] \notin Built
    /\ pc[t] \in {"link", "publish"} => node[t] \in Built

\* The locks a thread may have: the element's own and its predecessors'.
HasElementLock(t) ==
    \/ pc[t] \in {"locked", "unlockelem"}
    \/ op[t] = "remove" /\ pc[t] \in {"lock", "check", "unlink", "unlock"}

LockInv(t) ==
    /\ \A n \in Node : lock[n] = t =>
         \/ HasElementLock(t) /\ n = found[t]
         \/ \E l \in locked[t] : n = before[t][l]
    /\ pc[t] \notin {"lock", "check", "fill", "link", "publish", "unlink", "unlock"}
         => locked[t] = {}
    /\ pc[t] = "lock" => \A l \in locked[t] :
         l > level[t] /\ KeyAt[before[t][level[t]]] < KeyAt[before[t][l]]
    /\ pc[t] = "check" => \A l \in locked[t] : l >= level[t]

\* What each thread knows stays true while the others run.
ThreadInv(t) ==
    /\ CallInv(t)
    /\ SearchInv(t)
    /\ FoundInv(t)
    /\ ControlInv(t)
    /\ NodeInv(t)
    /\ LockInv(t)

IInv == TypeOK /\ HeapInv /\ Sorted /\ \A t \in Threads : ThreadInv(t)

-----------------------------------------------------------------------------

\* After put the set holds the element (test_lookup, test_kvset.c:86-97).
PutStores ==
    \A t \in Threads : pc[t] = "return" /\ op[t] = "put" => took[t]
=============================================================================
