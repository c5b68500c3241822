-------------------------- MODULE SkiplistInvariants --------------------------
(***************************************************************************)
(* The inductive invariants behind what SkiplistProperties says of the     *)
(* locks and the lists, each inductive together with the ones before it    *)
(* and with IInv: HeldInv (what a thread that has passed validate_and_lock *)
(* may rely on), ListInv (which nodes are on which lists, and where the    *)
(* search of a removal under way will come to) and AnswersInv (what every  *)
(* call under way can answer).  AloneInv and AccountInv are for callers    *)
(* that keep put_new apart from other updates (PutNewAlone).               *)
(***************************************************************************)
EXTENDS SkiplistProperties

-----------------------------------------------------------------------------
(* What the locks protect.                                                 *)

\* The levels whose predecessor t has locked and validated, and keeps so.
Validated(t) ==
    {l \in Level : \/ pc[t] \in {"lock", "check"} /\ l > level[t]
                   \/ pc[t] \in {"fill", "link", "publish", "unlink"} /\ l >= LevelTo(t)}

\* The level's pointer has been written already, in the loop over link_level.
Rewritten(t, l) ==
    pc[t] = "publish" \/ (pc[t] \in {"link", "unlink"} /\ l > level[t])

\* What the predecessor's pointer holds at a level that t has validated.
PointsTo(t, l) ==
    IF op[t] = "remove" THEN IF Rewritten(t, l) THEN after[t][l] ELSE found[t]
    ELSE IF Rewritten(t, l) THEN node[t] ELSE after[t][l]

\* A validated level stays as it was found until t unlocks it.
LevelsInv(t) ==
    /\ pc[t] = "fill" => level[t] = Bottom
    /\ \A l \in Validated(t) :
         /\ lock[before[t][l]] = t
         /\ before[t][l] \notin marked
         /\ after[t][l] \in fully_linked
         /\ nxt[before[t][l]][l] = PointsTo(t, l)
         /\ op[t] = "remove" => nxt[found[t]][l] = after[t][l]

\* The locks t has to release are its own, each of them once.
OwnLocks(t) ==
    /\ HasElementLock(t) => lock[found[t]] = t
    /\ pc[t] = "check" => lock[before[t][level[t]]] = t
    /\ \A l \in locked[t] : lock[before[t][l]] = t
    /\ \A l, m \in locked[t] : before[t][l] = before[t][m] => l = m

\* A node is marked, or its element replaced, only when it is fully linked.
LinkedInv(t) ==
    /\ pc[t] \in {"wait", "locked"} => ~took[t]
    /\ pc[t] \in {"lockelem", "locked"} /\ ~took[t] => found[t] \in fully_linked
    /\ node[t] # NoNode /\ ~took[t] => node[t] \notin fully_linked
    /\ op[t] = "none" <=> pc[t] = "idle"

\* What t has locked, validated or found linked stays so, whatever the other
\* threads do (validate_and_lock, lines 241-301), and so does what it links.
HeldInv ==
    /\ {Head, Tail} \subseteq fully_linked
    /\ fully_linked \subseteq Built \cup {Tail}
    /\ marked \subseteq fully_linked
    /\ HalfLinkedIsLocked
    /\ \A t \in Threads : LevelsInv(t) /\ OwnLocks(t) /\ LinkedInv(t)

-----------------------------------------------------------------------------
(* The lists.                                                              *)

\* S is the list that next leads through, from Head to Tail, by the keys K.
IsChain(S, next, K) ==
    /\ Head \in S /\ Tail \in S
    /\ \A m \in S \ {Tail} :
         /\ next[m] \in S /\ K[m] < K[next[m]]
         /\ \A n \in S : K[m] < K[n] => K[next[m]] <= K[n]
    /\ \A m, n \in S : K[m] = K[n] => m = n

IsList(l, S) ==
    /\ S \subseteq Built \cup {Tail}
    /\ \A n \in S : top[n] <= l
    /\ IsChain(S, [n \in Node |-> nxt[n][l]], KeyAt)

Attached == UNION {Listed(l) : l \in Level}

\* A pointer leads to a node on its list, or to one that has been removed.
Leads ==
    \A m \in Built : \A l \in Level :
        l >= top[m] => nxt[m][l] \in Listed(l) \cup marked

\* The node t links is on the lists it has got to, and points past itself.
LinkingInv(t) ==
    pc[t] \in {"link", "publish"} =>
        \A l \in Level : l >= top[node[t]] =>
            /\ node[t] \in Listed(l) <=> Rewritten(t, l)
            /\ ~Rewritten(t, l) => nxt[node[t]][l] = after[t][l]

\* A predecessor that is not marked is on the list it was found on.
PredsInv(t) ==
    /\ Searching(t) =>
         /\ prev[t] \in Listed(level[t]) \cup marked
         /\ \A l \in Level : l < level[t] => before[t][l] \in Listed(l) \cup marked
    /\ Searched(t) => \A l \in Level : before[t][l] \in Listed(l) \cup marked

\* S holds all that a search can get to from its nodes.
Track(S) ==
    \A m \in S \ {Tail} : \A l \in Level : l >= top[m] => nxt[m][l] \in S

\* The bottom pointers in S do not lead past n, and no other node has its key.
Finds(S, n) ==
    /\ \A m \in S \ {Tail} : KeyAt[m] < KeyAt[n] => KeyAt[nxt[m][Bottom]] <= KeyAt[n]
    /\ \A m \in S : KeyAt[m] = KeyAt[n] => m = n

\* From where it is, the search of t comes to n.
OnTrack(t, n) ==
    \E S \in SUBSET (Built \cup {Tail}) : prev[t] \in S /\ Track(S) /\ Finds(S, n)

\* t has marked a node that it has not unlinked from all lists yet.
Pending(t) ==
    /\ op[t] = "remove" /\ took[t] /\ pc[t] # "return"
    /\ ~(pc[t] \in {"unlock", "unlockelem"} /\ valid[t])

VictimOf(t, n) ==
    /\ n \in marked /\ KeyAt[n] = key[t] /\ element[n] = result[t]
    /\ \A l \in Level : l >= top[n] =>
         (n \in Listed(l) <=> ~(pc[t] = "unlink" /\ Rewritten(t, l)))
    /\ Searched(t) \/ pc[t] = "after" => found[t] = n

\* Every removal under way has its own node, which its search will find.
HasVictim ==
    \A t \in Threads : Pending(t) =>
        \E n \in marked : VictimOf(t, n) /\ (Searching(t) => OnTrack(t, n))
HasRemover ==
    \A n \in marked \cap Attached : \E t \in Threads : Pending(t) /\ VictimOf(t, n)
OneRemover ==
    \A t, u \in Threads : \A n \in marked :
        Pending(t) /\ Pending(u) /\ VictimOf(t, n) /\ VictimOf(u, n) => t = u

ShapeInv ==
    /\ \A l \in Level : IsList(l, Listed(l))
    /\ LiveIsListed
    /\ Leads
    /\ \A t \in Threads : LinkingInv(t) /\ PredsInv(t)

\* Each list is the chain of its nodes in the order of keys; live nodes are on
\* all of theirs, and marked ones only as far as their remover has not come.
ListInv == ShapeInv /\ HasVictim /\ HasRemover /\ OneRemover

-----------------------------------------------------------------------------
(* The answers.                                                            *)

\* A call that has not taken effect, and has not answered.
Open(t) == pc[t] \notin {"idle", "return"} /\ ~took[t]

\* The search of t, or what it has found.
HasFound(t) == Searched(t) \/ pc[t] = "after"

\* Unless its key has been bound to nothing since the call, what a call comes
\* to is the live node with its key, and the element it reads was bound to it.
SeenInv(t) ==
    /\ Open(t) => map[key[t]] \in seen[t]
    /\ Open(t) /\ NULL \notin seen[t] =>
         /\ Searching(t) => \E n \in Live : KeyAt[n] = key[t] /\ OnTrack(t, n)
         /\ HasFound(t) => found[t] \in Live
    /\ pc[t] \in {"read_marked", "read_element"} => found[t] \in fully_linked
    /\ pc[t] = "read_element" => element[found[t]] \in seen[t]

\* From where it is, the search of t comes to no marked node with its key.
OffMarked(t) ==
    \E S \in SUBSET (Built \cup {Tail}) :
        /\ prev[t] \in S /\ Track(S)
        /\ \A m \in S : KeyAt[m] = key[t] => m \notin marked

\* Unless a removal of its key has overlapped it, a call comes to no marked node.
RacedInv(t) ==
    Open(t) /\ ~raced[t] =>
        /\ \A u \in Threads : Pending(u) => key[u] # key[t]
        /\ Searching(t) => OffMarked(t)
        /\ HasFound(t) => found[t] \notin marked

\* What a call has in hand when it takes effect or answers.
AnswerInv(t) ==
    /\ node[t] # NoNode /\ ~took[t] => element[node[t]] = arg[t]
    /\ op[t] = "put" /\ pc[t] = "unlock" /\ valid[t] => took[t] /\ result[t] = NULL
    /\ ReadOp(t) => ~took[t]
    /\ pc[t] = "read_element" => op[t] = "lookup"

\* What every call under way will answer is what its key has been bound to
\* since it was made, or, of a put, that a removal has overlapped it.
AnswersInv == \A t \in Threads : SeenInv(t) /\ RacedInv(t) /\ AnswerInv(t)

-----------------------------------------------------------------------------
(* put_new by one writer.                                                  *)

\* What the code asks of its callers (line 441): who calls put_new is the only
\* one to change the set.
PutNewAlone ==
    \A t \in Threads : \A u \in Threads \ {t} :
        (\E c \in CallsOf[t] : c.op = "put_new")
            => \A c \in CallsOf[u] : c.op \in {"lookup", "member"}

\* The levels a put_new is done with, until it has validated them all.
Passed(t) == {l \in Level : \/ Searching(t) /\ l < level[t]
                            \/ pc[t] \in {"found", "lock", "check"}}

\* Nobody changes a list under a put_new, and there is nothing marked on one:
\* it comes to a live node, or every level stays as it was found.
NewInv(t) ==
    /\ Searching(t) => prev[t] \notin marked
    /\ (Searching(t) \/ pc[t] = "found") /\ found[t] # NoNode =>
         /\ found[t] \in Live /\ KeyAt[found[t]] = key[t]
         /\ pc[t] = "find" => top[found[t]] <= level[t]
    /\ found[t] = NoNode => \A l \in Passed(t) :
         /\ before[t][l] \notin marked
         /\ after[t][l] \in fully_linked
         /\ nxt[before[t][l]][l] = after[t][l]
    /\ pc[t] = "unlock" => valid[t] /\ took[t] /\ result[t] = 1

\* A put_new with no update beside it never fails to validate (line 453).
AloneInv ==
    \A t \in Threads :
        /\ op[t] # "none" => \E c \in CallsOf[t] : c.op = op[t]
        /\ op[t] = "put_new" => NewInv(t)

\* A node that is not linked is in the hands of a put that will link or free it.
Unlinked(t) == node[t] \notin fully_linked \cup {NoNode}

AccountInv ==
    /\ NodeAccounted
    /\ \A t \in Threads :
         Unlinked(t) =>
              /\ IsPut(t) /\ pc[t] \in {"lock", "check", "fill", "link", "publish", "unlock"}
              /\ pc[t] = "unlock" => op[t] = "put" /\ ~valid[t]
=============================================================================
