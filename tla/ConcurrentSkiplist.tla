------------------------- MODULE ConcurrentSkiplist -------------------------
(***************************************************************************)
(* The lazy-locking skiplist of src/src/maps/concurrent_skiplist.c, one    *)
(* access to shared memory per action, any number of threads.              *)
(*                                                                         *)
(* A node lies on the lists top[n]..Bottom (top is SKIPLIST_NUM_OF_LEVELS  *)
(* minus num_of_levels) and nxt[n][l] is lower_lists[l - top[n]].  Steps   *)
(* that touch only memory no other thread can see at the time (locals, a   *)
(* node not yet linked, a field written only under a lock the thread       *)
(* holds) are merged with a neighbouring shared access.                    *)
(*                                                                         *)
(* A node that has been linked is never given to malloc again here: when   *)
(* memory is reclaimed is the business of the hazard pointers.             *)
(***************************************************************************)
EXTENDS Integers, FiniteSets

CONSTANTS
    Threads, NoThread,
    Nodes,          \* the nodes malloc can return
    Head, Tail,     \* head_node and end_node
    NoNode,         \* NULL, or an uninitialised pointer
    Elements, KeyOf, NULL,
    MaxKey,         \* keys are 0..MaxKey; the border nodes compare outside
    NumLevels,      \* SKIPLIST_NUM_OF_LEVELS
    CallsOf,        \* the calls each thread may make
    MaxCalls,       \* and how many of them: bounds the model
    Contents        \* what the set may hold when the threads start

Keys   == 0..MaxKey
Level  == 0..NumLevels - 1
Bottom == NumLevels - 1
Node   == Nodes \cup {Head, Tail}

Ops     == {"put", "put_new", "remove", "lookup", "member"}
Call    == [op : Ops, key : Keys, arg : Elements \cup {NULL}]
Answers == Elements \cup {NULL, 0, 1}

ASSUME NumLevelsAssumption == NumLevels \in Nat \ {0}
ASSUME MaxKeyAssumption    == MaxKey \in Nat
ASSUME ElementAssumption   == NULL \notin Elements /\ KeyOf \in [Elements -> Keys]
ASSUME BorderAssumption ==
    Head \notin Nodes /\ Tail \notin Nodes /\ Head # Tail /\ NoNode \notin Node
ASSUME NodeAssumption == IsFiniteSet(Nodes)
ASSUME ThreadAssumption == NoThread \notin Threads
ASSUME CallAssumption ==
    /\ CallsOf \in [Threads -> SUBSET Call]
    /\ MaxCalls \in Nat
    /\ \A t \in Threads : \A c \in CallsOf[t] :
         c.op \in {"put", "put_new"} => c.arg \in Elements /\ KeyOf[c.arg] = c.key
\* A content puts elements with distinct keys into nodes, each with its level.
ASSUME ContentsAssumption ==
    \A c \in Contents :
        /\ DOMAIN c \subseteq Nodes
        /\ \A n \in DOMAIN c : c[n].elem \in Elements /\ c[n].top \in Level
        /\ \A m, n \in DOMAIN c : KeyOf[c[m].elem] = KeyOf[c[n].elem] => m = n

VARIABLES
    heap,           \* nodes malloc has given out
    element, top, nxt, marked, fully_linked, lock,      \* the nodes' fields
    pc,
    op, key, arg,   \* the call under way
    prev, level,    \* skiplist_prev, and level or link_level
    found, before, after,   \* struct find_result
    node,           \* new_skiplist_node
    locked,         \* levels at which validate_and_lock took a lock
    valid,          \* validate_result.valid
    took,           \* deleted_by_us; of a put: its element is stored
    result, calls,
    seen, raced     \* history: see KVSet

shared  == <<heap, element, top, nxt, marked, fully_linked, lock>>
request == <<op, key, arg>>
search  == <<prev, found, before, after>>
history == <<seen, raced>>
vars == <<shared, pc, request, search, level, node, locked, valid, took,
          result, calls, history>>

PCs == {"idle", "find", "after", "found", "wait", "lockelem", "locked", "lock",
        "check", "fill", "link", "publish", "unlink", "unlock", "unlockelem",
        "read_marked", "read_element", "return"}

TypeOK ==
    /\ heap \subseteq Nodes
    /\ element \in [Node -> Elements \cup {NULL}]
    /\ top \in [Node -> Level]
    /\ nxt \in [Node -> [Level -> Node \cup {NoNode}]]
    /\ marked \subseteq Nodes
    /\ fully_linked \subseteq Node
    /\ lock \in [Node -> Threads \cup {NoThread}]
    /\ pc \in [Threads -> PCs]
    /\ op \in [Threads -> Ops \cup {"none"}]
    /\ key \in [Threads -> Keys]
    /\ arg \in [Threads -> Elements \cup {NULL}]
    /\ prev \in [Threads -> Node \cup {NoNode}]
    /\ level \in [Threads -> Level]
    /\ found \in [Threads -> Node \cup {NoNode}]
    /\ before \in [Threads -> [Level -> Node \cup {NoNode}]]
    /\ after \in [Threads -> [Level -> Node \cup {NoNode}]]
    /\ node \in [Threads -> Nodes \cup {NoNode}]
    /\ locked \in [Threads -> SUBSET Level]
    /\ valid \in [Threads -> BOOLEAN]
    /\ took \in [Threads -> BOOLEAN]
    /\ result \in [Threads -> Answers]
    /\ calls \in [Threads -> 0..MaxCalls]
    /\ seen \in [Threads -> SUBSET (Elements \cup {NULL})]
    /\ raced \in [Threads -> BOOLEAN]

-----------------------------------------------------------------------------
(* Nodes and their order.                                                  *)

\* compare: the border nodes are before and after every key.
KeyAt == [n \in Node |-> IF n = Head THEN -1
                          ELSE IF n = Tail THEN MaxKey + 1
                          ELSE KeyOf[element[n]]]

\* The node that follows n at level l when the list holds exactly S.
Following(S, n, l) == {m \in S : top[m] <= l /\ KeyAt[m] > KeyAt[n]}
Successor(S, n, l) ==
    IF Following(S, n, l) = {} THEN Tail
    ELSE CHOOSE m \in Following(S, n, l) :
           \A o \in Following(S, n, l) : KeyAt[m] <= KeyAt[o]

\* The nodes that hold an element, and the map they represent.
Live == fully_linked \cap (heap \ marked)
Bound(k) == {n \in Live : KeyAt[n] = k}
map == [k \in Keys |-> IF Bound(k) = {} THEN NULL
                       ELSE element[CHOOSE n \in Bound(k) : TRUE]]

NoNodes == [l \in Level |-> NoNode]

\* new_skiplist, then the puts of one thread before the others start.
Init ==
    /\ \E c \in Contents :
         /\ heap = DOMAIN c
         /\ element = [n \in Node |-> IF n \in DOMAIN c THEN c[n].elem ELSE NULL]
         /\ top = [n \in Node |-> IF n \in DOMAIN c THEN c[n].top ELSE 0]
    /\ nxt = [n \in Node |-> [l \in Level |->
                IF n \in heap \cup {Head} /\ l >= top[n]
                THEN Successor(heap, n, l) ELSE NoNode]]
    /\ marked = {}
    /\ fully_linked = heap \cup {Head, Tail}
    /\ lock = [n \in Node |-> NoThread]
    /\ pc = [t \in Threads |-> "idle"]
    /\ op = [t \in Threads |-> "none"]
    /\ key = [t \in Threads |-> 0]
    /\ arg = [t \in Threads |-> NULL]
    /\ prev = [t \in Threads |-> NoNode]
    /\ level = [t \in Threads |-> 0]
    /\ found = [t \in Threads |-> NoNode]
    /\ before = [t \in Threads |-> NoNodes]
    /\ after = [t \in Threads |-> NoNodes]
    /\ node = [t \in Threads |-> NoNode]
    /\ locked = [t \in Threads |-> {}]
    /\ valid = [t \in Threads |-> TRUE]
    /\ took = [t \in Threads |-> FALSE]
    /\ result = [t \in Threads |-> NULL]
    /\ calls = [t \in Threads |-> 0]
    /\ seen = [t \in Threads |-> {}]
    /\ raced = [t \in Threads |-> FALSE]

Goto(t, label) == pc' = [pc EXCEPT ![t] = label]

-----------------------------------------------------------------------------
(* Calls and returns.                                                      *)

\* find_neigbours starts at the head, on the top level.
StartFind(t) ==
    /\ Goto(t, "find")
    /\ prev' = [prev EXCEPT ![t] = Head]
    /\ level' = [level EXCEPT ![t] = 0]
    /\ found' = [found EXCEPT ![t] = NoNode]
    /\ before' = [before EXCEPT ![t] = NoNodes]
    /\ after' = [after EXCEPT ![t] = NoNodes]

Removing(k) == \E u \in Threads : op[u] = "remove" /\ key[u] = k /\ took[u]

Invoke(t) ==
    /\ pc[t] = "idle" /\ calls[t] < MaxCalls
    /\ \E c \in CallsOf[t] :
         /\ op' = [op EXCEPT ![t] = c.op]
         /\ key' = [key EXCEPT ![t] = c.key]
         /\ arg' = [arg EXCEPT ![t] = c.arg]
         /\ seen' = [seen EXCEPT ![t] = {map[c.key]}]
         /\ raced' = [raced EXCEPT ![t] = Removing(c.key)]
    /\ calls' = [calls EXCEPT ![t] = @ + 1]
    /\ StartFind(t)
    /\ UNCHANGED <<shared, node, locked, valid, took, result>>

\* The operation's last step: what it answers is settled.
Answer(t, r) ==
    /\ Goto(t, "return")
    /\ result' = [result EXCEPT ![t] = r]
    /\ seen' = [seen EXCEPT ![t] = {}]
    /\ raced' = [raced EXCEPT ![t] = FALSE]

Return(t) ==
    /\ pc[t] = "return"
    /\ Goto(t, "idle")
    /\ op' = [op EXCEPT ![t] = "none"]
    /\ key' = [key EXCEPT ![t] = 0]
    /\ arg' = [arg EXCEPT ![t] = NULL]
    /\ prev' = [prev EXCEPT ![t] = NoNode]
    /\ level' = [level EXCEPT ![t] = 0]
    /\ found' = [found EXCEPT ![t] = NoNode]
    /\ before' = [before EXCEPT ![t] = NoNodes]
    /\ after' = [after EXCEPT ![t] = NoNodes]
    /\ node' = [node EXCEPT ![t] = NoNode]
    /\ valid' = [valid EXCEPT ![t] = TRUE]
    /\ took' = [took EXCEPT ![t] = FALSE]
    /\ result' = [result EXCEPT ![t] = NULL]
    /\ UNCHANGED <<shared, locked, calls, history>>

\* History of the step at which t binds its key to e (NULL: to nothing).
TakeEffect(t, e) ==
    /\ took' = [took EXCEPT ![t] = TRUE]
    /\ seen' = [u \in Threads |->
                   IF u = t THEN {}
                   ELSE IF seen[u] # {} /\ key[u] = key[t] THEN seen[u] \cup {e}
                   ELSE seen[u]]
    /\ raced' = [u \in Threads |->
                   IF u = t THEN FALSE
                   ELSE raced[u] \/ (e = NULL /\ seen[u] # {} /\ key[u] = key[t])]

-----------------------------------------------------------------------------
(* find_neigbours and find_neigbours_1_level.                              *)

Ahead(t) == nxt[prev[t]][level[t]]

\* Mutant of Descend: one level too many.
DescendTooFar(t) ==
    IF level[t] = NumLevels
    THEN Goto(t, "found") /\ UNCHANGED level
    ELSE Goto(t, "find") /\ level' = [level EXCEPT ![t] = @ + 1]

\* The level is done: go down one, from the same predecessor.
Descend(t) ==
    IF level[t] = Bottom
    THEN Goto(t, "found") /\ UNCHANGED level
    ELSE Goto(t, "find") /\ level' = [level EXCEPT ![t] = @ + 1]

\* Mutant of FindRight: an equal key is passed by.
FindRightEqual(t) ==
    /\ pc[t] = "find" /\ KeyAt[Ahead(t)] <= key[t]
    /\ prev' = [prev EXCEPT ![t] = Ahead(t)]
    /\ UNCHANGED <<shared, pc, request, level, found, before, after, node,
                   locked, valid, took, result, calls, history>>

FindRight(t) ==
    /\ pc[t] = "find" /\ KeyAt[Ahead(t)] < key[t]
    /\ prev' = [prev EXCEPT ![t] = Ahead(t)]
    /\ UNCHANGED <<shared, pc, request, level, found, before, after, node,
                   locked, valid, took, result, calls, history>>

FindDown(t) ==
    /\ pc[t] = "find" /\ KeyAt[Ahead(t)] > key[t]
    /\ before' = [before EXCEPT ![t][level[t]] = prev[t]]
    /\ after' = [after EXCEPT ![t][level[t]] = Ahead(t)]
    /\ found' = [found EXCEPT ![t] = NoNode]
    /\ Descend(t)
    /\ UNCHANGED <<shared, request, prev, node, locked, valid, took, result,
                   calls, history>>

FindHit(t) ==
    /\ pc[t] = "find" /\ KeyAt[Ahead(t)] = key[t]
    /\ found' = [found EXCEPT ![t] = Ahead(t)]
    /\ Goto(t, "after")
    /\ UNCHANGED <<shared, request, level, prev, before, after, node, locked,
                   valid, took, result, calls, history>>

FindAfter(t) ==
    /\ pc[t] = "after"
    /\ before' = [before EXCEPT ![t][level[t]] = prev[t]]
    /\ after' = [after EXCEPT ![t][level[t]] = nxt[found[t]][level[t]]]
    /\ Descend(t)
    /\ UNCHANGED <<shared, request, prev, found, node, locked, valid, took,
                   result, calls, history>>

-----------------------------------------------------------------------------
(* skiplist_lookup and member.                                             *)

ReadOp(t) == op[t] \in {"lookup", "member"}
Absent(t) == IF op[t] = "member" THEN 0 ELSE NULL

\* Mutant of Readable: fully_linked is not tested.
ReadableHalfLinked(t) == found[t] # NoNode

\* Found, and fully linked.
Readable(t) == found[t] # NoNode /\ found[t] \in fully_linked

LookupFound(t) ==
    /\ pc[t] = "found" /\ ReadOp(t)
    /\ IF Readable(t)
       THEN Goto(t, "read_marked") /\ UNCHANGED <<result, history>>
       ELSE Answer(t, Absent(t))
    /\ UNCHANGED <<shared, request, search, level, node, locked, valid, took,
                   calls>>

LookupMarked(t) ==
    /\ pc[t] = "read_marked"
    /\ IF found[t] \in marked THEN Answer(t, Absent(t))
       ELSE IF op[t] = "member" THEN Answer(t, 1)
       ELSE Goto(t, "read_element") /\ UNCHANGED <<result, history>>
    /\ UNCHANGED <<shared, request, search, level, node, locked, valid, took,
                   calls>>

LookupElement(t) ==
    /\ pc[t] = "read_element"
    /\ Answer(t, element[found[t]])
    /\ UNCHANGED <<shared, request, search, level, node, locked, valid, took,
                   calls>>

-----------------------------------------------------------------------------
(* validate_and_lock.                                                      *)

\* Mutant of LevelTo: a removal goes one level too high.
LevelToAbove(t) ==
    IF op[t] = "remove" THEN IF top[found[t]] = 0 THEN 0 ELSE top[found[t]] - 1
    ELSE top[node[t]]

\* The lowest level index to lock: where the node to link or unlink starts.
LevelTo(t) == IF op[t] = "remove" THEN top[found[t]] ELSE top[node[t]]

StartLocking(t) ==
    /\ Goto(t, "lock")
    /\ level' = [level EXCEPT ![t] = Bottom]
    /\ valid' = [valid EXCEPT ![t] = TRUE]

LockPred(t) ==
    LET pred == before[t][level[t]] IN
    /\ pc[t] = "lock"
    /\ lock[pred] = NoThread
    /\ lock' = [lock EXCEPT ![pred] = t]
    /\ locked' = [locked EXCEPT ![t] = @ \cup {level[t]}]
    /\ Goto(t, "check")
    /\ UNCHANGED <<heap, element, top, nxt, marked, fully_linked, request,
                   search, level, node, valid, took, result, calls, history>>

Succs(t) == IF found[t] # NoNode THEN nxt[found[t]][level[t]]
            ELSE after[t][level[t]]

Expected(t) == IF found[t] = NoNode THEN Succs(t) ELSE found[t]

\* Mutants of LevelIsValid: a test is left out; the wrong node is expected.
LevelIsValidMarked(t) ==
    /\ Succs(t) \in fully_linked
    /\ nxt[before[t][level[t]]][level[t]] = Expected(t)
LevelIsValidStale(t) ==
    before[t][level[t]] \notin marked /\ Succs(t) \in fully_linked
LevelIsValidSuccs(t) ==
    /\ before[t][level[t]] \notin marked /\ Succs(t) \in fully_linked
    /\ nxt[before[t][level[t]]][level[t]] = Succs(t)

LevelIsValid(t) ==
    /\ before[t][level[t]] \notin marked
    /\ Succs(t) \in fully_linked
    /\ nxt[before[t][level[t]]][level[t]] = Expected(t)

CheckFails(t) ==
    /\ pc[t] = "check" /\ ~LevelIsValid(t)
    /\ valid' = [valid EXCEPT ![t] = FALSE]
    /\ after' = [after EXCEPT ![t][level[t]] = Succs(t)]
    /\ Goto(t, "unlock")
    /\ UNCHANGED <<shared, request, prev, found, before, level, node, locked,
                   took, result, calls, history>>

\* Mutants of SamePred: one lock is taken for all; each level takes one.
SamePredAlways(t) == TRUE
SamePredNever(t)  == FALSE

\* The next level up has the same predecessor, which is locked already.
SamePred(t) == before[t][level[t] - 1] = before[t][level[t]]

CheckNext(t) ==
    /\ pc[t] = "check" /\ LevelIsValid(t) /\ level[t] > LevelTo(t)
    /\ after' = [after EXCEPT ![t][level[t]] = Succs(t)]
    /\ level' = [level EXCEPT ![t] = @ - 1]
    /\ Goto(t, IF SamePred(t) THEN "check" ELSE "lock")
    /\ UNCHANGED <<shared, request, prev, found, before, node, locked, valid,
                   took, result, calls, history>>

CheckDone(t) ==
    /\ pc[t] = "check" /\ LevelIsValid(t) /\ level[t] <= LevelTo(t)
    /\ after' = [after EXCEPT ![t][level[t]] = Succs(t)]
    /\ level' = [level EXCEPT ![t] = Bottom]
    /\ Goto(t, IF op[t] = "remove" THEN "unlink" ELSE "fill")
    /\ UNCHANGED <<shared, request, prev, found, before, node, locked, valid,
                   took, result, calls, history>>

\* unlock_to_level: one lock after the other, in the order they were taken.
UnlockPred(t) ==
    /\ pc[t] = "unlock"
    /\ \E l \in locked[t] :
         /\ \A m \in locked[t] : m <= l
         /\ lock' = [lock EXCEPT ![before[t][l]] = NoThread]
         /\ locked' = [locked EXCEPT ![t] = @ \ {l}]
    /\ UNCHANGED <<heap, element, top, nxt, marked, fully_linked, pc, request,
                   search, level, node, valid, took, result, calls, history>>

-----------------------------------------------------------------------------
(* skiplist_put and skiplist_put_new.                                      *)

\* random_level may give any level.
PutAbsent(t) ==
    /\ pc[t] = "found" /\ op[t] \in {"put", "put_new"} /\ found[t] = NoNode
    /\ \E n \in Nodes \ heap, l \in Level :
         /\ heap' = heap \cup {n}
         /\ element' = [element EXCEPT ![n] = arg[t]]
         /\ top' = [top EXCEPT ![n] = l]
         /\ nxt' = [nxt EXCEPT ![n] = NoNodes]
         /\ node' = [node EXCEPT ![t] = n]
    /\ StartLocking(t)
    /\ UNCHANGED <<marked, fully_linked, lock, request, search, locked, took,
                   result, calls, history>>

\* A put that finds a node being removed gives up: its element is dropped.
PutFound(t) ==
    /\ pc[t] = "found" /\ op[t] = "put" /\ found[t] # NoNode
    /\ IF found[t] \in marked
       THEN Answer(t, NULL)
       ELSE Goto(t, "wait") /\ UNCHANGED <<result, history>>
    /\ UNCHANGED <<shared, request, search, level, node, locked, valid, took,
                   calls>>

PutNewFound(t) ==
    /\ pc[t] = "found" /\ op[t] = "put_new" /\ found[t] # NoNode
    /\ Answer(t, 0)
    /\ UNCHANGED <<shared, request, search, level, node, locked, valid, took,
                   calls>>

\* The new node's own pointers, before anything points to it.
Fill(t) ==
    /\ pc[t] = "fill"
    /\ nxt' = [nxt EXCEPT ![node[t]] =
                 [l \in Level |-> IF l >= LevelTo(t) THEN after[t][l] ELSE NoNode]]
    /\ Goto(t, "link")
    /\ UNCHANGED <<heap, element, top, marked, fully_linked, lock, request,
                   search, level, node, locked, valid, took, result, calls,
                   history>>

\* Mutant of NextLevelUp: the bottom list only.
NextLevelUpNever(t, done) == Goto(t, done) /\ UNCHANGED level

\* The loops over link_level, from the bottom list up.
NextLevelUp(t, done) ==
    IF level[t] > LevelTo(t)
    THEN level' = [level EXCEPT ![t] = @ - 1] /\ UNCHANGED pc
    ELSE Goto(t, done) /\ UNCHANGED level

Link(t) ==
    /\ pc[t] = "link"
    /\ nxt' = [nxt EXCEPT ![before[t][level[t]]][level[t]] = node[t]]
    /\ NextLevelUp(t, "publish")
    /\ UNCHANGED <<heap, element, top, marked, fully_linked, lock, request,
                   search, node, locked, valid, took, result, calls, history>>

Publish(t) ==
    /\ pc[t] = "publish"
    /\ fully_linked' = fully_linked \cup {node[t]}
    /\ TakeEffect(t, arg[t])
    /\ result' = [result EXCEPT ![t] = IF op[t] = "put_new" THEN 1 ELSE NULL]
    /\ Goto(t, "unlock")
    /\ UNCHANGED <<heap, element, top, nxt, marked, lock, request, search,
                   level, node, locked, valid, calls>>

\* Mutant of Discard: the node is not freed.
DiscardNothing(t) == UNCHANGED <<heap, element, top>>

\* The node that could not be linked is freed.
Discard(t) ==
    /\ heap' = heap \ {node[t]}
    /\ element' = [element EXCEPT ![node[t]] = NULL]
    /\ top' = [top EXCEPT ![node[t]] = 0]

\* put tries again until its node is linked ...
PutDone(t) ==
    /\ pc[t] = "unlock" /\ locked[t] = {} /\ op[t] = "put"
    /\ IF valid[t]
       THEN Answer(t, NULL) /\ UNCHANGED <<heap, element, top, level, node, search>>
       ELSE /\ Discard(t)
            /\ node' = [node EXCEPT ![t] = NoNode]
            /\ StartFind(t)
            /\ UNCHANGED <<result, history>>
    /\ UNCHANGED <<nxt, marked, fully_linked, lock, request, locked,
                   valid, took, calls>>

\* ... put_new says 1 whether it linked the node or not.
PutNewDone(t) ==
    /\ pc[t] = "unlock" /\ locked[t] = {} /\ op[t] = "put_new"
    /\ Answer(t, 1)
    /\ UNCHANGED <<shared, request, search, level, node, locked, valid, took,
                   calls>>

-----------------------------------------------------------------------------
(* The element's own lock: put over an existing node, and remove.          *)

\* while(!fully_linked){}
WaitLinked(t) ==
    /\ pc[t] = "wait" /\ found[t] \in fully_linked
    /\ Goto(t, "lockelem")
    /\ UNCHANGED <<shared, request, search, level, node, locked, valid, took,
                   result, calls, history>>

LockElement(t) ==
    /\ pc[t] = "lockelem" /\ lock[found[t]] = NoThread
    /\ lock' = [lock EXCEPT ![found[t]] = t]
    /\ IF took[t] THEN StartLocking(t)
       ELSE Goto(t, "locked") /\ UNCHANGED <<level, valid>>
    /\ UNCHANGED <<heap, element, top, nxt, marked, fully_linked, request,
                   search, node, locked, took, result, calls, history>>

\* Mutant of Unmarked: the mark is not tested again under the lock.
UnmarkedUntested(t) == TRUE

Unmarked(t) == found[t] \notin marked

\* Under the lock the node is found marked: another thread removes it.
LostRace(t) ==
    /\ pc[t] = "locked" /\ ~Unmarked(t)
    /\ Goto(t, "unlockelem")
    /\ UNCHANGED <<shared, request, search, level, node, locked, valid, took,
                   result, calls, history>>

PutOver(t) ==
    /\ pc[t] = "locked" /\ op[t] = "put" /\ Unmarked(t)
    /\ result' = [result EXCEPT ![t] = element[found[t]]]
    /\ element' = [element EXCEPT ![found[t]] = arg[t]]
    /\ valid' = [valid EXCEPT ![t] = TRUE]
    /\ TakeEffect(t, arg[t])
    /\ Goto(t, "unlockelem")
    /\ UNCHANGED <<heap, top, nxt, marked, fully_linked, lock, request, search,
                   level, node, locked, calls>>

RemoveMark(t) ==
    /\ pc[t] = "locked" /\ op[t] = "remove" /\ Unmarked(t)
    /\ marked' = marked \cup {found[t]}
    /\ result' = [result EXCEPT ![t] = element[found[t]]]
    /\ TakeEffect(t, NULL)
    /\ StartLocking(t)
    /\ UNCHANGED <<heap, element, top, nxt, fully_linked, lock, request, search,
                   node, locked, calls>>

\* Mutant of Finished: a removal that could not unlink its node gives up.
FinishedTaken(t) == took[t]

Finished(t) == took[t] /\ valid[t]

\* Return, or try again from the search on.
UnlockElement(t) ==
    /\ pc[t] = "unlockelem"
    /\ lock' = [lock EXCEPT ![found[t]] = NoThread]
    /\ IF Finished(t)
       THEN Answer(t, result[t]) /\ UNCHANGED <<level, search>>
       ELSE StartFind(t) /\ UNCHANGED <<result, history>>
    /\ UNCHANGED <<heap, element, top, nxt, marked, fully_linked, request, node,
                   locked, valid, took, calls>>

-----------------------------------------------------------------------------
(* skiplist_remove.                                                        *)

\* Mutant of RemoveFound: the test of marked comes first.
RemoveFoundMarkedFirst(t) ==
    /\ pc[t] = "found" /\ op[t] = "remove"
    /\ IF found[t] = NoNode \/ found[t] \in marked THEN Answer(t, NULL)
       ELSE Goto(t, "wait") /\ UNCHANGED <<result, history>>
    /\ UNCHANGED <<shared, request, search, level, node, locked, valid, took,
                   calls>>

\* The test of deleted_by_us comes before that of marked.
RemoveFound(t) ==
    /\ pc[t] = "found" /\ op[t] = "remove"
    /\ IF found[t] = NoNode THEN Answer(t, NULL)
       ELSE IF took[t] THEN Goto(t, "lockelem") /\ UNCHANGED <<result, history>>
       ELSE IF found[t] \in marked THEN Answer(t, NULL)
       ELSE Goto(t, "wait") /\ UNCHANGED <<result, history>>
    /\ UNCHANGED <<shared, request, search, level, node, locked, valid, took,
                   calls>>

\* try_remove_element: the bottom list first.
Unlink(t) ==
    /\ pc[t] = "unlink"
    /\ nxt' = [nxt EXCEPT ![before[t][level[t]]][level[t]] =
                 nxt[found[t]][level[t]]]
    /\ NextLevelUp(t, "unlock")
    /\ UNCHANGED <<heap, element, top, marked, fully_linked, lock, request,
                   search, node, locked, valid, took, result, calls, history>>

RemoveUnlocked(t) ==
    /\ pc[t] = "unlock" /\ locked[t] = {} /\ op[t] = "remove"
    /\ Goto(t, "unlockelem")
    /\ UNCHANGED <<shared, request, search, level, node, locked, valid, took,
                   result, calls, history>>

-----------------------------------------------------------------------------

\* What a thread does inside a call: it is never up to the caller.
Step(t) ==
    \/ FindRight(t) \/ FindDown(t) \/ FindHit(t) \/ FindAfter(t)
    \/ LookupFound(t) \/ LookupMarked(t) \/ LookupElement(t)
    \/ LockPred(t) \/ CheckFails(t) \/ CheckNext(t) \/ CheckDone(t) \/ UnlockPred(t)
    \/ PutAbsent(t) \/ PutFound(t) \/ PutNewFound(t)
    \/ Fill(t) \/ Link(t) \/ Publish(t) \/ PutDone(t) \/ PutNewDone(t)
    \/ WaitLinked(t) \/ LockElement(t) \/ LostRace(t) \/ PutOver(t)
    \/ RemoveMark(t) \/ UnlockElement(t)
    \/ RemoveFound(t) \/ Unlink(t) \/ RemoveUnlocked(t)
    \/ Return(t)

\* All calls made and answered.
Terminated ==
    /\ \A t \in Threads : pc[t] = "idle" /\ calls[t] = MaxCalls
    /\ UNCHANGED vars

Next == (\E t \in Threads : Invoke(t) \/ Step(t)) \/ Terminated

Spec == Init /\ [][Next]_vars

\* A thread inside a call keeps running.  A lock may pass it by: of several
\* threads that wait for a mutex, pthread_mutex_lock lets any one go on.
Fairness == \A t \in Threads : WF_vars(Step(t))

FairSpec == Spec /\ Fairness
=============================================================================
