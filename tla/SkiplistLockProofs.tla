-------------------------- MODULE SkiplistLockProofs --------------------------
(***************************************************************************)
(* HeldInv is inductive together with IInv: what a thread has locked and   *)
(* validated stays as it is until the thread itself changes it.            *)
(***************************************************************************)
EXTENDS ConcurrentSkiplistProofs, SkiplistInvariants

USE NumLevelsAssumption, BorderAssumption, ThreadAssumption
    DEF Level, Bottom

-----------------------------------------------------------------------------
(* What a step of t leaves alone.                                          *)

\* The locals of a call are its own.
LEMMA StepLocals ==
    ASSUME TypeOK, NEW t \in Threads, Invoke(t) \/ Step(t), NEW u \in Threads \ {t}
    PROVE  SameLocals(u) /\ result'[u] = result[u]
<1> USE DEF SameLocals, request, search, Goto, Answer, StartFind
<1>0. /\ u \in Threads /\ u # t
      /\ pc \in [Threads -> PCs] /\ op \in [Threads -> Ops \cup {"none"}]
      /\ key \in [Threads -> Keys] /\ arg \in [Threads -> Elements \cup {NULL}]
      /\ prev \in [Threads -> Node \cup {NoNode}] /\ level \in [Threads -> Level]
      /\ found \in [Threads -> Node \cup {NoNode}]
      /\ before \in [Threads -> [Level -> Node \cup {NoNode}]]
      /\ after \in [Threads -> [Level -> Node \cup {NoNode}]]
      /\ node \in [Threads -> Nodes \cup {NoNode}]
      /\ locked \in [Threads -> SUBSET Level] /\ valid \in [Threads -> BOOLEAN]
      /\ took \in [Threads -> BOOLEAN] /\ result \in [Threads -> Answers]
  BY DEF TypeOK
<1>1. CASE Invoke(t) \/ Return(t)
  BY <1>0, <1>1 DEF Invoke, Return
<1>2. CASE FindRight(t) \/ FindDown(t) \/ FindHit(t) \/ FindAfter(t)
  BY <1>0, <1>2 DEF FindRight, FindDown, FindHit, FindAfter, Descend
<1>3. CASE LookupFound(t) \/ LookupMarked(t) \/ LookupElement(t)
  BY <1>0, <1>3 DEF LookupFound, LookupMarked, LookupElement
<1>4. CASE LockPred(t) \/ CheckFails(t) \/ CheckNext(t) \/ CheckDone(t) \/ UnlockPred(t)
  BY <1>0, <1>4 DEF LockPred, CheckFails, CheckNext, CheckDone, UnlockPred
<1>5. CASE PutAbsent(t) \/ PutFound(t) \/ PutNewFound(t) \/ Fill(t)
  BY <1>0, <1>5 DEF PutAbsent, PutFound, PutNewFound, Fill, StartLocking
<1>6. CASE Link(t) \/ Publish(t) \/ Unlink(t)
  BY <1>0, <1>6 DEF Link, Publish, Unlink, NextLevelUp, TakeEffect
<1>7. CASE PutDone(t) \/ PutNewDone(t)
  BY <1>0, <1>7 DEF PutDone, PutNewDone
<1>8. CASE WaitLinked(t) \/ LockElement(t) \/ LostRace(t) \/ PutOver(t)
  <2>1. CASE WaitLinked(t) \/ LockElement(t) \/ LostRace(t)
    BY <1>0, <2>1 DEF WaitLinked, LockElement, LostRace, StartLocking
  <2>2. CASE PutOver(t)
    BY <1>0, <2>2 DEF PutOver, TakeEffect
  <2>3. QED BY <1>8, <2>1, <2>2
<1>9. CASE RemoveMark(t) \/ RemoveFound(t) \/ RemoveUnlocked(t)
  BY <1>0, <1>9 DEF RemoveMark, RemoveFound, RemoveUnlocked, StartLocking, TakeEffect
<1>10. CASE UnlockElement(t)
  BY <1>0, <1>10 DEF UnlockElement
<1>11. QED
  BY <1>1, <1>2, <1>3, <1>4, <1>5, <1>6, <1>7, <1>8, <1>9, <1>10 DEF Step

\* A new node is out of everybody's sight: no pointer of another node changes.
LEMMA PutAbsentFacts ==
    ASSUME IInv, NEW t \in Threads, PutAbsent(t)
    PROVE  \E n \in Nodes \ heap :
             /\ heap' = heap \cup {n} /\ node'[t] = n /\ Built' = Built /\ n \notin Built
             /\ KeyAt'[n] = key[t] /\ top'[n] \in Level
             /\ \A m \in Node : m # n =>
                  KeepsNode(m) /\ nxt'[m] = nxt[m] /\ element'[m] = element[m]
             /\ \A l \in Level : nxt'[n][l] = NoNode
             /\ pc'[t] = "lock" /\ level'[t] = Bottom
<1>1. PICK n \in Nodes \ heap, l \in Level :
         /\ heap' = heap \cup {n}
         /\ element' = [element EXCEPT ![n] = arg[t]]
         /\ top' = [top EXCEPT ![n] = l]
         /\ nxt' = [nxt EXCEPT ![n] = NoNodes]
         /\ node' = [node EXCEPT ![t] = n]
  BY DEF PutAbsent
<1>2. /\ TypeOK /\ HeapInv /\ pc[t] = "found" /\ IsPut(t)
      /\ arg[t] \in Elements /\ KeyOf[arg[t]] = key[t]
  BY DEF IInv, ThreadInv, CallInv, IsPut, PutAbsent
<1>3. /\ n \in Node /\ n # Head /\ n # Tail /\ n # NoNode /\ n \notin Built
      /\ Built \subseteq heap \cup {Head} /\ heap \subseteq Node /\ Head \in Node
  <2>1. n \in Node /\ n # Head /\ n # Tail /\ n # NoNode /\ Head \in Node
    BY DEF Node
  <2>2. Built \subseteq heap \cup {Head} /\ heap \subseteq Node
    BY <1>2, NodeFacts
  <2>3. QED BY <2>1, <2>2
<1>4. /\ element \in [Node -> Elements \cup {NULL}] /\ top \in [Node -> Level]
      /\ nxt \in [Node -> [Level -> Node \cup {NoNode}]]
      /\ node \in [Threads -> Nodes \cup {NoNode}]
      /\ pc \in [Threads -> PCs] /\ level \in [Threads -> Level]
  BY <1>2 DEF TypeOK
<1>5. /\ element'[n] = arg[t] /\ top'[n] = l /\ nxt'[n] = NoNodes /\ node'[t] = n
      /\ \A m \in Node : m # n =>
           element'[m] = element[m] /\ top'[m] = top[m] /\ nxt'[m] = nxt[m]
  BY <1>1, <1>3, <1>4
<1>6. /\ KeyAt'[n] = key[t]
      /\ \A m \in Node : m # n => KeyAt'[m] = KeyAt[m]
  BY <1>2, <1>3, <1>5 DEF KeyAt
<1>7. \A k \in Level : nxt'[n][k] = NoNode
  BY <1>5 DEF NoNodes
<1>8. Built' = Built
  <2>1. n \notin Built'
    <3>1. Bottom \in Level
      OBVIOUS
    <3>2. QED BY <1>3, <1>7, <3>1 DEF Built
  <2>2. \A m \in heap \cup {Head} : m # n /\ nxt'[m] = nxt[m]
    BY <1>3, <1>5
  <2>3. QED BY <1>1, <1>3, <2>1, <2>2 DEF Built
<1>9. pc'[t] = "lock" /\ level'[t] = Bottom
  BY <1>4 DEF PutAbsent, StartLocking, Goto
<1>10. QED
  BY <1>1, <1>3, <1>5, <1>6, <1>7, <1>8, <1>9 DEF KeepsNode

\* So is a node that is freed: it was never built.
LEMMA PutDoneFacts ==
    ASSUME IInv, NEW t \in Threads, PutDone(t)
    PROVE  /\ pc[t] = "unlock" /\ IsPut(t) /\ node[t] \in heap /\ locked[t] = {}
           /\ Built' = Built /\ UNCHANGED <<nxt, marked, fully_linked, lock, request, took>>
           /\ valid[t] => UNCHANGED <<nodeFields, node, search>> /\ pc'[t] = "return"
           /\ ~valid[t] =>
                /\ node[t] \notin Built /\ heap' = heap \ {node[t]} /\ node'[t] = NoNode
                /\ \A m \in Node : m # node[t] => KeepsNode(m) /\ element'[m] = element[m]
                /\ StartFind(t) /\ pc'[t] = "find"
<1> DEFINE n == node[t]
<1>1. /\ TypeOK /\ HeapInv /\ pc[t] = "unlock" /\ IsPut(t) /\ n # NoNode /\ n \in heap
      /\ locked[t] = {} /\ (~valid[t] => n \notin Built)
  BY DEF IInv, ThreadInv, ControlInv, NodeInv, IsPut, PutDone
<1>2. UNCHANGED <<nxt, marked, fully_linked, lock, request, took>>
  BY DEF PutDone
<1>3. ASSUME valid[t]
      PROVE  UNCHANGED <<nodeFields, node, search>> /\ pc'[t] = "return" /\ Built' = Built
  <2>1. /\ pc' = [pc EXCEPT ![t] = "return"]
        /\ UNCHANGED <<heap, element, top, node, search>>
    BY <1>3 DEF PutDone, Answer, Goto
  <2>2. QED BY <1>1, <1>2, <2>1 DEF TypeOK, nodeFields, Built
<1>4. ASSUME ~valid[t]
      PROVE  /\ n \notin Built /\ heap' = heap \ {n} /\ node'[t] = NoNode
             /\ \A m \in Node : m # n => KeepsNode(m) /\ element'[m] = element[m]
             /\ StartFind(t) /\ pc'[t] = "find" /\ Built' = Built
  <2>1. /\ heap' = heap \ {n} /\ node' = [node EXCEPT ![t] = NoNode] /\ StartFind(t)
        /\ element' = [element EXCEPT ![n] = NULL] /\ top' = [top EXCEPT ![n] = 0]
    BY <1>4 DEF PutDone, Discard
  <2>2. \A m \in Node : m # n => element'[m] = element[m] /\ top'[m] = top[m]
    BY <1>1, <2>1 DEF TypeOK
  <2>3. \A m \in Node : m # n => KeyAt'[m] = KeyAt[m]
    BY <2>2 DEF KeyAt
  <2>4. Built' = Built
    BY <1>1, <1>2, <1>4, <2>1 DEF Built, TypeOK, Node
  <2>5. node'[t] = NoNode /\ pc'[t] = "find"
    BY <1>1, <2>1, StartFindType DEF TypeOK
  <2>6. QED BY <1>1, <1>4, <2>1, <2>2, <2>3, <2>4, <2>5 DEF KeepsNode
<1>5. QED
  BY <1>1, <1>2, <1>3, <1>4

\* A node that is filled is built, with the pointers the search has found.
LEMMA FillFacts ==
    ASSUME IInv, NEW t \in Threads, Fill(t)
    PROVE  /\ pc[t] = "fill" /\ pc'[t] = "link" /\ IsPut(t) /\ node[t] \in heap
           /\ node[t] \notin Built /\ Built' = Built \cup {node[t]} /\ KeyAt' = KeyAt
           /\ \A m \in Node : m # node[t] => nxt'[m] = nxt[m]
           /\ \A l \in Level :
                nxt'[node[t]][l] = IF l >= LevelTo(t) THEN after[t][l] ELSE NoNode
<1> DEFINE n == node[t]
           row == [l \in Level |-> IF l >= LevelTo(t) THEN after[t][l] ELSE NoNode]
<1>1. /\ TypeOK /\ HeapInv /\ pc[t] = "fill" /\ Searched(t) /\ IsPut(t) /\ n # NoNode
      /\ n \in heap /\ n \in Node /\ n \notin Built
  BY DEF IInv, ThreadInv, ControlInv, NodeInv, Searched, TypeOK, Fill, Node
<1>2. pc'[t] = "link" /\ nxt' = [nxt EXCEPT ![n] = row]
  BY <1>1 DEF Fill, Goto, TypeOK
<1>3. nxt'[n] = row /\ \A m \in Node : m # n => nxt'[m] = nxt[m]
  BY <1>1, <1>2 DEF TypeOK
<1>4. LevelTo(t) = top[n] /\ top[n] \in Level
  BY <1>1 DEF LevelTo, IsPut, TypeOK
<1>5. row[Bottom] # NoNode
  <2>1. Bottom \in Level /\ Bottom >= LevelTo(t)
    BY <1>4
  <2>2. after[t][Bottom] \in Built \cup {Tail}
    BY <1>1, <2>1, PredFacts
  <2>3. QED BY <1>1, <2>1, <2>2, NodeFacts
<1>6. KeyAt' = KeyAt /\ heap' = heap
  BY DEF KeyAt, Fill
<1>7. Built' = Built \cup {n}
  BY <1>1, <1>3, <1>5, <1>6, NodeFacts DEF Built, Node
<1>8. \A l \in Level : nxt'[n][l] = IF l >= LevelTo(t) THEN after[t][l] ELSE NoNode
  BY <1>3
<1>9. QED
  BY <1>1, <1>2, <1>3, <1>6, <1>7, <1>8

-----------------------------------------------------------------------------
(* What the other threads can rely on.                                     *)

\* The locks of others stay theirs, ...
KeepsLocks(t) ==
    \A n \in Node : \A u \in Threads \ {t} : lock'[n] = u <=> lock[n] = u

\* ... and what is linked changes only where t has the lock.
KeepsOthers(t) ==
    /\ \A n \in Built :
         \/ lock[n] = t /\ lock'[n] = t
         \/ nxt'[n] = nxt[n] /\ element'[n] = element[n] /\ (n \in marked' <=> n \in marked)
    /\ marked \subseteq marked' /\ marked' \subseteq marked \cup {found[t]}
    /\ fully_linked \subseteq fully_linked'
    /\ fully_linked' \subseteq fully_linked \cup {node[t]}
    /\ Built' \subseteq Built \cup {node[t]}
    /\ KeepsBuilt
    /\ \A u \in Threads \ {t} : node[u] # NoNode => KeepsNode(node[u])

Guarantee(t) == KeepsLocks(t) /\ KeepsOthers(t)

LEMMA QuietGuarantee ==
    ASSUME NEW t \in Threads, UNCHANGED nodeFields
    PROVE  KeepsOthers(t)
<1>1. Built' = Built /\ KeyAt' = KeyAt /\ top' = top
  BY DEF Built, KeyAt, nodeFields
<1>2. QED
  BY <1>1 DEF KeepsOthers, KeepsBuilt, KeepsNode, nodeFields

\* Taking a free lock and releasing one's own disturb nobody.
LEMMA LockGuarantee ==
    ASSUME IInv, HeldInv, NEW t \in Threads,
           LockPred(t) \/ UnlockPred(t) \/ LockElement(t) \/ UnlockElement(t)
    PROVE  Guarantee(t)
<1>1. /\ lock \in [Node -> Threads \cup {NoThread}]
      /\ OwnLocks(t) /\ LockInv(t) /\ ControlInv(t) /\ locked[t] \subseteq Level
      /\ level[t] \in Level
  BY DEF IInv, HeldInv, TypeOK, ThreadInv
<1>2. CASE LockPred(t)
  <2>1. before[t][level[t]] \in Node
    BY <1>1, <1>2, PredFacts DEF LockPred, Searched
  <2>2. KeepsLocks(t)
    BY <1>1, <1>2, <2>1 DEF KeepsLocks, LockPred
  <2>3. QED BY <1>2, <2>2, QuietGuarantee DEF Guarantee, LockPred, nodeFields
<1>3. CASE UnlockPred(t)
  <2>1. PICK l \in locked[t] : lock' = [lock EXCEPT ![before[t][l]] = NoThread]
    BY <1>3 DEF UnlockPred
  <2>2. lock[before[t][l]] = t /\ before[t][l] \in Node
    BY <1>1, <1>3, <2>1, PredFacts DEF OwnLocks, UnlockPred, Searched
  <2>3. KeepsLocks(t)
    BY <1>1, <2>1, <2>2 DEF KeepsLocks
  <2>4. QED BY <1>3, <2>3, QuietGuarantee DEF Guarantee, UnlockPred, nodeFields
<1>4. CASE LockElement(t)
  <2>1. found[t] \in Node
    BY <1>1, <1>4, FoundFacts DEF LockElement, Searched, ControlInv, Node
  <2>2. KeepsLocks(t)
    BY <1>1, <1>4, <2>1 DEF KeepsLocks, LockElement
  <2>3. QED BY <1>4, <2>2, QuietGuarantee DEF Guarantee, LockElement, nodeFields
<1>5. CASE UnlockElement(t)
  <2>1. found[t] \in Node /\ lock[found[t]] = t
    BY <1>1, <1>5, FoundFacts
    DEF UnlockElement, Searched, ControlInv, OwnLocks, HasElementLock, Node
  <2>2. KeepsLocks(t)
    BY <1>1, <1>5, <2>1 DEF KeepsLocks, UnlockElement
  <2>3. QED BY <1>5, <2>2, QuietGuarantee DEF Guarantee, UnlockElement, nodeFields
<1>6. QED
  BY <1>2, <1>3, <1>4, <1>5

\* The loops over link_level write one pointer, of a locked predecessor.
LEMMA RedirectFacts ==
    ASSUME IInv, HeldInv, NEW t \in Threads, Link(t) \/ Unlink(t)
    PROVE  LET l == level[t]
               p == before[t][l]
               s == IF op[t] = "remove" THEN after[t][l] ELSE node[t]
           IN  /\ l \in Validated(t) /\ l \in Level /\ l >= LevelTo(t) /\ Searched(t)
               /\ p \in Built /\ p \in Node /\ lock[p] = t /\ p \notin marked
               /\ s \in Built \cup {Tail} /\ s \in Node
               /\ \A n \in Node : \A m \in Level :
                    nxt'[n][m] = IF n = p /\ m = l THEN s ELSE nxt[n][m]
               /\ \A n \in Node : n # p => nxt'[n] = nxt[n]
               /\ Built' = Built /\ KeyAt' = KeyAt
               /\ UNCHANGED <<heap, element, top, marked, fully_linked, lock, request,
                              search, node, locked, valid, took, result>>
               /\ \/ pc' = pc /\ level'[t] = l - 1 /\ l > LevelTo(t)
                  \/ /\ pc'[t] = IF op[t] = "remove" THEN "unlock" ELSE "publish"
                     /\ level' = level /\ l = LevelTo(t)
<1> DEFINE l == level[t]
           p == before[t][l]
           s == IF op[t] = "remove" THEN after[t][l] ELSE node[t]
<1>1. /\ TypeOK /\ Searched(t) /\ l \in Level /\ l >= LevelTo(t) /\ l \in Validated(t)
      /\ ControlInv(t) /\ NodeInv(t) /\ LevelsInv(t)
  BY DEF IInv, HeldInv, ThreadInv, ControlInv, TypeOK, Searched, Validated, Link, Unlink
<1>2. p \in Built /\ p \in Node /\ lock[p] = t /\ p \notin marked
  BY <1>1, PredFacts DEF LevelsInv
<1>3. s \in Built \cup {Tail} /\ s \in Node /\ nxt' = [nxt EXCEPT ![p][l] = s]
  <2>1. CASE Link(t)
    BY <1>1, <2>1 DEF Link, ControlInv, NodeInv, IsPut, TypeOK, Node
  <2>2. CASE Unlink(t)
    BY <1>1, <2>2, PredFacts, NodeFacts DEF Unlink, ControlInv, LevelsInv, IInv
  <2>3. QED BY <2>1, <2>2
<1>4. /\ \A n \in Node : \A m \in Level :
           nxt'[n][m] = IF n = p /\ m = l THEN s ELSE nxt[n][m]
      /\ \A n \in Node : n # p => nxt'[n] = nxt[n]
  BY <1>1, <1>2, <1>3 DEF TypeOK
<1>5. UNCHANGED <<heap, element, top, marked, fully_linked, lock, request,
                  search, node, locked, valid, took, result>>
  BY DEF Link, Unlink
<1>6. Built' = Built /\ KeyAt' = KeyAt
  <2>1. s # NoNode /\ Bottom \in Level /\ heap \cup {Head} \subseteq Node
    BY <1>1, <1>3, NodeFacts DEF IInv, Node
  <2>2. \A n \in heap \cup {Head} : nxt'[n][Bottom] = NoNode <=> nxt[n][Bottom] = NoNode
    BY <1>2, <1>4, <2>1 DEF Built
  <2>3. QED BY <1>5, <2>2 DEF Built, KeyAt
<1>7. \/ pc' = pc /\ level'[t] = l - 1 /\ l > LevelTo(t)
      \/ /\ pc'[t] = IF op[t] = "remove" THEN "unlock" ELSE "publish"
         /\ level' = level /\ l = LevelTo(t)
  <2>1. LevelTo(t) \in Int
    BY <1>1, FoundFacts
    DEF ControlInv, LevelTo, IsPut, TypeOK, Node, Link, Unlink
  <2>2. CASE l > LevelTo(t)
    BY <1>1, <2>2 DEF Link, Unlink, NextLevelUp, TypeOK
  <2>3. CASE ~(l > LevelTo(t))
    BY <1>1, <2>1, <2>3 DEF Link, Unlink, NextLevelUp, Goto, TypeOK, ControlInv, IsPut
  <2>4. QED BY <2>2, <2>3
<1>8. QED
  BY <1>1, <1>2, <1>3, <1>4, <1>5, <1>6, <1>7

\* An element is replaced by one with the same key.
LEMMA PutOverFacts ==
    ASSUME IInv, NEW t \in Threads, PutOver(t)
    PROVE  /\ pc[t] = "locked" /\ pc'[t] = "unlockelem" /\ op[t] = "put" /\ ~took[t]
           /\ found[t] \in Built /\ found[t] \in heap /\ KeyAt[found[t]] = key[t]
           /\ element'[found[t]] = arg[t] /\ arg[t] \in Elements
           /\ \A n \in Node : n # found[t] => element'[n] = element[n]
           /\ KeyAt' = KeyAt /\ Built' = Built
<1>1. /\ TypeOK /\ pc[t] = "locked" /\ op[t] = "put" /\ Searched(t) /\ ~took[t]
      /\ found[t] # NoNode /\ arg[t] \in Elements /\ KeyOf[arg[t]] = key[t]
  BY DEF IInv, ThreadInv, ControlInv, CallInv, IsPut, Searched, PutOver
<1>2. found[t] \in Built /\ found[t] \in heap /\ found[t] \in Nodes /\ KeyAt[found[t]] = key[t]
  BY <1>1, FoundFacts
<1>3. found[t] \in Node /\ found[t] # Head /\ found[t] # Tail
  BY <1>2 DEF Node
<1>4. /\ element'[found[t]] = arg[t]
      /\ \A n \in Node : n # found[t] => element'[n] = element[n]
  BY <1>1, <1>3 DEF PutOver, TypeOK
<1>5. KeyAt' = KeyAt
  BY <1>1, <1>2, <1>3, <1>4 DEF KeyAt
<1>6. pc'[t] = "unlockelem" /\ Built' = Built
  BY <1>1 DEF PutOver, Goto, TypeOK, Built
<1>7. QED
  BY <1>1, <1>2, <1>4, <1>5, <1>6

\* Every write to a linked node is made under its lock.
LEMMA WriteGuarantee ==
    ASSUME IInv, HeldInv, NEW t \in Threads,
           \/ PutAbsent(t) \/ PutDone(t) \/ Fill(t) \/ Link(t) \/ Unlink(t)
           \/ Publish(t) \/ PutOver(t) \/ RemoveMark(t)
    PROVE  Guarantee(t)
<1>1. /\ TypeOK /\ Built \subseteq Node /\ Tail \in Node /\ Tail \notin Nodes
      /\ \A u \in Threads : node[u] # NoNode => node[u] \in heap /\ node[u] \in Node
      /\ \A u \in Threads \ {t} : node[u] # NoNode => node[u] # node[t]
      /\ heap \subseteq Nodes
  BY NodeFacts DEF IInv, TypeOK, ThreadInv, NodeInv, Node
<1>2. lock' = lock
  BY DEF PutAbsent, PutDone, Fill, Link, Unlink, Publish, PutOver, RemoveMark
<1>3. KeepsLocks(t)
  BY <1>2 DEF KeepsLocks
<1>4. CASE PutAbsent(t)
  <2>1. PICK n \in Nodes \ heap :
          /\ Built' = Built /\ n \notin Built
          /\ \A m \in Node : m # n =>
               KeepsNode(m) /\ nxt'[m] = nxt[m] /\ element'[m] = element[m]
    BY <1>4, PutAbsentFacts
  <2>2. UNCHANGED <<marked, fully_linked>>
    BY <1>4 DEF PutAbsent
  <2>3. KeepsOthers(t)
    BY <1>1, <2>1, <2>2 DEF KeepsOthers, KeepsBuilt
  <2>4. QED BY <1>3, <2>3 DEF Guarantee
<1>5. CASE PutDone(t)
  <2>1. CASE valid[t]
    BY <1>3, <1>5, <2>1, PutDoneFacts, QuietGuarantee DEF Guarantee
  <2>2. CASE ~valid[t]
    <3>1. /\ node[t] \in heap /\ node[t] \notin Built /\ Built' = Built
          /\ UNCHANGED <<nxt, marked, fully_linked>>
          /\ \A m \in Node : m # node[t] => KeepsNode(m) /\ element'[m] = element[m]
      BY <1>5, <2>2, PutDoneFacts
    <3>2. KeepsOthers(t)
      BY <1>1, <3>1 DEF KeepsOthers, KeepsBuilt
    <3>3. QED BY <1>3, <3>2 DEF Guarantee
  <2>3. QED BY <2>1, <2>2
<1>6. CASE Fill(t)
  <2>1. UNCHANGED <<element, top, marked, fully_linked>>
    BY <1>6 DEF Fill
  <2>2. KeepsOthers(t)
    BY <1>1, <1>6, <2>1, FillFacts DEF KeepsOthers, KeepsBuilt, KeepsNode
  <2>3. QED BY <1>3, <2>2 DEF Guarantee
<1>7. CASE Link(t) \/ Unlink(t)
  <2>1. KeepsOthers(t)
    BY <1>1, <1>7, RedirectFacts DEF KeepsOthers, KeepsBuilt, KeepsNode
  <2>2. QED BY <1>3, <2>1 DEF Guarantee
<1>8. CASE Publish(t)
  <2>1. /\ UNCHANGED <<heap, element, top, nxt, marked>>
        /\ fully_linked' = fully_linked \cup {node[t]}
    BY <1>8 DEF Publish
  <2>2. Built' = Built /\ KeyAt' = KeyAt
    BY <2>1 DEF Built, KeyAt
  <2>3. KeepsOthers(t)
    BY <2>1, <2>2 DEF KeepsOthers, KeepsBuilt, KeepsNode
  <2>4. QED BY <1>3, <2>3 DEF Guarantee
<1>9. CASE PutOver(t)
  <2>1. lock[found[t]] = t
    BY <1>9, PutOverFacts DEF HeldInv, OwnLocks, HasElementLock
  <2>2. UNCHANGED <<top, nxt, marked, fully_linked>>
    BY <1>9 DEF PutOver
  <2>3. KeepsOthers(t)
    BY <1>1, <1>2, <1>9, <2>1, <2>2, PutOverFacts DEF KeepsOthers, KeepsBuilt, KeepsNode
  <2>4. QED BY <1>3, <2>3 DEF Guarantee
<1>10. CASE RemoveMark(t)
  <2>1. lock[found[t]] = t
    BY <1>10 DEF HeldInv, OwnLocks, HasElementLock, RemoveMark
  <2>2. /\ UNCHANGED <<heap, element, top, nxt, fully_linked>>
        /\ marked' = marked \cup {found[t]}
    BY <1>10 DEF RemoveMark
  <2>3. Built' = Built /\ KeyAt' = KeyAt
    BY <2>2 DEF Built, KeyAt
  <2>4. KeepsOthers(t)
    BY <1>2, <2>1, <2>2, <2>3 DEF KeepsOthers, KeepsBuilt, KeepsNode
  <2>5. QED BY <1>3, <2>4 DEF Guarantee
<1>11. QED
  BY <1>4, <1>5, <1>6, <1>7, <1>8, <1>9, <1>10

\* The steps that change none of the shared memory but the history.
LocalAction(t) ==
    \/ Invoke(t) \/ Return(t)
    \/ FindRight(t) \/ FindDown(t) \/ FindHit(t) \/ FindAfter(t)
    \/ LookupFound(t) \/ LookupMarked(t) \/ LookupElement(t)
    \/ CheckFails(t) \/ CheckNext(t) \/ CheckDone(t)
    \/ PutFound(t) \/ PutNewFound(t) \/ PutNewDone(t)
    \/ WaitLinked(t) \/ LostRace(t) \/ RemoveFound(t) \/ RemoveUnlocked(t)

LEMMA LocalActionFacts ==
    ASSUME NEW t \in Threads, LocalAction(t)
    PROVE  UNCHANGED shared
<1>1. CASE Invoke(t) \/ Return(t)
  BY <1>1 DEF Invoke, Return
<1>2. CASE FindRight(t) \/ FindDown(t) \/ FindHit(t) \/ FindAfter(t)
  BY <1>2 DEF FindRight, FindDown, FindHit, FindAfter
<1>3. CASE LookupFound(t) \/ LookupMarked(t) \/ LookupElement(t)
  BY <1>3 DEF LookupFound, LookupMarked, LookupElement
<1>4. CASE CheckFails(t) \/ CheckNext(t) \/ CheckDone(t)
  BY <1>4 DEF CheckFails, CheckNext, CheckDone
<1>5. CASE PutFound(t) \/ PutNewFound(t) \/ PutNewDone(t) \/ WaitLinked(t)
  BY <1>5 DEF PutFound, PutNewFound, PutNewDone, WaitLinked
<1>6. CASE LostRace(t) \/ RemoveFound(t) \/ RemoveUnlocked(t)
  BY <1>6 DEF LostRace, RemoveFound, RemoveUnlocked
<1>7. QED
  BY <1>1, <1>2, <1>3, <1>4, <1>5, <1>6 DEF LocalAction

\* Whatever a thread does, the others can rely on this.
LEMMA StepGuarantee ==
    ASSUME IInv, HeldInv, NEW t \in Threads, Invoke(t) \/ Step(t)
    PROVE  Guarantee(t)
<1>1. CASE LocalAction(t)
  BY <1>1, LocalActionFacts, QuietGuarantee DEF Guarantee, KeepsLocks, shared, nodeFields
<1>2. CASE LockPred(t) \/ UnlockPred(t) \/ LockElement(t) \/ UnlockElement(t)
  BY <1>2, LockGuarantee
<1>3. CASE \/ PutAbsent(t) \/ PutDone(t) \/ Fill(t) \/ Link(t) \/ Unlink(t)
           \/ Publish(t) \/ PutOver(t) \/ RemoveMark(t)
  BY <1>3, WriteGuarantee
<1>4. QED
  BY <1>1, <1>2, <1>3 DEF Step, LocalAction

-----------------------------------------------------------------------------
(* HeldInv is inductive.                                                   *)

ThreadHeld(t) == LevelsInv(t) /\ OwnLocks(t) /\ LinkedInv(t)

\* Where the levels of a thread that is locking them start.
LEMMA LevelToFacts ==
    ASSUME IInv, NEW u \in Threads,
           pc[u] \in {"lock", "check", "fill", "link", "publish", "unlink"}
    PROVE  /\ Searched(u) /\ LevelTo(u) \in Level /\ (op[u] = "remove" \/ IsPut(u))
           /\ op[u] = "remove" => /\ HasElementLock(u) /\ found[u] # NoNode
                                  /\ LevelTo(u) = top[found[u]]
           /\ op[u] # "remove" => /\ node[u] \in heap /\ LevelTo(u) = top[node[u]]
<1>1. ControlInv(u) /\ NodeInv(u) /\ Searched(u) /\ TypeOK
  BY DEF IInv, ThreadInv, Searched
<1>2. CASE op[u] = "remove"
  BY <1>1, <1>2, FoundFacts DEF ControlInv, LevelTo, IsPut, HasElementLock
<1>3. CASE op[u] # "remove"
  BY <1>1, <1>3 DEF ControlInv, NodeInv, LevelTo, TypeOK, Node
<1>4. QED
  BY <1>1, <1>2, <1>3 DEF ControlInv

LEMMA HeldFrame ==
    ASSUME IInv, HeldInv, NEW t \in Threads, Guarantee(t),
           NEW u \in Threads, u # t, SameLocals(u)
    PROVE  ThreadHeld(u)'
<1> USE DEF SameLocals
<1>1. /\ TypeOK /\ ControlInv(u) /\ FoundInv(u) /\ LevelsInv(u) /\ OwnLocks(u)
      /\ LinkedInv(u) /\ LockInv(u) /\ NodeInv(u) /\ NodeInv(t) /\ Built \subseteq Node
  BY NodeFacts DEF IInv, HeldInv, ThreadInv
<1>2. \A n \in Built : lock[n] = u =>
        /\ lock'[n] = u /\ nxt'[n] = nxt[n] /\ (n \in marked' <=> n \in marked)
  BY <1>1 DEF Guarantee, KeepsLocks, KeepsOthers
<1>3. Validated(u)' = Validated(u)
  <2>1. CASE pc[u] \in {"fill", "link", "publish", "unlink"}
    <3>1. CASE op[u] = "remove"
      <4>1. found[u] \in Built
        BY <2>1, <3>1, LevelToFacts, FoundFacts
      <4>2. LevelTo(u)' = LevelTo(u)
        BY <3>1, <4>1 DEF LevelTo, Guarantee, KeepsOthers, KeepsBuilt, KeepsNode
      <4>3. QED BY <4>2 DEF Validated
    <3>2. CASE op[u] # "remove"
      <4>1. node[u] # NoNode
        BY <1>1, <2>1, <3>2 DEF ControlInv
      <4>2. LevelTo(u)' = LevelTo(u)
        BY <3>2, <4>1 DEF LevelTo, Guarantee, KeepsOthers, KeepsNode
      <4>3. QED BY <4>2 DEF Validated
    <3>3. QED BY <3>1, <3>2
  <2>2. CASE pc[u] \notin {"fill", "link", "publish", "unlink"}
    BY <2>2 DEF Validated
  <2>3. QED BY <2>1, <2>2
<1>4. LevelsInv(u)'
  <2>1. ASSUME NEW l \in Validated(u)
        PROVE  /\ lock'[before[u][l]] = u
               /\ before[u][l] \notin marked'
               /\ after[u][l] \in fully_linked'
               /\ nxt'[before[u][l]][l] = PointsTo(u, l)
               /\ op[u] = "remove" => nxt'[found[u]][l] = after[u][l]
    <3>1. /\ pc[u] \in {"lock", "check", "fill", "link", "publish", "unlink"}
          /\ l \in Level
      BY <2>1 DEF Validated
    <3>2. before[u][l] \in Built
      BY <3>1, LevelToFacts, PredFacts
    <3>3. op[u] = "remove" => found[u] \in Built /\ lock[found[u]] = u
      BY <1>1, <3>1, LevelToFacts, FoundFacts DEF OwnLocks
    <3>4. fully_linked \subseteq fully_linked'
      BY DEF Guarantee, KeepsOthers
    <3>5. /\ lock[before[u][l]] = u /\ before[u][l] \notin marked
          /\ after[u][l] \in fully_linked /\ nxt[before[u][l]][l] = PointsTo(u, l)
          /\ op[u] = "remove" => nxt[found[u]][l] = after[u][l]
      BY <1>1, <2>1 DEF LevelsInv
    <3>6. /\ lock'[before[u][l]] = u /\ before[u][l] \notin marked'
          /\ nxt'[before[u][l]] = nxt[before[u][l]]
      BY <1>2, <3>2, <3>5
    <3>7. op[u] = "remove" => nxt'[found[u]] = nxt[found[u]]
      BY <1>2, <3>3
    <3>8. QED BY <3>4, <3>5, <3>6, <3>7
  <2>2. \A l \in Validated(u) : PointsTo(u, l)' = PointsTo(u, l)
    BY DEF PointsTo, Rewritten
  <2>3. QED BY <1>1, <1>3, <2>1, <2>2 DEF LevelsInv
<1>5. OwnLocks(u)'
  <2>1. HasElementLock(u)' => HasElementLock(u) /\ found[u] \in Built
    BY <1>1, FoundFacts DEF HasElementLock, ControlInv, Searched
  <2>2. \A l \in locked[u] : l \in Level /\ before[u][l] \in Built
    <3>1. locked[u] # {} => Searched(u)
      BY <1>1 DEF LockInv, Searched
    <3>2. QED BY <1>1, <3>1, PredFacts DEF TypeOK
  <2>3. pc[u] = "check" => before[u][level[u]] \in Built
    BY <1>1, PredFacts DEF Searched, TypeOK
  <2>4. HasElementLock(u)' => lock'[found[u]] = u
    BY <1>1, <1>2, <2>1 DEF OwnLocks
  <2>5. pc[u] = "check" => lock'[before[u][level[u]]] = u
    BY <1>1, <1>2, <2>3 DEF OwnLocks
  <2>6. \A l \in locked[u] : lock'[before[u][l]] = u
    BY <1>1, <1>2, <2>2 DEF OwnLocks
  <2>7. QED BY <1>1, <2>4, <2>5, <2>6 DEF OwnLocks
<1>6. LinkedInv(u)'
  <2>1. node[u] # NoNode => node[u] # node[t]
    BY <1>1 DEF NodeInv
  <2>2. QED BY <1>1, <2>1 DEF LinkedInv, Guarantee, KeepsOthers
<1>7. QED
  BY <1>4, <1>5, <1>6 DEF ThreadHeld

\* Where no level is validated and no lock is held there is little to show.
LEMMA QuietHeld ==
    ASSUME NEW t \in Threads, LockInv(t)', pc'[t] \in LocalPCs, LinkedInv(t)'
    PROVE  ThreadHeld(t)'
<1>1. Validated(t)' = {} /\ ~HasElementLock(t)' /\ locked'[t] = {}
  BY DEF Validated, HasElementLock, LockInv, LocalPCs
<1>2. QED
  BY <1>1 DEF ThreadHeld, LevelsInv, OwnLocks, LocalPCs

LEMMA LinkedStep ==
    ASSUME IInv, HeldInv, NEW t \in Threads, pc[t] # "idle", pc'[t] # "idle",
           UNCHANGED <<op, took, fully_linked>>, node'[t] \in {node[t], NoNode},
           pc'[t] \in {"wait", "locked"} => ~took[t],
           pc'[t] \in {"lockelem", "locked"} /\ ~took[t] => found'[t] \in fully_linked
    PROVE  LinkedInv(t)'
<1>1. LinkedInv(t)
  BY DEF HeldInv
<1>2. QED
  BY <1>1 DEF LinkedInv

\* The steps of a thread that has no lock when it is done.
QuietAction(t) ==
    \/ Invoke(t) \/ Return(t)
    \/ FindRight(t) \/ FindDown(t) \/ FindHit(t) \/ FindAfter(t)
    \/ LookupFound(t) \/ LookupMarked(t) \/ LookupElement(t)
    \/ PutFound(t) \/ PutNewFound(t) \/ PutDone(t) \/ PutNewDone(t)
    \/ WaitLinked(t) \/ UnlockElement(t) \/ RemoveFound(t)

LEMMA QuietActionHeld ==
    ASSUME IInv, IInv', HeldInv, NEW t \in Threads, QuietAction(t)
    PROVE  ThreadHeld(t)' /\ pc'[t] \in LocalPCs /\ pc[t] \notin {"link", "publish"}
<1>1. TypeOK /\ ControlInv(t) /\ NodeInv(t) /\ LinkedInv(t) /\ LockInv(t)'
  BY DEF IInv, HeldInv, ThreadInv
<1>2. CASE Invoke(t)
  <2>1. op'[t] \in Ops
    <3>1. PICK c \in CallsOf[t] : op' = [op EXCEPT ![t] = c.op]
      BY <1>2 DEF Invoke
    <3>2. c.op \in Ops
      BY CallAssumption DEF Call
    <3>3. QED BY <1>1, <3>1, <3>2 DEF TypeOK
  <2>2. pc'[t] = "find" /\ node'[t] = NoNode
    BY <1>1, <1>2, StartFindType DEF Invoke, NodeInv
  <2>3. op'[t] # "none"
    BY <2>1 DEF Ops
  <2>4. QED BY <1>1, <1>2, <2>2, <2>3, QuietHeld DEF LinkedInv, LocalPCs, Invoke
<1>3. CASE Return(t)
  <2>1. pc'[t] = "idle" /\ node'[t] = NoNode /\ op'[t] = "none"
    BY <1>1, <1>3 DEF Return, Goto, TypeOK
  <2>2. QED BY <1>1, <1>3, <2>1, QuietHeld DEF LinkedInv, LocalPCs, Return
<1>4. CASE FindRight(t) \/ FindDown(t) \/ FindHit(t) \/ FindAfter(t)
  <2>1. /\ pc[t] \in {"find", "after"} /\ pc'[t] \in {"find", "after", "found"}
        /\ UNCHANGED <<op, took, fully_linked, node>>
    BY <1>1, <1>4, DescendType
    DEF FindRight, FindDown, FindHit, FindAfter, Goto, TypeOK, shared, request
  <2>2. QED BY <1>1, <2>1, LinkedStep, QuietHeld DEF LocalPCs
<1>5. CASE LookupFound(t) \/ LookupMarked(t) \/ LookupElement(t)
  <2>1. /\ pc[t] \in {"found", "read_marked", "read_element"}
        /\ pc'[t] \in {"read_marked", "read_element", "return"}
        /\ UNCHANGED <<op, took, fully_linked, node>>
    BY <1>1, <1>5
    DEF LookupFound, LookupMarked, LookupElement, Answer, Goto, TypeOK, shared, request
  <2>2. QED BY <1>1, <2>1, LinkedStep, QuietHeld DEF LocalPCs
<1>6. CASE PutFound(t) \/ PutNewFound(t) \/ RemoveFound(t)
  <2>1. /\ pc[t] = "found" /\ pc'[t] \in {"wait", "return", "lockelem"}
        /\ UNCHANGED <<op, took, fully_linked, node, found>>
        /\ pc'[t] = "wait" => ~took[t]
        /\ pc'[t] = "lockelem" => took[t]
    BY <1>1, <1>6
    DEF PutFound, PutNewFound, RemoveFound, Answer, Goto, TypeOK, shared, request,
        search, ControlInv, IsPut
  <2>2. QED BY <1>1, <2>1, LinkedStep, QuietHeld DEF LocalPCs
<1>7. CASE PutDone(t)
  <2>1. /\ pc[t] = "unlock" /\ pc'[t] \in {"return", "find"}
        /\ UNCHANGED <<op, took, fully_linked>> /\ node'[t] \in {node[t], NoNode}
    BY <1>7, PutDoneFacts DEF request
  <2>2. QED BY <1>1, <2>1, LinkedStep, QuietHeld DEF LocalPCs
<1>8. CASE PutNewDone(t)
  <2>1. /\ pc[t] = "unlock" /\ pc'[t] = "return"
        /\ UNCHANGED <<op, took, fully_linked, node>>
    BY <1>1, <1>8 DEF PutNewDone, Answer, Goto, TypeOK, shared, request
  <2>2. QED BY <1>1, <2>1, LinkedStep, QuietHeld DEF LocalPCs
<1>9. CASE WaitLinked(t)
  <2>1. /\ pc[t] = "wait" /\ pc'[t] = "lockelem" /\ found[t] \in fully_linked
        /\ UNCHANGED <<op, took, fully_linked, node, found>>
    BY <1>1, <1>9 DEF WaitLinked, Goto, TypeOK, shared, request, search
  <2>2. QED BY <1>1, <2>1, LinkedStep, QuietHeld DEF LocalPCs
<1>10. CASE UnlockElement(t)
  <2>1. /\ pc[t] = "unlockelem" /\ pc'[t] \in {"return", "find"}
        /\ UNCHANGED <<op, took, fully_linked, node>>
    BY <1>1, <1>10 DEF UnlockElement, Answer, StartFind, Goto, TypeOK, request
  <2>2. QED BY <1>1, <2>1, LinkedStep, QuietHeld DEF LocalPCs
<1>11. QED
  BY <1>2, <1>3, <1>4, <1>5, <1>6, <1>7, <1>8, <1>9, <1>10 DEF QuietAction

\* A lock more: that of a predecessor no other level of t has locked.
LEMMA LockPredHeld ==
    ASSUME IInv, IInv', HeldInv, NEW t \in Threads, LockPred(t)
    PROVE  ThreadHeld(t)'
<1> DEFINE pred == before[t][level[t]]
<1>1. /\ TypeOK /\ pc[t] = "lock" /\ Searched(t) /\ level[t] \in Level /\ pred \in Node
      /\ LockInv(t) /\ LevelsInv(t) /\ OwnLocks(t) /\ LinkedInv(t)
  BY PredFacts DEF IInv, HeldInv, ThreadInv, Searched, LockPred, TypeOK
<1>2. /\ lock[pred] = NoThread /\ lock'[pred] = t /\ pc'[t] = "check"
      /\ \A n \in Node : n # pred => lock'[n] = lock[n]
      /\ locked'[t] = locked[t] \cup {level[t]} /\ locked[t] \subseteq Level
      /\ UNCHANGED <<heap, element, top, nxt, marked, fully_linked, request, search,
                     level, node, took>>
  BY <1>1 DEF LockPred, Goto, TypeOK
<1>3. \A n \in Node : lock[n] = t => lock'[n] = t
  BY <1>2
<1>4. HasElementLock(t) => found[t] \in Node
  <2>1. HasElementLock(t) => found[t] # NoNode
    BY <1>1 DEF HasElementLock, IInv, ThreadInv, ControlInv
  <2>2. QED BY <1>1, <2>1, FoundFacts DEF Node
<1>5. LevelsInv(t)'
  <2>1. Validated(t)' = Validated(t) /\ \A l \in Level : PointsTo(t, l)' = PointsTo(t, l)
    BY <1>1, <1>2 DEF Validated, LevelTo, PointsTo, Rewritten, request, search
  <2>2. \A l \in Validated(t) : l \in Level /\ before[t][l] \in Node
    BY <1>1, PredFacts DEF Validated
  <2>3. QED BY <1>1, <1>2, <1>3, <2>1, <2>2 DEF LevelsInv, request, search
<1>6. OwnLocks(t)'
  <2>1. HasElementLock(t)' => HasElementLock(t)
    BY <1>1, <1>2 DEF HasElementLock, request
  <2>2. \A l \in locked[t] : before[t][l] \in Node /\ before[t][l] # pred
    BY <1>1, <1>2, PredFacts, NodeFacts DEF LockInv, IInv
  <2>3. \A l \in locked[t] : lock'[before[t][l]] = t
    BY <1>1, <1>3, <2>2 DEF OwnLocks
  <2>4. \A l, m \in locked'[t] : before[t][l] = before[t][m] => l = m
    BY <1>1, <1>2, <2>2 DEF OwnLocks
  <2>5. QED BY <1>1, <1>2, <1>3, <1>4, <2>1, <2>3, <2>4 DEF OwnLocks, search
<1>7. LinkedInv(t)'
  BY <1>1, <1>2, LinkedStep DEF request
<1>8. QED
  BY <1>5, <1>6, <1>7 DEF ThreadHeld

\* A level more: what the test of validate_and_lock has seen is locked.
LEMMA CheckHeld ==
    ASSUME IInv, IInv', HeldInv, NEW t \in Threads,
           CheckFails(t) \/ CheckNext(t) \/ CheckDone(t)
    PROVE  ThreadHeld(t)'
<1>1. /\ TypeOK /\ pc[t] = "check" /\ Searched(t) /\ level[t] \in Level
      /\ LockInv(t) /\ LevelsInv(t) /\ OwnLocks(t) /\ LinkedInv(t) /\ ControlInv(t)
      /\ LevelTo(t) \in Level
  BY LevelToFacts, SuccsFacts DEF IInv, HeldInv, ThreadInv, CheckFails, CheckNext, CheckDone
<1>2. /\ UNCHANGED <<shared, request, prev, found, before, node, locked, took>>
      /\ after'[t][level[t]] = Succs(t)
      /\ \A l \in Level : l # level[t] => after'[t][l] = after[t][l]
  BY <1>1 DEF CheckFails, CheckNext, CheckDone, TypeOK
<1>3. LinkedInv(t)'
  <2>1. pc'[t] \in {"unlock", "check", "lock", "unlink", "fill"}
    BY <1>1 DEF CheckFails, CheckNext, CheckDone, Goto, TypeOK
  <2>2. QED BY <1>1, <1>2, <2>1, LinkedStep DEF request, shared
<1>4. CASE CheckFails(t)
  <2>1. pc'[t] = "unlock"
    BY <1>1, <1>4 DEF CheckFails, Goto, TypeOK
  <2>2. HasElementLock(t)' => HasElementLock(t)
    BY <1>1, <1>2, <2>1 DEF HasElementLock, request
  <2>3. OwnLocks(t)' /\ LevelsInv(t)'
    BY <1>1, <1>2, <2>1, <2>2 DEF OwnLocks, LevelsInv, Validated, shared
  <2>4. QED BY <1>3, <2>3 DEF ThreadHeld
<1>5. CASE CheckNext(t) \/ CheckDone(t)
  <2>1. /\ pc'[t] \in {"check", "lock", "unlink", "fill"} /\ LevelIsValid(t)
        /\ Validated(t)' \subseteq Validated(t) \cup {level[t]}
        /\ \A l \in Level : ~Rewritten(t, l)' /\ ~Rewritten(t, l)
    <3>1. CASE CheckNext(t)
      <4>1. /\ pc'[t] \in {"check", "lock"} /\ level'[t] = level[t] - 1 /\ LevelIsValid(t)
        BY <1>1, <3>1 DEF CheckNext, Goto, TypeOK
      <4>2. QED BY <1>1, <4>1 DEF Validated, Rewritten
    <3>2. CASE CheckDone(t)
      <4>1. /\ pc'[t] \in {"unlink", "fill"} /\ level'[t] = Bottom /\ LevelIsValid(t)
            /\ level[t] <= LevelTo(t)
        BY <1>1, <3>2 DEF CheckDone, Goto, TypeOK
      <4>2. LevelTo(t)' = LevelTo(t)
        BY <1>2 DEF LevelTo, request, shared
      <4>3. level[t] = LevelTo(t)
        BY <1>1, <4>1 DEF ControlInv
      <4>4. QED BY <1>1, <4>1, <4>2, <4>3 DEF Validated, Rewritten
    <3>3. QED BY <1>5, <3>1, <3>2
  <2>2. ASSUME NEW l \in Validated(t)'
        PROVE  /\ lock[before[t][l]] = t /\ before[t][l] \notin marked
               /\ after'[t][l] \in fully_linked
               /\ nxt[before[t][l]][l] = PointsTo(t, l)'
               /\ op[t] = "remove" => nxt[found[t]][l] = after'[t][l]
    <3>1. CASE l = level[t]
      <4>1. /\ lock[before[t][l]] = t /\ before[t][l] \notin marked
            /\ Succs(t) \in fully_linked /\ nxt[before[t][l]][l] = Expected(t)
        BY <1>1, <2>1, <3>1 DEF OwnLocks, LevelIsValid
      <4>2. op[t] = "remove" <=> found[t] # NoNode
        BY <1>1 DEF ControlInv, IsPut
      <4>3. PointsTo(t, l)' = Expected(t)
        BY <1>1, <1>2, <2>1, <3>1, <4>2 DEF PointsTo, Expected, request
      <4>4. QED BY <1>2, <3>1, <4>1, <4>2, <4>3 DEF Succs
    <3>2. CASE l # level[t]
      <4>1. l \in Validated(t) /\ l \in Level
        BY <2>1, <3>2 DEF Validated
      <4>2. PointsTo(t, l)' = PointsTo(t, l) /\ after'[t][l] = after[t][l]
        BY <1>2, <2>1, <3>2, <4>1 DEF PointsTo, request
      <4>3. QED BY <1>1, <4>1, <4>2 DEF LevelsInv
    <3>3. QED BY <3>1, <3>2
  <2>3. LevelsInv(t)'
    <3>1. pc'[t] = "fill" => level'[t] = Bottom
      BY <1>1, <1>5 DEF CheckNext, CheckDone, Goto, TypeOK
    <3>2. QED BY <1>2, <2>2, <3>1 DEF LevelsInv, shared, request
  <2>4. OwnLocks(t)'
    <3>1. HasElementLock(t)' => HasElementLock(t)
      BY <1>1, <1>2, <2>1 DEF HasElementLock, request
    <3>2. pc'[t] = "check" => lock[before[t][level'[t]]] = t
      <4>1. pc'[t] = "check" => before[t][level'[t]] = before[t][level[t]]
        BY <1>1, <1>5 DEF CheckNext, CheckDone, SamePred, Goto, TypeOK
      <4>2. QED BY <1>1, <4>1 DEF OwnLocks
    <3>3. QED BY <1>1, <1>2, <3>1, <3>2 DEF OwnLocks, shared
  <2>5. QED BY <1>3, <2>3, <2>4 DEF ThreadHeld
<1>6. QED
  BY <1>4, <1>5

\* A lock less: no other level of t counts on it.
LEMMA UnlockPredHeld ==
    ASSUME IInv, IInv', HeldInv, NEW t \in Threads, UnlockPred(t)
    PROVE  ThreadHeld(t)'
<1>1. PICK l \in locked[t] :
        /\ lock' = [lock EXCEPT ![before[t][l]] = NoThread]
        /\ locked' = [locked EXCEPT ![t] = @ \ {l}]
  BY DEF UnlockPred
<1>2. /\ TypeOK /\ pc[t] = "unlock" /\ Searched(t) /\ locked[t] \subseteq Level
      /\ OwnLocks(t) /\ LinkedInv(t) /\ ControlInv(t)
      /\ UNCHANGED <<heap, element, top, nxt, marked, fully_linked, pc, request, search,
                     node, took>>
  BY DEF IInv, HeldInv, ThreadInv, Searched, UnlockPred, TypeOK
<1>3. l \in Level /\ before[t][l] \in Node /\ locked'[t] = locked[t] \ {l}
  BY <1>1, <1>2, PredFacts DEF TypeOK
<1>4. \A n \in Node : n # before[t][l] => lock'[n] = lock[n]
  BY <1>1, <1>2, <1>3 DEF TypeOK
<1>5. LevelsInv(t)'
  BY <1>2 DEF LevelsInv, Validated
<1>6. OwnLocks(t)'
  <2>1. HasElementLock(t)' => lock'[found[t]] = t
    <3>1. HasElementLock(t)' => HasElementLock(t) /\ found[t] # NoNode
      BY <1>2 DEF HasElementLock, ControlInv, request
    <3>2. found[t] # NoNode => found[t] \in Node /\ found[t] # before[t][l]
      BY <1>2, <1>3, FoundFacts, PredFacts, NodeFacts DEF IInv, Node
    <3>3. QED BY <1>2, <1>4, <3>1, <3>2 DEF OwnLocks
  <2>2. \A m \in locked[t] \ {l} : lock'[before[t][m]] = t
    <3>1. \A m \in locked[t] \ {l} : before[t][m] \in Node /\ before[t][m] # before[t][l]
      BY <1>2, PredFacts DEF OwnLocks
    <3>2. QED BY <1>2, <1>4, <3>1 DEF OwnLocks
  <2>3. QED BY <1>2, <1>3, <2>1, <2>2 DEF OwnLocks, search
<1>7. LinkedInv(t)'
  BY <1>2, LinkedStep DEF request
<1>8. QED
  BY <1>5, <1>6, <1>7 DEF ThreadHeld

\* The steps on the element's own lock.
LEMMA ElementHeld ==
    ASSUME IInv, IInv', HeldInv, NEW t \in Threads,
           LockElement(t) \/ LostRace(t) \/ PutOver(t) \/ RemoveMark(t)
    PROVE  ThreadHeld(t)'
<1>1. /\ TypeOK /\ pc[t] \in {"lockelem", "locked"} /\ Searched(t) /\ found[t] \in Node
      /\ locked[t] = {} /\ LinkedInv(t) /\ OwnLocks(t) /\ op[t] \in {"put", "remove"}
      /\ arg[t] \in Elements \cup {NULL}
  <2>1. /\ TypeOK /\ pc[t] \in {"lockelem", "locked"} /\ Searched(t) /\ ControlInv(t)
        /\ LinkedInv(t) /\ OwnLocks(t) /\ LockInv(t)
    BY DEF IInv, HeldInv, ThreadInv, Searched, LockElement, LostRace, PutOver, RemoveMark
  <2>2. found[t] # NoNode
    BY <2>1 DEF ControlInv
  <2>3. QED
  BY <2>1, <2>2, FoundFacts DEF ControlInv, LockInv, Node, TypeOK
<1>2. /\ UNCHANGED <<op, found, node, fully_linked, locked>>
      /\ lock'[found[t]] = t
      /\ took'[t] = took[t] \/ took'[t]
      /\ \/ pc'[t] = "locked" /\ pc[t] = "lockelem" /\ took' = took /\ ~took[t]
         \/ pc'[t] = "unlockelem"
         \/ pc'[t] = "lock" /\ op[t] = "remove" /\ took'[t] /\ level'[t] = Bottom
  <2>1. CASE LockElement(t)
    <3>1. lock'[found[t]] = t
      BY <1>1, <2>1 DEF LockElement, TypeOK
    <3>2. took[t] => op[t] = "remove"
      BY <1>1, <2>1 DEF IInv, ThreadInv, ControlInv, IsPut, LockElement
    <3>3. QED
      BY <1>1, <2>1, <3>1, <3>2 DEF LockElement, StartLocking, Goto, TypeOK, request, search
  <2>2. CASE LostRace(t)
    BY <1>1, <2>2 DEF LostRace, OwnLocks, HasElementLock, Goto, TypeOK, request, search,
                      shared
  <2>3. CASE PutOver(t)
    <3>1. took'[t] = TRUE
      BY <1>1, <2>3, TakeEffectType DEF PutOver
    <3>2. QED
      BY <1>1, <2>3, <3>1 DEF PutOver, OwnLocks, HasElementLock, Goto, TypeOK, request, search
  <2>4. CASE RemoveMark(t)
    <3>1. took'[t] = TRUE
      BY <1>1, <2>4, TakeEffectType DEF RemoveMark
    <3>2. QED
      BY <1>1, <2>4, <3>1 DEF RemoveMark, StartLocking, OwnLocks, HasElementLock, Goto,
                              TypeOK, request, search
  <2>5. QED BY <2>1, <2>2, <2>3, <2>4
<1>3. LinkedInv(t)'
  BY <1>1, <1>2 DEF LinkedInv
<1>4. OwnLocks(t)'
  BY <1>1, <1>2 DEF OwnLocks
<1>5. Validated(t)' = {}
  BY <1>2 DEF Validated
<1>6. QED
  BY <1>2, <1>3, <1>4, <1>5 DEF ThreadHeld, LevelsInv

LEMMA RemoveUnlockedHeld ==
    ASSUME IInv, HeldInv, NEW t \in Threads, RemoveUnlocked(t)
    PROVE  ThreadHeld(t)'
<1>1. TypeOK /\ OwnLocks(t) /\ pc[t] = "unlock" /\ op[t] = "remove" /\ locked[t] = {}
  BY DEF IInv, HeldInv, RemoveUnlocked
<1>2. /\ pc'[t] = "unlockelem"
      /\ UNCHANGED <<shared, op, found, before, node, took, locked, level>>
  BY <1>1 DEF RemoveUnlocked, Goto, TypeOK, request, search
<1>3. LinkedInv(t)'
  BY <1>1, <1>2, LinkedStep DEF shared
<1>4. OwnLocks(t)' /\ LevelsInv(t)'
  BY <1>1, <1>2 DEF OwnLocks, HasElementLock, LevelsInv, Validated, shared
<1>5. QED
  BY <1>3, <1>4 DEF ThreadHeld

\* The steps of a put that has found its key absent.
LEMMA PutAbsentHeld ==
    ASSUME IInv, IInv', HeldInv, NEW t \in Threads, PutAbsent(t)
    PROVE  ThreadHeld(t)'
<1>1. PICK n \in Nodes \ heap :
        /\ node'[t] = n /\ pc'[t] = "lock" /\ level'[t] = Bottom /\ n \notin Built
  BY PutAbsentFacts
<1>2. /\ TypeOK /\ LockInv(t) /\ LockInv(t)' /\ locked[t] = {} /\ LinkedInv(t)
      /\ op[t] \in {"put", "put_new"} /\ pc[t] = "found"
      /\ UNCHANGED <<op, took, fully_linked, locked, lock>>
  BY DEF IInv, HeldInv, ThreadInv, LockInv, PutAbsent, request
<1>3. n \notin fully_linked
  BY <1>1 DEF HeldInv
<1>4. LinkedInv(t)'
  BY <1>1, <1>2, <1>3 DEF LinkedInv
<1>5. Validated(t)' = {} /\ ~HasElementLock(t)'
  BY <1>1, <1>2 DEF Validated, HasElementLock
<1>6. QED
  BY <1>1, <1>2, <1>4, <1>5 DEF ThreadHeld, LevelsInv, OwnLocks

LEMMA FillHeld ==
    ASSUME IInv, HeldInv, NEW t \in Threads, Fill(t)
    PROVE  ThreadHeld(t)'
<1>1. /\ TypeOK /\ LevelsInv(t) /\ OwnLocks(t) /\ LinkedInv(t) /\ Searched(t)
      /\ pc[t] = "fill" /\ pc'[t] = "link" /\ IsPut(t) /\ node[t] \notin Built
      /\ level[t] = level'[t]
      /\ \A m \in Node : m # node[t] => nxt'[m] = nxt[m]
      /\ UNCHANGED <<heap, element, top, marked, fully_linked, lock, request,
                     search, level, node, locked, valid, took>>
  BY FillFacts DEF IInv, HeldInv, Searched, Fill
<1>2. op[t] # "remove" /\ LevelTo(t)' = LevelTo(t)
  BY <1>1 DEF IsPut, LevelTo, request
<1>3. Validated(t)' = Validated(t)
  BY <1>1, <1>2 DEF Validated
<1>4. \A l \in Validated(t) : l \in Level /\ before[t][l] \in Built /\ before[t][l] \in Node
  BY <1>1, PredFacts DEF Validated
<1>5. LinkedInv(t)'
  BY <1>1, LinkedStep DEF request
<1>6. OwnLocks(t)'
  BY <1>1, <1>2 DEF OwnLocks, HasElementLock, request, search
<1>7. LevelsInv(t)'
  <2>1. ASSUME NEW l \in Validated(t)
        PROVE  nxt'[before[t][l]][l] = PointsTo(t, l)'
    <3>1. ~Rewritten(t, l)' /\ ~Rewritten(t, l)
      BY <1>1, <1>4, <2>1 DEF LevelsInv, Rewritten
    <3>2. PointsTo(t, l)' = PointsTo(t, l)
      BY <1>1, <1>2, <3>1 DEF PointsTo, request, search
    <3>3. before[t][l] # node[t]
      BY <1>1, <1>4, <2>1
    <3>4. QED BY <1>1, <1>4, <2>1, <3>2, <3>3 DEF LevelsInv
  <2>2. QED BY <1>1, <1>2, <1>3, <2>1 DEF LevelsInv, request, search
<1>8. QED
  BY <1>5, <1>6, <1>7 DEF ThreadHeld

\* A pointer more is written: the level's own, and no other level's.
LEMMA RedirectHeld ==
    ASSUME IInv, HeldInv, NEW t \in Threads, Link(t) \/ Unlink(t)
    PROVE  ThreadHeld(t)'
<1> DEFINE k == level[t]
           p == before[t][k]
           s == IF op[t] = "remove" THEN after[t][k] ELSE node[t]
<1>1. /\ k \in Validated(t) /\ k \in Level /\ k >= LevelTo(t) /\ Searched(t)
      /\ p \in Built /\ p \in Node /\ lock[p] = t /\ p \notin marked
      /\ \A n \in Node : \A m \in Level :
           nxt'[n][m] = IF n = p /\ m = k THEN s ELSE nxt[n][m]
      /\ UNCHANGED <<heap, element, top, marked, fully_linked, lock, request,
                     search, node, locked, valid, took, result>>
      /\ \/ pc' = pc /\ level'[t] = k - 1 /\ k > LevelTo(t)
         \/ /\ pc'[t] = IF op[t] = "remove" THEN "unlock" ELSE "publish"
            /\ level' = level /\ k = LevelTo(t)
  BY RedirectFacts
<1>2. /\ TypeOK /\ LevelsInv(t) /\ OwnLocks(t) /\ LinkedInv(t)
      /\ \/ pc[t] = "link" /\ op[t] # "remove"
         \/ pc[t] = "unlink" /\ op[t] = "remove"
      /\ LevelTo(t) \in Level
  BY LevelToFacts DEF IInv, HeldInv, Link, Unlink, ThreadInv, ControlInv, IsPut
<1>3. LevelTo(t)' = LevelTo(t)
  BY <1>1 DEF LevelTo, request, search
<1>4. /\ Validated(t)' \subseteq Validated(t)
      /\ \A l \in Validated(t) : l \in Level /\ before[t][l] \in Built /\ before[t][l] \in Node
      /\ op[t] = "remove" => found[t] \in Node /\ found[t] # p
  <2>1. Validated(t)' \subseteq Validated(t)
    BY <1>1, <1>2, <1>3 DEF Validated, request
  <2>2. \A l \in Validated(t) : l \in Level /\ before[t][l] \in Built /\ before[t][l] \in Node
    BY <1>1, PredFacts DEF Validated
  <2>3. op[t] = "remove" => found[t] # NoNode
    BY <1>2, LevelToFacts
  <2>4. op[t] = "remove" => found[t] \in Node /\ found[t] # p
    BY <1>1, <2>3, FoundFacts, PredFacts, NodeFacts DEF IInv, Node
  <2>5. QED BY <2>1, <2>2, <2>4
<1>5. LevelsInv(t)'
  <2>1. ASSUME NEW l \in Validated(t)'
        PROVE  /\ nxt'[before[t][l]][l] = PointsTo(t, l)'
               /\ op[t] = "remove" => nxt'[found[t]][l] = after[t][l]
    <3>1. l \in Validated(t) /\ l \in Level
      BY <1>4, <2>1
    <3>2. op[t] = "remove" => nxt'[found[t]][l] = after[t][l]
      BY <1>1, <1>2, <1>4, <3>1 DEF LevelsInv
    <3>3. CASE l = k
      <4>1. Rewritten(t, l)'
        BY <1>1, <1>2, <2>1, <3>3 DEF Rewritten, Validated
      <4>2. PointsTo(t, l)' = s
        BY <1>1, <3>3, <4>1 DEF PointsTo, request, search
      <4>3. QED BY <1>1, <3>1, <3>2, <3>3, <4>2
    <3>4. CASE l # k
      <4>1. Rewritten(t, l)' <=> Rewritten(t, l)
        <5>1. LevelTo(t) <= l
          BY <1>2, <3>1 DEF Validated
        <5>2. QED BY <1>1, <1>2, <2>1, <3>1, <3>4, <5>1 DEF Rewritten, Validated
      <4>2. PointsTo(t, l)' = PointsTo(t, l)
        BY <1>1, <4>1 DEF PointsTo, request, search
      <4>3. nxt'[before[t][l]][l] = nxt[before[t][l]][l]
        BY <1>1, <1>4, <3>1, <3>4
      <4>4. QED BY <1>2, <3>1, <3>2, <4>2, <4>3 DEF LevelsInv
    <3>5. QED BY <3>3, <3>4
  <2>2. \A l \in Validated(t)' :
          /\ lock[before[t][l]] = t /\ before[t][l] \notin marked
          /\ after[t][l] \in fully_linked
    BY <1>2, <1>4 DEF LevelsInv
  <2>3. pc'[t] # "fill"
    BY <1>1, <1>2
  <2>4. QED BY <1>1, <2>1, <2>2, <2>3 DEF LevelsInv, request, search
<1>6. OwnLocks(t)'
  BY <1>1, <1>2 DEF OwnLocks, HasElementLock, request, search
<1>7. LinkedInv(t)'
  BY <1>1, <1>2, LinkedStep DEF request
<1>8. QED
  BY <1>5, <1>6, <1>7 DEF ThreadHeld

LEMMA PublishHeld ==
    ASSUME IInv, HeldInv, NEW t \in Threads, Publish(t)
    PROVE  ThreadHeld(t)'
<1>1. /\ TypeOK /\ OwnLocks(t) /\ LinkedInv(t) /\ pc[t] = "publish" /\ op[t] # "remove"
      /\ arg[t] \in Elements \cup {NULL}
  BY DEF IInv, HeldInv, Publish, ThreadInv, ControlInv, IsPut, TypeOK
<1>2. /\ pc'[t] = "unlock" /\ took'[t]
      /\ UNCHANGED <<op, found, before, locked, lock>>
  BY <1>1, TakeEffectType DEF Publish, Goto, TypeOK, request, search
<1>3. LevelsInv(t)' /\ OwnLocks(t)' /\ LinkedInv(t)'
  BY <1>1, <1>2 DEF LevelsInv, Validated, OwnLocks, HasElementLock, LinkedInv
<1>4. QED
  BY <1>3 DEF ThreadHeld

LEMMA OwnHeld ==
    ASSUME IInv, IInv', HeldInv, NEW t \in Threads, Invoke(t) \/ Step(t)
    PROVE  ThreadHeld(t)'
<1>1. CASE QuietAction(t)
  BY <1>1, QuietActionHeld
<1>2. CASE LockPred(t) \/ UnlockPred(t) \/ CheckFails(t) \/ CheckNext(t) \/ CheckDone(t)
  BY <1>2, LockPredHeld, UnlockPredHeld, CheckHeld
<1>3. CASE \/ LockElement(t) \/ LostRace(t) \/ PutOver(t) \/ RemoveMark(t)
           \/ RemoveUnlocked(t)
  BY <1>3, ElementHeld, RemoveUnlockedHeld
<1>4. CASE PutAbsent(t) \/ Fill(t) \/ Link(t) \/ Unlink(t) \/ Publish(t)
  BY <1>4, PutAbsentHeld, FillHeld, RedirectHeld, PublishHeld
<1>5. QED
  BY <1>1, <1>2, <1>3, <1>4 DEF Step, QuietAction

\* A node is marked or fully linked only once it is built.
LinkedOnly ==
    /\ {Head, Tail} \subseteq fully_linked
    /\ fully_linked \subseteq Built \cup {Tail}
    /\ marked \subseteq fully_linked

\* Only Publish makes a node fully linked, and only RemoveMark marks one.
LEMMA PublishOnly ==
    ASSUME NEW t \in Threads, Invoke(t) \/ Step(t), fully_linked' # fully_linked
    PROVE  Publish(t)
<1>1. CASE LocalAction(t)
  BY <1>1, LocalActionFacts DEF shared
<1>2. CASE LockPred(t) \/ UnlockPred(t) \/ LockElement(t) \/ UnlockElement(t)
  BY <1>2 DEF LockPred, UnlockPred, LockElement, UnlockElement
<1>3. CASE \/ PutAbsent(t) \/ PutDone(t) \/ Fill(t) \/ Link(t) \/ Unlink(t)
           \/ PutOver(t) \/ RemoveMark(t)
  BY <1>3 DEF PutAbsent, PutDone, Fill, Link, Unlink, PutOver, RemoveMark
<1>4. QED
  BY <1>1, <1>2, <1>3 DEF Step, LocalAction

LEMMA MarkOnly ==
    ASSUME NEW t \in Threads, Invoke(t) \/ Step(t), marked' # marked
    PROVE  RemoveMark(t)
<1>1. CASE LocalAction(t)
  BY <1>1, LocalActionFacts DEF shared
<1>2. CASE LockPred(t) \/ UnlockPred(t) \/ LockElement(t) \/ UnlockElement(t)
  BY <1>2 DEF LockPred, UnlockPred, LockElement, UnlockElement
<1>3. CASE \/ PutAbsent(t) \/ PutDone(t) \/ Fill(t) \/ Link(t) \/ Unlink(t)
           \/ PutOver(t) \/ Publish(t)
  BY <1>3 DEF PutAbsent, PutDone, Fill, Link, Unlink, PutOver, Publish
<1>4. QED
  BY <1>1, <1>2, <1>3 DEF Step, LocalAction

LEMMA LinkedNodesStep ==
    ASSUME IInv, HeldInv, NEW t \in Threads, Invoke(t) \/ Step(t)
    PROVE  LinkedOnly'
<1>1. Guarantee(t)
  BY StepGuarantee
<1>2. /\ fully_linked \subseteq fully_linked' /\ Built \subseteq Built'
      /\ {Head, Tail} \subseteq fully_linked /\ marked \subseteq fully_linked
      /\ fully_linked \subseteq Built \cup {Tail}
  BY <1>1 DEF HeldInv, Guarantee, KeepsOthers, KeepsBuilt
<1>3. fully_linked' \subseteq Built' \cup {Tail}
  <2>1. CASE Publish(t)
    <3>1. node[t] \in Built /\ fully_linked' = fully_linked \cup {node[t]}
      BY <2>1 DEF Publish, IInv, ThreadInv, NodeInv
    <3>2. QED BY <1>2, <3>1
  <2>2. CASE ~Publish(t)
    BY <1>2, <2>2, PublishOnly
  <2>3. QED BY <2>1, <2>2
<1>4. marked' \subseteq fully_linked'
  <2>1. CASE RemoveMark(t)
    <3>1. found[t] \in fully_linked /\ marked' = marked \cup {found[t]}
      BY <2>1 DEF HeldInv, LinkedInv, RemoveMark
    <3>2. QED BY <1>2, <3>1
  <2>2. CASE ~RemoveMark(t)
    BY <1>2, <2>2, MarkOnly
  <2>3. QED BY <2>1, <2>2
<1>5. QED
  BY <1>2, <1>3, <1>4 DEF LinkedOnly

\* t links n, and has the lock of the node m that points to it.
LinkedFrom(m, n, t) == pc[t] \in {"link", "publish"} /\ node[t] = n /\ lock[m] = t

\* A thread that is linking a node goes on with it, or publishes it.
LEMMA LinkingGoesOn ==
    ASSUME IInv, HeldInv, NEW t \in Threads, Invoke(t) \/ Step(t),
           NEW u \in Threads, NEW m \in Node, NEW n, LinkedFrom(m, n, u)
    PROVE  LinkedFrom(m, n, u)' \/ n \in fully_linked'
<1>1. CASE u # t
  <2>1. SameLocals(u) /\ Guarantee(t)
    BY <1>1, StepLocals, StepGuarantee DEF IInv
  <2>2. QED BY <1>1, <2>1 DEF LinkedFrom, SameLocals, Guarantee, KeepsLocks
<1>2. CASE u = t
  <2>1. pc[t] \in {"link", "publish"}
    BY <1>2 DEF LinkedFrom
  <2>2. CASE Link(t)
    <3>1. pc'[t] \in {"link", "publish"} /\ UNCHANGED <<node, lock>>
      BY <2>2, RedirectFacts DEF Link, IInv, ThreadInv, ControlInv, IsPut
    <3>2. QED BY <1>2, <3>1 DEF LinkedFrom
  <2>3. CASE Publish(t)
    BY <1>2, <2>3 DEF LinkedFrom, Publish
  <2>4. QED
    BY <2>1, <2>2, <2>3
    DEF Step, Invoke, Return, FindRight, FindDown, FindHit, FindAfter, LookupFound,
        LookupMarked, LookupElement, LockPred, CheckFails, CheckNext, CheckDone, UnlockPred,
        PutAbsent, PutFound, PutNewFound, Fill, PutDone, PutNewDone, WaitLinked,
        LockElement, LostRace, PutOver, RemoveMark, UnlockElement, RemoveFound, Unlink,
        RemoveUnlocked
<1>3. QED BY <1>1, <1>2

\* Only Fill builds a node.
LEMMA BuiltOnly ==
    ASSUME IInv, HeldInv, NEW t \in Threads, Invoke(t) \/ Step(t), NEW m \in Built',
           m \notin Built
    PROVE  Fill(t) /\ m = node[t]
<1>1. CASE LocalAction(t)
  BY <1>1, LocalActionFacts DEF shared, Built
<1>2. CASE LockPred(t) \/ UnlockPred(t) \/ LockElement(t) \/ UnlockElement(t)
  BY <1>2 DEF LockPred, UnlockPred, LockElement, UnlockElement, Built
<1>3. CASE PutAbsent(t) \/ PutDone(t)
  BY <1>3, PutAbsentFacts, PutDoneFacts
<1>4. CASE PutOver(t) \/ RemoveMark(t) \/ Publish(t)
  BY <1>4 DEF PutOver, RemoveMark, Publish, Built
<1>5. CASE Link(t) \/ Unlink(t)
  BY <1>5, RedirectFacts
<1>6. CASE Fill(t)
  BY <1>6, FillFacts
<1>7. QED
  BY <1>1, <1>2, <1>3, <1>4, <1>5, <1>6 DEF Step, LocalAction

LEMMA HalfLinkedStep ==
    ASSUME IInv, HeldInv, NEW t \in Threads, Invoke(t) \/ Step(t)
    PROVE  HalfLinkedIsLocked'
<1> SUFFICES ASSUME NEW m \in Built', NEW l \in Level,
                    nxt'[m][l] \notin fully_linked', nxt'[m][l] # NoNode
             PROVE  \E u \in Threads : LinkedFrom(m, nxt[m][l], u)'
  BY DEF HalfLinkedIsLocked, LinkedFrom
<1>1. Guarantee(t) /\ Built \subseteq Node
  BY StepGuarantee, NodeFacts DEF IInv
<1>2. CASE m \in Built /\ nxt'[m][l] = nxt[m][l]
  <2>1. nxt[m][l] \notin fully_linked \cup {NoNode}
    BY <1>1, <1>2 DEF Guarantee, KeepsOthers
  <2>2. PICK n : n = nxt[m][l]
    OBVIOUS
  <2>3. PICK u \in Threads : LinkedFrom(m, n, u)
    BY <1>2, <2>1, <2>2 DEF HeldInv, HalfLinkedIsLocked, LinkedFrom
  <2>4. LinkedFrom(m, n, u)' \/ n \in fully_linked'
    BY <1>1, <1>2, <2>3, LinkingGoesOn
  <2>5. QED BY <1>2, <2>2, <2>4 DEF LinkedFrom
<1>3. CASE m \notin Built
  <2>1. Fill(t) /\ m = node[t]
    BY <1>3, BuiltOnly
  <2>2. nxt'[m][l] = after[t][l] /\ l >= LevelTo(t)
    BY <2>1, FillFacts
  <2>3. after[t][l] \in fully_linked
    BY <2>1, <2>2 DEF HeldInv, LevelsInv, Validated, Fill
  <2>4. QED BY <1>1, <2>2, <2>3 DEF Guarantee, KeepsOthers
<1>4. CASE m \in Built /\ nxt'[m][l] # nxt[m][l]
  <2>1. Link(t) \/ Unlink(t)
    <3>1. CASE LocalAction(t)
      BY <1>4, <3>1, LocalActionFacts DEF shared
    <3>2. CASE LockPred(t) \/ UnlockPred(t) \/ LockElement(t) \/ UnlockElement(t)
      BY <1>4, <3>2 DEF LockPred, UnlockPred, LockElement, UnlockElement
    <3>3. CASE PutAbsent(t) \/ Fill(t)
      BY <1>1, <1>4, <3>3, PutAbsentFacts, FillFacts
    <3>4. CASE PutDone(t) \/ PutOver(t) \/ RemoveMark(t) \/ Publish(t)
      BY <1>4, <3>4 DEF PutDone, PutOver, RemoveMark, Publish
    <3>5. QED BY <3>1, <3>2, <3>3, <3>4 DEF Step, LocalAction
  <2>2. /\ m = before[t][level[t]] /\ l = level[t] /\ lock'[m] = t /\ l \in Validated(t)
        /\ nxt'[m][l] = IF op[t] = "remove" THEN after[t][l] ELSE node[t]
        /\ UNCHANGED <<fully_linked, node>>
    BY <1>1, <1>4, <2>1, RedirectFacts
  <2>3. op[t] # "remove"
    BY <2>2 DEF HeldInv, LevelsInv
  <2>4. pc'[t] \in {"link", "publish"}
    BY <2>1, <2>3, RedirectFacts DEF Link, Unlink, IInv, ThreadInv, ControlInv
  <2>5. LinkedFrom(m, nxt[m][l], t)'
    BY <2>2, <2>3, <2>4 DEF LinkedFrom
  <2>6. QED BY <2>5
<1>5. QED
  BY <1>2, <1>3, <1>4

LEMMA HeldParts ==
    HeldInv <=> LinkedOnly /\ HalfLinkedIsLocked /\ \A u \in Threads : ThreadHeld(u)
<1>1. QED
  BY DEF HeldInv, LinkedOnly, ThreadHeld

LEMMA HeldStep ==
    ASSUME IInv, HeldInv, NEW t \in Threads, Invoke(t) \/ Step(t)
    PROVE  HeldInv'
<1>1. ASSUME NEW u \in Threads PROVE ThreadHeld(u)'
  <2>1. CASE u = t
    BY <2>1, StepInv, OwnHeld
  <2>2. CASE u # t
    BY <2>2, StepLocals, StepGuarantee, HeldFrame DEF IInv
  <2>3. QED BY <2>1, <2>2
<1>2. LinkedOnly' /\ HalfLinkedIsLocked'
  BY LinkedNodesStep, HalfLinkedStep
<1>3. QED
  BY <1>1, <1>2 DEF HeldInv, LinkedOnly, ThreadHeld

LEMMA HeldStutter ==
    ASSUME HeldInv, UNCHANGED vars
    PROVE  HeldInv'
<1> USE DEF vars, shared, request, search, history
<1>1. Built' = Built
  BY DEF Built
<1>2. LinkedOnly' /\ HalfLinkedIsLocked'
  BY <1>1 DEF HeldInv, LinkedOnly, HalfLinkedIsLocked
<1>3. ASSUME NEW u \in Threads PROVE ThreadHeld(u)'
  <2>1. Validated(u)' = Validated(u)
    BY DEF Validated, LevelTo
  <2>2. \A l : PointsTo(u, l)' = PointsTo(u, l)
    BY DEF PointsTo, Rewritten
  <2>3. LevelsInv(u)'
    BY <2>1, <2>2 DEF HeldInv, LevelsInv
  <2>4. OwnLocks(u)' /\ LinkedInv(u)'
    BY DEF HeldInv, OwnLocks, HasElementLock, LinkedInv
  <2>5. QED BY <2>3, <2>4 DEF ThreadHeld
<1>4. QED
  BY <1>2, <1>3 DEF HeldInv, LinkedOnly, ThreadHeld

LEMMA HeldInit == Init => HeldInv
<1>1. SUFFICES ASSUME Init PROVE HeldInv
  OBVIOUS
<1>2. /\ IInv /\ TypeOK /\ HeapInv /\ fully_linked = heap \cup {Head, Tail} /\ marked = {}
      /\ \A n \in Node : lock[n] = NoThread
  BY <1>1, InitInv DEF Init, IInv
<1>3. \A t \in Threads : /\ pc[t] = "idle" /\ op[t] = "none" /\ node[t] = NoNode
                         /\ locked[t] = {} /\ ~took[t]
  BY <1>1 DEF Init
<1>4. Built = heap \cup {Head}
  BY <1>1, InitFacts
<1>5. \A m \in Built : \A l \in Level : nxt[m][l] \in fully_linked \cup {NoNode}
  <2>1. SUFFICES ASSUME NEW m \in Built, NEW l \in Level
                 PROVE  nxt[m][l] \in fully_linked \cup {NoNode}
    OBVIOUS
  <2>2. m \in Node /\ top[m] \in Level
    BY <1>2, NodeFacts
  <2>3. CASE l >= top[m]
    BY <1>2, <1>4, <2>3 DEF IInv, Sorted
  <2>4. CASE ~(l >= top[m])
    BY <1>1, <2>2, <2>4 DEF Init
  <2>5. QED BY <2>3, <2>4
<1>6. LinkedOnly /\ HalfLinkedIsLocked
  BY <1>2, <1>4, <1>5 DEF LinkedOnly, HalfLinkedIsLocked
<1>7. ASSUME NEW t \in Threads PROVE ThreadHeld(t)
  BY <1>3 DEF ThreadHeld, LevelsInv, Validated, OwnLocks, HasElementLock, LinkedInv
<1>8. QED
  BY <1>6, <1>7, HeldParts

LEMMA HeldNext == IInv /\ HeldInv /\ [Next]_vars => HeldInv'
<1>1. ASSUME IInv, HeldInv, NEW t \in Threads, Invoke(t) \/ Step(t) PROVE HeldInv'
  BY <1>1, HeldStep
<1>2. ASSUME HeldInv, UNCHANGED vars PROVE HeldInv'
  BY <1>2, HeldStutter
<1>3. QED
  BY <1>1, <1>2 DEF Next, Terminated

\* What a thread has locked and validated (validate_and_lock) stays as it has
\* found it until the thread writes it: its loops over link_level may use the
\* neighbours found by a search of an older state of the lists.
THEOREM HeldInvariance == Spec => []HeldInv
<1>1. Init => IInv /\ HeldInv
  BY InitInv, HeldInit
<1>2. (IInv /\ HeldInv) /\ [Next]_vars => (IInv /\ HeldInv)'
  BY NextInv, HeldNext
<1>3. QED
  BY <1>1, <1>2, PTL DEF Spec

\* Whoever holds the lock of a predecessor never sees a half-linked successor
\* in it: a pointer to a node not fully linked is in a node its writer locks.
THEOREM HalfLinkedHidden == Spec => []HalfLinkedIsLocked
<1>1. HeldInv => HalfLinkedIsLocked
  BY DEF HeldInv
<1>2. QED
  BY <1>1, HeldInvariance, PTL

-----------------------------------------------------------------------------
(* What a step never does.                                                 *)

\* A write to a linked node goes to one that t has locked and is not marked.
LEMMA WriteFacts ==
    ASSUME IInv, HeldInv, NEW t \in Threads, Invoke(t) \/ Step(t), NEW n \in fully_linked,
           nxt'[n] # nxt[n] \/ element'[n] # element[n]
    PROVE  lock[n] = t /\ lock'[n] = t /\ n \notin marked
<1>1. /\ n \in Built \cup {Tail} /\ n \in Node /\ Tail \notin Built /\ NodeInv(t)
      /\ Tail \notin Nodes
  BY NodeFacts DEF HeldInv, IInv, ThreadInv
<1>2. CASE LocalAction(t)
  BY <1>2, LocalActionFacts DEF shared
<1>3. CASE LockPred(t) \/ UnlockPred(t) \/ LockElement(t) \/ UnlockElement(t)
  BY <1>3 DEF LockPred, UnlockPred, LockElement, UnlockElement
<1>4. CASE Publish(t) \/ RemoveMark(t)
  BY <1>4 DEF Publish, RemoveMark
<1>5. CASE PutAbsent(t)
  <2>1. PICK m \in Nodes \ heap :
          /\ m \notin Built
          /\ \A o \in Node : o # m => nxt'[o] = nxt[o] /\ element'[o] = element[o]
    BY <1>5, PutAbsentFacts
  <2>2. QED BY <1>1, <2>1
<1>6. CASE PutDone(t)
  <2>1. UNCHANGED nxt /\ (valid[t] => UNCHANGED element)
    BY <1>6, PutDoneFacts DEF nodeFields
  <2>2. ~valid[t] => /\ node[t] \notin Built /\ node[t] \in heap /\ heap \subseteq Nodes
                     /\ \A o \in Node : o # node[t] => element'[o] = element[o]
    BY <1>6, PutDoneFacts DEF IInv, TypeOK
  <2>3. QED BY <1>1, <2>1, <2>2
<1>7. CASE Fill(t)
  <2>1. /\ node[t] \notin Built /\ node[t] \in heap /\ heap \subseteq Nodes
        /\ \A o \in Node : o # node[t] => nxt'[o] = nxt[o]
    BY <1>7, FillFacts DEF IInv, TypeOK
  <2>2. element' = element
    BY <1>7 DEF Fill
  <2>3. QED BY <1>1, <2>1, <2>2
<1>8. CASE Link(t) \/ Unlink(t)
  <2> DEFINE p == before[t][level[t]]
  <2>1. /\ lock[p] = t /\ p \notin marked /\ UNCHANGED <<element, lock>>
        /\ \A o \in Node : o # p => nxt'[o] = nxt[o]
    BY <1>8, RedirectFacts
  <2>2. n = p
    BY <1>1, <2>1
  <2>3. QED BY <2>1, <2>2
<1>9. CASE PutOver(t)
  <2>1. /\ lock[found[t]] = t /\ found[t] \notin marked /\ UNCHANGED <<nxt, lock>>
        /\ \A o \in Node : o # found[t] => element'[o] = element[o]
    BY <1>9, PutOverFacts DEF HeldInv, OwnLocks, HasElementLock, PutOver, Unmarked
  <2>2. n = found[t]
    BY <1>1, <2>1
  <2>3. QED BY <2>1, <2>2
<1>10. QED
  BY <1>2, <1>3, <1>4, <1>5, <1>6, <1>7, <1>8, <1>9 DEF Step, LocalAction

LEMMA MarkFacts ==
    ASSUME IInv, HeldInv, NEW t \in Threads, Invoke(t) \/ Step(t), NEW n \in Node,
           (n \in marked) # (n \in marked')
    PROVE  n \notin marked /\ n \in marked' /\ lock[n] = t /\ lock'[n] = t
<1>1. Guarantee(t) /\ marked \subseteq Built
  BY StepGuarantee DEF IInv, HeapInv
<1>2. marked \subseteq marked' /\ marked' \subseteq marked \cup {found[t]}
  BY <1>1 DEF Guarantee, KeepsOthers
<1>3. RemoveMark(t)
  BY MarkOnly
<1>4. n = found[t] /\ lock[found[t]] = t /\ lock' = lock
  BY <1>2, <1>3 DEF HeldInv, OwnLocks, HasElementLock, RemoveMark
<1>5. QED
  BY <1>2, <1>4

\* A linked node's pointers, element and mark are written only under its lock,
\* however far from where the lock was taken.
THEOREM WritesAreLocked == Spec => WritesUnderLock
<1> DEFINE Locked == \A n \in fully_linked :
         \/ nxt'[n] # nxt[n] \/ element'[n] # element[n]
         \/ (n \in marked) # (n \in marked')
         => lock[n] # NoThread /\ lock'[n] = lock[n]
<1>1. ASSUME IInv, HeldInv, NEW t \in Threads, Invoke(t) \/ Step(t) PROVE Locked
  <2>1. ASSUME NEW n \in fully_linked,
               \/ nxt'[n] # nxt[n] \/ element'[n] # element[n]
               \/ (n \in marked) # (n \in marked')
        PROVE  lock[n] = t /\ lock'[n] = t
    <3>1. n \in Node
      BY <1>1 DEF IInv, TypeOK
    <3>2. QED BY <1>1, <2>1, <3>1, WriteFacts, MarkFacts
  <2>2. QED BY <2>1
<1>2. ASSUME UNCHANGED vars PROVE Locked
  BY <1>2 DEF vars, shared
<1>3. IInv /\ HeldInv /\ [Next]_vars => [Locked]_vars
  BY <1>1, <1>2 DEF Next, Terminated
<1>4. QED
  BY <1>3, Invariance, HeldInvariance, PTL DEF Spec, WritesUnderLock

\* A marked node never changes again: nothing is linked behind a node that is
\* leaving the lists, and no element is stored in it.
THEOREM MarkedStaysFrozen == Spec => MarkedFrozen
<1> DEFINE Frozen == \A n \in marked :
                       n \in marked' /\ nxt'[n] = nxt[n] /\ element'[n] = element[n]
<1>1. ASSUME IInv, HeldInv, NEW t \in Threads, Invoke(t) \/ Step(t) PROVE Frozen
  <2>1. marked \subseteq fully_linked /\ marked \subseteq marked'
    BY <1>1, StepGuarantee DEF HeldInv, Guarantee, KeepsOthers
  <2>2. QED BY <1>1, <2>1, WriteFacts
<1>2. ASSUME UNCHANGED vars PROVE Frozen
  BY <1>2 DEF vars, shared
<1>3. IInv /\ HeldInv /\ [Next]_vars => [Frozen]_vars
  BY <1>1, <1>2 DEF Next, Terminated
<1>4. QED
  BY <1>3, Invariance, HeldInvariance, PTL DEF Spec, MarkedFrozen
=============================================================================
