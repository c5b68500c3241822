------------------------ MODULE SkiplistAnswersProofs ------------------------
(***************************************************************************)
(* The skiplist implements the key-value set of KVSet: AnswersInv is       *)
(* inductive together with the invariants before it, and every step of the *)
(* skiplist is a step of the set or leaves the set alone.                  *)
(***************************************************************************)
EXTENDS SkiplistListProofs

USE NumLevelsAssumption, BorderAssumption, ThreadAssumption
    DEF Level, Bottom

-----------------------------------------------------------------------------
(* The map that the live nodes represent.                                  *)

\* The live nodes are on the bottom list, one for each key that is bound.
LiveNodes ==
    /\ Live = (fully_linked \ {Head, Tail}) \ marked
    /\ \A n \in Live : n \in Built /\ n \in Listed(Bottom) /\ KeyAt[n] \in Keys
    /\ \A m, n \in Live : KeyAt[m] = KeyAt[n] => m = n

LEMMA LiveFacts == IInv /\ HeldInv /\ ShapeInv => LiveNodes
<1>1. SUFFICES ASSUME IInv, HeldInv, ShapeInv PROVE LiveNodes
  OBVIOUS
<1>2. /\ heap \subseteq Nodes /\ fully_linked \subseteq Built \cup {Tail}
      /\ Built \subseteq heap \cup {Head} /\ Bottom \in Level
      /\ \A n \in heap : KeyAt[n] \in Keys
  BY <1>1, NodeFacts DEF IInv, TypeOK, HeldInv
<1>3. Live = (fully_linked \ {Head, Tail}) \ marked
  BY <1>2 DEF Live
<1>4. ASSUME NEW n \in Live PROVE n \in Built /\ n \in Listed(Bottom) /\ KeyAt[n] \in Keys
  <2>1. n \in Built /\ n \in heap
    BY <1>2, <1>3, <1>4 DEF Live
  <2>2. Bottom >= top[n]
    BY <1>1, <2>1, NodeFacts DEF IInv
  <2>3. QED BY <1>1, <1>2, <1>4, <2>1, <2>2 DEF ShapeInv, LiveIsListed
<1>5. PICK L : L = Listed(Bottom) /\ IsList(Bottom, L)
  BY <1>1, <1>2 DEF ShapeInv
<1>6. \A m, n \in Live : KeyAt[m] = KeyAt[n] => m = n
  BY <1>1, <1>2, <1>4, <1>5, ListFacts
<1>7. QED
  BY <1>3, <1>4, <1>6 DEF LiveNodes

LEMMA LiveFactsNext == IInv' /\ HeldInv' /\ ShapeInv' => LiveNodes'
<1>1. QED
  BY LiveFacts, PTL

\* A key is bound to the element of its live node, or to nothing.
MapIs ==
    /\ map = [k \in Keys |-> map[k]]
    /\ \A n \in Live : KeyAt[n] \in Keys => map[KeyAt[n]] = element[n]
    /\ \A k \in Keys : (\A n \in Live : KeyAt[n] # k) => map[k] = NULL

LEMMA MapFacts == LiveNodes => MapIs
<1>1. SUFFICES ASSUME LiveNodes PROVE MapIs
  OBVIOUS
<1>2. ASSUME NEW n \in Live, KeyAt[n] \in Keys PROVE map[KeyAt[n]] = element[n]
  <2>1. PICK k \in Keys : k = KeyAt[n]
    BY <1>2
  <2>2. Bound(k) = {n}
    BY <1>1, <1>2, <2>1 DEF LiveNodes, Bound
  <2>3. (CHOOSE m \in Bound(k) : TRUE) = n
    BY <2>2
  <2>4. QED BY <2>1, <2>2, <2>3 DEF map
<1>3. ASSUME NEW k \in Keys, \A n \in Live : KeyAt[n] # k PROVE map[k] = NULL
  <2>1. Bound(k) = {}
    BY <1>3 DEF Bound
  <2>2. QED BY <2>1 DEF map
<1>4. map = [k \in Keys |-> map[k]]
  BY DEF map
<1>5. QED
  BY <1>2, <1>3, <1>4 DEF MapIs

LEMMA MapFactsNext == LiveNodes' => MapIs'
<1>1. QED
  BY MapFacts, PTL

-----------------------------------------------------------------------------
(* The steps that change the map.                                          *)

\* Only PutOver changes the element of a node that is fully linked.
LEMMA ElementOnly ==
    ASSUME IInv, HeldInv, NEW t \in Threads, Invoke(t) \/ Step(t), NEW n \in fully_linked,
           element'[n] # element[n]
    PROVE  PutOver(t) /\ n = found[t]
<1>1. n \in Node /\ n \in Built \cup {Tail} /\ n # NoNode
  BY NodeFacts DEF HeldInv, IInv, TypeOK
<1>2. CASE LocalAction(t)
  BY <1>2, LocalActionFacts DEF shared
<1>3. CASE LockPred(t) \/ UnlockPred(t) \/ LockElement(t) \/ UnlockElement(t)
  BY <1>3 DEF LockPred, UnlockPred, LockElement, UnlockElement
<1>4. CASE \/ Fill(t) \/ Link(t) \/ Unlink(t) \/ Publish(t) \/ RemoveMark(t)
  BY <1>4 DEF Fill, Link, Unlink, Publish, RemoveMark
<1>5. CASE PutAbsent(t)
  <2>1. PICK m \in Nodes \ heap : \A o \in Node : o # m => element'[o] = element[o]
    BY <1>5, PutAbsentFacts
  <2>2. n = m
    BY <1>1, <2>1
  <2>3. QED BY <1>1, <2>1, <2>2, NodeFacts DEF IInv
<1>6. CASE PutDone(t)
  <2>1. valid[t] => element' = element
    BY <1>6, PutDoneFacts DEF nodeFields
  <2>2. ~valid[t] /\ n = node[t] /\ node[t] \notin Built /\ node[t] \in heap
    BY <1>1, <1>6, <2>1, PutDoneFacts
  <2>3. QED BY <1>1, <2>2 DEF IInv, TypeOK
<1>7. CASE PutOver(t)
  BY <1>1, <1>7, PutOverFacts
<1>8. QED
  BY <1>2, <1>3, <1>4, <1>5, <1>6, <1>7 DEF Step, LocalAction

\* The steps at which an operation takes effect.
Effective(t) == Publish(t) \/ PutOver(t) \/ RemoveMark(t)

LEMMA MapKept ==
    ASSUME IInv, HeldInv, ListInv, NEW t \in Threads, Invoke(t) \/ Step(t), ~Effective(t)
    PROVE  Live' = Live /\ map' = map
<1>1. LiveNodes /\ LiveNodes' /\ MapIs /\ MapIs'
  BY LiveFacts, LiveFactsNext, MapFacts, MapFactsNext, StepInv, HeldStep, ShapePreserved
     DEF ListInv
<1>2. fully_linked' = fully_linked /\ marked' = marked
  BY PublishOnly, MarkOnly DEF Effective
<1>3. PICK L : L = Live
  OBVIOUS
<1>4. L = Live'
  BY <1>1, <1>2, <1>3 DEF LiveNodes
<1>5. \A n \in L : KeyAt'[n] = KeyAt[n] /\ KeyAt[n] \in Keys
  BY <1>1, <1>3, StepGuarantee DEF LiveNodes, Guarantee, KeepsOthers, KeepsBuilt, KeepsNode
<1>6. \A n \in L : element'[n] = element[n]
  BY <1>1, <1>3, ElementOnly DEF LiveNodes, Effective
<1>7. ASSUME NEW k \in Keys PROVE map'[k] = map[k]
  <2>1. CASE \E n \in L : KeyAt[n] = k
    BY <1>1, <1>3, <1>4, <1>5, <1>6, <2>1 DEF MapIs
  <2>2. CASE \A n \in L : KeyAt[n] # k
    BY <1>1, <1>3, <1>4, <1>5, <2>2 DEF MapIs
  <2>3. QED BY <2>1, <2>2
<1>8. QED
  BY <1>1, <1>3, <1>4, <1>7 DEF MapIs

\* A put binds its key when it links its node, which no live node has: ...
LEMMA MapPublish ==
    ASSUME IInv, HeldInv, ListInv, NEW t \in Threads, Publish(t)
    PROVE  /\ Live' = Live \cup {node[t]} /\ node[t] \notin fully_linked /\ node[t] # NoNode
           /\ \A n \in Live : KeyAt[n] # key[t]
           /\ map[key[t]] = NULL /\ map' = [map EXCEPT ![key[t]] = element[node[t]]]
<1>1. LiveNodes /\ LiveNodes' /\ MapIs /\ MapIs' /\ Step(t)
  BY LiveFacts, LiveFactsNext, MapFacts, MapFactsNext, StepInv, HeldStep, ShapePreserved
     DEF ListInv, Step
<1>2. PICK n : n = node[t]
  OBVIOUS
<1>3. /\ pc[t] = "publish" /\ fully_linked' = fully_linked \cup {n}
      /\ UNCHANGED <<heap, element, top, nxt, marked>>
  BY <1>2 DEF Publish
<1>4. /\ ~took[t] /\ n # NoNode /\ n \in heap /\ n \in Built /\ KeyAt[n] = key[t]
      /\ n \notin fully_linked /\ key[t] \in Keys
  <2>1. /\ ControlInv(t) /\ NodeInv(t) /\ LinkedInv(t) /\ key[t] \in Keys
    BY DEF IInv, ThreadInv, HeldInv, TypeOK
  <2>2. ~took[t] /\ n # NoNode
    BY <1>2, <1>3, <2>1 DEF ControlInv
  <2>3. QED BY <1>2, <1>3, <2>1, <2>2 DEF NodeInv, LinkedInv
<1>5. n \in Listed(Bottom) /\ Bottom \in Level
  <2>1. LinkingInv(t) /\ Bottom \in Level /\ Bottom >= top[n] /\ Rewritten(t, Bottom)
    BY <1>3, <1>4, NodeFacts DEF ListInv, ShapeInv, Rewritten, IInv
  <2>2. QED BY <1>2, <1>3, <2>1 DEF LinkingInv
<1>6. n \notin marked /\ n \in Nodes
  BY <1>4 DEF HeldInv, IInv, TypeOK
<1>7. ASSUME NEW m \in Live PROVE KeyAt[m] # key[t]
  <2>1. PICK L : L = Listed(Bottom) /\ IsList(Bottom, L)
    BY <1>5 DEF ListInv, ShapeInv
  <2>2. m \in L /\ m \in fully_linked
    BY <1>1, <1>7, <2>1 DEF LiveNodes
  <2>3. QED BY <1>4, <1>5, <2>1, <2>2, ListFacts
<1>8. PICK L : L = Live
  OBVIOUS
<1>9. Live' = L \cup {n}
  BY <1>1, <1>3, <1>6, <1>8 DEF LiveNodes
<1>10. KeyAt' = KeyAt
  BY <1>3 DEF KeyAt
<1>11. map[key[t]] = NULL
  BY <1>1, <1>4, <1>7 DEF MapIs
<1>12. ASSUME NEW k \in Keys
       PROVE  map'[k] = IF k = key[t] THEN element[n] ELSE map[k]
  <2>1. CASE k = key[t]
    BY <1>1, <1>3, <1>4, <1>9, <1>10, <2>1 DEF MapIs
  <2>2. CASE k # key[t] /\ \E m \in L : KeyAt[m] = k
    BY <1>1, <1>3, <1>8, <1>9, <1>10, <2>2 DEF MapIs
  <2>3. CASE k # key[t] /\ \A m \in L : KeyAt[m] # k
    BY <1>1, <1>4, <1>8, <1>9, <1>10, <2>3 DEF MapIs
  <2>4. QED BY <2>1, <2>2, <2>3
<1>13. map' = [map EXCEPT ![key[t]] = element[n]]
  BY <1>1, <1>4, <1>12 DEF MapIs
<1>14. QED
  BY <1>2, <1>4, <1>7, <1>8, <1>9, <1>11, <1>13

\* ... or when it replaces the element of the live node it has found.
LEMMA MapPutOver ==
    ASSUME IInv, HeldInv, ListInv, NEW t \in Threads, PutOver(t)
    PROVE  /\ Live' = Live /\ found[t] \in Live /\ KeyAt[found[t]] = key[t]
           /\ map[key[t]] = element[found[t]] /\ map' = [map EXCEPT ![key[t]] = arg[t]]
<1>1. LiveNodes /\ LiveNodes' /\ MapIs /\ MapIs' /\ Step(t)
  BY LiveFacts, LiveFactsNext, MapFacts, MapFactsNext, StepInv, HeldStep, ShapePreserved
     DEF ListInv, Step
<1>2. PICK n : n = found[t]
  OBVIOUS
<1>3. /\ pc[t] = "locked" /\ ~took[t] /\ n \in Built /\ n \in heap /\ KeyAt[n] = key[t]
      /\ element'[n] = arg[t] /\ KeyAt' = KeyAt
      /\ \A m \in Node : m # n => element'[m] = element[m]
      /\ fully_linked' = fully_linked /\ marked' = marked /\ n \notin marked
  BY <1>2, PutOverFacts DEF PutOver, Unmarked
<1>4. n \in Live /\ key[t] \in Keys
  <2>1. LinkedInv(t) /\ key[t] \in Keys
    BY DEF HeldInv, IInv, TypeOK
  <2>2. n \in fully_linked
    BY <1>2, <1>3, <2>1 DEF LinkedInv
  <2>3. QED BY <1>3, <2>1, <2>2 DEF Live
<1>5. PICK L : L = Live
  OBVIOUS
<1>6. Live' = L
  BY <1>1, <1>3, <1>5 DEF LiveNodes
<1>7. \A m \in L : m \in Node /\ KeyAt[m] \in Keys /\ (KeyAt[m] = key[t] => m = n)
  BY <1>1, <1>3, <1>4, <1>5, NodeFacts DEF LiveNodes, IInv
<1>8. ASSUME NEW k \in Keys
      PROVE  map'[k] = IF k = key[t] THEN arg[t] ELSE map[k]
  <2>1. CASE k = key[t]
    BY <1>1, <1>3, <1>4, <1>5, <1>6, <2>1 DEF MapIs
  <2>2. CASE k # key[t] /\ \E m \in L : KeyAt[m] = k
    BY <1>1, <1>3, <1>5, <1>6, <1>7, <2>2 DEF MapIs
  <2>3. CASE k # key[t] /\ \A m \in L : KeyAt[m] # k
    BY <1>1, <1>3, <1>5, <1>6, <2>3 DEF MapIs
  <2>4. QED BY <2>1, <2>2, <2>3
<1>9. map' = [map EXCEPT ![key[t]] = arg[t]]
  BY <1>1, <1>4, <1>8 DEF MapIs
<1>10. map[key[t]] = element[n]
  BY <1>1, <1>3, <1>4 DEF MapIs
<1>11. QED
  BY <1>2, <1>3, <1>4, <1>5, <1>6, <1>9, <1>10

\* A removal unbinds its key when it marks the live node it has found.
LEMMA MapRemove ==
    ASSUME IInv, HeldInv, ListInv, NEW t \in Threads, RemoveMark(t)
    PROVE  /\ Live' = Live \ {found[t]} /\ found[t] \in Live /\ KeyAt[found[t]] = key[t]
           /\ map[key[t]] = element[found[t]] /\ element[found[t]] \in Elements
           /\ map' = [map EXCEPT ![key[t]] = NULL]
<1>1. LiveNodes /\ LiveNodes' /\ MapIs /\ MapIs' /\ Step(t)
  BY LiveFacts, LiveFactsNext, MapFacts, MapFactsNext, StepInv, HeldStep, ShapePreserved
     DEF ListInv, Step
<1>2. PICK n : n = found[t]
  OBVIOUS
<1>3. /\ pc[t] = "locked" /\ op[t] = "remove" /\ n \notin marked
      /\ marked' = marked \cup {n} /\ UNCHANGED <<heap, element, top, nxt, fully_linked>>
  BY <1>2 DEF RemoveMark, Unmarked
<1>4. n \in Live /\ KeyAt[n] = key[t] /\ key[t] \in Keys /\ element[n] \in Elements
  <2>1. LinkedInv(t) /\ ControlInv(t) /\ Searched(t) /\ \A m \in heap : element[m] \in Elements
    BY <1>3 DEF HeldInv, IInv, HeapInv, ThreadInv, Searched
  <2>2. n \in fully_linked /\ n # NoNode
    BY <1>2, <1>3, <2>1 DEF LinkedInv, ControlInv
  <2>3. n \in heap /\ KeyAt[n] = key[t] /\ key[t] \in Keys
    BY <1>2, <2>1, <2>2, FoundFacts
  <2>4. QED BY <1>3, <2>1, <2>2, <2>3 DEF Live
<1>5. PICK L : L = Live
  OBVIOUS
<1>6. Live' = L \ {n} /\ KeyAt' = KeyAt
  BY <1>1, <1>3, <1>5 DEF LiveNodes, KeyAt
<1>7. \A m \in L : KeyAt[m] = key[t] <=> m = n
  BY <1>1, <1>4, <1>5 DEF LiveNodes
<1>8. ASSUME NEW k \in Keys
      PROVE  map'[k] = IF k = key[t] THEN NULL ELSE map[k]
  <2>1. CASE k = key[t]
    BY <1>1, <1>6, <1>7, <2>1 DEF MapIs
  <2>2. CASE k # key[t] /\ \E m \in L : KeyAt[m] = k
    <3>1. PICK m \in L : KeyAt[m] = k
      BY <2>2
    <3>2. m \in Live' /\ KeyAt'[m] = k /\ element'[m] = element[m]
      BY <1>3, <1>6, <1>7, <2>2, <3>1
    <3>3. map'[k] = element'[m] /\ map[k] = element[m]
      BY <1>1, <1>5, <3>1, <3>2 DEF MapIs
    <3>4. QED BY <2>2, <3>2, <3>3
  <2>3. CASE k # key[t] /\ \A m \in L : KeyAt[m] # k
    BY <1>1, <1>5, <1>6, <2>3 DEF MapIs
  <2>4. QED BY <2>1, <2>2, <2>3
<1>9. map' = [map EXCEPT ![key[t]] = NULL]
  BY <1>1, <1>4, <1>8 DEF MapIs
<1>10. map[key[t]] = element[n]
  BY <1>1, <1>4 DEF MapIs
<1>11. QED
  BY <1>2, <1>4, <1>5, <1>6, <1>9, <1>10

-----------------------------------------------------------------------------
(* The history of the calls under way.                                     *)

\* Only an operation that takes effect adds to what the others have seen.
LEMMA HistoryKept ==
    ASSUME TypeOK, NEW t \in Threads, Invoke(t) \/ Step(t), ~Effective(t),
           NEW u \in Threads, u # t
    PROVE  seen'[u] = seen[u] /\ raced'[u] = raced[u]
<1>0. /\ seen \in [Threads -> SUBSET (Elements \cup {NULL})]
      /\ raced \in [Threads -> BOOLEAN]
  BY DEF TypeOK
<1> USE DEF history, Answer
<1>1. CASE Invoke(t) \/ Return(t)
  BY <1>0, <1>1 DEF Invoke, Return
<1>2. CASE FindRight(t) \/ FindDown(t) \/ FindHit(t) \/ FindAfter(t)
  BY <1>2 DEF FindRight, FindDown, FindHit, FindAfter
<1>3. CASE LookupFound(t) \/ LookupMarked(t) \/ LookupElement(t)
  BY <1>0, <1>3 DEF LookupFound, LookupMarked, LookupElement
<1>4. CASE LockPred(t) \/ CheckFails(t) \/ CheckNext(t) \/ CheckDone(t) \/ UnlockPred(t)
  BY <1>4 DEF LockPred, CheckFails, CheckNext, CheckDone, UnlockPred
<1>5. CASE PutAbsent(t) \/ PutFound(t) \/ PutNewFound(t) \/ Fill(t)
  BY <1>0, <1>5 DEF PutAbsent, PutFound, PutNewFound, Fill
<1>6. CASE Link(t) \/ Unlink(t)
  BY <1>6 DEF Link, Unlink
<1>7. CASE PutDone(t) \/ PutNewDone(t)
  BY <1>0, <1>7 DEF PutDone, PutNewDone
<1>8. CASE WaitLinked(t) \/ LockElement(t) \/ LostRace(t)
  BY <1>8 DEF WaitLinked, LockElement, LostRace
<1>9. CASE RemoveFound(t) \/ RemoveUnlocked(t)
  BY <1>0, <1>9 DEF RemoveFound, RemoveUnlocked
<1>10. CASE UnlockElement(t)
  BY <1>0, <1>10 DEF UnlockElement
<1>11. QED
  BY <1>1, <1>2, <1>3, <1>4, <1>5, <1>6, <1>7, <1>8, <1>9, <1>10 DEF Step, Effective

\* A call stays open when it has neither taken effect nor answered.
LEMMA OpenOwn ==
    ASSUME TypeOK, NEW t \in Threads, Step(t), Open(t)'
    PROVE  /\ Open(t) /\ ~Effective(t) /\ op'[t] = op[t] /\ key'[t] = key[t]
           /\ arg'[t] = arg[t] /\ seen'[t] = seen[t] /\ raced'[t] = raced[t]
<1>0. pc \in [Threads -> PCs] /\ took \in [Threads -> BOOLEAN]
  BY DEF TypeOK
<1> USE DEF history, request, Answer, Goto, Open, StartFind, StartLocking
<1>1. CASE Return(t)
  BY <1>0, <1>1 DEF Return
<1>2. CASE FindRight(t) \/ FindDown(t) \/ FindHit(t) \/ FindAfter(t)
  BY <1>0, <1>2 DEF FindRight, FindDown, FindHit, FindAfter, Effective, Publish, PutOver,
                    RemoveMark
<1>3. CASE LookupFound(t) \/ LookupMarked(t) \/ LookupElement(t)
  BY <1>0, <1>3 DEF LookupFound, LookupMarked, LookupElement, Effective, Publish, PutOver,
                    RemoveMark
<1>4. CASE LockPred(t) \/ CheckFails(t) \/ CheckNext(t) \/ CheckDone(t) \/ UnlockPred(t)
  BY <1>0, <1>4 DEF LockPred, CheckFails, CheckNext, CheckDone, UnlockPred, Effective,
                    Publish, PutOver, RemoveMark
<1>5. CASE PutAbsent(t) \/ PutFound(t) \/ PutNewFound(t) \/ Fill(t)
  BY <1>0, <1>5 DEF PutAbsent, PutFound, PutNewFound, Fill, Effective, Publish, PutOver,
                    RemoveMark
<1>6. CASE Link(t) \/ Unlink(t)
  BY <1>0, <1>6 DEF Link, Unlink, Effective, Publish, PutOver, RemoveMark
<1>7. CASE PutDone(t) \/ PutNewDone(t)
  BY <1>0, <1>7 DEF PutDone, PutNewDone, Effective, Publish, PutOver, RemoveMark
<1>8. CASE WaitLinked(t) \/ LockElement(t) \/ LostRace(t)
  BY <1>0, <1>8 DEF WaitLinked, LockElement, LostRace, Effective, Publish, PutOver,
                    RemoveMark
<1>9. CASE RemoveFound(t) \/ RemoveUnlocked(t)
  BY <1>0, <1>9 DEF RemoveFound, RemoveUnlocked, Effective, Publish, PutOver, RemoveMark
<1>10. CASE UnlockElement(t)
  BY <1>0, <1>10 DEF UnlockElement, Effective, Publish, PutOver, RemoveMark
<1>11. CASE Publish(t) \/ PutOver(t) \/ RemoveMark(t)
  BY <1>0, <1>11 DEF Publish, PutOver, RemoveMark, TakeEffect
<1>12. QED
  BY <1>1, <1>2, <1>3, <1>4, <1>5, <1>6, <1>7, <1>8, <1>9, <1>10, <1>11 DEF Step

\* What an operation binds its key to is what the calls on that key then see.
LEMMA EffectFacts ==
    ASSUME IInv, HeldInv, ListInv, NEW t \in Threads, AnswerInv(t), Effective(t)
    PROVE  \E e \in Elements \cup {NULL} :
             /\ map' = [map EXCEPT ![key[t]] = e]
             /\ e = NULL <=> RemoveMark(t)
             /\ \A u \in Threads : u # t =>
                  /\ seen'[u] = IF seen[u] # {} /\ key[u] = key[t]
                                THEN seen[u] \cup {e} ELSE seen[u]
                  /\ raced'[u] <=> raced[u]
                       \/ (e = NULL /\ seen[u] # {} /\ key[u] = key[t])
<1>1. /\ TypeOK /\ CallInv(t) /\ ControlInv(t) /\ NULL \notin Elements
      /\ raced \in [Threads -> BOOLEAN]
  BY ElementAssumption DEF IInv, ThreadInv, TypeOK
<1>2. CASE Publish(t) \/ PutOver(t)
  <2>1. IsPut(t) /\ arg[t] \in Elements /\ ~RemoveMark(t) /\ TakeEffect(t, arg[t])
    BY <1>1, <1>2 DEF Publish, PutOver, CallInv, ControlInv, IsPut, RemoveMark
  <2>2. map' = [map EXCEPT ![key[t]] = arg[t]]
    <3>1. CASE Publish(t)
      <4>1. ~took[t] /\ node[t] # NoNode
        BY <1>1, <2>1, <3>1 DEF Publish, ControlInv
      <4>2. element[node[t]] = arg[t]
        BY <4>1 DEF AnswerInv
      <4>3. QED BY <3>1, <4>2, MapPublish
    <3>2. CASE PutOver(t)
      BY <3>2, MapPutOver
    <3>3. QED BY <1>2, <3>1, <3>2
  <2>3. QED BY <1>1, <2>1, <2>2 DEF TakeEffect
<1>3. CASE RemoveMark(t)
  <2>1. TakeEffect(t, NULL)
    BY <1>3 DEF RemoveMark
  <2>2. QED BY <1>1, <1>3, <2>1, MapRemove DEF TakeEffect
<1>4. QED
  BY <1>2, <1>3 DEF Effective

\* A live node goes only when a removal of its key marks it.
LEMMA LiveGoes ==
    ASSUME IInv, HeldInv, ListInv, NEW t \in Threads, Invoke(t) \/ Step(t),
           NEW n \in Live
    PROVE  /\ KeyAt'[n] = KeyAt[n] /\ n \in Built /\ n \in fully_linked
           /\ n \in Live' => n \in Listed(Bottom)'
           /\ n \notin Live' => RemoveMark(t) /\ KeyAt[n] = key[t]
<1>1. LiveNodes /\ LiveNodes'
  BY LiveFacts, LiveFactsNext, StepInv, HeldStep, ShapePreserved DEF ListInv
<1>2. n \in Built /\ n \in fully_linked /\ KeyAt'[n] = KeyAt[n]
  BY <1>1, StepGuarantee DEF LiveNodes, Live, Guarantee, KeepsOthers, KeepsBuilt, KeepsNode
<1>3. n \in Live' => n \in Listed(Bottom)'
  BY <1>1 DEF LiveNodes
<1>4. n \notin Live' => RemoveMark(t) /\ KeyAt[n] = key[t]
  BY MapKept, MapPublish, MapPutOver, MapRemove DEF Effective
<1>5. QED
  BY <1>2, <1>3, <1>4

\* What an open call knows of its key, whoever takes the step.
LEMMA OpenSteps ==
    ASSUME IInv, HeldInv, ListInv, AnswersInv, NEW t \in Threads, Invoke(t) \/ Step(t),
           NEW u \in Threads, Open(u)'
    PROVE  \/ u = t /\ Invoke(t)
           \/ /\ Open(u) /\ op'[u] = op[u] /\ key'[u] = key[u]
              /\ map'[key[u]] \in seen'[u] /\ seen[u] \subseteq seen'[u]
              /\ raced[u] => raced'[u]
              /\ RemoveMark(t) /\ key[t] = key[u] => NULL \in seen'[u] /\ raced'[u]
<1>1. TypeOK /\ AnswerInv(t) /\ SeenInv(u) /\ map = [k \in Keys |-> map[k]] /\ key[u] \in Keys
  BY DEF IInv, AnswersInv, map, TypeOK
<1>2. CASE u = t /\ ~Invoke(t)
  <2>1. /\ Open(u) /\ ~Effective(t) /\ op'[u] = op[u] /\ key'[u] = key[u]
        /\ seen'[u] = seen[u] /\ raced'[u] = raced[u]
    BY <1>1, <1>2, OpenOwn
  <2>2. QED BY <1>1, <2>1, MapKept DEF Effective, SeenInv
<1>3. CASE u # t
  <2>1. Open(u) /\ op'[u] = op[u] /\ key'[u] = key[u]
    BY <1>1, <1>3, StepLocals DEF SameLocals, Open
  <2>2. map[key[u]] \in seen[u] /\ seen[u] # {}
    BY <1>1, <2>1 DEF SeenInv
  <2>3. CASE ~Effective(t)
    BY <1>1, <1>3, <2>1, <2>2, <2>3, MapKept, HistoryKept DEF Effective
  <2>4. CASE Effective(t)
    <3>1. PICK e \in Elements \cup {NULL} :
            /\ map' = [map EXCEPT ![key[t]] = e]
            /\ e = NULL <=> RemoveMark(t)
            /\ seen'[u] = IF seen[u] # {} /\ key[u] = key[t]
                          THEN seen[u] \cup {e} ELSE seen[u]
            /\ raced'[u] <=> raced[u] \/ (e = NULL /\ seen[u] # {} /\ key[u] = key[t])
      BY <1>1, <1>3, <2>4, EffectFacts
    <3>2. map'[key[u]] = IF key[u] = key[t] THEN e ELSE map[key[u]]
      BY <1>1, <3>1
    <3>3. QED BY <2>1, <2>2, <3>1, <3>2
  <2>5. QED BY <2>3, <2>4
<1>4. QED
  BY <1>2, <1>3

-----------------------------------------------------------------------------
(* What the searches of open calls come to.                                *)

\* From the head a search comes to what is on the lists.
HeadFinds ==
    \A u \in Threads : prev[u] = Head =>
        /\ \A n \in Live : OnTrack(u, n)
        /\ (\A v \in Threads : Pending(v) => key[v] # key[u]) => OffMarked(u)

LEMMA FromHead == IInv /\ HeldInv /\ ListInv => HeadFinds
<1>1. SUFFICES ASSUME IInv, HeldInv, ListInv, NEW u \in Threads, prev[u] = Head
               PROVE  /\ \A n \in Live : OnTrack(u, n)
                      /\ (\A v \in Threads : Pending(v) => key[v] # key[u]) => OffMarked(u)
  BY DEF HeadFinds
<1>2. TrackedLists /\ LiveNodes
  BY <1>1, ListsTracked, LiveFacts DEF ListInv
<1>3. PICK M : M = Attached
  OBVIOUS
<1>4. M \subseteq Built \cup {Tail} /\ Head \in M /\ Track(M)
  BY <1>2, <1>3 DEF TrackedLists
<1>5. ASSUME NEW n \in Live PROVE OnTrack(u, n)
  <2>1. Finds(M, n)
    BY <1>2, <1>3 DEF TrackedLists, LiveNodes
  <2>2. QED BY <1>1, <1>4, <2>1 DEF OnTrack
<1>6. ASSUME \A v \in Threads : Pending(v) => key[v] # key[u] PROVE OffMarked(u)
  <2>1. ASSUME NEW m \in M, KeyAt[m] = key[u] PROVE m \notin marked
    BY <1>1, <1>3, <1>6, <2>1 DEF ListInv, HasRemover, VictimOf
  <2>2. QED BY <1>1, <1>4, <2>1 DEF OffMarked
<1>7. QED
  BY <1>5, <1>6

LEMMA FromHeadNext == IInv' /\ HeldInv' /\ ListInv' => HeadFinds'
<1>1. QED
  BY FromHead, PTL

\* What a search has found is where its track led it, or is left as it was.
LEMMA SearchEnds ==
    ASSUME IInv, NEW t \in Threads, SearchStep(t), HasFound(t)',
           NEW S \in SUBSET (Built \cup {Tail}), prev[t] \in S, Track(S)
    PROVE  \/ found'[t] = found[t] /\ HasFound(t)
           \/ found'[t] \in S /\ KeyAt[found'[t]] = key[t]
           \/ found'[t] = NoNode /\ \A n \in Built : Finds(S, n) => KeyAt[n] # key[t]
<1>1. TypeOK /\ pc[t] \in {"find", "after"} /\ level[t] \in Level /\ Bottom \in Level
  BY DEF IInv, TypeOK, SearchStep, FindRight, FindDown, FindHit, FindAfter
<1>2. /\ prev[t] \in Built /\ prev[t] # Tail /\ level[t] >= top[prev[t]]
      /\ KeyAt[prev[t]] < key[t]
  <2>1. IsBefore(t, prev[t], level[t])
    BY <1>1 DEF IInv, ThreadInv, SearchInv, Searching
  <2>2. QED BY <2>1, NodeFacts DEF IsBefore, IInv
<1>3. CASE FindRight(t)
  BY <1>1, <1>3 DEF FindRight, HasFound, Searched
<1>4. CASE FindDown(t)
  <2>1. level[t] = Bottom /\ found'[t] = NoNode
    BY <1>1, <1>4 DEF FindDown, Descend, Goto, HasFound, Searched, TypeOK
  <2>2. ASSUME NEW n \in Built, Finds(S, n), KeyAt[n] = key[t] PROVE FALSE
    <3>1. KeyAt[nxt[prev[t]][Bottom]] <= KeyAt[n]
      BY <1>2, <2>2 DEF Finds
    <3>2. KeyAt[nxt[prev[t]][Bottom]] > KeyAt[n]
      BY <1>4, <2>1, <2>2 DEF FindDown, Ahead
    <3>3. nxt[prev[t]][Bottom] \in Built \cup {Tail}
      BY <1>1, <1>2, <2>1 DEF IInv, Sorted
    <3>4. QED BY <3>1, <3>2, <3>3, NodeFacts DEF IInv
  <2>3. QED BY <2>1, <2>2
<1>5. CASE FindHit(t)
  <2>1. found'[t] = nxt[prev[t]][level[t]] /\ KeyAt[nxt[prev[t]][level[t]]] = key[t]
    BY <1>1, <1>5 DEF FindHit, Ahead, TypeOK
  <2>2. nxt[prev[t]][level[t]] \in S
    BY <1>1, <1>2 DEF Track
  <2>3. QED BY <2>1, <2>2
<1>6. CASE FindAfter(t)
  BY <1>6 DEF FindAfter, HasFound
<1>7. QED
  BY <1>3, <1>4, <1>5, <1>6 DEF SearchStep

LEMMA FoundMoves ==
    ASSUME IInv, NEW t \in Threads, Invoke(t) \/ Step(t), NEW u \in Threads, HasFound(u)'
    PROVE  \/ HasFound(u) /\ found'[u] = found[u]
           \/ u = t /\ SearchStep(t)
<1>1. CASE u # t
  BY <1>1, StepLocals DEF IInv, SameLocals, HasFound, Searched
<1>2. CASE StartFind(t) /\ u = t
  <2>1. pc'[t] = "find"
    BY <1>2 DEF StartFind, Goto, IInv, TypeOK
  <2>2. QED BY <1>2, <2>1 DEF HasFound, Searched
<1>3. QED
  BY <1>1, <1>2, SearchSteps DEF HasFound, Searching

-----------------------------------------------------------------------------
(* SeenInv.                                                                *)

LEMMA SeenSearch ==
    ASSUME IInv, HeldInv, ListInv, AnswersInv, NEW t \in Threads, Invoke(t) \/ Step(t),
           NEW u \in Threads, Open(u)', map'[key'[u]] \in seen'[u], NULL \notin seen'[u],
           Searching(u)'
    PROVE  \E n \in Live' : KeyAt'[n] = key'[u] /\ OnTrack(u, n)'
<1>1. CASE prev'[u] = Head
  <2>1. LiveNodes' /\ MapIs' /\ HeadFinds' /\ TypeOK'
    BY LiveFactsNext, MapFactsNext, FromHeadNext, StepInv, HeldStep, ListStep
       DEF ListInv, IInv
  <2>2. key'[u] \in Keys /\ map'[key'[u]] # NULL
    BY <2>1 DEF TypeOK
  <2>3. PICK n \in Live' : KeyAt'[n] = key'[u]
    BY <2>1, <2>2 DEF MapIs
  <2>4. QED BY <1>1, <2>1, <2>3 DEF HeadFinds
<1>2. CASE Searching(u) /\ \A S : prev[u] \in S /\ Track(S) => prev'[u] \in S
  <2>1. ~(u = t /\ Invoke(t))
    BY <1>2 DEF Invoke, Searching
  <2>2. /\ Open(u) /\ key'[u] = key[u] /\ NULL \notin seen[u]
        /\ ~(RemoveMark(t) /\ key[t] = key[u])
    BY <2>1, OpenSteps
  <2>3. PICK n \in Live : KeyAt[n] = key[u] /\ OnTrack(u, n)
    BY <1>2, <2>2 DEF AnswersInv, SeenInv
  <2>4. n \in Live' /\ n \in Built /\ n \in Listed(Bottom)' /\ KeyAt'[n] = KeyAt[n]
    BY <2>2, <2>3, LiveGoes
  <2>5. PICK S \in SUBSET (Built \cup {Tail}) : prev[u] \in S /\ Track(S) /\ Finds(S, n)
    BY <2>3 DEF OnTrack
  <2>6. PICK R \in SUBSET (Built' \cup {Tail}) : S \subseteq R /\ Track(R)' /\ Finds(R, n)'
    BY <2>4, <2>5, TrackStep
  <2>7. prev'[u] \in R
    BY <1>2, <2>5, <2>6
  <2>8. OnTrack(u, n)'
    BY <2>6, <2>7 DEF OnTrack
  <2>9. QED BY <2>2, <2>3, <2>4, <2>8
<1>3. QED
  BY <1>1, <1>2, SearchMoves

LEMMA SeenFound ==
    ASSUME IInv, HeldInv, ListInv, AnswersInv, NEW t \in Threads, Invoke(t) \/ Step(t),
           NEW u \in Threads, Open(u)', NULL \notin seen'[u], HasFound(u)'
    PROVE  found'[u] \in Live'
<1>1. ~(u = t /\ Invoke(t))
  <2>1. SUFFICES ASSUME u = t, Invoke(t) PROVE FALSE
    OBVIOUS
  <2>2. pc'[t] = "find"
    BY <2>1 DEF Invoke, StartFind, Goto, IInv, TypeOK
  <2>3. QED BY <2>1, <2>2 DEF HasFound, Searched
<1>2. /\ Open(u) /\ key'[u] = key[u] /\ NULL \notin seen[u]
      /\ ~(RemoveMark(t) /\ key[t] = key[u])
  BY <1>1, OpenSteps
<1>3. CASE HasFound(u) /\ found'[u] = found[u]
  <2>1. found[u] \in Live /\ KeyAt[found[u]] = key[u]
    <3>1. found[u] \in Live /\ LiveNodes /\ SearchInv(u) /\ FoundInv(u)
      BY <1>2, <1>3, LiveFacts DEF AnswersInv, SeenInv, IInv, ThreadInv, ListInv
    <3>2. found[u] # NoNode
      BY <3>1, NodeFacts DEF LiveNodes, IInv
    <3>3. IsHit(u, found[u])
      BY <1>3, <3>1, <3>2 DEF HasFound, SearchInv, FoundInv
    <3>4. QED BY <3>1, <3>3 DEF IsHit
  <2>2. QED BY <1>2, <1>3, <2>1, LiveGoes
<1>4. CASE u = t /\ SearchStep(t) /\ ~(HasFound(u) /\ found'[u] = found[u])
  <2>1. Searching(u)
    BY <1>4 DEF SearchStep, FindRight, FindDown, FindHit, FindAfter, Searching
  <2>2. PICK n \in Live : KeyAt[n] = key[u] /\ OnTrack(u, n)
    BY <1>2, <2>1 DEF AnswersInv, SeenInv
  <2>3. PICK S \in SUBSET (Built \cup {Tail}) : prev[u] \in S /\ Track(S) /\ Finds(S, n)
    BY <2>2 DEF OnTrack
  <2>4. n \in Live' /\ n \in Built
    BY <1>2, <2>2, LiveGoes
  <2>5. found'[u] \in S /\ KeyAt[found'[u]] = key[u]
    BY <1>4, <2>2, <2>3, <2>4, SearchEnds
  <2>6. found'[u] = n
    BY <2>2, <2>3, <2>5 DEF Finds
  <2>7. QED BY <2>4, <2>6
<1>5. QED
  BY <1>3, <1>4, FoundMoves

\* A reader has tested what it has found for fully_linked, then for marked.
LEMMA ReadSteps ==
    ASSUME TypeOK, NEW t \in Threads, Invoke(t) \/ Step(t),
           pc'[t] \in {"read_marked", "read_element"}
    PROVE  /\ (LookupFound(t) /\ Readable(t)) \/ (LookupMarked(t) /\ found[t] \notin marked)
           /\ pc'[t] = "read_element" => LookupMarked(t)
           /\ UNCHANGED <<shared, request, found, took, history>>
<1>0. pc \in [Threads -> PCs]
  BY DEF TypeOK
<1> USE DEF Answer, Goto, search
<1>1. CASE Invoke(t) \/ Return(t) \/ UnlockElement(t) \/ PutDone(t)
  BY <1>0, <1>1 DEF Invoke, Return, UnlockElement, PutDone, StartFind
<1>2. CASE FindRight(t) \/ FindDown(t) \/ FindHit(t) \/ FindAfter(t)
  BY <1>0, <1>2 DEF FindRight, FindDown, FindHit, FindAfter, Descend
<1>3. CASE LookupFound(t)
  <2>1. Readable(t) /\ pc'[t] = "read_marked" /\ UNCHANGED <<shared, request, found, took, history>>
    BY <1>0, <1>3 DEF LookupFound
  <2>2. QED BY <1>3, <2>1
<1>4. CASE LookupMarked(t)
  <2>1. found[t] \notin marked /\ UNCHANGED <<shared, request, found, took, history>>
    BY <1>0, <1>4 DEF LookupMarked
  <2>2. QED BY <1>4, <2>1
<1>5. CASE LookupElement(t) \/ LockPred(t) \/ UnlockPred(t)
  BY <1>0, <1>5 DEF LookupElement, LockPred, UnlockPred
<1>6. CASE CheckFails(t) \/ CheckNext(t) \/ CheckDone(t)
  BY <1>0, <1>6 DEF CheckFails, CheckNext, CheckDone
<1>7. CASE PutAbsent(t) \/ PutFound(t) \/ PutNewFound(t) \/ PutNewDone(t)
  BY <1>0, <1>7 DEF PutAbsent, PutFound, PutNewFound, PutNewDone, StartLocking
<1>8. CASE Fill(t) \/ Link(t) \/ Unlink(t) \/ Publish(t)
  BY <1>0, <1>8 DEF Fill, Link, Unlink, Publish, NextLevelUp
<1>9. CASE WaitLinked(t) \/ LockElement(t) \/ LostRace(t) \/ PutOver(t)
  BY <1>0, <1>9 DEF WaitLinked, LockElement, LostRace, PutOver, StartLocking
<1>10. CASE RemoveMark(t) \/ RemoveFound(t) \/ RemoveUnlocked(t)
  BY <1>0, <1>10 DEF RemoveMark, RemoveFound, RemoveUnlocked, StartLocking
<1>11. QED
  BY <1>1, <1>2, <1>3, <1>4, <1>5, <1>6, <1>7, <1>8, <1>9, <1>10 DEF Step

LEMMA ReadOwn ==
    ASSUME IInv, HeldInv, ListInv, AnswersInv, NEW t \in Threads, Invoke(t) \/ Step(t),
           pc'[t] \in {"read_marked", "read_element"}
    PROVE  /\ found'[t] \in fully_linked'
           /\ pc'[t] = "read_element" => element'[found'[t]] \in seen'[t]
<1>1. /\ (LookupFound(t) /\ Readable(t)) \/ (LookupMarked(t) /\ found[t] \notin marked)
      /\ pc'[t] = "read_element" => LookupMarked(t)
      /\ UNCHANGED <<element, fully_linked, found, seen>>
  BY ReadSteps DEF IInv, shared, history
<1>2. found[t] \in fully_linked
  BY <1>1 DEF Readable, LookupMarked, AnswersInv, SeenInv
<1>3. ASSUME LookupMarked(t), found[t] \notin marked PROVE element[found[t]] \in seen[t]
  <2>1. pc[t] = "read_marked" /\ ReadOp(t) /\ found[t] # NoNode /\ Searched(t)
    BY <1>3 DEF LookupMarked, IInv, ThreadInv, ControlInv, Searched
  <2>2. found[t] \in heap /\ KeyAt[found[t]] = key[t] /\ key[t] \in Keys
    BY <2>1, FoundFacts
  <2>3. found[t] \in Live
    BY <1>2, <1>3, <2>2 DEF Live
  <2>4. map[key[t]] = element[found[t]]
    BY <2>2, <2>3, LiveFacts, MapFacts DEF MapIs, ListInv
  <2>5. map[key[t]] \in seen[t]
    BY <2>1 DEF AnswersInv, AnswerInv, SeenInv, Open
  <2>6. QED BY <2>4, <2>5
<1>4. ASSUME pc'[t] = "read_element" PROVE LookupMarked(t) /\ found[t] \notin marked
  <2>1. LookupMarked(t) /\ pc[t] = "read_marked"
    BY <1>1, <1>4 DEF LookupMarked
  <2>2. ~LookupFound(t)
    BY <2>1 DEF LookupFound
  <2>3. QED BY <1>1, <2>1, <2>2
<1>5. QED
  BY <1>1, <1>2, <1>3, <1>4

LEMMA ReadOther ==
    ASSUME IInv, HeldInv, ListInv, AnswersInv, NEW t \in Threads, Invoke(t) \/ Step(t),
           NEW u \in Threads, u # t, pc'[u] \in {"read_marked", "read_element"}
    PROVE  /\ found'[u] \in fully_linked'
           /\ pc'[u] = "read_element" => element'[found'[u]] \in seen'[u]
<1>1. pc'[u] = pc[u] /\ found'[u] = found[u] /\ took'[u] = took[u]
  BY StepLocals DEF IInv, SameLocals
<1>2. /\ found[u] \in fully_linked /\ Open(u) /\ Open(u)'
      /\ found[u] # NoNode /\ Searched(u)
  <2>1. ControlInv(u) /\ SeenInv(u) /\ AnswerInv(u)
    BY DEF IInv, ThreadInv, AnswersInv
  <2>2. QED BY <1>1, <2>1 DEF ControlInv, SeenInv, AnswerInv, Open, Searched
<1>3. fully_linked \subseteq fully_linked'
  BY StepGuarantee DEF Guarantee, KeepsOthers
<1>4. ASSUME pc[u] = "read_element" PROVE element'[found[u]] \in seen'[u]
  <2>1. element[found[u]] \in seen[u] /\ map'[key[u]] \in seen'[u] /\ seen[u] \subseteq seen'[u]
    BY <1>2, <1>4, OpenSteps DEF AnswersInv, SeenInv
  <2>2. CASE element'[found[u]] = element[found[u]]
    BY <2>1, <2>2
  <2>3. CASE element'[found[u]] # element[found[u]]
    <3>1. PutOver(t) /\ found[u] = found[t]
      BY <1>2, <2>3, ElementOnly
    <3>2. KeyAt[found[u]] = key[u] /\ key[u] \in Keys
      BY <1>2, FoundFacts
    <3>3. key[t] = key[u] /\ map' = [map EXCEPT ![key[t]] = arg[t]]
      BY <3>1, <3>2, MapPutOver
    <3>4. element'[found[u]] = arg[t]
      BY <3>1, PutOverFacts
    <3>5. map = [k \in Keys |-> map[k]]
      BY DEF map
    <3>6. map'[key[u]] = arg[t]
      BY <3>2, <3>3, <3>5
    <3>7. QED BY <2>1, <3>4, <3>6
  <2>4. QED BY <2>2, <2>3
<1>5. QED
  BY <1>1, <1>2, <1>3, <1>4

LEMMA SeenStep ==
    ASSUME IInv, HeldInv, ListInv, AnswersInv, NEW t \in Threads, Invoke(t) \/ Step(t),
           NEW u \in Threads
    PROVE  SeenInv(u)'
<1>1. ASSUME Open(u)' PROVE map'[key'[u]] \in seen'[u]
  <2>1. CASE u = t /\ Invoke(t)
    <3>1. map' = map /\ TypeOK
      BY <2>1, MapKept DEF Effective, Invoke, Publish, PutOver, RemoveMark, IInv
    <3>2. PICK c \in CallsOf[t] : /\ key' = [key EXCEPT ![t] = c.key]
                                  /\ seen' = [seen EXCEPT ![t] = {map[c.key]}]
      BY <2>1 DEF Invoke
    <3>3. QED BY <2>1, <3>1, <3>2 DEF TypeOK
  <2>2. QED BY <1>1, <2>1, OpenSteps
<1>2. ASSUME Open(u)', NULL \notin seen'[u], Searching(u)'
      PROVE  \E n \in Live' : KeyAt'[n] = key'[u] /\ OnTrack(u, n)'
  BY <1>1, <1>2, SeenSearch
<1>3. ASSUME Open(u)', NULL \notin seen'[u], HasFound(u)' PROVE found'[u] \in Live'
  BY <1>3, SeenFound
<1>4. ASSUME pc'[u] \in {"read_marked", "read_element"}
      PROVE  /\ found'[u] \in fully_linked'
             /\ pc'[u] = "read_element" => element'[found'[u]] \in seen'[u]
  BY <1>4, ReadOwn, ReadOther
<1>5. QED
  BY <1>1, <1>2, <1>3, <1>4 DEF SeenInv

-----------------------------------------------------------------------------
(* RacedInv.                                                               *)

\* A call keeps its key until it has returned.
LEMMA KeyKept ==
    ASSUME NEW t \in Threads, Invoke(t) \/ Step(t), pc[t] \notin {"idle", "return"}
    PROVE  op' = op /\ key' = key /\ arg' = arg
<1> USE DEF request
<1>1. CASE Invoke(t) \/ Return(t)
  BY <1>1 DEF Invoke, Return
<1>2. CASE FindRight(t) \/ FindDown(t) \/ FindHit(t) \/ FindAfter(t)
  BY <1>2 DEF FindRight, FindDown, FindHit, FindAfter
<1>3. CASE LookupFound(t) \/ LookupMarked(t) \/ LookupElement(t)
  BY <1>3 DEF LookupFound, LookupMarked, LookupElement
<1>4. CASE LockPred(t) \/ CheckFails(t) \/ CheckNext(t) \/ CheckDone(t) \/ UnlockPred(t)
  BY <1>4 DEF LockPred, CheckFails, CheckNext, CheckDone, UnlockPred
<1>5. CASE PutAbsent(t) \/ PutFound(t) \/ PutNewFound(t) \/ PutDone(t) \/ PutNewDone(t)
  BY <1>5 DEF PutAbsent, PutFound, PutNewFound, PutDone, PutNewDone
<1>6. CASE Fill(t) \/ Link(t) \/ Publish(t) \/ Unlink(t)
  BY <1>6 DEF Fill, Link, Publish, Unlink
<1>7. CASE WaitLinked(t) \/ LockElement(t) \/ LostRace(t) \/ PutOver(t)
  BY <1>7 DEF WaitLinked, LockElement, LostRace, PutOver
<1>8. CASE RemoveMark(t) \/ UnlockElement(t) \/ RemoveFound(t) \/ RemoveUnlocked(t)
  BY <1>8 DEF RemoveMark, UnlockElement, RemoveFound, RemoveUnlocked
<1>9. QED
  BY <1>1, <1>2, <1>3, <1>4, <1>5, <1>6, <1>7, <1>8 DEF Step

\* A removal under way has the key it was called with.
LEMMA PendingKey ==
    ASSUME IInv, HeldInv, ListInv, NEW t \in Threads, Invoke(t) \/ Step(t),
           NEW v \in Threads, Pending(v)'
    PROVE  key'[v] = key[v] /\ (Pending(v) \/ (v = t /\ RemoveMark(t)))
<1>1. CASE v # t
  BY <1>1, VictimOther, StepLocals DEF SameLocals, IInv
<1>2. CASE v = t
  <2>1. Pending(t) \/ RemoveMark(t)
    BY <1>2, PendingSteps
  <2>2. CASE RemoveMark(t)
    BY <1>2, <2>2 DEF RemoveMark, request
  <2>3. CASE Pending(t)
    <3>1. pc[t] \notin {"idle", "return"}
      BY <2>3, PendingFacts
    <3>2. QED BY <1>2, <2>3, <3>1, KeyKept
  <2>4. QED BY <2>1, <2>2, <2>3
<1>3. QED
  BY <1>1, <1>2

LEMMA RacedKeys ==
    ASSUME IInv, HeldInv, ListInv, AnswersInv, NEW t \in Threads, Invoke(t) \/ Step(t),
           NEW u \in Threads, Open(u)', ~raced'[u], NEW v \in Threads, Pending(v)'
    PROVE  key'[v] # key'[u]
<1>1. key'[v] = key[v] /\ (Pending(v) \/ (v = t /\ RemoveMark(t)))
  BY PendingKey
<1>2. CASE u = t /\ Invoke(t)
  <2>1. pc[t] = "idle" /\ ~RemoveMark(t) /\ TypeOK
    BY <1>2 DEF Invoke, RemoveMark, IInv
  <2>2. Pending(v) /\ v # t
    BY <1>1, <2>1, PendingFacts
  <2>3. PICK c \in CallsOf[t] : /\ key' = [key EXCEPT ![t] = c.key]
                                /\ raced' = [raced EXCEPT ![t] = Removing(c.key)]
    BY <1>2 DEF Invoke
  <2>4. key'[t] = c.key /\ raced'[t] = Removing(c.key)
    BY <2>1, <2>3 DEF TypeOK
  <2>5. op[v] = "remove" /\ took[v]
    BY <2>2 DEF Pending
  <2>6. QED BY <1>1, <1>2, <2>4, <2>5 DEF Removing
<1>3. CASE ~(u = t /\ Invoke(t))
  <2>1. /\ Open(u) /\ key'[u] = key[u] /\ ~raced[u]
        /\ ~(RemoveMark(t) /\ key[t] = key[u])
    BY <1>3, OpenSteps
  <2>2. Pending(v) => key[v] # key[u]
    BY <2>1 DEF AnswersInv, RacedInv
  <2>3. QED BY <1>1, <2>1, <2>2
<1>4. QED
  BY <1>2, <1>3

LEMMA RacedSearch ==
    ASSUME IInv, HeldInv, ListInv, AnswersInv, NEW t \in Threads, Invoke(t) \/ Step(t),
           NEW u \in Threads, Open(u)', ~raced'[u], Searching(u)'
    PROVE  OffMarked(u)'
<1>1. \A v \in Threads : Pending(v)' => key'[v] # key'[u]
  BY RacedKeys
<1>2. CASE prev'[u] = Head
  <2>1. HeadFinds'
    BY FromHeadNext, StepInv, HeldStep, ListStep
  <2>2. QED BY <1>1, <1>2, <2>1 DEF HeadFinds
<1>3. CASE Searching(u) /\ \A S : prev[u] \in S /\ Track(S) => prev'[u] \in S
  <2>1. ~(u = t /\ Invoke(t))
    BY <1>3 DEF Invoke, Searching
  <2>2. /\ Open(u) /\ key'[u] = key[u] /\ ~raced[u]
        /\ ~(RemoveMark(t) /\ key[t] = key[u])
    BY <2>1, OpenSteps
  <2>3. PICK S \in SUBSET (Built \cup {Tail}) :
          /\ prev[u] \in S /\ Track(S)
          /\ \A m \in S : KeyAt[m] = key[u] => m \notin marked
    BY <1>3, <2>2 DEF AnswersInv, RacedInv, OffMarked
  <2>4. PICK R \in SUBSET (Built' \cup {Tail}) :
          S \subseteq R /\ (\A m \in R : m \in S \/ m \in Attached') /\ Track(R)'
    <3>1. Head \in Built /\ Finds(S, Head)
      <4>1. /\ Head \in Built /\ KeyAt[Head] = -1
            /\ \A m \in S : m # Head => KeyAt[m] \in Nat
        <5>1. \A m \in Built \cup {Tail} : m # Head => KeyAt[m] \in Nat
          BY NodeFacts, MaxKeyAssumption DEF IInv, Keys
        <5>2. QED BY <5>1, NodeFacts DEF IInv
      <4>2. QED BY <4>1 DEF Finds
    <3>2. Head \in Listed(Bottom)'
      <4>1. PICK L : L = Listed(Bottom)' /\ IsList(Bottom, L)'
        BY ListsStep
      <4>2. QED BY <4>1 DEF IsList, IsChain
    <3>3. QED BY <2>3, <3>1, <3>2, TrackStep
  <2>5. ASSUME NEW m \in R, KeyAt'[m] = key'[u] PROVE m \notin marked'
    <3>1. CASE m \in Attached'
      <4>1. HasRemover'
        BY HasRemoverStep
      <4>2. ASSUME m \in marked' PROVE FALSE
        <5>1. PICK v \in Threads : Pending(v)' /\ VictimOf(v, m)'
          BY <3>1, <4>1, <4>2 DEF HasRemover
        <5>2. KeyAt'[m] = key'[v]
          BY <5>1 DEF VictimOf
        <5>3. QED BY <1>1, <2>5, <5>1, <5>2
      <4>3. QED BY <4>2
    <3>2. CASE m \in S
      <4>1. KeyAt'[m] = KeyAt[m]
        BY <3>2, StepGuarantee DEF Guarantee, KeepsOthers, KeepsBuilt, KeepsNode
      <4>2. m \notin marked /\ KeyAt[m] = key[u]
        BY <2>2, <2>3, <2>5, <3>2, <4>1
      <4>3. CASE RemoveMark(t)
        <5>1. marked' = marked \cup {found[t]} /\ KeyAt[found[t]] = key[t]
          BY <4>3, MapRemove DEF RemoveMark
        <5>2. QED BY <2>2, <4>2, <4>3, <5>1
      <4>4. QED BY <4>2, <4>3, MarkOnly
    <3>3. QED BY <2>4, <3>1, <3>2
  <2>6. prev'[u] \in R
    BY <1>3, <2>3, <2>4
  <2>7. QED BY <2>4, <2>5, <2>6 DEF OffMarked
<1>4. QED
  BY <1>2, <1>3, SearchMoves

LEMMA RacedFound ==
    ASSUME IInv, HeldInv, ListInv, AnswersInv, NEW t \in Threads, Invoke(t) \/ Step(t),
           NEW u \in Threads, Open(u)', ~raced'[u], HasFound(u)'
    PROVE  found'[u] \notin marked'
<1>1. ~(u = t /\ Invoke(t))
  <2>1. SUFFICES ASSUME u = t, Invoke(t) PROVE FALSE
    OBVIOUS
  <2>2. pc'[t] = "find"
    BY <2>1 DEF Invoke, StartFind, Goto, IInv, TypeOK
  <2>3. QED BY <2>1, <2>2 DEF HasFound, Searched
<1>2. /\ Open(u) /\ key'[u] = key[u] /\ ~raced[u]
      /\ ~(RemoveMark(t) /\ key[t] = key[u])
  BY <1>1, OpenSteps
<1>3. CASE HasFound(u) /\ found'[u] = found[u]
  <2>1. found[u] \notin marked
    BY <1>2, <1>3 DEF AnswersInv, RacedInv
  <2>2. CASE RemoveMark(t)
    <3>1. /\ marked' = marked \cup {found[t]} /\ KeyAt[found[t]] = key[t]
          /\ found[t] # NoNode
      <4>1. found[t] \in Live /\ KeyAt[found[t]] = key[t]
        BY <2>2, MapRemove
      <4>2. found[t] # NoNode
        BY <4>1, NodeFacts DEF IInv, Live
      <4>3. marked' = marked \cup {found[t]}
        BY <2>2 DEF RemoveMark
      <4>4. QED BY <4>1, <4>2, <4>3
    <3>2. found[u] = found[t] => KeyAt[found[t]] = key[u]
      BY <1>3, <3>1 DEF HasFound, IInv, ThreadInv, SearchInv, FoundInv, Searching, IsHit
    <3>3. QED BY <1>2, <1>3, <2>1, <2>2, <3>1, <3>2
  <2>3. QED BY <1>3, <2>1, <2>2, MarkOnly
<1>4. CASE u = t /\ SearchStep(t) /\ ~(HasFound(u) /\ found'[u] = found[u])
  <2>1. Searching(u) /\ ~RemoveMark(t)
    BY <1>4 DEF SearchStep, FindRight, FindDown, FindHit, FindAfter, Searching, RemoveMark
  <2>2. PICK S \in SUBSET (Built \cup {Tail}) :
          /\ prev[u] \in S /\ Track(S)
          /\ \A m \in S : KeyAt[m] = key[u] => m \notin marked
    BY <1>2, <2>1 DEF AnswersInv, RacedInv, OffMarked
  <2>3. (found'[u] \in S /\ KeyAt[found'[u]] = key[u]) \/ found'[u] = NoNode
    BY <1>4, <2>2, SearchEnds
  <2>4. found'[u] \notin marked
    BY <2>2, <2>3, NodeFacts DEF IInv, HeapInv
  <2>5. QED BY <2>1, <2>4, MarkOnly
<1>5. QED
  BY <1>3, <1>4, FoundMoves

LEMMA RacedStep ==
    ASSUME IInv, HeldInv, ListInv, AnswersInv, NEW t \in Threads, Invoke(t) \/ Step(t),
           NEW u \in Threads
    PROVE  RacedInv(u)'
<1>1. ASSUME Open(u)', ~raced'[u], NEW v \in Threads, Pending(v)' PROVE key'[v] # key'[u]
  BY <1>1, RacedKeys
<1>2. ASSUME Open(u)', ~raced'[u], Searching(u)' PROVE OffMarked(u)'
  BY <1>2, RacedSearch
<1>3. ASSUME Open(u)', ~raced'[u], HasFound(u)' PROVE found'[u] \notin marked'
  BY <1>3, RacedFound
<1>4. QED
  BY <1>1, <1>2, <1>3 DEF RacedInv

-----------------------------------------------------------------------------
(* AnswerInv.                                                              *)

\* Nobody else touches the element of a node that is not linked yet.
LEMMA BuildingKept ==
    ASSUME IInv, HeldInv, NEW t \in Threads, Invoke(t) \/ Step(t),
           NEW u \in Threads, u # t, node[u] # NoNode, ~took[u]
    PROVE  element'[node[u]] = element[node[u]]
<1>1. /\ node[u] \in heap /\ node[u] \in Node /\ node[u] # node[t]
      /\ node[u] \notin fully_linked
  BY NodeFacts DEF IInv, ThreadInv, NodeInv, HeldInv, LinkedInv
<1>2. CASE LocalAction(t)
  BY <1>2, LocalActionFacts DEF shared
<1>3. CASE LockPred(t) \/ UnlockPred(t) \/ LockElement(t) \/ UnlockElement(t)
  BY <1>3 DEF LockPred, UnlockPred, LockElement, UnlockElement
<1>4. CASE Fill(t) \/ Link(t) \/ Unlink(t) \/ Publish(t) \/ RemoveMark(t)
  BY <1>4 DEF Fill, Link, Unlink, Publish, RemoveMark
<1>5. CASE PutAbsent(t)
  BY <1>1, <1>5, PutAbsentFacts
<1>6. CASE PutDone(t)
  BY <1>1, <1>6, PutDoneFacts DEF nodeFields
<1>7. CASE PutOver(t)
  <2>1. pc[t] = "locked" /\ LinkedInv(t) /\ ~took[t]
    BY <1>7, PutOverFacts DEF HeldInv
  <2>2. found[t] \in fully_linked
    BY <2>1 DEF LinkedInv
  <2>3. QED BY <1>1, <1>7, <2>2, PutOverFacts
<1>8. QED
  BY <1>2, <1>3, <1>4, <1>5, <1>6, <1>7 DEF Step, LocalAction

LEMMA AnswerOther ==
    ASSUME IInv, HeldInv, NEW t \in Threads, Invoke(t) \/ Step(t),
           NEW u \in Threads, u # t, AnswerInv(u)
    PROVE  AnswerInv(u)'
<1>1. SameLocals(u) /\ result'[u] = result[u]
  BY StepLocals DEF IInv
<1>2. QED
  BY <1>1, BuildingKept DEF AnswerInv, SameLocals, ReadOp

LEMMA AnswerOwn ==
    ASSUME IInv, HeldInv, NEW t \in Threads, Invoke(t) \/ Step(t), AnswerInv(t)
    PROVE  AnswerInv(t)'
<1>0. /\ pc \in [Threads -> PCs] /\ op \in [Threads -> Ops \cup {"none"}]
      /\ arg \in [Threads -> Elements \cup {NULL}]
      /\ node \in [Threads -> Nodes \cup {NoNode}]
      /\ took \in [Threads -> BOOLEAN] /\ valid \in [Threads -> BOOLEAN]
      /\ result \in [Threads -> Answers] /\ element \in [Node -> Elements \cup {NULL}]
      /\ ControlInv(t) /\ NodeInv(t)
  BY DEF IInv, TypeOK, ThreadInv
<1> USE DEF AnswerInv, ReadOp, Goto, Answer, request
<1>1. CASE Invoke(t)
  BY <1>0, <1>1 DEF Invoke, ControlInv, NodeInv, StartFind, shared
<1>2. CASE Return(t)
  BY <1>0, <1>2 DEF Return
<1>3. CASE FindRight(t) \/ FindDown(t) \/ FindHit(t) \/ FindAfter(t)
  BY <1>0, <1>3 DEF FindRight, FindDown, FindHit, FindAfter, Descend, shared
<1>4. CASE LookupFound(t) \/ LookupMarked(t) \/ LookupElement(t)
  BY <1>0, <1>4 DEF LookupFound, LookupMarked, LookupElement, shared, ControlInv
<1>5. CASE LockPred(t) \/ UnlockPred(t)
  BY <1>0, <1>5 DEF LockPred, UnlockPred
<1>6. CASE CheckFails(t) \/ CheckNext(t) \/ CheckDone(t)
  BY <1>0, <1>6 DEF CheckFails, CheckNext, CheckDone, shared
<1>7. CASE PutAbsent(t)
  <2>1. PICK n \in Nodes : /\ element' = [element EXCEPT ![n] = arg[t]]
                           /\ node' = [node EXCEPT ![t] = n]
    BY <1>7 DEF PutAbsent
  <2>2. node'[t] = n /\ element'[n] = arg[t]
    BY <1>0, <2>1 DEF Node
  <2>3. pc'[t] = "lock" /\ op' = op /\ arg' = arg /\ took' = took
    BY <1>0, <1>7 DEF PutAbsent, StartLocking
  <2>4. QED BY <2>2, <2>3
<1>8. CASE PutFound(t) \/ PutNewFound(t) \/ PutNewDone(t)
  BY <1>0, <1>8 DEF PutFound, PutNewFound, PutNewDone, shared
<1>9. CASE PutDone(t)
  BY <1>0, <1>9 DEF PutDone, StartFind
<1>10. CASE Fill(t) \/ Link(t)
  BY <1>0, <1>10 DEF Fill, Link, NextLevelUp
<1>11. CASE Unlink(t)
  BY <1>0, <1>11 DEF Unlink, NextLevelUp, ControlInv
<1>12. CASE Publish(t)
  BY <1>0, <1>12 DEF Publish, TakeEffect, ControlInv, IsPut
<1>13. CASE PutOver(t)
  BY <1>0, <1>13 DEF PutOver, TakeEffect
<1>14. CASE RemoveMark(t)
  BY <1>0, <1>14 DEF RemoveMark, TakeEffect, StartLocking
<1>15. CASE WaitLinked(t) \/ LostRace(t) \/ RemoveFound(t) \/ RemoveUnlocked(t)
  BY <1>0, <1>15 DEF WaitLinked, LostRace, RemoveFound, RemoveUnlocked, shared
<1>16. CASE LockElement(t)
  BY <1>0, <1>16 DEF LockElement, StartLocking
<1>17. CASE UnlockElement(t)
  BY <1>0, <1>17 DEF UnlockElement, StartFind
<1>18. QED
  BY <1>1, <1>2, <1>3, <1>4, <1>5, <1>6, <1>7, <1>8, <1>9, <1>10, <1>11, <1>12, <1>13,
     <1>14, <1>15, <1>16, <1>17 DEF Step

-----------------------------------------------------------------------------
(* AnswersInv holds in every reachable state.                              *)

LEMMA AnswersStep ==
    ASSUME IInv, HeldInv, ListInv, AnswersInv, NEW t \in Threads, Invoke(t) \/ Step(t)
    PROVE  AnswersInv'
<1>1. ASSUME NEW u \in Threads PROVE AnswerInv(u)'
  BY AnswerOwn, AnswerOther DEF AnswersInv
<1>2. QED
  BY <1>1, SeenStep, RacedStep DEF AnswersInv

LEMMA AnswersInit == Init => AnswersInv
<1>1. SUFFICES ASSUME Init, NEW t \in Threads
               PROVE  SeenInv(t) /\ RacedInv(t) /\ AnswerInv(t)
  BY DEF AnswersInv
<1>2. pc[t] = "idle" /\ op[t] = "none" /\ node[t] = NoNode
  BY <1>1 DEF Init
<1>3. QED
  BY <1>2 DEF SeenInv, RacedInv, AnswerInv, Open, ReadOp

LEMMA AnswersStutter ==
    ASSUME AnswersInv, UNCHANGED vars
    PROVE  AnswersInv'
<1> USE DEF vars, shared, request, search, history
<1>1. /\ Built' = Built /\ KeyAt' = KeyAt /\ Live' = Live
      /\ \A S : Track(S)' <=> Track(S)
  BY DEF Built, KeyAt, Live, Track
<1>2. map' = map
  <2>1. /\ heap' = heap /\ element' = element /\ marked' = marked
        /\ fully_linked' = fully_linked
    OBVIOUS
  <2>2. QED BY <2>1 DEF map, Bound, Live, KeyAt
<1>3. ASSUME NEW u \in Threads
      PROVE  /\ Open(u)' <=> Open(u)
             /\ Searching(u)' <=> Searching(u)
             /\ HasFound(u)' <=> HasFound(u)
             /\ Pending(u)' <=> Pending(u)
             /\ OffMarked(u)' <=> OffMarked(u)
             /\ \A n : OnTrack(u, n)' <=> OnTrack(u, n)
  <2>1. /\ Open(u)' <=> Open(u)
        /\ Searching(u)' <=> Searching(u)
        /\ HasFound(u)' <=> HasFound(u)
        /\ Pending(u)' <=> Pending(u)
    BY DEF Open, Searching, HasFound, Searched, Pending
  <2>2. OffMarked(u)' <=> OffMarked(u)
    BY <1>1 DEF OffMarked
  <2>3. \A n : OnTrack(u, n)' <=> OnTrack(u, n)
    BY <1>1 DEF OnTrack, Finds
  <2>4. QED BY <2>1, <2>2, <2>3
<1>4. ASSUME NEW u \in Threads PROVE SeenInv(u)' /\ RacedInv(u)' /\ AnswerInv(u)'
  <2>1. SeenInv(u)'
    BY <1>1, <1>2, <1>3 DEF AnswersInv, SeenInv
  <2>2. RacedInv(u)'
    BY <1>3 DEF AnswersInv, RacedInv
  <2>3. AnswerInv(u)'
    BY DEF AnswersInv, AnswerInv, ReadOp
  <2>4. QED BY <2>1, <2>2, <2>3
<1>5. QED
  BY <1>4 DEF AnswersInv

LEMMA AnswersNext == IInv /\ HeldInv /\ ListInv /\ AnswersInv /\ [Next]_vars => AnswersInv'
<1>1. ASSUME IInv, HeldInv, ListInv, AnswersInv, NEW t \in Threads, Invoke(t) \/ Step(t)
      PROVE  AnswersInv'
  BY <1>1, AnswersStep
<1>2. ASSUME AnswersInv, UNCHANGED vars PROVE AnswersInv'
  BY <1>2, AnswersStutter
<1>3. QED
  BY <1>1, <1>2 DEF Next, Terminated

\* In every reachable state a call under way has seen what its key is bound to,
\* and its search comes to the live node with its key, if its key has always
\* been bound since the call; to a marked one only if a removal has overlapped it.
THEOREM AnswersInvariance == Spec => []AnswersInv
<1>1. Init => IInv /\ HeldInv /\ ListInv /\ AnswersInv
  BY InitInv, HeldInit, ListInit, AnswersInit
<1>2. (IInv /\ HeldInv /\ ListInv /\ AnswersInv) /\ [Next]_vars
      => (IInv /\ HeldInv /\ ListInv /\ AnswersInv)'
  BY NextInv, HeldNext, ListNext, AnswersNext
<1>3. QED
  BY <1>1, <1>2, PTL DEF Spec

-----------------------------------------------------------------------------
(* Every step of the skiplist is a step of the key-value set, or none.     *)

\* The steps that may answer.
Answering(t) ==
    /\ pc'[t] = "return" /\ took' = took
    /\ \/ LookupFound(t) \/ LookupMarked(t) \/ LookupElement(t)
       \/ PutFound(t) \/ PutNewFound(t) \/ PutDone(t) \/ PutNewDone(t)
       \/ RemoveFound(t) \/ UnlockElement(t)

LEMMA StepKinds ==
    ASSUME TypeOK, NEW t \in Threads, Step(t)
    PROVE  \/ Effective(t) \/ Return(t) \/ Answering(t)
           \/ pc'[t] \notin {"idle", "return"} /\ UNCHANGED <<took, result, history>>
<1>0. pc \in [Threads -> PCs]
  BY DEF TypeOK
<1> USE DEF Answer, Goto
<1>1. CASE FindRight(t) \/ FindDown(t) \/ FindHit(t) \/ FindAfter(t)
  BY <1>0, <1>1 DEF FindRight, FindDown, FindHit, FindAfter, Descend
<1>2. CASE LookupFound(t) \/ LookupMarked(t) \/ LookupElement(t)
  <2>1. took' = took /\ (pc'[t] = "return" \/ (pc'[t] \notin {"idle", "return"}
                                              /\ UNCHANGED <<result, history>>))
    BY <1>0, <1>2 DEF LookupFound, LookupMarked, LookupElement
  <2>2. QED BY <1>2, <2>1 DEF Answering
<1>3. CASE LockPred(t) \/ CheckFails(t) \/ CheckNext(t) \/ CheckDone(t) \/ UnlockPred(t)
  BY <1>0, <1>3 DEF LockPred, CheckFails, CheckNext, CheckDone, UnlockPred
<1>4. CASE PutFound(t) \/ PutNewFound(t) \/ PutNewDone(t) \/ PutDone(t)
  <2>1. took' = took /\ (pc'[t] = "return" \/ (pc'[t] \notin {"idle", "return"}
                                              /\ UNCHANGED <<result, history>>))
    BY <1>0, <1>4 DEF PutFound, PutNewFound, PutNewDone, PutDone, StartFind
  <2>2. QED BY <1>4, <2>1 DEF Answering
<1>5. CASE RemoveFound(t) \/ UnlockElement(t)
  <2>1. took' = took /\ (pc'[t] = "return" \/ (pc'[t] \notin {"idle", "return"}
                                              /\ UNCHANGED <<result, history>>))
    BY <1>0, <1>5 DEF RemoveFound, UnlockElement, StartFind
  <2>2. QED BY <1>5, <2>1 DEF Answering
<1>6. CASE PutAbsent(t) \/ Fill(t) \/ Link(t) \/ Unlink(t)
  BY <1>0, <1>6 DEF PutAbsent, Fill, Link, Unlink, StartLocking, NextLevelUp
<1>7. CASE WaitLinked(t) \/ LockElement(t) \/ LostRace(t) \/ RemoveUnlocked(t)
  BY <1>0, <1>7 DEF WaitLinked, LockElement, LostRace, RemoveUnlocked, StartLocking
<1>8. QED
  BY <1>1, <1>2, <1>3, <1>4, <1>5, <1>6, <1>7 DEF Step, Effective

\* A step inside a call that changes nothing the set is about leaves it alone.
LEMMA SetUnchanged ==
    ASSUME IInv, NEW t \in Threads, Step(t), UNCHANGED <<map, took, result, history>>,
           pc[t] \notin {"idle", "return"}, pc'[t] \notin {"idle", "return"}
    PROVE  UNCHANGED KV!vars
<1>1. ASSUME NEW u \in Threads
      PROVE  (pc'[u] = "idle" <=> pc[u] = "idle") /\ (pc'[u] = "return" <=> pc[u] = "return")
  BY StepLocals DEF SameLocals, IInv
<1>2. UNCHANGED <<op, key, arg>>
  BY KeyKept
<1>3. QED
  BY <1>1, <1>2 DEF KV!vars, history

\* The last step of a call.
LEMMA SetFinishes ==
    ASSUME NEW t \in Threads, TypeOK, map' = map, UNCHANGED <<request, took>>,
           pc[t] \notin {"idle", "return"}, NEW r, Answer(t, r)
    PROVE  KV!Finish(t, r)
<1>1. pc \in [Threads -> PCs] /\ pc' = [pc EXCEPT ![t] = "return"]
  BY DEF TypeOK, Answer, Goto
<1>2. QED
  BY <1>1 DEF KV!Finish, Answer, request

\* The step at which a call takes effect.
LEMMA SetTakesEffect ==
    ASSUME NEW t \in Threads, TypeOK, UNCHANGED request, ~took[t],
           pc[t] \notin {"idle", "return"}, NEW label, Goto(t, label),
           label \notin {"idle", "return"},
           NEW e, TakeEffect(t, e), map' = [map EXCEPT ![key[t]] = e],
           NEW r, result' = [result EXCEPT ![t] = r]
    PROVE  KV!Effect(t, e, r, e = NULL)
<1>1. pc \in [Threads -> PCs] /\ pc' = [pc EXCEPT ![t] = label]
  BY DEF TypeOK, Goto
<1>2. ASSUME NEW u \in Threads
      PROVE  (pc'[u] = "idle" <=> pc[u] = "idle") /\ (pc'[u] = "return" <=> pc[u] = "return")
  BY <1>1
<1>3. QED
  BY <1>2 DEF KV!Effect, TakeEffect, request

LEMMA InvokeIsCall ==
    ASSUME IInv, HeldInv, ListInv, NEW t \in Threads, Invoke(t)
    PROVE  \E o \in KV!Ops, k \in Keys, e \in Elements \cup {NULL} : KV!Call(t, o, k, e)
<1>1. map' = map /\ TypeOK
  BY MapKept DEF Effective, Invoke, Publish, PutOver, RemoveMark, IInv
<1>2. PICK c \in CallsOf[t] :
        /\ op' = [op EXCEPT ![t] = c.op]
        /\ key' = [key EXCEPT ![t] = c.key]
        /\ arg' = [arg EXCEPT ![t] = c.arg]
        /\ seen' = [seen EXCEPT ![t] = {map[c.key]}]
        /\ raced' = [raced EXCEPT ![t] = Removing(c.key)]
  BY DEF Invoke
<1>3. /\ c.op \in KV!Ops /\ c.key \in Keys /\ c.arg \in Elements \cup {NULL}
      /\ c.op \in {"put", "put_new"} => c.arg \in Elements /\ c.key = KeyOf[c.arg]
  BY CallAssumption DEF Call, KV!Ops, Ops
<1>4. pc[t] = "idle" /\ pc' = [pc EXCEPT ![t] = "find"] /\ UNCHANGED <<took, result>>
  BY DEF Invoke, StartFind, Goto
<1>5. KV!Call(t, c.op, c.key, c.arg)
  BY <1>1, <1>2, <1>3, <1>4 DEF KV!Call, KV!Removing, Removing, TypeOK
<1>6. QED
  BY <1>3, <1>5

LEMMA ReturnIsReturn ==
    ASSUME IInv, HeldInv, ListInv, NEW t \in Threads, Return(t)
    PROVE  KV!Return(t)
<1>1. map' = map /\ TypeOK /\ 0 \in Keys
  <2>1. Step(t) /\ ~Effective(t)
    BY DEF Step, Effective, Return, Publish, PutOver, RemoveMark
  <2>2. QED BY <2>1, MapKept, MaxKeyAssumption DEF IInv, Keys
<1>2. pc[t] = "return" /\ pc' = [pc EXCEPT ![t] = "idle"] /\ UNCHANGED <<seen, raced>>
  BY DEF Return, Goto, history
<1>3. QED
  BY <1>1, <1>2 DEF KV!Return, Return, TypeOK

-----------------------------------------------------------------------------
(* The steps that answer.                                                  *)

\* The answers that a call without effect may give.
LEMMA ReadingFacts ==
    ASSUME NEW t \in Threads, NEW e \in seen[t]
    PROVE  /\ op[t] = "lookup" => e \in KV!Readings(t)
           /\ op[t] = "member" /\ e = NULL => 0 \in KV!Readings(t)
           /\ op[t] = "member" /\ e # NULL => 1 \in KV!Readings(t)
           /\ op[t] = "remove" /\ e = NULL => NULL \in KV!Readings(t)
  BY DEF KV!Readings

\* A call that has not come to a live node has seen its key bound to nothing.
LEMMA AbsentSeen ==
    ASSUME AnswersInv, NEW t \in Threads, HasFound(t), Open(t), found[t] \notin Live
    PROVE  NULL \in seen[t]
  BY DEF AnswersInv, SeenInv

\* A lookup or member in its last steps has not taken effect.
LEMMA ReaderFacts ==
    ASSUME IInv, AnswersInv, NEW t \in Threads,
           LookupFound(t) \/ LookupMarked(t) \/ LookupElement(t)
    PROVE  /\ pc[t] \in {"found", "read_marked", "read_element"} /\ ReadOp(t) /\ ~took[t]
           /\ HasFound(t) /\ Open(t) /\ Searched(t) /\ UNCHANGED <<request, took>>
<1>1. /\ pc[t] \in {"found", "read_marked", "read_element"} /\ ControlInv(t)
      /\ UNCHANGED <<request, took>> /\ (pc[t] = "found" => ReadOp(t))
  BY DEF LookupFound, LookupMarked, LookupElement, IInv, ThreadInv
<1>2. ReadOp(t) /\ ~took[t]
  BY <1>1 DEF ControlInv, AnswersInv, AnswerInv
<1>3. QED
  BY <1>1, <1>2 DEF HasFound, Searched, Open

\* What member sees when the node it has found is not marked.
LEMMA MemberSees ==
    ASSUME IInv, HeldInv, ListInv, AnswersInv, NEW t \in Threads,
           LookupMarked(t), found[t] \notin marked
    PROVE  \E e \in seen[t] : e # NULL
<1>1. found[t] \in fully_linked /\ found[t] # NoNode /\ Searched(t) /\ Open(t)
  BY ReaderFacts DEF LookupMarked, AnswersInv, SeenInv, IInv, ThreadInv, ControlInv
<1>2. found[t] \in heap /\ KeyAt[found[t]] = key[t] /\ key[t] \in Keys
  BY <1>1, FoundFacts
<1>3. found[t] \in Live /\ element[found[t]] \in Elements
  BY <1>1, <1>2 DEF Live, IInv, HeapInv
<1>4. MapIs
  BY LiveFacts, MapFacts DEF ListInv
<1>5. map[key[t]] = element[found[t]]
  BY <1>2, <1>3, <1>4 DEF MapIs
<1>6. map[key[t]] \in seen[t]
  BY <1>1 DEF AnswersInv, SeenInv
<1>7. QED
  BY <1>3, <1>5, <1>6, ElementAssumption

LEMMA LookupAnswers ==
    ASSUME IInv, HeldInv, ListInv, AnswersInv, NEW t \in Threads, map' = map,
           LookupFound(t) \/ LookupMarked(t) \/ LookupElement(t),
           pc'[t] = "return"
    PROVE  KV!FinishRead(t)
<1>1. /\ pc[t] \in {"found", "read_marked", "read_element"} /\ ReadOp(t) /\ ~took[t]
      /\ HasFound(t) /\ Open(t) /\ UNCHANGED <<request, took>> /\ TypeOK
  BY ReaderFacts DEF IInv
<1>2. ASSUME found[t] \notin Live PROVE Absent(t) \in KV!Readings(t)
  <2>1. NULL \in seen[t]
    BY <1>1, <1>2, AbsentSeen
  <2>2. QED BY <1>1, <2>1, ReadingFacts DEF Absent, ReadOp
<1>3. \E r \in KV!Readings(t) : Answer(t, r)
  <2>1. CASE LookupFound(t)
    <3>1. Answer(t, Absent(t)) /\ ~Readable(t)
      BY <1>1, <2>1 DEF LookupFound, Goto, TypeOK
    <3>2. found[t] \notin Live
      BY <3>1, NodeFacts, BorderAssumption DEF Readable, Live, IInv, Node
    <3>3. QED BY <1>2, <3>1, <3>2
  <2>2. CASE LookupMarked(t) /\ found[t] \in marked
    BY <1>2, <2>2 DEF LookupMarked, Live
  <2>3. CASE LookupMarked(t) /\ found[t] \notin marked
    <3>1. Answer(t, 1) /\ op[t] = "member"
      BY <1>1, <2>3 DEF LookupMarked, Goto, TypeOK
    <3>2. 1 \in KV!Readings(t)
      BY <2>3, <3>1, MemberSees, ReadingFacts
    <3>3. QED BY <3>1, <3>2
  <2>4. CASE LookupElement(t)
    <3>1. Answer(t, element[found[t]]) /\ pc[t] = "read_element"
      BY <2>4 DEF LookupElement
    <3>2. element[found[t]] \in seen[t] /\ op[t] = "lookup"
      BY <3>1 DEF AnswersInv, SeenInv, AnswerInv
    <3>3. QED BY <3>1, <3>2, ReadingFacts
  <2>5. QED BY <2>1, <2>2, <2>3, <2>4
<1>4. PICK r \in KV!Readings(t) : Answer(t, r)
  BY <1>3
<1>5. KV!Finish(t, r)
  BY <1>1, <1>4, SetFinishes
<1>6. QED
  BY <1>1, <1>5 DEF KV!FinishRead

\* A put gives up only when a removal of its key has overlapped it.
LEMMA PutFoundAnswers ==
    ASSUME IInv, AnswersInv, NEW t \in Threads, map' = map, PutFound(t), pc'[t] = "return"
    PROVE  KV!DropPut(t)
<1>1. /\ TypeOK /\ pc[t] = "found" /\ op[t] = "put" /\ ~took[t]
      /\ UNCHANGED <<request, took>>
  BY DEF IInv, ThreadInv, ControlInv, IsPut, PutFound
<1>2. found[t] \in marked /\ Answer(t, NULL)
  BY <1>1 DEF PutFound, Goto, TypeOK
<1>3. raced[t]
  <2>1. Open(t) /\ HasFound(t)
    BY <1>1 DEF Open, HasFound, Searched
  <2>2. QED BY <1>2, <2>1 DEF AnswersInv, RacedInv
<1>4. KV!Finish(t, NULL)
  BY <1>1, <1>2, SetFinishes
<1>5. QED
  BY <1>1, <1>3, <1>4 DEF KV!DropPut

LEMMA PutDoneAnswers ==
    ASSUME IInv, AnswersInv, NEW t \in Threads, map' = map, PutDone(t), pc'[t] = "return"
    PROVE  KV!FinishUpdate(t)
<1>1. TypeOK /\ pc[t] = "unlock" /\ op[t] = "put" /\ UNCHANGED <<request, took>>
  BY DEF IInv, PutDone
<1>2. valid[t] /\ Answer(t, NULL)
  BY <1>1 DEF PutDone, StartFind, Goto, TypeOK
<1>3. took[t] /\ result[t] = NULL
  BY <1>1, <1>2 DEF AnswersInv, AnswerInv
<1>4. KV!Finish(t, NULL)
  BY <1>1, <1>2, SetFinishes
<1>5. KV!Finish(t, result[t])
  BY <1>3, <1>4 DEF KV!Finish
<1>6. QED
  BY <1>3, <1>5 DEF KV!FinishUpdate

\* A remove that answers NULL has marked nothing: one that has finds its node.
LEMMA RemoveFoundAnswers ==
    ASSUME IInv, HeldInv, ListInv, AnswersInv, NEW t \in Threads, map' = map,
           RemoveFound(t), pc'[t] = "return"
    PROVE  KV!FinishRead(t)
<1>1. /\ TypeOK /\ pc[t] = "found" /\ op[t] = "remove" /\ UNCHANGED <<request, took>>
      /\ Searched(t) /\ HasFound(t)
  BY DEF IInv, RemoveFound, Searched, HasFound
<1>2. /\ Answer(t, NULL)
      /\ found[t] = NoNode \/ (found[t] \in marked /\ ~took[t])
  BY <1>1 DEF RemoveFound, Goto, TypeOK
<1>3. ~took[t]
  <2>1. SUFFICES ASSUME took[t] PROVE FALSE
    OBVIOUS
  <2>2. Pending(t)
    BY <1>1, <2>1 DEF Pending
  <2>3. PICK n \in marked : VictimOf(t, n)
    BY <2>2 DEF ListInv, HasVictim
  <2>4. found[t] \in marked /\ NoNode \notin marked
    BY <1>1, <2>3, NodeFacts DEF VictimOf, IInv, HeapInv
  <2>5. QED BY <1>2, <2>1, <2>4
<1>4. found[t] \notin Live
  BY <1>2, NodeFacts, BorderAssumption DEF Live, IInv, Node
<1>5. NULL \in seen[t]
  BY <1>1, <1>3, <1>4, AbsentSeen DEF Open
<1>6. KV!Finish(t, NULL) /\ NULL \in KV!Readings(t)
  <2>1. KV!Finish(t, NULL)
    BY <1>1, <1>2, SetFinishes
  <2>2. QED BY <1>1, <1>5, <2>1, ReadingFacts
<1>7. QED
  BY <1>3, <1>6 DEF KV!FinishRead

LEMMA UnlockElementAnswers ==
    ASSUME IInv, NEW t \in Threads, map' = map, UnlockElement(t), pc'[t] = "return"
    PROVE  KV!FinishUpdate(t)
<1>1. TypeOK /\ pc[t] = "unlockelem" /\ UNCHANGED <<request, took>>
  BY DEF IInv, UnlockElement
<1>2. PICK r : r = result[t]
  OBVIOUS
<1>3. took[t] /\ Answer(t, r)
  BY <1>1, <1>2 DEF UnlockElement, Finished, StartFind, Answer, Goto, TypeOK
<1>4. KV!Finish(t, r)
  BY <1>1, <1>3, SetFinishes
<1>5. KV!Finish(t, result[t])
  BY <1>2, <1>4 DEF KV!Finish
<1>6. QED
  BY <1>3, <1>5 DEF KV!FinishUpdate

\* A put_new beside no other update that answers 0 has found an element.
LEMMA PutNewFoundAnswers ==
    ASSUME IInv, HeldInv, ListInv, AnswersInv, AloneInv, NEW t \in Threads, map' = map,
           PutNewFound(t)
    PROVE  KV!FinishRead(t)
<1>1. /\ TypeOK /\ pc[t] = "found" /\ op[t] = "put_new" /\ found[t] # NoNode
      /\ Answer(t, 0) /\ UNCHANGED <<request, took>>
  BY DEF IInv, PutNewFound
<1>2. ~took[t]
  BY <1>1 DEF IInv, ThreadInv, ControlInv, IsPut
<1>3. found[t] \in Live /\ KeyAt[found[t]] = key[t] /\ key[t] \in Keys
  BY <1>1 DEF AloneInv, NewInv, TypeOK
<1>4. element[found[t]] \in Elements
  BY <1>3 DEF Live, IInv, HeapInv
<1>5. map[key[t]] = element[found[t]]
  BY <1>3, LiveFacts, MapFacts DEF ListInv, MapIs
<1>6. map[key[t]] \in seen[t]
  BY <1>1, <1>2 DEF AnswersInv, SeenInv, Open
<1>7. 0 \in KV!Readings(t)
  BY <1>1, <1>4, <1>5, <1>6, ElementAssumption DEF KV!Readings
<1>8. KV!Finish(t, 0)
  BY <1>1, SetFinishes
<1>9. QED
  BY <1>2, <1>7, <1>8 DEF KV!FinishRead

\* One that has linked its node has stored its element.
LEMMA PutNewDoneAnswers ==
    ASSUME IInv, AloneInv, NEW t \in Threads, map' = map, PutNewDone(t)
    PROVE  KV!FinishUpdate(t)
<1>1. /\ TypeOK /\ pc[t] = "unlock" /\ op[t] = "put_new"
      /\ Answer(t, 1) /\ UNCHANGED <<request, took>>
  BY DEF IInv, PutNewDone
<1>2. took[t] /\ result[t] = 1
  BY <1>1 DEF AloneInv, NewInv
<1>3. KV!Finish(t, 1)
  BY <1>1, SetFinishes
<1>4. KV!Finish(t, result[t])
  BY <1>2, <1>3 DEF KV!Finish
<1>5. QED
  BY <1>2, <1>4 DEF KV!FinishUpdate

LEMMA AnsweringIsFinish ==
    ASSUME IInv, HeldInv, ListInv, AnswersInv, AloneInv, NEW t \in Threads,
           Answering(t), map' = map
    PROVE  KV!FinishUpdate(t) \/ KV!FinishRead(t) \/ KV!DropPut(t)
<1>1. pc'[t] = "return"
  BY DEF Answering
<1>2. CASE LookupFound(t) \/ LookupMarked(t) \/ LookupElement(t)
  BY <1>1, <1>2, LookupAnswers
<1>3. CASE PutFound(t) \/ PutDone(t) \/ UnlockElement(t)
  BY <1>1, <1>3, PutFoundAnswers, PutDoneAnswers, UnlockElementAnswers
<1>4. CASE RemoveFound(t)
  BY <1>1, <1>4, RemoveFoundAnswers
<1>5. CASE PutNewFound(t) \/ PutNewDone(t)
  BY <1>5, PutNewFoundAnswers, PutNewDoneAnswers
<1>6. QED
  BY <1>2, <1>3, <1>4, <1>5 DEF Answering

-----------------------------------------------------------------------------
(* The steps that take effect, and all steps.                              *)

LEMMA EffectiveIsEffect ==
    ASSUME IInv, HeldInv, ListInv, AnswersInv, NEW t \in Threads, Effective(t)
    PROVE  KV!Put(t) \/ KV!PutNew(t) \/ KV!Remove(t)
<1>1. /\ TypeOK /\ (IsPut(t) => arg[t] \in Elements)
      /\ ControlInv(t) /\ LinkedInv(t) /\ AnswerInv(t) /\ NULL \notin Elements
  BY ElementAssumption
     DEF IInv, ThreadInv, CallInv, HeldInv, AnswersInv
<1>2. CASE Publish(t)
  <2>1. PICK r : r = (IF op[t] = "put_new" THEN 1 ELSE NULL)
    OBVIOUS
  <2>2. /\ pc[t] = "publish" /\ IsPut(t) /\ ~took[t] /\ node[t] # NoNode
        /\ arg[t] \in Elements /\ UNCHANGED request
        /\ Goto(t, "unlock") /\ TakeEffect(t, arg[t])
        /\ result' = [result EXCEPT ![t] = r]
    BY <1>1, <1>2, <2>1 DEF Publish, ControlInv, IsPut
  <2>3. map[key[t]] = NULL /\ map' = [map EXCEPT ![key[t]] = arg[t]]
    BY <1>1, <1>2, <2>2, MapPublish DEF AnswerInv
  <2>4. KV!Effect(t, arg[t], r, arg[t] = NULL)
    BY <1>1, <2>2, <2>3, SetTakesEffect
  <2>5. (arg[t] = NULL) = FALSE
    BY <1>1, <2>2
  <2>6. KV!Effect(t, arg[t], r, FALSE)
    BY <2>4, <2>5
  <2>7. CASE op[t] = "put"
    <3>1. r = map[key[t]]
      BY <2>1, <2>3, <2>7
    <3>2. KV!Effect(t, arg[t], map[key[t]], FALSE)
      BY <2>6, <3>1
    <3>3. QED BY <2>7, <3>2 DEF KV!Put
  <2>8. CASE op[t] = "put_new"
    <3>1. r = 1
      BY <2>1, <2>8
    <3>2. KV!Effect(t, arg[t], 1, FALSE)
      BY <2>6, <3>1
    <3>3. QED BY <2>3, <2>8, <3>2 DEF KV!PutNew
  <2>9. QED BY <2>2, <2>7, <2>8 DEF IsPut
<1>3. CASE PutOver(t)
  <2>1. /\ pc[t] = "locked" /\ op[t] = "put" /\ ~took[t]
        /\ arg[t] \in Elements /\ UNCHANGED request
        /\ Goto(t, "unlockelem") /\ TakeEffect(t, arg[t])
        /\ result' = [result EXCEPT ![t] = element[found[t]]]
    BY <1>1, <1>3 DEF PutOver, LinkedInv, IsPut
  <2>2. map[key[t]] = element[found[t]] /\ map' = [map EXCEPT ![key[t]] = arg[t]]
    BY <1>3, MapPutOver
  <2>3. KV!Effect(t, arg[t], element[found[t]], arg[t] = NULL)
    BY <1>1, <2>1, <2>2, SetTakesEffect
  <2>4. (arg[t] = NULL) = FALSE
    BY <1>1, <2>1
  <2>5. KV!Effect(t, arg[t], map[key[t]], FALSE)
    BY <2>2, <2>3, <2>4
  <2>6. QED BY <2>1, <2>5 DEF KV!Put
<1>4. CASE RemoveMark(t)
  <2>1. /\ pc[t] = "locked" /\ op[t] = "remove" /\ ~took[t] /\ UNCHANGED request
        /\ Goto(t, "lock") /\ TakeEffect(t, NULL)
        /\ result' = [result EXCEPT ![t] = element[found[t]]]
    BY <1>1, <1>4 DEF RemoveMark, StartLocking, LinkedInv
  <2>2. /\ map[key[t]] = element[found[t]] /\ map[key[t]] # NULL
        /\ map' = [map EXCEPT ![key[t]] = NULL]
    BY <1>1, <1>4, MapRemove
  <2>3. KV!Effect(t, NULL, element[found[t]], NULL = NULL)
    BY <1>1, <2>1, <2>2, SetTakesEffect
  <2>4. KV!Effect(t, NULL, map[key[t]], TRUE)
    BY <2>2, <2>3
  <2>5. QED BY <2>1, <2>2, <2>4 DEF KV!Remove
<1>5. QED
  BY <1>2, <1>3, <1>4 DEF Effective

LEMMA StepInside ==
    ASSUME HeldInv, TypeOK, NEW t \in Threads, Step(t), ~Return(t)
    PROVE  pc[t] \notin {"idle", "return"}
<1>1. CASE FindRight(t) \/ FindDown(t) \/ FindHit(t) \/ FindAfter(t)
  BY <1>1 DEF FindRight, FindDown, FindHit, FindAfter
<1>2. CASE LookupFound(t) \/ LookupMarked(t) \/ LookupElement(t)
  BY <1>2 DEF LookupFound, LookupMarked, LookupElement
<1>3. CASE LockPred(t) \/ CheckFails(t) \/ CheckNext(t) \/ CheckDone(t) \/ UnlockPred(t)
  BY <1>3 DEF LockPred, CheckFails, CheckNext, CheckDone, UnlockPred
<1>4. CASE PutFound(t) \/ PutNewFound(t) \/ PutNewDone(t) \/ PutDone(t) \/ PutAbsent(t)
  BY <1>4 DEF PutFound, PutNewFound, PutNewDone, PutDone, PutAbsent
<1>5. CASE RemoveFound(t) \/ UnlockElement(t) \/ RemoveMark(t) \/ RemoveUnlocked(t)
  BY <1>5 DEF RemoveFound, UnlockElement, RemoveMark, RemoveUnlocked
<1>6. CASE Fill(t) \/ Link(t) \/ Unlink(t) \/ Publish(t)
  BY <1>6 DEF Fill, Link, Unlink, Publish
<1>7. CASE WaitLinked(t) \/ LockElement(t) \/ LostRace(t) \/ PutOver(t)
  BY <1>7 DEF WaitLinked, LockElement, LostRace, PutOver
<1>8. QED
  BY <1>1, <1>2, <1>3, <1>4, <1>5, <1>6, <1>7 DEF Step

\* Every step of a thread is one of the set, or changes nothing the set is about.
LEMMA StepIsStep ==
    ASSUME IInv, HeldInv, ListInv, AnswersInv, AloneInv, NEW t \in Threads,
           Invoke(t) \/ Step(t)
    PROVE  [KV!Next]_(KV!vars)
<1>1. CASE Invoke(t)
  BY <1>1, InvokeIsCall DEF KV!Next
<1>2. CASE Return(t)
  BY <1>2, ReturnIsReturn DEF KV!Next
<1>3. CASE Effective(t)
  BY <1>3, EffectiveIsEffect DEF KV!Next
<1>4. CASE Step(t) /\ ~Return(t) /\ ~Effective(t)
  <2>1. map' = map /\ pc[t] \notin {"idle", "return"}
    BY <1>4, MapKept, StepInside DEF IInv
  <2>2. CASE Answering(t)
    BY <2>1, <2>2, AnsweringIsFinish DEF KV!Next
  <2>3. CASE pc'[t] \notin {"idle", "return"} /\ UNCHANGED <<took, result, history>>
    BY <1>4, <2>1, <2>3, SetUnchanged
  <2>4. QED BY <1>4, <2>2, <2>3, StepKinds DEF IInv
<1>5. QED
  BY <1>1, <1>2, <1>3, <1>4

LEMMA InitIsInit == Init => KV!Init
<1>1. SUFFICES ASSUME Init PROVE KV!Init
  OBVIOUS
<1>2. IInv /\ HeldInv /\ ShapeInv
  BY <1>1, InitInv, HeldInit, ListInit DEF ListInv
<1>3. LiveNodes /\ MapIs
  BY <1>2, LiveFacts, MapFacts
<1>4. ASSUME NEW k \in Keys
      PROVE  map[k] \in Elements \cup {NULL} /\ (map[k] # NULL => KeyOf[map[k]] = k)
  <2>1. CASE \A n \in Live : KeyAt[n] # k
    BY <1>3, <2>1 DEF MapIs
  <2>2. CASE \E n \in Live : KeyAt[n] = k
    <3>1. PICK n \in Live : KeyAt[n] = k
      BY <2>2
    <3>2. n \in heap /\ n \in Nodes /\ element[n] \in Elements
      BY <1>2 DEF Live, IInv, HeapInv, TypeOK
    <3>3. KeyAt[n] = KeyOf[element[n]]
      BY <3>2, BorderAssumption DEF KeyAt, Node
    <3>4. map[k] = element[n]
      BY <1>3, <3>1 DEF MapIs
    <3>5. QED BY <3>1, <3>2, <3>3, <3>4
  <2>3. QED BY <2>1, <2>2
<1>5. map \in [Keys -> Elements \cup {NULL}]
  BY <1>3, <1>4 DEF MapIs
<1>6. key \in [Threads -> Keys]
  BY <1>2 DEF IInv, TypeOK
<1>7. QED
  BY <1>1, <1>4, <1>5, <1>6 DEF Init, KV!Init

LEMMA StutterIsStutter ==
    ASSUME UNCHANGED vars
    PROVE  UNCHANGED KV!vars
<1>1. map' = map
  <2>1. /\ heap' = heap /\ element' = element /\ marked' = marked
        /\ fully_linked' = fully_linked
    BY DEF vars, shared
  <2>2. QED BY <2>1 DEF map, Bound, Live, KeyAt
<1>2. QED
  BY <1>1 DEF vars, request, history, KV!vars

\* As long as who calls put_new is the only one to update the set, as that code
\* needs (line 441), the skiplist is the key-value set: every operation of any
\* number of threads takes effect at one instant, or answers what its key was
\* bound to at some instant.
THEOREM ImplementsSet ==
    ASSUME PutNewAlone
    PROVE  Spec => KVSpec
<1>1. Init => KV!Init
  BY InitIsInit
<1>2. (IInv /\ HeldInv /\ ListInv /\ AnswersInv /\ AloneInv) /\ [Next]_vars
      => [KV!Next]_(KV!vars)
  <2>1. ASSUME IInv, HeldInv, ListInv, AnswersInv, AloneInv, NEW t \in Threads,
               Invoke(t) \/ Step(t)
        PROVE  [KV!Next]_(KV!vars)
    BY <2>1, StepIsStep
  <2>2. ASSUME UNCHANGED vars PROVE UNCHANGED KV!vars
    BY <2>2, StutterIsStutter
  <2>3. QED BY <2>1, <2>2 DEF Next, Terminated
<1>3. QED
  BY <1>1, <1>2, Invariance, HeldInvariance, ListInvariance, AnswersInvariance,
     PutNewSucceeds, PTL
     DEF Spec, KVSpec, KV!Spec
=============================================================================
