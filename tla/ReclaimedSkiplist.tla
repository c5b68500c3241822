-------------------------- MODULE ReclaimedSkiplist --------------------------
(***************************************************************************)
(* The concurrent skiplist with the memory of its nodes: which slots a     *)
(* call publishes its nodes in, where it gives them up, and when a removed *)
(* node is freed.  Every step is one of ConcurrentSkiplist together with   *)
(* what it does to the hazard pointers, or one of them alone.              *)
(*                                                                         *)
(* Every thread has its record already.  A release list may be full at any *)
(* removal.  Freed nodes are not given out again, so that a use of one is  *)
(* seen as such.                                                           *)
(***************************************************************************)
EXTENDS OrderedQueries, SkiplistInvariants

VARIABLES
    hp,         \* hazard_pointers[slot] of each thread
    copies,     \* the slots its call has still to copy: pairs <<from, to>>
    looping,    \* it is in the loop of hazard_pointer_set
    lost,       \* history: nodes it goes on using that no slot may protect
    retired,    \* the nodes in each thread's release_list
    frees,      \* how often each node has been freed
    scanning,   \* the threads in do_free_scan
    unread,     \* the slots of others that the scan has still to read
    kept,       \* the nodes it has found in one (status 2)
    deleted     \* delete_table has been called

lists   == vars
hazards == <<hp, copies, looping, lost>>
scans   == <<scanning, unread, kept>>
memory  == <<hazards, scans, retired, frees, deleted>>

ElementSlot == NumLevels + 1
Slots       == 0..ElementSlot
NoPointers  == [s \in Slots |-> NoNode]

Held  == {hp[t][s] : t \in Threads, s \in Slots}
Freed == {n \in Nodes : frees[n] > 0}

\* In a release list, or freed already.
HandedOver == Freed \cup UNION {retired[t] : t \in Threads}

MemoryInit ==
    /\ Init
    /\ hp = [t \in Threads |-> NoPointers]
    /\ copies = [t \in Threads |-> {}]
    /\ looping = [t \in Threads |-> FALSE]
    /\ lost = [t \in Threads |-> {}]
    /\ retired = [t \in Threads |-> {}]
    /\ frees = [n \in Nodes |-> 0]
    /\ scanning = {}
    /\ unread = [t \in Threads |-> {}]
    /\ kept = [t \in Threads |-> {}]
    /\ deleted = FALSE

-----------------------------------------------------------------------------
(* Setting hazard pointers.                                                *)

Finding(t) == pc[t] \in {"find", "after"}

\* The pointer a call reads through a hazard pointer before it goes on.
Reading(t) == \/ Finding(t) /\ looping[t]
              \/ pc[t] \in {"lock", "check"} /\ found[t] # NoNode
Source(t)  == IF pc[t] = "find" THEN prev[t] ELSE found[t]
Target(t)  == nxt[Source(t)][level[t]]

SearchOn(t) == FindRight(t) \/ FindHit(t) \/ FindDown(t) \/ FindAfter(t)

\* The search has stepped on to prev on this list.
Stepped(t) == prev[t] # IF level[t] = 0 THEN Head ELSE before[t][level[t] - 1]

\* Mutant of Moved: nothing is.
MovedNothing(t) == {}

\* What slot level + 1 holds is moved first: to slot level when the search has
\* stepped on, to slot 61 on a hit.
Moved(t) ==
    {<<level[t] + 1, s>> : s \in IF pc[t] = "after" THEN {ElementSlot}
                                ELSE IF Stepped(t) THEN {level[t]} ELSE {}}

\* The slot two below (pos_to_check) holds the pointer anyway ...
Known(t) == level[t] > 0 /\ hp[t][level[t] - 1] = Target(t)

\* ... then it is copied, and not read again.
FindKnown(t) ==
    /\ Finding(t) /\ ~looping[t] /\ Known(t)
    /\ SearchOn(t)
    /\ copies' = [copies EXCEPT ![t] = Moved(t) \cup {<<level[t] - 1, level[t] + 1>>}]
    /\ UNCHANGED <<hp, looping, lost, scans, retired, frees, deleted>>

StartLoop(t) ==
    /\ Finding(t) /\ ~looping[t] /\ ~Known(t)
    /\ copies' = [copies EXCEPT ![t] = Moved(t)]
    /\ looping' = [looping EXCEPT ![t] = TRUE]
    /\ UNCHANGED <<lists, hp, lost, scans, retired, frees, deleted>>

\* Some scan has read the slot `to' of t and not yet `from', and it would free
\* what `from' holds.
Straddles(t, from, to) ==
    \E u \in scanning : /\ <<t, from>> \in unread[u] /\ <<t, to>> \notin unread[u]
                        /\ hp[t][from] \in retired[u] \ kept[u]

\* A slot is copied before it is written over.
CopySlot(t) ==
    \E c \in copies[t] :
      LET from == c[1]
          to == c[2]
      IN  /\ pc[t] # "idle"
          /\ \A d \in copies[t] \ {c} : d[1] # to
          /\ hp' = [hp EXCEPT ![t][to] = hp[t][from]]
          /\ lost' = IF Straddles(t, from, to) THEN [lost EXCEPT ![t] = @ \cup {hp[t][from]}]
                     ELSE lost
          /\ copies' = [copies EXCEPT ![t] = @ \ {c}]
          /\ UNCHANGED <<lists, looping, scans, retired, frees, deleted>>

\* Stored, and when read again unchanged.
Published(t) == hp[t][level[t] + 1] = Target(t)

\* A removed node still points to the nodes that have been removed after it.
LeadsAstray(t) == Finding(t) /\ Source(t) \in marked /\ Target(t) \in HandedOver

SetHazard(t) ==
    /\ Reading(t) /\ ~Published(t)
    /\ hp' = [hp EXCEPT ![t][level[t] + 1] = Target(t)]
    /\ lost' = IF LeadsAstray(t) THEN [lost EXCEPT ![t] = @ \cup {Target(t)}] ELSE lost
    /\ UNCHANGED <<lists, copies, looping, scans, retired, frees, deleted>>

FindStep(t) ==
    /\ Finding(t) /\ looping[t] /\ Published(t)
    /\ SearchOn(t)
    /\ looping' = [looping EXCEPT ![t] = FALSE]
    /\ UNCHANGED <<hp, copies, lost, scans, retired, frees, deleted>>

LockStep(t) ==
    /\ Reading(t) => Published(t)
    /\ LockPred(t) \/ CheckFails(t) \/ CheckNext(t) \/ CheckDone(t)
    /\ UNCHANGED memory

-----------------------------------------------------------------------------
(* Giving them up.                                                         *)

\* remove_hazard_pointers; the call may go on to use the nodes U.
Clear(t, U) ==
    /\ hp' = [hp EXCEPT ![t] = NoPointers]
    /\ lost' = [lost EXCEPT ![t] = U]
    /\ UNCHANGED <<copies, looping>>

\* member and put_new leave their pointers behind.
LeavesPointers(t) == op[t] \in {"member", "put_new"}

AnswerStep(t) ==
    /\ \/ PutFound(t) \/ PutNewFound(t) \/ RemoveFound(t)
       \/ LookupFound(t) \/ LookupMarked(t) \/ LookupElement(t)
    /\ IF pc'[t] = "return" /\ ~LeavesPointers(t) THEN Clear(t, {}) ELSE UNCHANGED hazards
    /\ UNCHANGED <<scans, retired, frees, deleted>>

PutStep(t) ==
    /\ PutDone(t) \/ PutOver(t)
    /\ Clear(t, {})
    /\ UNCHANGED <<scans, retired, frees, deleted>>

\* put gives its pointers up before it unlocks the node ...
LostStep(t) ==
    /\ LostRace(t)
    /\ IF op[t] = "put" THEN Clear(t, {found[t]}) ELSE UNCHANGED hazards
    /\ UNCHANGED <<scans, retired, frees, deleted>>

\* Mutant of Retired: the removed node is not given to hazard_pointer_free.
RetiredNever(t) == retired

Retired(t) == IF op[t] = "remove" /\ Finished(t)
              THEN [retired EXCEPT ![t] = @ \cup {found[t]}] ELSE retired

\* hazard_pointer_free may have filled the list: do_free_scan, over the slots
\* of the other threads (its own are cleared).
StartScan(t) ==
    \/ UNCHANGED scans
    \/ /\ op[t] = "remove" /\ Finished(t)
       /\ scanning' = scanning \cup {t}
       /\ unread' = [unread EXCEPT ![t] = (Threads \ {t}) \X Slots]
       /\ UNCHANGED kept

\* ... remove after it has.
UnlockStep(t) ==
    /\ UnlockElement(t)
    /\ IF op[t] = "remove" THEN Clear(t, {}) ELSE UNCHANGED hazards
    /\ retired' = Retired(t)
    /\ StartScan(t)
    /\ UNCHANGED <<frees, deleted>>

OtherStep(t) ==
    /\ \/ UnlockPred(t) \/ PutAbsent(t) \/ Fill(t) \/ Link(t) \/ Publish(t)
       \/ WaitLinked(t) \/ LockElement(t) \/ RemoveMark(t) \/ Unlink(t)
       \/ RemoveUnlocked(t) \/ PutNewDone(t)
       \/ t \notin scanning /\ Return(t)
       \/ ~deleted /\ Invoke(t)
    /\ UNCHANGED memory

-----------------------------------------------------------------------------
(* Freeing.                                                                *)

One(b) == IF b THEN 1 ELSE 0

\* The slots of a thread are read in order, and those of one thread after those
\* of another.
InTurn(t, u, s) ==
    /\ <<u, s>> \in unread[t]
    /\ IF s = 0
       THEN \A v \in Threads : <<v, ElementSlot>> \in unread[t] => <<v, 0>> \in unread[t]
       ELSE <<u, s - 1>> \notin unread[t]

\* Mutant of Meets: the slot is passed over.
MeetsNothing(t, u, s) == {}

Meets(t, u, s) == retired[t] \cap {hp[u][s]}

ScanSlot(t) ==
    /\ pc[t] = "return" /\ t \in scanning
    /\ \E u \in Threads, s \in Slots :
         /\ InTurn(t, u, s)
         /\ kept' = [kept EXCEPT ![t] = @ \cup Meets(t, u, s)]
         /\ unread' = [unread EXCEPT ![t] = @ \ {<<u, s>>}]
    /\ UNCHANGED <<lists, hazards, scanning, retired, frees, deleted>>

\* Mutant of Kept: an entry is not taken off the list when its node is freed.
KeptAll(t) == retired[t]

Kept(t) == retired[t] \cap kept[t]

Sweep(t) ==
    /\ pc[t] = "return" /\ t \in scanning /\ unread[t] = {}
    /\ frees' = [n \in Nodes |-> frees[n] + One(n \in retired[t] \ kept[t])]
    /\ retired' = [retired EXCEPT ![t] = Kept(t)]
    /\ scanning' = scanning \ {t}
    /\ kept' = [kept EXCEPT ![t] = {}]
    /\ UNCHANGED <<lists, hazards, unread, deleted>>

\* skiplist_delete: the linked nodes, and one scan of every release list.
DeleteTable ==
    /\ Quiet /\ ~deleted
    /\ deleted' = TRUE
    /\ frees' = [n \in Nodes |-> frees[n] + One(n \in LinkedNodes)
                    + Cardinality({t \in Threads : n \in retired[t] \ Held})]
    /\ UNCHANGED <<lists, hazards, scans, retired>>

MemoryNext ==
    \/ \E t \in Threads :
         \/ CopySlot(t)
         \/ /\ copies[t] = {}
            /\ \/ FindKnown(t) \/ StartLoop(t) \/ SetHazard(t) \/ FindStep(t)
               \/ LockStep(t) \/ AnswerStep(t) \/ PutStep(t) \/ LostStep(t)
               \/ UnlockStep(t) \/ OtherStep(t) \/ ScanSlot(t) \/ Sweep(t)
    \/ DeleteTable
    \/ deleted /\ UNCHANGED <<lists, memory>>

MemorySpec == MemoryInit /\ [][MemoryNext]_<<lists, memory>>

-----------------------------------------------------------------------------
(* Properties.                                                             *)

\* The nodes the next step of t reads, writes, locks or unlocks.
Used(t) ==
    LET l == level[t]
    IN  CASE copies[t] # {}  -> {}
          [] pc[t] = "find"  ->
               {prev[t]} \cup IF IF looping[t] THEN Published(t) ELSE Known(t)
                              THEN {Ahead(t)} ELSE {}
          [] pc[t] = "lock"   -> {before[t][l], found[t]}
          [] pc[t] = "check"  -> {before[t][l], found[t], Succs(t)}
          [] pc[t] = "link"   -> {before[t][l]}
          [] pc[t] = "unlink" -> {before[t][l], found[t]}
          [] pc[t] = "unlock" -> {before[t][m] : m \in locked[t]}
          [] pc[t] \in {"after", "found", "wait", "lockelem", "locked", "unlockelem",
                        "read_marked", "read_element"} -> {found[t]}
          [] OTHER -> {}

\* Whatever a call reads, locks or unlocks, it does to a node that has not been
\* freed: the slots it has set, and the locks it holds, cover each of its steps.
NoUseAfterFree == \A t \in Threads : Used(t) \cap Freed = {}

\* hazard_pointer_set reads the pointer again when it has stored it, so that what
\* a search goes on to has not been freed before the slot was set.
SetPointerLive ==
    \A t \in Threads : Finding(t) /\ looping[t] /\ copies[t] = {} /\ Published(t) =>
        Target(t) \notin Freed

\* The successor that validate_and_lock of a put reads (line 266): the search on
\* the list below has written its slot over.
Unslotted(t) == IF pc[t] = "check" /\ found[t] = NoNode THEN {Succs(t)} ELSE {}

\* There are four ways for a call to come to use a freed node: a pointer that it
\* moves down while a scan is between the two slots (line 175), a node it reaches
\* from a removed one when that node has been handed over already (lines 153, 175),
\* the node that a put unlocks when it has given its pointers up (line 430), and
\* the successor at line 266.  There is no other: whatever else a call uses, its
\* slots and its locks keep from being freed, at each step of the scans of others.
FreedUseKnown == \A t \in Threads : Used(t) \cap Freed \subseteq lost[t] \cup Unslotted(t)

\* In the four ways that FreedUseKnown leaves a call may still read, lock or unlock
\* a freed node, but none writes a link or an element of one.
FreedFrozen ==
    [][~deleted => \A n \in Freed : n \in Freed' /\ nxt'[n] = nxt[n] /\ element'[n] = element[n]
      ]_<<lists, memory>>

\* t has unlinked its node from every list and is about to hand it over.
Departing(t) == /\ op[t] = "remove" /\ Finished(t)
                /\ pc[t] \in {"unlock", "unlockelem"}

\* Until delete_table: what is handed over has been marked and is on no list,
\* each node by one removal; and no marked node that has left the lists is
\* forgotten, however often its remover had to retry.
HandedInv ==
    /\ HandedOver \subseteq marked \ Attached
    /\ marked \subseteq Attached \cup HandedOver
                       \cup {found[t] : t \in {u \in Threads : Departing(u)}}
    /\ \A t \in Threads :
         /\ retired[t] \cap Freed = {}
         /\ \A u \in Threads \ {t} : retired[t] \cap retired[u] = {}
         /\ Departing(t) => found[t] \in marked \ (Attached \cup HandedOver)

\* The inductive invariant behind the next two: no call outlives the table, and
\* up to then each node is handed over once, when it is on no list any more.
FreeingInv ==
    /\ retired \in [Threads -> SUBSET Nodes]
    /\ frees \in [Nodes -> 0..1]
    /\ deleted \in BOOLEAN
    /\ IF deleted THEN Quiet ELSE HandedInv

\* A node is freed once, and not as long as a search can reach it: a removal
\* hands it over after the last list has let go of it.
FreedOnce ==
    /\ \A n \in Nodes : frees[n] <= 1
    /\ ~deleted => \A l \in Level : Listed(l) \cap Freed = {}

\* delete_table and the release lists together free every node, except what a
\* pointer left behind by member or put_new still holds.
DeleteFreesAll == deleted => heap \ Freed \subseteq Held
=============================================================================
