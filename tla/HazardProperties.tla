------------------------- MODULE HazardProperties -------------------------
(***************************************************************************)
(* What the hazard pointers must guarantee.                                *)
(***************************************************************************)
EXTENDS HazardPointers

Linked == {cell[c] : c \in Cells}

\* The slots that t may rely on: not the one it is just setting, and not one it
\* has moved a pointer to between a scan's reading of the two slots.
Setting(t, s) == pc[t] \in {"read", "store", "check"} /\ s = request[t].slot
Guards(t) ==
    [s \in Slots |->
       IF deleted \/ Setting(t, s) \/ <<t, s>> \in straddled THEN NULL ELSE hp[t][s]]

Waiting(t) == {k \in Entries : release_list[t][k].status # 0}
Retired ==
    ({victim[t] : t \in Threads}
       \cup UNION {{release_list[t][k].data : k \in Waiting(t)} : t \in Threads})
      \ {NULL}

R == INSTANCE Reclamation WITH
       linked <- IF deleted THEN {} ELSE Linked,
       retired <- Retired,
       guard <- [t \in Threads |-> Guards(t)]

\* The calls implement Reclamation: a pointer that a call has stored and
\* validated, moved or found stored already guards its block until the slot is
\* set again or removed, and no scan frees a guarded block.  The only exception
\* is a pointer moved down while a scan is between the two slots.
Reclaims == R!Spec

\* A block that a call has stored and validated, or moved, is not freed, in
\* whatever slot it is and wherever the call moves it meanwhile: without the
\* exception that Guards makes.
Protected ==
    {p \in Blocks : \E t \in Threads, s \in Slots : hp[t][s] = p /\ ~Setting(t, s)}
GuardedKept == [][~deleted' => Protected \cap (heap \ heap') = {}]_vars

\* Every block malloc has given out is in one place: in a cell, between its
\* unlinking and hazard_pointer_free, or waiting in one entry of one release
\* list; and a list's size counts the entries that are not free.  So no block
\* is freed twice or forgotten.
Accounted ==
    ~deleted =>
      /\ heap = Linked \cup Retired
      /\ Linked \cap Retired = {}
      /\ \A t \in Threads :
           /\ release_list_size[t] = Cardinality(Waiting(t))
           /\ \A j, k \in Waiting(t) :
                release_list[t][j].data = release_list[t][k].data => j = k
           /\ \A k \in Waiting(t), u \in Threads :
                /\ victim[u] # release_list[t][k].data
                /\ \A j \in Waiting(u) :
                     release_list[u][j].data = release_list[t][k].data => t = u

\* An entry that a scan may not free waits (hazard_pointers.h:15-16): who finds
\* no free entry in its release list waits for pointers of other threads, and
\* goes on when they are given up.
FullListWaits ==
    \A t \in Threads :
      pc[t] = "free" /\ Waiting(t) = Entries =>
        \E k \in Entries, u \in Threads, s \in Slots : hp[u][s] = release_list[t][k].data

\* While a list is scanned the binary search finds exactly the pointers in it.
SearchFinds ==
    \A t \in Threads : pc[t] = "scan" =>
      \A p \in Blocks :
        LET k == find_index_of_pointer(release_list[t], p)
        IN  IF k = -1 THEN \A j \in Entries : release_list[t][j].data # p
            ELSE release_list[t][k].data = p

\* When everything is deleted only what a thread still protects is left over.
DeleteFreesTheRest ==
    deleted => heap \subseteq {hp[t][s] : t \in Threads, s \in Slots}

\* The record a scan meets after n steps.
Walk ==
    LET walk[n \in 0..Cardinality(Threads)] ==
          IF n = 0 THEN first
          ELSE IF walk[n - 1] = NoThread THEN NoThread ELSE next[walk[n - 1]]
    IN  walk

\* Threads that register at the same time do not lose each other's record: a
\* scan meets every registered thread, and comes to an end.
ScansMeetEveryThread ==
    /\ \A t \in registered : \E n \in DOMAIN Walk : Walk[n] = t
    /\ Walk[Cardinality(Threads)] = NoThread
=============================================================================
