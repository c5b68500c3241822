-------------------------- MODULE HazardPointers --------------------------
(***************************************************************************)
(* The hazard pointers of src/src/utils/hazard_pointers.c, one access to   *)
(* memory other threads can see per action, under a client that keeps      *)
(* blocks in shared cells: it calls the operations in any order, replaces  *)
(* the block of a cell and retires the old one the way the skiplist does   *)
(* (unlink, hazard_pointer_remove_all, hazard_pointer_free), and at the    *)
(* end deletes everything.                                                 *)
(*                                                                         *)
(* Pointers are numbers, compared by qsort and by the binary search; NULL  *)
(* is 0.  A thread's own record is named by the thread.                    *)
(***************************************************************************)
EXTENDS Integers, FiniteSets

CONSTANTS
    Threads, NoThread,      \* NoThread: the NULL at the end of the thread list
    NumSlots,               \* MAX_NUM_OF_POINTERS_PER_THREAD
    RLMax,                  \* RELEASE_LIST_MAX_SIZE
    NumBlocks,              \* blocks malloc has; their addresses are 1..NumBlocks
    Cells,                  \* the client's shared pointers
    StartCell,              \* the blocks they point to at first
    Requests,               \* the protecting calls each thread makes
    Retirers,               \* the threads that also replace blocks
    MaxCalls                \* calls of each thread: bounds the model

NULL    == 0
Blocks  == 1..NumBlocks
Slots   == 0..NumSlots - 1
Entries == 0..RLMax - 1

Ops     == {"set", "set_check", "move_set", "move_set_check", "add"}
Request == [op : Ops, cell : Cells, slot : Slots, to : Slots, pos : Slots \cup {-1}]

ASSUME SizeAssumption    == NumSlots \in Nat \ {0} /\ RLMax \in Nat \ {0}
ASSUME BlockAssumption   == NumBlocks \in Nat
ASSUME ThreadAssumption  == NoThread \notin Threads /\ IsFiniteSet(Threads)
ASSUME StartAssumption ==
    /\ Cells # {}
    /\ StartCell \in [Cells -> Blocks]
    /\ \A c, d \in Cells : StartCell[c] = StartCell[d] => c = d
Moves(r)  == r.op \in {"move_set", "move_set_check"}
Checks(r) == r.op \in {"set_check", "move_set_check"} /\ r.pos >= 0

\* A call does not move a pointer over the one it checks: the skiplist moves to
\* slot level or 61, and checks slot level - 1.
ASSUME RequestAssumption ==
    /\ Requests \in [Threads -> SUBSET Request]
    /\ \A t \in Threads : \A r \in Requests[t] : Moves(r) /\ Checks(r) => r.to # r.pos
    /\ Retirers \subseteq Threads
    /\ MaxCalls \in [Threads -> Nat]

VARIABLES
    heap,           \* blocks malloc has given out
    cell,           \* the block each cell points to
    first, next,    \* thread_data_list_first, and next of each record
    registered,     \* threads whose my_hazard_pointer_data is set
    hp,             \* hazard_pointers
    current_hp_slot,
    straddled,      \* history: the slots whose pointer a scan may have missed
    release_list, current_rl_slot, release_list_size,
    pc,
    request,        \* the arguments of the call under way
    value,          \* what it has read from its cell
    victim,         \* the block it retires
    i, iter,        \* the loop variables of remove_all and of the scan
    calls, deleted

list   == <<first, next, registered>>
slots  == <<hp, current_hp_slot, straddled>>
own    == <<release_list, current_rl_slot, release_list_size>>
client == <<heap, cell, deleted>>
locals == <<request, value, victim, i, iter, calls>>
vars   == <<client, list, slots, own, pc, locals>>

PCs == {"idle", "init", "cas", "peek", "copy", "reuse", "search", "read",
        "store", "check", "clear", "free", "scan", "sweep"}

TypeOK ==
    /\ heap \subseteq Blocks
    /\ cell \in [Cells -> Blocks]
    /\ first \in Threads \cup {NoThread}
    /\ next \in [Threads -> Threads \cup {NoThread}]
    /\ registered \subseteq Threads
    /\ hp \in [Threads -> [Slots -> Blocks \cup {NULL}]]
    /\ current_hp_slot \in [Threads -> Slots]
    /\ straddled \subseteq Threads \X Slots
    /\ release_list \in
         [Threads -> [Entries -> [data : Blocks \cup {NULL}, status : 0..2]]]
    /\ current_rl_slot \in [Threads -> Entries]
    /\ release_list_size \in [Threads -> 0..RLMax]
    /\ pc \in [Threads -> PCs]
    /\ request \in [Threads -> Request]
    /\ value \in [Threads -> Blocks \cup {NULL}]
    /\ victim \in [Threads -> Blocks \cup {NULL}]
    /\ i \in [Threads -> Slots]
    /\ iter \in [Threads -> Threads \cup {NoThread}]
    /\ calls \in [Threads -> Nat]
    /\ deleted \in BOOLEAN

NoEntry   == [data |-> NULL, status |-> 0]
NoRequest == CHOOSE r \in Request : TRUE

\* No thread has a record yet.
Init ==
    /\ cell = StartCell
    /\ heap = {cell[c] : c \in Cells}
    /\ first = NoThread
    /\ next = [t \in Threads |-> NoThread]
    /\ registered = {}
    /\ hp = [t \in Threads |-> [s \in Slots |-> NULL]]
    /\ current_hp_slot = [t \in Threads |-> 0]
    /\ straddled = {}
    /\ release_list = [t \in Threads |-> [k \in Entries |-> NoEntry]]
    /\ current_rl_slot = [t \in Threads |-> RLMax - 1]
    /\ release_list_size = [t \in Threads |-> 0]
    /\ pc = [t \in Threads |-> "idle"]
    /\ request = [t \in Threads |-> NoRequest]
    /\ value = [t \in Threads |-> NULL]
    /\ victim = [t \in Threads |-> NULL]
    /\ i = [t \in Threads |-> 0]
    /\ iter = [t \in Threads |-> NoThread]
    /\ calls = [t \in Threads |-> 0]
    /\ deleted = FALSE

Goto(t, place) == pc' = [pc EXCEPT ![t] = place]
SetSlot(t, s, p) ==
    /\ hp' = [hp EXCEPT ![t][s] = p]
    /\ straddled' = straddled \ {<<t, s>>}

\* Some scan has read the slot `to' of u and not yet `from', and it would free
\* what `from' holds.
Straddles(u, from, to) ==
    \E t \in Threads :
      /\ pc[t] = "scan" /\ iter[t] = u /\ to < i[t] /\ i[t] <= from
      /\ \E k \in Entries : release_list[t][k] = [data |-> hp[u][from], status |-> 1]

\* What the slot `from' holds, p, is stored in another, which is then as safe as
\* the first, unless a scan is between the two.
CopySlot(t, from, to, p) ==
    /\ hp' = [hp EXCEPT ![t][to] = p]
    /\ straddled' =
         IF <<t, from>> \in straddled \/ Straddles(t, from, to)
         THEN straddled \cup {<<t, to>>} ELSE straddled \ {<<t, to>>}

-----------------------------------------------------------------------------
(* The calls, and the registration of the calling thread.                  *)

\* Where a call goes on once the thread has a record.
Entry(r) ==
    CASE r.op = "add" -> "search"
      [] Checks(r)    -> "peek"
      [] OTHER        -> IF Moves(r) THEN "copy" ELSE "read"

Protect(t, r) ==
    /\ ~deleted /\ pc[t] = "idle" /\ calls[t] < MaxCalls[t]
    /\ Moves(r) => t \in registered         \* myData is not tested there
    /\ r.op = "add" => \E s \in Slots : hp[t][s] = NULL
    /\ calls' = [calls EXCEPT ![t] = @ + 1]
    /\ request' = [request EXCEPT ![t] = r]
    /\ Goto(t, IF t \in registered THEN Entry(r) ELSE "init")
    /\ UNCHANGED <<client, list, slots, own, value, victim, i, iter>>

\* hazard_pointer_thread_initialize: the new record is all zero already.
InitRead(t) ==
    /\ pc[t] = "init"
    /\ next' = [next EXCEPT ![t] = first]
    /\ Goto(t, "cas")
    /\ UNCHANGED <<client, first, registered, slots, own, locals>>

\* Mutant of InitCas: the record is stored without comparing.
InitCasBlind(t) ==
    /\ pc[t] = "cas"
    /\ first' = t
    /\ registered' = registered \cup {t}
    /\ Goto(t, Entry(request[t]))
    /\ UNCHANGED <<client, next, slots, own, locals>>

InitCas(t) ==
    /\ pc[t] = "cas"
    /\ \/ /\ first = next[t]
          /\ first' = t
          /\ registered' = registered \cup {t}
          /\ Goto(t, Entry(request[t]))
       \/ /\ first # next[t]
          /\ Goto(t, "init")
          /\ UNCHANGED <<first, registered>>
    /\ UNCHANGED <<client, next, slots, own, locals>>

-----------------------------------------------------------------------------
(* Protecting what a cell points to.                                       *)

\* The position checked holds the block already: no need to publish it.
Peek(t) ==
    LET r == request[t]
        known == hp[t][r.pos] = cell[r.cell]
    IN  /\ pc[t] = "peek"
        /\ value' = [value EXCEPT ![t] = IF known THEN hp[t][r.pos] ELSE NULL]
        /\ Goto(t, IF Moves(r) THEN "copy" ELSE IF known THEN "reuse" ELSE "read")
        /\ UNCHANGED <<client, list, slots, own, request, victim, i, iter, calls>>

\* move_prev_slot_value_to_slot, before the slot is set.
Copy(t) ==
    /\ pc[t] = "copy"
    /\ CopySlot(t, request[t].slot, request[t].to, hp[t][request[t].slot])
    /\ Goto(t, IF value[t] # NULL THEN "reuse" ELSE "read")
    /\ UNCHANGED <<client, list, current_hp_slot, own, locals>>

Reuse(t) ==
    /\ pc[t] = "reuse"
    /\ CopySlot(t, request[t].pos, request[t].slot, value[t])
    /\ value' = [value EXCEPT ![t] = NULL]
    /\ Goto(t, "idle")
    /\ UNCHANGED <<client, list, current_hp_slot, own, request, victim, i, iter, calls>>

\* hazard_pointer_add: the first free slot from the current one on, cyclically.
\* Without one the code looks for ever.
Search(t) ==
    LET slotAt(d) == (current_hp_slot[t] + d) % NumSlots
    IN  /\ pc[t] = "search"
        /\ \E d \in Slots :
             /\ hp[t][slotAt(d)] = NULL
             /\ \A e \in 0..d - 1 : hp[t][slotAt(e)] # NULL
             /\ request' = [request EXCEPT ![t].slot = slotAt(d)]
        /\ Goto(t, "read")
        /\ UNCHANGED <<client, list, slots, own, value, victim, i, iter, calls>>

Read(t) ==
    /\ pc[t] = "read"
    /\ value' = [value EXCEPT ![t] = cell[request[t].cell]]
    /\ Goto(t, "store")
    /\ UNCHANGED <<client, list, slots, own, request, victim, i, iter, calls>>

Store(t) ==
    /\ pc[t] = "store"
    /\ SetSlot(t, request[t].slot, value[t])
    /\ value' = [value EXCEPT ![t] = NULL]
    /\ Goto(t, "check")
    /\ UNCHANGED <<client, list, current_hp_slot, own, request, victim, i, iter, calls>>

\* Mutant of Validated: the cell is not read again.
ValidatedUnread(t) == TRUE

Validated(t) == hp[t][request[t].slot] = cell[request[t].cell]

Check(t) ==
    /\ pc[t] = "check"
    /\ Goto(t, IF Validated(t) THEN "idle" ELSE "read")
    /\ current_hp_slot' =
         IF Validated(t) /\ request[t].op = "add"
         THEN [current_hp_slot EXCEPT ![t] = request[t].slot]
         ELSE current_hp_slot
    /\ UNCHANGED <<client, list, hp, straddled, own, locals>>

-----------------------------------------------------------------------------
(* Giving protection up, and retiring blocks.                              *)

\* hazard_pointer_remove: the first slot with p below the current one,
\* cyclically.  The caller knows that there is one.
Remove(t, p) ==
    LET slotAt(d) == (current_hp_slot[t] + NumSlots - 1 - d) % NumSlots
    IN  /\ ~deleted /\ pc[t] = "idle" /\ t \in registered /\ p # NULL
        /\ \E d \in Slots :
             /\ hp[t][slotAt(d)] = p
             /\ \A e \in 0..d - 1 : hp[t][slotAt(e)] # p
             /\ SetSlot(t, slotAt(d), NULL)
             /\ current_hp_slot' = [current_hp_slot EXCEPT ![t] = slotAt(d)]
        /\ UNCHANGED <<client, list, own, pc, locals>>

StartClear(t) ==
    /\ Goto(t, "clear")
    /\ i' = [i EXCEPT ![t] = 0]

\* hazard_pointer_remove_all over all slots.
RemoveAll(t) ==
    /\ ~deleted /\ pc[t] = "idle" /\ t \in registered
    /\ \E s \in Slots : hp[t][s] # NULL
    /\ StartClear(t)
    /\ UNCHANGED <<client, list, slots, own, request, value, victim, iter, calls>>

\* The client puts a new block in place of an old one and retires the old one.
Retire(t, c) ==
    /\ t \in Retirers
    /\ ~deleted /\ pc[t] = "idle" /\ t \in registered /\ calls[t] < MaxCalls[t]
    /\ calls' = [calls EXCEPT ![t] = @ + 1]
    /\ \E new \in Blocks \ heap :
         /\ heap' = heap \cup {new}
         /\ cell' = [cell EXCEPT ![c] = new]
    /\ victim' = [victim EXCEPT ![t] = cell[c]]
    /\ StartClear(t)
    /\ UNCHANGED <<deleted, list, slots, own, request, value, iter>>

ClearSlot(t) ==
    /\ pc[t] = "clear"
    /\ SetSlot(t, i[t], NULL)
    /\ \/ i[t] < NumSlots - 1 /\ i' = [i EXCEPT ![t] = @ + 1] /\ UNCHANGED pc
       \/ /\ i[t] = NumSlots - 1
          /\ Goto(t, IF victim[t] = NULL THEN "idle" ELSE "free")
          /\ i' = [i EXCEPT ![t] = 0]
    /\ UNCHANGED <<client, list, current_hp_slot, own, request, value, victim, iter, calls>>

-----------------------------------------------------------------------------
(* Release lists and scans.                                                *)

\* qsort with hp_release_data_compare.
Precedes(L, j, k) ==
    L[j].data < L[k].data \/ (L[j].data = L[k].data /\ j < k)
Sort(L) ==
    [k \in Entries |->
       L[CHOOSE j \in Entries : Cardinality({m \in Entries : Precedes(L, m, j)}) = k]]

\* Mutant of LastIndex: one too low.
LastIndexLow == RLMax - 2

LastIndex == RLMax - 1      \* the first imax

\* The binary search, of the entries from w[1] to w[2]: an index of p in a
\* sorted list, or -1.
find_index_of_pointer(L, p) ==
    LET search[w \in (0..RLMax) \X (-1..RLMax - 1)] ==
          LET imin == w[1]
              imax == w[2]
              imid == imin + (imax - imin) \div 2
          IN  IF imax < imin THEN -1
              ELSE IF L[imid].data < p THEN search[<<imid + 1, imax>>]
              ELSE IF L[imid].data > p THEN search[<<imin, imid - 1>>]
              ELSE imid
    IN  search[<<0, LastIndex>>]

\* The entries found for the pointers P are not to be freed in this scan.
Marked(L, P) ==
    LET found == {find_index_of_pointer(L, p) : p \in P}
    IN  [k \in Entries |-> IF k \in found THEN [L[k] EXCEPT !.status = 2] ELSE L[k]]

\* Mutant of Swept: protected entries are forgotten as well.
SweptForgets(L) == [k \in Entries |-> NoEntry]

\* The end of a scan: entries not marked are freed, the others wait again.
Swept(L) ==
    [k \in Entries |->
       CASE L[k].status = 1 -> NoEntry
         [] L[k].status = 2 -> [L[k] EXCEPT !.status = 1]
         [] OTHER           -> L[k]]

\* Mutant of Freed: the sweep starts at the second entry.
FreedButFirst(L) == {k \in 1..RLMax - 1 : L[k].status = 1}

Freed(L) == {k \in Entries : L[k].status = 1}

\* Mutant of Remaining: release_list_size is left alone.
RemainingUncounted(size, L) == size

Remaining(size, L) == size - Cardinality(Freed(L))

Full(size) == size = RLMax

\* The entries of t's list, in the order they are tried for a free one.
Tried(t, d) == (current_rl_slot[t] + 1 + d) % RLMax

\* hazard_pointer_free; when the list is full, the scan starts with the sort.
\* With no free entry the code looks for ever.
Free(t) ==
    /\ pc[t] = "free"
    /\ \E d \in Entries :
         LET slot == Tried(t, d)
             added == [release_list[t] EXCEPT ![slot] = [data |-> victim[t], status |-> 1]]
             full == Full(release_list_size[t] + 1)
         IN  /\ release_list[t][slot].status = 0
             /\ \A e \in 0..d - 1 : release_list[t][Tried(t, e)].status # 0
             /\ current_rl_slot' = [current_rl_slot EXCEPT ![t] = slot]
             /\ release_list' =
                  [release_list EXCEPT ![t] = IF full THEN Sort(added) ELSE added]
             /\ iter' = [iter EXCEPT ![t] = IF full THEN first ELSE NoThread]
             /\ Goto(t, IF full THEN "scan" ELSE "idle")
    /\ release_list_size' = [release_list_size EXCEPT ![t] = @ + 1]
    /\ victim' = [victim EXCEPT ![t] = NULL]
    /\ UNCHANGED <<client, list, slots, request, value, i, calls>>

\* One slot of one thread is read; a NULL finds nothing in a full list.
ScanSlot(t) ==
    /\ pc[t] = "scan"
    /\ release_list' = [release_list EXCEPT ![t] = Marked(@, {hp[iter[t]][i[t]]})]
    /\ \/ i[t] < NumSlots - 1 /\ i' = [i EXCEPT ![t] = @ + 1] /\ UNCHANGED <<iter, pc>>
       \/ /\ i[t] = NumSlots - 1
          /\ i' = [i EXCEPT ![t] = 0]
          /\ iter' = [iter EXCEPT ![t] = next[@]]
          /\ Goto(t, IF next[iter[t]] = NoThread THEN "sweep" ELSE "scan")
    /\ UNCHANGED <<client, list, slots, current_rl_slot, release_list_size,
                   request, value, victim, calls>>

Sweep(t) ==
    LET L == release_list[t]
    IN  /\ pc[t] = "sweep"
        /\ release_list' = [release_list EXCEPT ![t] = Swept(L)]
        /\ heap' = heap \ {L[k].data : k \in Freed(L)}
        /\ release_list_size' = [release_list_size EXCEPT ![t] = Remaining(@, L)]
        /\ Goto(t, "idle")
        /\ UNCHANGED <<cell, deleted, list, slots, current_rl_slot, locals>>

\* skiplist_delete, with no call under way: the blocks in the cells are freed
\* unseen, then hazard_pointer_free_everything scans every release list.
Delete ==
    LET pointers == {hp[t][s] : t \in registered, s \in Slots}
        scanned == [t \in Threads |->
                      IF t \in registered THEN Marked(Sort(release_list[t]), pointers)
                      ELSE release_list[t]]
    IN  /\ ~deleted /\ \A t \in Threads : pc[t] = "idle"
        /\ deleted' = TRUE
        /\ release_list' = [t \in Threads |-> Swept(scanned[t])]
        /\ release_list_size' =
             [t \in Threads |-> Remaining(release_list_size[t], scanned[t])]
        /\ heap' = (heap \ {cell[c] : c \in Cells})
                     \ UNION {{scanned[t][k].data : k \in Freed(scanned[t])} : t \in Threads}
        /\ UNCHANGED <<cell, list, slots, current_rl_slot, pc, locals>>

Terminated == deleted /\ UNCHANGED vars

Step(t) ==
    \/ InitRead(t) \/ InitCas(t)
    \/ Peek(t) \/ Copy(t) \/ Reuse(t) \/ Search(t)
    \/ Read(t) \/ Store(t) \/ Check(t)
    \/ ClearSlot(t) \/ Free(t) \/ ScanSlot(t) \/ Sweep(t)

Next ==
    \/ \E t \in Threads :
         \/ \E r \in Requests[t] : Protect(t, r)
         \/ \E p \in Blocks : Remove(t, p)
         \/ \E c \in Cells : Retire(t, c)
         \/ RemoveAll(t)
         \/ Step(t)
    \/ Delete
    \/ Terminated

Spec == Init /\ [][Next]_vars
=============================================================================
