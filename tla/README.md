# A verification of c_maps

c_maps is a C library of key-value sets: a lock-based concurrent skiplist, a
sequential skiplist with the same interface, and hazard pointers that decide
when the concurrent one may free a removed node. This directory holds TLA+
modules translated from the sources, TLC configurations that check them on
small instances, and TLAPS proofs about them. Paths below are relative to the
repository; lines are those of the commit the modules were written from.

## Inventory

| component | state | operations | hard parts |
|---|---|---|---|
| concurrent skiplist, `src/maps/concurrent_skiplist.c` | nodes (element, height, `lower_lists`, `marked`, `fully_linked`, mutex), head and end nodes | `put`, `put_new`, `remove`, `lookup`, `member` | searches without locks; validation under locks; retries; two-phase removal |
| ordered queries and deletion, same file | the same nodes | `first`, `last`, `next`, `previous`, `delete_table` | documented as not thread safe |
| hazard pointers, `src/utils/hazard_pointers.c` | per thread 64 slots and a release list of 32; a list of threads | `set`, `set_check`, `move_set`, `move_set_check`, `add`, `remove`, `remove_all`, `free`, `free_everything` | a scan races with slots being set and moved; full release lists |
| random levels, `concurrent_skiplist.c:86-117` | a seed per thread | `random_level` | shared seeding, number ranges |
| sequential skiplist, `src/maps/skiplist.c` | nodes (element, height, `lower_lists`), two borders | the ten operations of `kvset.h` | nodes of different heights for one key; borders; levels |
| nodes as hazards, `concurrent_skiplist.c:133-176, 246-251, 404-526` | which slot holds which node | what each call sets, moves and clears, and when a node is handed over | slots reused by the search; removed nodes that still point on |
| interface, `src/maps/kvset.h` | a method table | the ten operations | what concurrent callers may rely on |
| tests, benchmarks, build files | | | clients; not modelled |

How they interact. A caller reaches an implementation through the method table
in `KVSet`. Every operation of the concurrent skiplist starts with
`find_neigbours`, which walks from the head down all levels and records, on
each level, the node before the key and the node after it. Updates then lock
the nodes before (`validate_and_lock`), check that nothing has changed, write
and unlock. While it walks, a search publishes every node it stands on in its
thread's hazard pointer slots; a remover hands the unlinked node to
`hazard_pointer_free`, which frees it after a scan of all threads' slots.

What makes each part correct:

* concurrent skiplist: the five operations act like a map changed at single
  instants; no element is lost but by `remove` or by being replaced; the lists
  stay sorted and nested; no access outside a node's array; locks never form a
  circle; calls return;
* hazard pointers: no node is freed while a thread that validated a hazard
  pointer to it may use it; every node handed over is freed once, sometime;
* sequential skiplist and ordered queries: they answer as an ordered map;
* random levels: each is a level of the list, whatever the number drawn.

`PROJECT.json` lists the places where this can go wrong ("hazards"), each with
the properties that watch it or the reason why none does.

## Modules

* `KVSet` is the abstract specification: one map, threads that call, take
  effect and return. An operation that changes the map changes it in one step.
  One that leaves it alone may answer with any binding its key has had since the
  call (`seen`), which is what choosing a linearization point afterwards means.
  It has one step a caller would not expect, `DropPut`, explained below.
* `ConcurrentSkiplist` is the detailed model: nodes as functions of their name
  (`element`, `top`, `nxt`, `marked`, `fully_linked`, `lock`), threads as a
  program counter and the locals of the call under way. There is one action per
  access to memory other threads can see. Accesses are merged only where no
  other thread can tell: fields read or written under the lock that guards them
  (the mark with the element in `RemoveMark`, the three tests of a level in
  `LevelIsValid`, of which only the read of `fully_linked` can race and it
  changes once), and fields of a node that is not linked yet. `top[n]` is
  `SKIPLIST_NUM_OF_LEVELS - num_of_levels`, so `nxt[n][l]` is
  `lower_lists[l - top[n]]`: an access above `top[n]` is an access below index 0.
  Operators whose comment says "Mutant of" are bugs the properties must find;
  no specification uses them.
* `SkiplistProperties` holds the properties, the refinement mapping to `KVSet`
  (`KVSpec`) and the inductive invariant `IInv`. `SkiplistInvariants` has the
  stronger inductive invariants the later proofs are about.
* `MCSkiplist` and the `.cfg` files are the instances TLC checks.
* `OrderedMap` is the interface as one caller at a time sees it: all ten
  operations of `kvset.h`, with the answer of the last one as a variable.
* `SkiplistQueries` has the search and the ordered queries as functions of the
  lists, which both skiplists share when nobody changes them. The walk along a
  list and the descent are recursive functions.
* `SequentialSkiplist` models `skiplist.c`: one action per operation, but
  `skiplist_delete`, which goes from node to node and frees them one by one
  (`FreeNode`); the heights are drawn by `random_level`, freed nodes hold nothing
  and are given out again. `OrderedMap` is its specification
  (`ImplementsOrderedMap`); `MCSequentialSkiplist` the instance.
* `OrderedQueries` takes `SkiplistQueries` to the concurrent skiplist. Its code
  marks the ordered queries and `delete_table` as not thread safe, so they are
  asked in every state in which no call is under way.
* `ReclaimedSkiplist` composes the concurrent skiplist with the hazard pointers
  of its calls and the scans of its removals. Each action is a step of
  `ConcurrentSkiplist` together with what it does to the slots, or an access to
  the slots alone: `StartLoop` enters the loop of `hazard_pointer_set`, `SetHazard`
  stores the pointer that is read, the step of the search comes when it reads the
  same again; `CopySlot` copies one slot to another (`copies` are those a call has
  still to make); `ScanSlot` reads one slot of one thread, in the order of
  `do_free_scan`, and `Sweep` frees what no slot read has held; `DeleteTable` ends it
  all. Other threads' steps come between any two of these. A history variable,
  `lost`, notes the nodes that a call goes on using although the protocol does not
  protect them. `MCReclaimed` has its instances.
* `ConcurrentSkiplistProofs`, `SkiplistLockProofs`, `SkiplistListProofs` and
  `SkiplistAnswersProofs` hold the proofs about the concurrent skiplist, each
  extending the one before it, and `ReclaimedProofs` those about its ordered
  queries and the memory of its nodes. `SkiplistQueriesProofs` has the lemmas
  about the shared search, `SequentialProofs` the proofs about `skiplist.c`.
* `Reclamation` is the abstract specification of the hazard pointers: a block is
  linked, retired or free; threads guard blocks; a guarded block is not freed.
* `HazardPointers` models every operation of `hazard_pointers.h` under a client
  that keeps blocks in shared cells. The client sets, checks, moves and removes
  pointers as it likes and retires a block the way `skiplist_remove` does:
  unlink, `hazard_pointer_remove_all`, `hazard_pointer_free`. Pointers are
  numbers, because the release list is sorted and searched by address, and
  `malloc` may give any free one, so addresses come back.
* `HazardProperties` holds its properties and the refinement mapping to
  `Reclamation`; `HazardInvariants` the inductive invariant `HazardInv`;
  `MCHazardPointers` and its `.cfg` files the instances; `HazardProofs` the
  proofs.

| code | actions |
|---|---|
| `find_neigbours`, `find_neigbours_1_level` | `StartFind`, `FindRight`, `FindDown`, `FindHit`, `FindAfter` |
| `validate_and_lock` | `LockPred`, `CheckFails`, `CheckNext`, `CheckDone` |
| `unlock_to_level` | `UnlockPred` |
| `try_insert_sublist` | `Fill`, `Link`, `Publish` around the two above |
| `try_remove_element` | `Unlink` around the two above, `RemoveUnlocked` |
| `skiplist_put`, `skiplist_put_new` | `PutAbsent`, `PutFound`, `PutNewFound`, `WaitLinked`, `LockElement`, `LostRace`, `PutOver`, `UnlockElement`, `PutDone`, `PutNewDone` |
| `skiplist_remove` | `RemoveFound`, `WaitLinked`, `LockElement`, `LostRace`, `RemoveMark`, `UnlockElement` |
| `skiplist_lookup`, `member` | `LookupFound`, `LookupMarked`, `LookupElement` |

| code of `skiplist.c` | operators and actions |
|---|---|
| `compare`, `find_neigbours`, `find_neigbours_1_level` | `KeyAt`; `SkiplistQueries` |
| `insert_sublist`, `set_next_at_level`, `create_skiplist_node` | `insert_sublist`, `Insert` |
| the ten operations | actions of the same names; `skiplist_delete`, then `FreeNode` for every node |

| code around a step of the concurrent skiplist | actions of `ReclaimedSkiplist` |
|---|---|
| `hazard_pointer_set_check`, `move_set_check` in the search | `FindKnown` (the pointer two slots below is the one), or `StartLoop`, `SetHazard`, `FindStep`; `CopySlot` |
| `hazard_pointer_set` in `validate_and_lock` | `SetHazard`, `LockStep` |
| `remove_hazard_pointers` | `Clear` in `AnswerStep`, `PutStep`, `LostStep`, `UnlockStep` |
| `hazard_pointer_free` | `Retired` and `StartScan` in `UnlockStep` |
| `do_free_scan` | `ScanSlot`, `Sweep` |
| `skiplist_delete`, `hazard_pointer_free_everything` | `DeleteTable` |

| code of `hazard_pointers.c` | actions |
|---|---|
| `hazard_pointer_thread_initialize` | `InitRead`, `InitCas` |
| `hazard_pointer_set`, and the loops of the others | `Protect`, `Read`, `Store`, `Check` |
| `hazard_pointer_set_check`, `move_set`, `move_set_check` | `Protect`, `Peek`, `Copy`, `Reuse` before the loop |
| `hazard_pointer_add`, `hazard_pointer_remove` | `Search` before the loop; `Remove` |
| `hazard_pointer_remove_all` | `RemoveAll`, `ClearSlot` |
| `hazard_pointer_free`, `do_free_scan` | `Retire` (the client), `Free`, `ScanSlot`, `Sweep` |
| `hazard_pointer_free_everything`, `skiplist_delete` | `Delete` |

In `HazardPointers` a slot guards its block from the moment a call has stored
and validated it, copied it or found it stored already, until the slot is set
again or removed (`Guards`). The slot a call is just setting guards nothing, and
neither does one whose pointer was moved there while some scan had read this slot
and not yet the one it came from (`straddled`). A client that calls
`hazard_pointer_add` has a free slot, one that calls `hazard_pointer_remove` has the
pointer: without that the code loops for ever.

What the model leaves out: memory is sequentially consistent (the code puts
`__sync_synchronize` between its writes and locks around them; `lookup` relies
on loads in program order); in the concurrent skiplist a node that has been
linked is never given out by `malloc` again, so that `ReclaimedSkiplist` can tell
a use of a freed node (`HazardPointers` and `SequentialSkiplist` do give memory
out again); random levels of the concurrent skiplist are any level; keys are
small integers compared by `<`. In `ReclaimedSkiplist` a scan may come at the end of
any removal: the removals that fill a release list of 32 are not made. The scans
of `delete_table` are one step there, as nobody else runs, and slot by slot in
`HazardPointers`. A release list that stays full is in `HazardPointers` only.

## Runs

| run | threads, calls | lists | checks |
|---|---|---|---|
| `Pairs` | 2, one each out of put, remove, lookup, member on neighbouring keys | 3 levels; 4 contents | `TypeOK`, `InBounds`, `HalfLinkedIsLocked`, `NodeAccounted`, `IInv`, `HeldInv`, `AnswersInv`, `KVSpec` |
| `Neighbours` | 3, one each | 2 levels, two tall nodes | `Sorted`, `LiveIsListed`, `ListHierarchy`, `NoZombie`, `QuiescentLayout`, `LockOrder`, `ListInv`, `QueriesAgree`, `MarkedFrozen`, `WritesUnderLock`, `KVSpec` |
| `Churn` | 2, two each on one key and its neighbours, `put_new` among them | 2 levels | `OwnVictim`, `ReturnsUnlessOvertaken` |
| `DroppedPut` | 2, one each | 2 levels | `PutStores`, violated |

| run | threads, calls | slots, release list | checks |
|---|---|---|---|
| `Hazards` | a reader with 2 calls, a remover with 4, removals of pointers besides | 3, 2 | `TypeOK`, `Accounted`, `SearchFinds`, `DeleteFreesTheRest`, `ScansMeetEveryThread`, `HazardInv`, `Reclaims` |
| `MovedDown` | a reader with 3, a remover with 3 | 3, 2 | `GuardedKept`, violated |
| `FullList` | a reader with 1, a remover with 3 | 2, 1 | `FullListWaits`, violated |

| run | threads, calls | lists | checks |
|---|---|---|---|
| `Sequential` | one, any number | 3 levels, 4 nodes, `RAND_MAX` 7 | `TypeOK`, `Layout`, `LeftBeforeFreed`, `AllFreed`, `LevelsHalve`, `ImplementsOrderedMap` |
| `Reclaimed` | 2, two each out of puts, removals, lookup and member of three neighbours | 2 levels | `FreedUseKnown`, `FreedOnce`, `FreeingInv`, `DeleteFreesAll`, `FreedFrozen` |
| `SingleWriter` | a writer with `put_new` and `remove`, a reader, two calls each | 2 levels; 2 contents | `KVSpec` |
| `FreedSuccessor` | a put and a removal | 2 levels | `NoUseAfterFree`, violated |
| `RemovedNext` | a lookup, two removals | 2 levels | `SetPointerLive`, violated |

`put_new` is for one writer alone ("NOT THREAD SAFE", line 441), which is how
`SingleWriter` calls it, with the memory of the nodes. `Churn` calls it beside other
updates: it may then lose its element, but it returns, and no remover misses its
node because of it.

Deadlock is checked in every run but `Hazards`, where a list of two entries may stay
full and its thread stop in `hazard_pointer_free` (see "Full release lists"): the one state in which nobody moves is that
where all calls are made, or the set has been deleted (`Terminated`; in
`ReclaimedSkiplist` the last disjunct of `MemoryNext`).

Bounds. `MaxCalls` bounds the calls of a thread, `Nodes` the nodes `malloc` has;
the runs give enough nodes for every put of every interleaving, retries
included, because a put that fails frees its node first. Three levels are the
fewest where a node is below the top and above the bottom; two keys are
neighbours with a third behind them. Two threads meet every pair of operations;
the third is needed where a node's predecessor and the node itself change
together. Two calls each let a
thread remove and insert the key another thread is still removing. Nodes that are not in the initial contents are
interchangeable (`SpareNodes`); the run with a liveness property uses no
symmetry.

`Sequential` bounds nothing but the data: three keys, one of them with two
elements, so that every node has a neighbour on either side, a put can meet an
element of any other height, and queries can be asked for keys that are there or
not, below, between and above. Four nodes are the three in use and the new one.
Eight random numbers are the fewest that halve exactly over three levels.
In `Reclaimed` the middle one of three nodes can be removed, replaced or looked up
while the node before it and the node behind it are removed, by either thread, so
that a validated predecessor is gone and a removal searches again; two calls each
let a node be removed and freed after a search has stepped past it. Five nodes are
the three and one for each put. Two levels have all four slots of a search: the
pointer two slots below (`pos_to_check`) is read on level 1, where the tall node is
met again. Each of the four exceptions of `FreedUseKnown`, the shortcut of
`pos_to_check` and the retry of a removal is reached: leaving any of them out of
the property, or forbidding it in the model, is noticed. `delete_table` comes at
any moment without a call under way.

In the runs of the hazard pointers `MaxCalls` bounds each thread's calls,
`NumBlocks` the addresses, `NumSlots` and `RLMax` stand for 64 and 32. One slot is
where a pointer is read, one is next to it and one is the target of a move. A
release list of two is filled and scanned by two removals; the reader's three slots
can protect one of its blocks or both, so that it is filled a second time with what
the first scan left. Four calls of the remover reach that, and an address that comes
back in the cell another call is still reading it from. Two threads register at
once, each by a call of its own; `EveryThreadMet` proves the thread list for any
number. In `FullList` the list is half
as long as the slots of the other thread, as it is in the code.

Fairness. A thread inside a call keeps running (`WF` of its steps: threads are
pre-emptive and nothing in a call waits for the caller). `pthread_mutex_lock`
promises no fairness, and the code needs some: a put of a larger key whose
predecessor is a marked node locks it, finds it marked, unlocks it and searches
again (`try_insert_sublist`, line 286), and it can do so again and again while the
remover, whose first attempt failed, waits for that same lock to unlink the node
(line 483). `FairSpec` therefore assumes no more than that a step which stays
possible is taken, and `ReturnsUnlessOvertaken` says what is left: every call
returns, or some retry for ever takes the lock of a node which its remover waits
for (`Overtakes`). There is no deadlock and no other retry without end, given that
the number of calls is bounded. With ever new calls there would be: no call of
this skiplist is promised to return if others keep changing its neighbours.

### The dropped put

`skiplist_put` returns NULL when it finds its key in a node that another thread
has marked (lines 432-434), without having stored anything. NULL is also what it
returns after inserting, so the caller cannot tell. `test_lookup`
(`src/tests/test_kvset.c:86-97`) states what a caller expects: an element put
is found by the next lookup. The run `DroppedPut` shows the two threads it
takes. No order of the two calls explains the answers: the removal returns the
old element, so it came first or the put would have returned that element;
then the put was last, and its element should be there. `KVSet` therefore has
`DropPut`, and `KVSpec` shows that nothing else goes wrong: a put is dropped
only if an effective removal of the same key overlaps it (`raced`).

### The pointer moved down

`find_neigbours_1_level` steps forward by moving the pointer to the node it
stands on from slot `level + 1` to slot `level` and then setting slot `level + 1`
(`concurrent_skiplist.c:175`, `hazard_pointers.c:178-189`). The comment there,
"Total store order", says why the order of the stores should be enough. It is
enough for a move to a higher slot: `do_free_scan` reads the slots in ascending
order, so it meets the pointer at the old place or at the new one. For a move to
a lower slot it is not: in the run `MovedDown` the scan reads the lower slot before the copy and the higher one after it has been
set again, finds the pointer in neither and frees the block, which the thread
still guards. The remover must have unlinked the node before the scan, and the
reader must have validated it before that, so the window is that of one step of
a search against a whole scan. That is the only way: the run `Hazards`, with moves
in both directions, shows that a block stays as long as a slot guards it which
was not filled across a scan (`Reclaims`), and `ImplementsReclamation` proves it.

### The freed successor

A search records on each level the node after the key, and keeps it in slot
`level + 1` (`concurrent_skiplist.c:150-154`). If the search of the next level
steps right, it moves its predecessor to that very slot (line 175), and nothing
protects the recorded node any more unless it follows the key on the list below
as well. `skiplist_put` reads it all the same: `validate_and_lock` takes `succs`
from `neighbours_after` and reads `succs->fully_linked` (lines 252-266). In the
run `FreedSuccessor` a put meets a tall node on level 0, steps over a low one on
level 1, the tall node is removed and freed, and the put, having locked its way
up, reads it. The other calls that use nodes after such a search are not
affected: a removal and a put over an element reload what they read or hold it
in slot 61.

### The put that gives up its pointers

A put waits for the lock of a node that is being removed, finds the node marked
under the lock and calls `remove_hazard_pointers` before it unlocks (lines
429-430). The remover may be about to hand the node over; a scan frees it, and the
put unlocks a mutex in freed memory. `remove` does the two in the other order (lines
525-526). No run is kept for it: it is an exception of `FreedUseKnown`, and `Reclaimed`
refutes the property without it.

### The removed node's next

A pointer is validated against the place it was read from
(`hazard_pointers.c:122-125`). A removed node keeps its pointers, so when a search
stands on one, what it reads there always reads the same again. In the run
`RemovedNext` a lookup stands on a removed node whose next node has been removed
too and is in a release list under scan: the slot is set after the scan has read
it, the pointer is read again unchanged, and the node is freed
(`SetPointerLive`).

### No other use of a freed node

`FreedUseKnown` puts the four together: whatever a call reads, writes, locks or
unlocks at any step is covered by a slot or a lock, but for a pointer moved down
across a scan, a node reached from a removed one when it has been handed over
already, the node a put unlocks last, and the successor at line 266. `Reclaimed`
checks it against scans slot by slot, through retries, lost races, `member`'s
leftovers and the shortcut of `pos_to_check`; none of the calls that lead to the
four is left out. `FreedFrozen` adds that none of the four is a write to a link or
an element.

### Full release lists

`hazard_pointer_free` looks for a free entry until it finds one (lines 222-227) and
scans when it has filled the last one (232). If every entry is protected during
that scan, nothing is freed, and the next call looks for ever: no scan comes any
more, even when all pointers have been given up. `FullListWaits` states what the
status comments of the header suggest (`hazard_pointers.h:14-16`: an entry is kept
"during this scan"), that such a list waits for a pointer somebody still has; the
run `FullList` violates it. The code's 32 entries against 64 slots a thread allow
this with one other thread, for instance one that ended after a call of `member`,
which leaves its pointers behind, and with more such threads.

## Proofs

The proofs are about all four models of code: `ConcurrentSkiplist`,
`ReclaimedSkiplist` with its ordered queries, `SequentialSkiplist` and
`HazardPointers`. TLC evaluates the assumptions on the constants in every run.

### The concurrent skiplist

The theorems hold for any set of threads, any
finite set of nodes, any keys and elements, any number of levels, calls and
initial contents. They rest on the assumptions that module states: at least one
level; keys are a range of naturals; a put's argument has the key it is called
with; the initial contents have one node for a key; `NodeAssumption`, the nodes
`malloc` can give out are finitely many. Six
theorems say, in their ASSUME, what the code asks of its callers (line 441): a
thread that calls `put_new` is the only one to update the set (`PutNewAlone`).
Others may read beside it, and where nobody calls `put_new` it says nothing.

Four inductive invariants build on each other. `SkiplistProperties` has the
first, `SkiplistInvariants` the others; a run checks each of them.

1. **`IInv`** (`ConcurrentSkiplistProofs`) is what a search learns and what stays
   true of it while others run: its path (`SearchInv`), its result (`FoundInv`),
   which operation is where (`ControlInv`), who owns the new node (`NodeInv`),
   which locks a thread may have (`LockInv`). An access is in bounds because the
   search found its node on that very level, which has to be remembered through
   locking and validation; a link keeps the lists sorted because the nodes before
   and after were found on either side of the key. It needs no validation and no
   lock: linked nodes change neither key nor height and pointers only ever go
   forward. From it follow `TypeCorrect`, `ListsSorted`, `AccessesInBounds` and
   `LocksInOrder`.

2. **`HeldInv`** (`SkiplistLockProofs`) is what `validate_and_lock` is for: the
   levels a thread has validated stay as it found them, before, after and
   successor, until it writes them itself (`LevelsInv`); the locks it has to
   release are its own (`OwnLocks`); only fully linked nodes are marked or written
   over (`LinkedInv`). The case that makes it inductive is a thread that writes
   the pointer of a predecessor which another thread has validated: both would
   have its lock. From it follow `HalfLinkedHidden` and the action properties
   `WritesAreLocked` and `MarkedStaysFrozen`.

3. **`ListInv`** (`SkiplistListProofs`) says which nodes
   are on which list: each list is the chain of its nodes by key (`ShapeInv`), a
   marked node is on its lists exactly as far as its remover has not come, and
   every removal that has marked a node has one of its own (`HasVictim`,
   `HasRemover`, `OneRemover`). The hard part is the remover that must search
   again (`deleted_by_us`, line 481): its search may stand on nodes removed under
   it. `OnTrack` says why it comes to its node all the same: there is a set of
   nodes which holds what the search stands on, is closed under every pointer of
   every level and has no bottom pointer leading past the node. A link next to
   the set is added to it, an unlink leaves the pointers of what it unlinks as
   they are. From it follow `LiveNodesListed`, `ListsNested`, `NoZombieLeft`,
   `VictimFound` and `QuietLayout`. The module begins with what is needed about
   chains: what a pointer swing does to the set of nodes reachable from the head
   (`Listed`), which is defined by a recursive function on the number of steps;
   its bound, the number of nodes, is where finiteness is used.

4. **`AnswersInv`** (`SkiplistAnswersProofs`) says what every call under way can
   answer. If its key has been bound ever since the call, its search comes to the
   live node with the key (`SeenInv`, with `OnTrack` again); unless a removal of
   its key has overlapped it, it comes to no marked node (`RacedInv`, which is why
   a put is dropped only in that race).

`put_new` looks at no result of `try_insert_sublist` (line 453): if its validation
failed it would answer 1 for an element it had not stored, and lose its node.
**`AloneInv`** (`SkiplistListProofs`) is why it cannot, under `PutNewAlone`. The other
threads only read (`OthersRead`), so while a `put_new` searches nothing on a list
is marked or half linked (`ListsAtRest`, from `HasRemover` and `HalfOn`); its search
goes along the lists (`NewAhead`), and each level it has passed stays as it was
found until it is locked and validated (`NewInv`). A node it has hit on one list is
on every list below, so the search cannot lose it again and take its key for
absent. From it follow `PutNewSucceeds` and, with `AccountInv`, `NodesAccounted`: no
node is lost.

**`ImplementsSet`**: `PutNewAlone` implies `Spec => KVSpec`. The initial states
map to initial states (`InitIsInit`), `Invoke` and `Return` to `Call` and
`Return`, the three steps that take effect to `Put`, `PutNew` and `Remove`
(`EffectiveIsEffect`, on what they do to the map: `MapPublish`, `MapPutOver`,
`MapRemove`), the nine steps that may answer to `FinishUpdate`, `FinishRead` or
`DropPut` (`AnsweringIsFinish`), every other step to a stutter (`SetUnchanged`).

Each invariant has the same kind of proof: what another thread's step leaves
alone (`Frame`, `StepGuarantee`, `StepLocals`: nodes in use keep key and height,
a thread's locals are its own), then a lemma per action for the thread that
moves.

### The search between calls

`SkiplistQueries` is about lists nobody changes, for any borders, nodes and
levels. Its walk along a list and its descent are recursive functions, and the
induction theorems of the library cannot be used (they have an operator as a
parameter). `NatClosed` is induction over a set of numbers, proved from the fact
that `<` is well-founded; with it `WalkDef` and `BeforeDef` show that the functions
exist and what each step returns. `WalkRight` is why a walk stops: keys grow
along a list that is sorted (`SortedList`), so each round that does not stop leaves
one more node behind (`Rank`), and it comes to the last node before the key.
`SearchFacts` says what the search finds on lists that are each sorted and part
of the one below (`Layered`), `QueryFacts` what the four queries return,
`DeletedNodes` that `skiplist_delete` meets every node.

### The ordered queries and the memory of the concurrent skiplist

`ReclaimedProofs` has both.

* `QueriesCorrect`: between calls each list is the sorted one of the live nodes
  of its level (`QuietLayout`), which is what the lemmas above ask of it, so the
  queries answer from the abstract map. `DeleteSharesNodes` follows from the
  same and `NodesAccounted`.
* `MemorySteps` is the lemma that every step of `ReclaimedSkiplist` is one of
  `ConcurrentSkiplist` or leaves the lists alone, so the invariants of the lists hold
  of it. It says nothing about memory: freed nodes keep their contents in the
  model, which is how a use of one is seen.
* `FreeingInv` says where a removed node is: on a list, in the hands of the one
  removal that has unlinked it (`Departing`), in one release list or freed. The
  invariants of the lists make it inductive. A remover leaves the highest of its
  node's lists last (`LeavesLast`), and a link beside the node cannot bring it back
  (`MarkedStaysOff`: what is linked is not fully linked yet, what is marked is), so
  it is on no list when it is handed over. No two removals have one node, as each
  has its lock until then (`DepartingOwn`). From it follow `NodesFreedOnce` and,
  under `PutNewAlone`, `DeleteFreesTheTable`.
* `FreedStaysFrozen`: no step writes a link or an element of a freed node
  (`FreedFrozen`). What is freed has been marked, and a step writes only nodes that
  are not (`WriteFacts`). The uses after a free shown above are reads, locks and
  an unlock.

### The sequential skiplist

`SequentialProofs` holds for any keys, elements, levels, finite set of nodes
(`NodeAssumption`) and any `RAND_MAX` the code's assertion admits. Its invariant
`IInv` is the type, the empty borders and `ListsInv`: the list of each level is
sorted and has just the nodes in use that reach it. `Splice` is the one fact about
lists: taking one node out and putting one in between the nodes a search has found
keeps this. `ChangedLists` applies it to every level of `insert_sublist`, where the
heights of the old and the new node decide which of the two are on a list;
`RandomLevel` says that the new height is one of a node whatever is drawn. Once
`skiplist_delete` has begun, what is left of the bottom list from `node_iter` on is
sorted and has every node in use (`DeletionInv`); the node it leaves is the least of
them, so none of the rest leads back to it. From
`IInv` follow `TypeCorrect`, `ListsLaidOut`, `DeleteStandsClear` and `NothingLeaks`; with `QueryFacts`, one
lemma per group of operations, **`IsOrderedMap`**.

The proof corrected the model: two alternatives of the operator `insert_sublist`
overlapped. TLC took the first, which is the code's, but TLA+ leaves open which it
is, so the theorem did not follow; they exclude each other now.

### The hazard pointers

The theorems hold for any finite set of threads, any number of slots, entries,
blocks, cells, requests and calls. The assumptions: a slot and an entry exist;
the client has a cell and its cells start with different blocks; the requests
name slots that exist. `HazardInv` has three parts, each inductive with the ones
before it.

1. **`CallsInv`** is what a call has in hand: a thread that is not on the list has
   no pointers, a value read is kept until it is stored only, a removal has
   cleared all slots before it frees, a thread that scans protects nothing.
2. **`AccountsInv`** is where the blocks are: `OnePlace`, and for each release list
   `ReleaseInv`: its size counts the entries that wait, an entry has a pointer
   exactly when it is in use, marks exist during a scan only, and then the list is
   full and sorted. Preserving it needs three facts about the operators.
   `SortPermutes`: `Sort`, which puts an entry where as many others precede it,
   is a permutation, as the number of entries that precede one is a place of its
   own (`Places`). `SearchIsRight`: the binary search, a recursive function on the
   window that is left, finds the pointer's index if there is one; that the
   function exists and what it returns are shown by the least window that would
   fail (`LeastNat`), as induction over an operator is not available.
   `SweptFacts`: what a sweep frees and keeps, counted. From it follow
   `TypeCorrect`, `BlocksAccounted` and `SearchesFind`.
3. **`ScansInv`** is what a scan has still to read. `Ranks` numbers the registered
   threads from the end of the list; a thread that registers goes before all
   others and disturbs nothing (`NextRanks`), so `Ahead`, the slots after the one
   a scan stands on, only loses the slot just read (`SameAhead`, `ScanSlotAhead`).
   `GuardInv`: a guarded block of the list that is not marked is in a slot ahead.
   It is kept because a step of a call leaves in a slot that guards what is linked,
   or what this slot or one it was copied from guarded before (`GuardsStay`,
   `GuardsCopied`, one lemma per action; a copy that straddles a scan guards nothing
   in its new slot), and because the mark finds the block read. `KnownInv` is what a
   call knows of the slot it takes a pointer from. At the sweep nothing is ahead.
   From it follow `EveryThreadMet`, `RestFreed`, `GuardedNotFreed` and
   **`ImplementsReclamation`**.

`GuardedNotFreed` and `ImplementsReclamation` hold for all requests, moves to lower
slots included, as the searches of the skiplist make them. What they leave
unprotected is what `straddled` says and no more: a pointer is unprotected from a
copy that a scan has crossed until its slot is set again, and the run `MovedDown`
shows that the code does not protect it.

### Only model-checked

* `FreedUseKnown`: it needs, beside the invariants of the lists, what each slot of a
  search covers at each step against each scan; `FreedStaysFrozen` is what is proved;
* `LevelsHalve`: it counts drawn numbers with powers of two, about which the
  provers know nothing;
* `ReturnsUnlessOvertaken`: liveness is out of the prover's reach, together with ENABLED.

## Not modelled

* The distribution of the concurrent `random_level` and the seeding of its
  threads: any level may be drawn, so no answer depends on them.
* `put_new` beside other updates, ordered queries beside any other call: the
  code says that they are not thread safe.
* The limit on keys of the pthread library (`hazard_pointers.c:90`).
* Memory models weaker than sequential consistency, and a `malloc` that fails.
* Tests, benchmarks and build files: clients and descriptions.

## What is left

All parts of the library are modelled, and every safety property of the runs is
proved but those listed as only model-checked. Worth doing next: a proof of
`FreedUseKnown`. It needs a refinement of `HazardPointers` to the
slots of `ReclaimedSkiplist` and what each slot covers at each step of a search.
