------------------------------- MODULE KVSet -------------------------------
(***************************************************************************)
(* What the key-value set interface (src/src/maps/kvset.h) promises to     *)
(* threads that call it concurrently: one map from keys to elements, and   *)
(* every operation takes effect at one instant between its call and its    *)
(* return, or answers with something the map held in that interval.        *)
(*                                                                         *)
(* An operation that changes the map changes it in one step (Put, PutNew,  *)
(* Remove).  An operation that leaves it alone is given the set `seen' of  *)
(* everything its key has been bound to since the call and may answer with *)
(* any member of it: choosing the instant afterwards is what a reader that *)
(* takes no lock does.                                                     *)
(*                                                                         *)
(* DropPut is the one step a caller would not expect: skiplist_put returns *)
(* NULL without storing its element when the node it finds is being        *)
(* removed.  `raced' says that an effective removal of the same key ran at *)
(* the same time as the put: without one no put is dropped.                *)
(***************************************************************************)
EXTENDS Integers

CONSTANTS
    Threads,    \* the calling threads
    Keys,       \* the keys, compared by the set's compare function
    Elements,   \* the elements stored, each holding its key at key_offset
    KeyOf,      \* the key of an element
    NULL        \* the answer "no element", and a key bound to nothing

VARIABLES
    map,        \* what each key is bound to
    status,     \* of each thread: idle, called or returned
    op,         \* the operation the thread has called
    key,        \* the key it was called with
    arg,        \* the element a put was called with
    took,       \* the operation has changed the map
    ret,        \* its answer
    seen,       \* the bindings its key has had since the call
    raced       \* an effective removal of its key overlapped it

vars == <<map, status, op, key, arg, took, ret, seen, raced>>

Ops     == {"put", "put_new", "remove", "lookup", "member"}
Answers == Elements \cup {NULL, 0, 1}

TypeOK ==
    /\ map \in [Keys -> Elements \cup {NULL}]
    /\ status \in [Threads -> {"idle", "called", "returned"}]
    /\ op \in [Threads -> Ops \cup {"none"}]
    /\ key \in [Threads -> Keys]
    /\ arg \in [Threads -> Elements \cup {NULL}]
    /\ took \in [Threads -> BOOLEAN]
    /\ ret \in [Threads -> Answers]
    /\ seen \in [Threads -> SUBSET (Elements \cup {NULL})]
    /\ raced \in [Threads -> BOOLEAN]

Init ==
    /\ map \in [Keys -> Elements \cup {NULL}]
    /\ \A k \in Keys : map[k] # NULL => KeyOf[map[k]] = k
    /\ status = [t \in Threads |-> "idle"]
    /\ op = [t \in Threads |-> "none"]
    /\ key \in [Threads -> Keys]
    /\ arg = [t \in Threads |-> NULL]
    /\ took = [t \in Threads |-> FALSE]
    /\ ret = [t \in Threads |-> NULL]
    /\ seen = [t \in Threads |-> {}]
    /\ raced = [t \in Threads |-> FALSE]

\* Some thread has removed the binding of k and has not returned yet.
Removing(k) == \E u \in Threads : op[u] = "remove" /\ key[u] = k /\ took[u]

Call(t, o, k, e) ==
    /\ status[t] = "idle"
    /\ o \in {"put", "put_new"} => e \in Elements /\ k = KeyOf[e]
    /\ status' = [status EXCEPT ![t] = "called"]
    /\ op' = [op EXCEPT ![t] = o]
    /\ key' = [key EXCEPT ![t] = k]
    /\ arg' = [arg EXCEPT ![t] = e]
    /\ seen' = [seen EXCEPT ![t] = {map[k]}]
    /\ raced' = [raced EXCEPT ![t] = Removing(k)]
    /\ UNCHANGED <<map, took, ret>>

\* t binds its key to e: every other operation on the key under way sees it.
Effect(t, e, answer, removal) ==
    /\ status[t] = "called" /\ ~took[t]
    /\ map' = [map EXCEPT ![key[t]] = e]
    /\ took' = [took EXCEPT ![t] = TRUE]
    /\ ret' = [ret EXCEPT ![t] = answer]
    /\ seen' = [u \in Threads |->
                   IF u = t THEN {}
                   ELSE IF seen[u] # {} /\ key[u] = key[t] THEN seen[u] \cup {e}
                   ELSE seen[u]]
    /\ raced' = [u \in Threads |->
                   IF u = t THEN FALSE
                   ELSE raced[u] \/ (removal /\ seen[u] # {} /\ key[u] = key[t])]
    /\ UNCHANGED <<status, op, key, arg>>

Put(t) ==
    /\ op[t] = "put"
    /\ Effect(t, arg[t], map[key[t]], FALSE)

PutNew(t) ==
    /\ op[t] = "put_new" /\ map[key[t]] = NULL
    /\ Effect(t, arg[t], 1, FALSE)

Remove(t) ==
    /\ op[t] = "remove" /\ map[key[t]] # NULL
    /\ Effect(t, NULL, map[key[t]], TRUE)

\* The answers an operation that changes nothing may give.
Readings(t) ==
    CASE op[t] = "lookup"  -> seen[t]
      [] op[t] = "member"  -> {IF e = NULL THEN 0 ELSE 1 : e \in seen[t]}
      [] op[t] = "remove"  -> seen[t] \cap {NULL}
      [] op[t] = "put_new" -> {0 : e \in seen[t] \ {NULL}}
      [] OTHER             -> {}

Finish(t, answer) ==
    /\ status[t] = "called"
    /\ status' = [status EXCEPT ![t] = "returned"]
    /\ ret' = [ret EXCEPT ![t] = answer]
    /\ seen' = [seen EXCEPT ![t] = {}]
    /\ raced' = [raced EXCEPT ![t] = FALSE]
    /\ UNCHANGED <<map, op, key, arg, took>>

FinishUpdate(t) == took[t] /\ Finish(t, ret[t])
FinishRead(t)   == ~took[t] /\ \E answer \in Readings(t) : Finish(t, answer)
DropPut(t)      == op[t] = "put" /\ ~took[t] /\ raced[t] /\ Finish(t, NULL)

Return(t) ==
    /\ status[t] = "returned"
    /\ status' = [status EXCEPT ![t] = "idle"]
    /\ op' = [op EXCEPT ![t] = "none"]
    /\ arg' = [arg EXCEPT ![t] = NULL]
    /\ took' = [took EXCEPT ![t] = FALSE]
    /\ ret' = [ret EXCEPT ![t] = NULL]
    /\ \E k \in Keys : key' = [key EXCEPT ![t] = k]
    /\ UNCHANGED <<map, seen, raced>>

Next ==
    \E t \in Threads :
        \/ \E o \in Ops, k \in Keys, e \in Elements \cup {NULL} : Call(t, o, k, e)
        \/ Put(t) \/ PutNew(t) \/ Remove(t)
        \/ FinishUpdate(t) \/ FinishRead(t) \/ DropPut(t)
        \/ Return(t)

Spec == Init /\ [][Next]_vars
=============================================================================
