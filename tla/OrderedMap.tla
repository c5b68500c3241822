----------------------------- MODULE OrderedMap -----------------------------
(***************************************************************************)
(* The ten operations of src/src/maps/kvset.h as one caller at a time sees *)
(* them: a map from keys to elements, with an order on the keys.           *)
(***************************************************************************)
EXTENDS Integers

CONSTANTS Keys, Elements, KeyOf, NULL

VARIABLES
    map,
    answered,   \* the operation just made, its argument and its answer
    freed       \* the elements delete_table has handed to its caller

vars == <<map, answered, freed>>

Bound == {k \in Keys : map[k] # NULL}
\* What the smallest or the greatest of some bound keys is bound to.
AtSmallest(S) == IF S = {} THEN NULL ELSE map[CHOOSE k \in S : \A j \in S : k <= j]
AtGreatest(S) == IF S = {} THEN NULL ELSE map[CHOOSE k \in S : \A j \in S : k >= j]

Init ==
    /\ map = [k \in Keys |-> NULL]
    /\ answered = [op |-> "new", arg |-> NULL, answer |-> NULL]
    /\ freed = {}

Answers(op, arg, answer) == answered' = [op |-> op, arg |-> arg, answer |-> answer]
Bind(k, e) == map' = [map EXCEPT ![k] = e]
Reads      == UNCHANGED map

put(e)     == Answers("put", e, map[KeyOf[e]]) /\ Bind(KeyOf[e], e)
put_new(e) == \/ map[KeyOf[e]] = NULL /\ Answers("put_new", e, 1) /\ Bind(KeyOf[e], e)
              \/ map[KeyOf[e]] # NULL /\ Answers("put_new", e, 0) /\ Reads
remove(k)  == Answers("remove", k, map[k]) /\ Bind(k, NULL)

lookup(k) == Answers("lookup", k, map[k]) /\ Reads
member(k) == Answers("member", k, IF map[k] = NULL THEN 0 ELSE 1) /\ Reads

first       == Answers("first", NULL, AtSmallest(Bound)) /\ Reads
last        == Answers("last", NULL, AtGreatest(Bound)) /\ Reads
next(k)     == Answers("next", k, AtSmallest({j \in Bound : j > k})) /\ Reads
previous(k) == Answers("previous", k, AtGreatest({j \in Bound : j < k})) /\ Reads

deleted == answered.op = "delete_table"

delete_table == Answers("delete_table", NULL, NULL) /\ Reads

\* Then the elements are handed to element_free_function, by ascending keys.
hand_out ==
    /\ deleted
    /\ \E k \in Bound :
         /\ \A j \in Bound : k <= j
         /\ freed' = freed \cup {map[k]}
         /\ Bind(k, NULL)
    /\ UNCHANGED answered

Next ==
    \/ /\ ~deleted
       /\ \/ \E e \in Elements : put(e) \/ put_new(e)
          \/ \E k \in Keys : \/ remove(k) \/ lookup(k) \/ member(k)
                             \/ next(k) \/ previous(k)
          \/ first \/ last \/ delete_table
       /\ UNCHANGED freed
    \/ hand_out

Spec == Init /\ [][Next]_vars
=============================================================================
