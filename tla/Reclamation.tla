---------------------------- MODULE Reclamation ----------------------------
(***************************************************************************)
(* What the hazard pointers of src/src/utils/hazard_pointers.h promise to  *)
(* the threads that use them.  A block is linked, retired (nobody can find *)
(* it any more, but somebody may still use it) or free.  A thread guards   *)
(* blocks: it starts to guard one while the block is linked, or because it *)
(* guards it already, and a guarded block is not freed.                    *)
(***************************************************************************)
EXTENDS Integers

CONSTANTS
    Threads,
    Slots,      \* the guards a thread has
    Blocks,
    NULL        \* a guard that guards nothing

VARIABLES
    linked, retired,    \* disjoint sets of blocks; the others are free
    guard               \* what each thread guards with each slot

vars == <<linked, retired, guard>>

NoGuards == [t \in Threads |-> [s \in Slots |-> NULL]]
Guarded  == {guard[t][s] : t \in Threads, s \in Slots} \ {NULL}

Init ==
    /\ linked \subseteq Blocks
    /\ retired = {}
    /\ guard = NoGuards

\* A new block takes the place of a linked one.
Replace ==
    /\ \E old \in linked, new \in Blocks \ (linked \cup retired) :
         /\ linked' = (linked \ {old}) \cup {new}
         /\ retired' = retired \cup {old}
    /\ UNCHANGED guard

\* t guards linked blocks, and what it guarded before, in any of its slots.
Guard(t) ==
    /\ \E g \in [Slots -> linked \cup {guard[t][s] : s \in Slots} \cup {NULL}] :
         guard' = [guard EXCEPT ![t] = g]
    /\ UNCHANGED <<linked, retired>>

Free ==
    /\ \E freed \in SUBSET (retired \ Guarded) : retired' = retired \ freed
    /\ UNCHANGED <<linked, guard>>

\* The end: no thread uses a block or ever will.  What is not freed leaks.
Delete ==
    /\ linked' = {}
    /\ retired' \in SUBSET retired
    /\ guard' = NoGuards

Next ==
    \/ Replace
    \/ \E t \in Threads : Guard(t)
    \/ Free
    \/ Delete

Spec == Init /\ [][Next]_vars
=============================================================================
