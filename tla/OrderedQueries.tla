--------------------------- MODULE OrderedQueries ---------------------------
(***************************************************************************)
(* first, last, next, previous and delete_table of the concurrent skiplist.*)
(* The code marks them as not thread safe: they are called while no other  *)
(* call is under way, on the lists that concurrent calls have left behind. *)
(***************************************************************************)
EXTENDS SkiplistProperties

Lists   == INSTANCE SkiplistQueries
Ordered == INSTANCE OrderedMap WITH answered <- NULL, freed <- {}

Quiet == \A t \in Threads : pc[t] = "idle"

skiplist_first       == Lists!skiplist_first
skiplist_last        == Lists!skiplist_last
skiplist_previous(k) == Lists!skiplist_previous(k)

\* Mutant of skiplist_next: what the search has found is not passed over.
skiplist_nextFound(k) == element[nxt[Lists!Before(k)[Bottom]][Bottom]]

skiplist_next(k) == Lists!skiplist_next(k)

\* The nodes skiplist_delete frees itself.
LinkedNodes == Lists!Deleted

\* The four queries answer from one and the same map, the one the updates have
\* made: a removed node, or one that is not on all of its lists, would show in
\* one of them although lookup passes it.
QueriesAgree ==
    LET bound == Ordered!Bound IN
    Quiet =>
      /\ skiplist_first = Ordered!AtSmallest(bound)
      /\ skiplist_last = Ordered!AtGreatest(bound)
      /\ \A k \in Keys :
           /\ skiplist_next(k) = Ordered!AtSmallest({j \in bound : j > k})
           /\ skiplist_previous(k) = Ordered!AtGreatest({j \in bound : j < k})

\* delete_table frees the nodes of the bottom list itself and leaves the
\* removed ones to hazard_pointer_free_everything (lines 367-374): between the
\* two no node is left out and none is freed twice.
DeleteShares == Quiet => LinkedNodes = heap \ marked
=============================================================================
