----------------------------- MODULE MCSkiplist -----------------------------
(***************************************************************************)
(* Small instances of ConcurrentSkiplist for TLC.  Elements ei, fi and gi  *)
(* have key i; the e's are in the set when the threads start.              *)
(***************************************************************************)
EXTENDS OrderedQueries, SkiplistInvariants, TLC

CONSTANTS t1, t2, t3, n1, n2, n3, n4, n5, e0, e1, f0, f1, f2, g1

MCKeyOf ==
    (e0 :> 0) @@ (f0 :> 0) @@ (e1 :> 1) @@ (f1 :> 1) @@ (g1 :> 1) @@ (f2 :> 2)

Put(e)    == [op |-> "put", key |-> MCKeyOf[e], arg |-> e]
PutNew(e) == [op |-> "put_new", key |-> MCKeyOf[e], arg |-> e]
Rem(k)    == [op |-> "remove", key |-> k, arg |-> NULL]
Get(k)    == [op |-> "lookup", key |-> k, arg |-> NULL]
Mem(k)    == [op |-> "member", key |-> k, arg |-> NULL]
At(e, l)  == [elem |-> e, top |-> l]

\* Two neighbours of different heights, or nothing.
TallPair == (n1 :> At(e0, 0)) @@ (n2 :> At(e1, 0))
LowPair  == (n1 :> At(e0, 0)) @@ (n2 :> At(e1, 1))
RisingPair == (n1 :> At(e0, 1)) @@ (n2 :> At(e1, 0))
TallContents == {TallPair}
PairContents == {TallPair, LowPair, RisingPair, <<>>}

\* Any two calls at the same time.
PairCalls ==
    [t \in Threads |-> {Put(f0), Put(f1), Rem(0), Rem(1), Get(1), Mem(1)}]

\* A node removed while both of its neighbours change, or itself.
NeighbourCalls ==
    (t1 :> {Rem(1)}) @@ (t2 :> {Rem(0), Put(f0), Put(f1)})
        @@ (t3 :> {Put(f2), Put(g1), Rem(1)})

\* Two writers remove and insert one key while its neighbour goes, or insert
\* behind it; put_new returns even so, although it is for one writer alone.
ChurnCalls == (t1 :> {Rem(1), Put(f1)}) @@ (t2 :> {Rem(0), Rem(1), Put(f2), PutNew(f1)})

DropCalls == (t1 :> {Rem(1)}) @@ (t2 :> {Put(f1)})

\* The nodes no content uses are interchangeable.
SpareNodes == Permutations({n3, n4, n5})
=============================================================================
