----------------------------- MODULE MCReclaimed -----------------------------
(***************************************************************************)
(* Small instances of ReclaimedSkiplist.  Elements ei and fi have key i;   *)
(* the e's are in the set when the threads start.                          *)
(***************************************************************************)
EXTENDS ReclaimedSkiplist, TLC

CONSTANTS t1, t2, n1, n2, n3, n4, n5, e0, e1, e2, f0, f1, f2

MCKeyOf ==
    (e0 :> 0) @@ (f0 :> 0) @@ (e1 :> 1) @@ (f1 :> 1) @@ (e2 :> 2) @@ (f2 :> 2)

Put(e) == [op |-> "put", key |-> MCKeyOf[e], arg |-> e]
PutNew(e) == [op |-> "put_new", key |-> MCKeyOf[e], arg |-> e]
Rem(k) == [op |-> "remove", key |-> k, arg |-> NULL]
Get(k) == [op |-> "lookup", key |-> k, arg |-> NULL]
Mem(k) == [op |-> "member", key |-> k, arg |-> NULL]
At(e, l) == [elem |-> e, top |-> l]

LowPair    == (n1 :> At(e0, 0)) @@ (n2 :> At(e1, 1))
PassedPair == (n1 :> At(e0, 1)) @@ (n2 :> At(e2, 0))
Three == (n1 :> At(e0, 1)) @@ (n2 :> At(e1, 0)) @@ (n3 :> At(e2, 0))

\* Nodes are removed under everything that can be done around them.
AroundContents == {Three}
AroundCalls ==
    (t1 :> {Rem(1), Put(f1), Get(2), Mem(2)})
        @@ (t2 :> {Rem(0), Rem(1), Rem(2)})

\* put_new is marked as not thread safe: one writer, beside a reader.
WriterContents == {LowPair, <<>>}
SingleWriterCalls ==
    (t1 :> {PutNew(f0), PutNew(f1), Rem(1)}) @@ (t2 :> {Get(1), Mem(1)})

\* A put meets a tall node on its way down, which is then removed.
PassedContents == {PassedPair}
PassedCalls == (t1 :> {Put(f1)}) @@ (t2 :> {Rem(2)})

\* A lookup stands on a node that is removed, then the one behind it is.
ChainContents == {(n1 :> At(e1, 1)) @@ (n2 :> At(e2, 1))}
ChainCalls == (t1 :> {Get(2)}) @@ (t2 :> {Rem(1), Rem(2)})
=============================================================================
