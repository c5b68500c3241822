-------------------------- MODULE MCHazardPointers --------------------------
(***************************************************************************)
(* Small instances of HazardPointers for TLC.                              *)
(***************************************************************************)
EXTENDS HazardInvariants, TLC

CONSTANTS t1, t2, a, b

Req(op, c, slot, to, pos) == [op |-> op, slot |-> slot, to |-> to, pos |-> pos, cell |-> c]
Set(c, slot) == Req("set", c, slot, 0, -1)

TwoCells == (a :> 2) @@ (b :> 3)
OneCell  == (a :> 2)

\* t1 sets pointers in place, moves them up and down as the search does on
\* level 1, and looks for a free slot; t2 registers at the same time, fills its
\* release list twice, and its scans free blocks whose addresses the blocks that
\* follow have again.
HazardRequests ==
    (t1 :> {Req("set_check", a, 0, 0, -1), Req("set_check", b, 1, 0, 0),
            Req("move_set", b, 0, 2, -1), Req("move_set_check", a, 2, 1, 0),
            Req("add", a, 0, 0, -1)})
      @@ (t2 :> {Set(a, 0)})
HazardCalls == (t1 :> 2) @@ (t2 :> 4)

\* A pointer is moved down to a slot a scan may have read, while the block read
\* next is held by the slot below, as find_neigbours_1_level does on level 1.
DownwardRequests ==
    (t1 :> {Set(b, 0), Set(a, 2), Req("move_set_check", b, 2, 1, 0)}) @@ (t2 :> {Set(a, 0)})
DownwardCalls == (t1 :> 3) @@ (t2 :> 3)

\* A release list half as long as the slots of another thread, as in the code.
FullRequests == (t1 :> {Set(a, 0)}) @@ (t2 :> {Set(a, 0)})
FullCalls == (t1 :> 1) @@ (t2 :> 3)
=============================================================================
