------------------------ MODULE MCSequentialSkiplist ------------------------
(***************************************************************************)
(* A small instance of SequentialSkiplist: key i has the elements ei, fi.  *)
(***************************************************************************)
EXTENDS SequentialSkiplist, TLC

CONSTANTS e0, e1, e2, f1

MCKeyOf == (e0 :> 0) @@ (e1 :> 1) @@ (f1 :> 1) @@ (e2 :> 2)

Symmetry == Permutations(Nodes)
=============================================================================
