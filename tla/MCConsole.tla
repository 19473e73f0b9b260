------------------------------ MODULE MCConsole ------------------------------
(* Runs, one after the other, beside requests to stop one and to act on the  *)
(* cluster, the tailer of a node, and pages that come and go.                *)
EXTENDS Console

CONSTANTS p1, p2

PageSet == {p1, p2}
PageSymmetry == Permutations(PageSet)
=============================================================================
