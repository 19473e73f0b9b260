----------------------------- MODULE MCMembers -----------------------------
(* Three addresses, each of which may run a node with any command line of up *)
(* to two peers.                                                             *)
EXTENDS Members, TLC

CONSTANTS a1, a2, a3

GivenIds == {-1, 1, 2, 3}

Interchangeable == Permutations(Addrs)
=============================================================================
