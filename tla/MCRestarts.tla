----------------------------- MODULE MCRestarts -----------------------------
(* Three nodes.  n2 may be killed and revived once; n1 contests with it and  *)
(* n3 only accepts, as a node with campaigning disabled does.                *)
EXTENDS Restarts, TLC

CONSTANTS n1, n2, n3, v1, v2, v3

MCLives == n1 :> 1 @@ n2 :> 2 @@ n3 :> 1
MCProposers == {<<n1, 1>>, <<n2, 1>>, <<n2, 2>>, <<n3, 1>>}
MCIdOf == [p \in MCProposers |-> CASE p[1] = n1 -> 1 [] p[1] = n2 -> 2 [] p[1] = n3 -> 3]
MCValueOf == [p \in MCProposers |-> CASE p[1] = n1 -> v1 [] p[1] = n2 -> v2 [] p[1] = n3 -> v3]
MCLocal == [p \in MCProposers |-> {p[1]}]

\* n1 may contest one round, and n2 one in each of its lives.
OneEach == [Round : {1}, NodeID : {1, 2}]

\* n1 has its quorum of promises before n2 begins, and n2 is killed in phase 2:
\* the order of events worth looking at, which keeps the search short.
N1First ==
    /\ pc[<<n1, 1>>] \in {"idle", "prepare"} => pc[<<n2, 1>>] = "idle"
    /\ ~up[n2] => pc[<<n2, 1>>] = "accept"
=============================================================================
