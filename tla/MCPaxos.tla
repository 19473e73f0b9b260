------------------------------ MODULE MCPaxos ------------------------------
(* Three acceptors, so that a quorum is two and any two quorums share one,   *)
(* and two proposers with values of their own.                               *)
EXTENDS Paxos, TLC

CONSTANTS a1, a2, a3, p1, p2, v1, v2

MCIdOf == p1 :> 1 @@ p2 :> 2
MCValueOf == p1 :> v1 @@ p2 :> v2

\* Every acceptor behind the network, or each proposer with its own one.
Remote == [p \in Proposers |-> {}]
Own == [p \in Proposers |-> IF p = p1 THEN {a1} ELSE {a2}]

\* The numbers of the node with this id, up to a round.
UpTo(r, id) == [Round : 1..r, NodeID : {id}]

OneEach == UpTo(1, 1) \cup UpTo(1, 2)
TwoAndOne == UpTo(2, 1) \cup UpTo(1, 2)
ThreeAndTwo == UpTo(3, 1) \cup UpTo(2, 2)

Symmetry == Permutations(Acceptors)
=============================================================================
