--------------------------- MODULE ProposalNumber ---------------------------
(***************************************************************************)
(* The ballots of pkg/paxos/proposal.go: a round and the id of the node    *)
(* that contests it, ordered by round first and by id second.              *)
(*                                                                         *)
(* Go's int has 64 bits; a round grows by one per attempt, so it stays far *)
(* from that limit and is a natural number here.  Node ids are the         *)
(* non-negative integers that cluster.ParsePeer accepts, 0 included.       *)
(***************************************************************************)
EXTENDS Integers

ProposalNumbers == [Round : Nat, NodeID : Nat]

ZeroProposal == [Round |-> 0, NodeID |-> 0]

IsZero(p) == p.Round = 0 /\ p.NodeID = 0

Compare(p, other) ==
    LET difference == IF p.Round # other.Round THEN p.Round - other.Round
                                               ELSE p.NodeID - other.NodeID
    IN  CASE difference < 0 -> -1
          [] difference > 0 -> 1
          [] OTHER          -> 0

Less(p, other) == Compare(p, other) < 0

AtLeast(p, other) == Compare(p, other) >= 0

\* Folding max over a finite set S of numbers returns the member of S that is
\* at least every other: Highest(S) holds that one number.
Highest(S) == {n \in S : \A o \in S : AtLeast(n, o)}
=============================================================================
