------------------------------ MODULE Members ------------------------------
(***************************************************************************)
(* Which nodes a cluster is made of.  There is no list of members that     *)
(* they share: each process is told its own id and its peers on the        *)
(* command line (cmd/node/cli.go), checks them with cluster.ParsePeers,    *)
(* and from then on counts a quorum of the calls that it makes.  Module    *)
(* Paxos takes for granted what the nodes have to get from this: that ids  *)
(* differ, and that any two quorums share an acceptor.                     *)
(*                                                                         *)
(* A spec is abstracted to its parts: the id it gives, if that is a        *)
(* number, and the address, if there is one.                               *)
(***************************************************************************)
EXTENDS Integers, Sequences, FiniteSets

CONSTANTS
    Addrs,      \* where a node may listen
    Ids,        \* the integers that are given for ids
    Malformed,  \* a spec without "@", without a number, or without an address
    Down,       \* no process listens there
    MaxPeers    \* bound: the length of --peer

Specs == [ID : Ids, Addr : Addrs]

ASSUME MembersAssumption ==
    /\ Ids \subseteq Int
    /\ MaxPeers \in Nat
    /\ Malformed \notin Specs

VARIABLE node   \* per address, the Config of the process that listens there

membersVars == <<node>>

Configs == [ID : Ids, Peers : UNION {[1..n -> Specs \cup {Malformed}] : n \in 0..MaxPeers}]

ParsesPeer(spec) == spec # Malformed /\ spec.ID >= 0

ParsesPeersOfAnyId(specs, self) ==
    \A i \in DOMAIN specs :
        /\ ParsesPeer(specs[i])
        /\ \A j \in 1..(i - 1) : specs[j].ID # specs[i].ID

ParsesPeersAgain(specs, self) ==
    \A i \in DOMAIN specs : ParsesPeer(specs[i]) /\ specs[i].ID # self

\* ParsePeers returns no error.
ParsesPeers(specs, self) ==
    \A i \in DOMAIN specs :
        /\ ParsesPeer(specs[i])
        /\ specs[i].ID # self
        /\ \A j \in 1..(i - 1) : specs[j].ID # specs[i].ID

\* The command lines with which the process gets as far as node.New.
Accepted == {c \in Configs : c.ID >= 0 /\ ParsesPeers(c.Peers, c.ID)}

MembersInit == node = [a \in Addrs |-> Down]

Start(a) ==
    /\ node[a] = Down
    /\ \E c \in Accepted : node' = [node EXCEPT ![a] = c]

Exit(a) ==
    /\ node[a] # Down
    /\ node' = [node EXCEPT ![a] = Down]

MembersNext == \E a \in Addrs : Start(a) \/ Exit(a)

MembersSpec == MembersInit /\ [][MembersNext]_membersVars

-----------------------------------------------------------------------------
\* Where the calls of a phase go: to the node's own acceptor, then to each peer.
Calls(a) == <<a>> \o [i \in DOMAIN node[a].Peers |-> node[a].Peers[i].Addr]

Quorum(a) == Len(Calls(a)) \div 2 + 1

\* The acceptors that hear of a set of calls.
Reached(a, calls) == {Calls(a)[i] : i \in calls}

Members(a) == Reached(a, DOMAIN Calls(a))

\* Each peer of a is running, under the id that a was told.
KnowsItsPeers(a) ==
    /\ node[a] # Down
    /\ \A i \in DOMAIN node[a].Peers :
        LET peer == node[a].Peers[i] IN
        node[peer.Addr] # Down /\ node[peer.Addr].ID = peer.ID

\* IdsDiffer of module Paxos: a node whose list is true is in a cluster whose ids
\* differ, whatever the others were told.  ParsePeers sees no list but its own.
MemberIdsDiffer ==
    \A a \in Addrs : KnowsItsPeers(a) =>
        \A b, c \in Members(a) : node[b].ID = node[c].ID => b = c

\* Lemma QuorumsIntersect of PaxosProofs: a phase counts answers and not acceptors, yet
\* two nodes with true lists of one cluster never win with answers of acceptors
\* none of which has heard of the other.
QuorumsMeet ==
    \A a, b \in Addrs :
        KnowsItsPeers(a) /\ KnowsItsPeers(b) /\ Members(a) = Members(b) =>
            \A I \in SUBSET DOMAIN Calls(a), J \in SUBSET DOMAIN Calls(b) :
                Cardinality(I) >= Quorum(a) /\ Cardinality(J) >= Quorum(b) =>
                    Reached(a, I) \cap Reached(b, J) # {}
=============================================================================
