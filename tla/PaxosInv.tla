------------------------------ MODULE PaxosInv ------------------------------
(***************************************************************************)
(* The inductive invariant behind Agreement.  Agreement alone is not       *)
(* inductive: that a second value cannot be chosen rests on what promises  *)
(* rule out at lower numbers, on requests still in flight, and on a        *)
(* proposer never using one of its numbers twice.                          *)
(***************************************************************************)
EXTENDS Paxos

\* The campaigns have ids of their own.  Two lives of one node would not.
IdsDiffer == \A p, q \in Proposers : IdOf[p] = IdOf[q] => p = q

\* Nobody asks for promises at a number that something was accepted at, or may be
\* yet.  It follows from NumbersAreFresh if the ids differ.
NumbersAreUnused ==
    \A p \in Proposers : pc[p] = "prepare" =>
        \A x \in AcceptPairs : x[1] # attempt[p].Proposal

\* a will never accept anything at m that it has not accepted already.
PastIt(a, m) == Less(m, store[a].Promised)

\* At every number below n, a quorum has accepted v or will accept nothing:
\* no other value can have been chosen below n, or ever be.
SafeAt(n, v) ==
    \A m \in Proposals :
        Less(m, n) =>
            \E Q \in SUBSET Acceptors :
                /\ IsQuorum(Q)
                /\ \A a \in Q :
                      /\ \A vote \in votes :
                            vote.AcceptorID = a /\ vote.Proposal = m => vote.Value = v
                      /\ \/ [AcceptorID |-> a, Proposal |-> m, Value |-> v] \in votes
                         \/ PastIt(a, m)

\* Every accept, made or still possible, is for a value safe at its number.
AcceptsAreSafe == \A x \in AcceptPairs : SafeAt(x[1], x[2])

\* A campaign in a round contests the number of its round, and every accept is
\* from the present round, or an earlier one, of a campaign under its id.
NumbersAreFresh ==
    /\ \A p \in Proposers : pc[p] \in Phases =>
          /\ attempt[p].Proposal = [Round |-> round[p], NodeID |-> IdOf[p]]
          /\ attempt[p].Proposal \in Proposals
          /\ round[p] > 0
    /\ \A m \in net : m.Proposal \in Proposals
    /\ \A x \in AcceptPairs :
          /\ x[1] \in Proposals
          /\ x[1].Round > 0
          /\ \E p \in Proposers :
                /\ IdOf[p] = x[1].NodeID
                /\ x[1].Round <= round[p]
                /\ pc[p] = "prepare" => x[1].Round < round[p]

\* What a promise in hand says: its acceptor is bound to n and the acceptance
\* reported, below n, is one it made.
PromisesAreTrue ==
    \A p \in Proposers : pc[p] = "prepare" =>
        \A r \in Promises(p) :
            /\ AtLeast(store[r.AcceptorID].Promised, attempt[p].Proposal)
            /\ r.HasAccepted =>
                  /\ [AcceptorID |-> r.AcceptorID, Proposal |-> r.AcceptedProposal,
                      Value |-> r.AcceptedValue] \in votes
                  /\ Less(r.AcceptedProposal, attempt[p].Proposal)

\* An acceptance in hand is for what the campaign proposes.
AcceptancesAreTrue ==
    \A p \in Proposers : pc[p] = "accept" =>
        \A r \in Accepts(p) :
            [AcceptorID |-> r.AcceptorID, Proposal |-> attempt[p].Proposal,
             Value |-> attempt[p].Value] \in votes

IInv ==
    /\ TypeOK
    /\ MemoryIsDurable
    /\ StoreKeepsNewestVote
    /\ NumbersAreFresh
    /\ OneValuePerProposal
    /\ PromisesAreTrue
    /\ PromisesHold
    /\ AcceptsAreSafe
    /\ AcceptancesAreTrue
    /\ LearnedIsChosen
=============================================================================
