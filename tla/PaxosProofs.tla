---------------------------- MODULE PaxosProofs ----------------------------
(***************************************************************************)
(* Agreement of Paxos, proved for any number of acceptors and proposers,   *)
(* any numbers and values, and every kind of fault that module Paxos has,  *)
(* provided that no two campaigns share an id.                             *)
(***************************************************************************)
EXTENDS PaxosInv, AcceptorProofs, FiniteSetTheorems

-----------------------------------------------------------------------------
(* Quorums                                                                 *)

LEMMA QuorumGrows ==
    ASSUME NEW S \in SUBSET Acceptors, NEW T \in SUBSET Acceptors, S \subseteq T, IsQuorum(S)
    PROVE  IsQuorum(T)
<1>1. /\ IsFiniteSet(S) /\ IsFiniteSet(T) /\ IsFiniteSet(Acceptors)
      /\ Cardinality(S) <= Cardinality(T)
  BY AcceptorAssumption, FS_Subset
<1>2. Cardinality(S) \in Nat /\ Cardinality(T) \in Nat /\ Cardinality(Acceptors) \in Nat
  BY <1>1, FS_CardinalityType
<1> QED
  BY <1>1, <1>2 DEF IsQuorum, Quorum

\* Any two quorums share an acceptor, whatever the size of the cluster.
LEMMA QuorumsIntersect ==
    ASSUME NEW S \in SUBSET Acceptors, NEW T \in SUBSET Acceptors, IsQuorum(S), IsQuorum(T)
    PROVE  S \cap T # {}
<1>1. IsFiniteSet(S) /\ IsFiniteSet(T) /\ IsFiniteSet(Acceptors)
  BY AcceptorAssumption, FS_Subset
<1>2. Cardinality(S) \in Nat /\ Cardinality(T) \in Nat /\ Cardinality(Acceptors) \in Nat
  BY <1>1, FS_CardinalityType
<1>3. Cardinality(S) + Cardinality(T) > Cardinality(Acceptors)
  BY <1>2 DEF IsQuorum, Quorum
<1> QED
  BY <1>1, <1>3, FS_MajoritiesIntersect

-----------------------------------------------------------------------------
(* Types                                                                   *)

LEMMA NoAttemptType == NoAttempt \in Attempts
BY ZeroIsLeast DEF NoAttempt, Attempts, Outcomes, Uint64, ZeroProposal, ProposalNumbers

LEMMA NextProposalType ==
    ASSUME PaxosTypeOK, NEW p \in Proposers
    PROVE  NextProposal(p) \in ProposalNumbers
BY PaxosAssumption DEF PaxosTypeOK, NextProposal, ProposalNumbers

LEMMA HighestSeenType ==
    ASSUME PaxosTypeOK, NEW p \in Proposers, NEW n \in HighestSeen(p)
    PROVE  n \in ProposalNumbers
BY DEF PaxosTypeOK, HighestSeen, Highest, Attempts, PrepareResponses, AcceptResponses

LEMMA AdoptedType ==
    ASSUME PaxosTypeOK, NEW p \in Proposers, pc[p] = "prepare", NEW v \in Adopted(p)
    PROVE  v \in Uint64
<1>1. ValueOf[p] \in Uint64
  BY PaxosAssumption DEF Uint64
<1>2. \A r \in replies[p] : r.AcceptedValue \in Uint64
  BY DEF PaxosTypeOK, PrepareResponses
<1> QED
  BY <1>1, <1>2 DEF Adopted, Reported, Promises

LEMMA ResponseTypes ==
    ASSUME AcceptorTypeOK, NEW a \in Acceptors, NEW n \in ProposalNumbers
    PROVE  /\ PrepareResponse(a, n) \in PrepareResponses
           /\ AcceptResponse(a, n) \in AcceptResponses
<1>1. state[a] \in AcceptorState
  BY DEF AcceptorTypeOK
<1>2. Refuses(a, n) \in BOOLEAN
  BY DEF Refuses
<1> QED
  BY <1>1, <1>2 DEF PrepareResponse, AcceptResponse, PrepareResponses, AcceptResponses,
                    AcceptorState

LEMMA TallyType ==
    ASSUME PaxosTypeOK, NEW p \in Proposers, NEW v \in Uint64, NEW n \in ProposalNumbers,
           NEW o \in Outcomes, Tally(p, v, n, o)
    PROVE  /\ attempt' \in [Proposers -> Attempts]
           /\ attempt'[p] = [attempt[p] EXCEPT !.Value = v, !.HighestSeen = n, !.Outcome = o]
           /\ attempt'[p].Proposal = attempt[p].Proposal
           /\ attempt'[p].Value = v
           /\ attempt'[p].HighestSeen = n
           /\ attempt'[p].Outcome = o
           /\ \A q \in Proposers : q # p => attempt'[q] = attempt[q]
<1>1. attempt[p] \in Attempts
  BY DEF PaxosTypeOK
<1>2. [attempt[p] EXCEPT !.Value = v, !.HighestSeen = n, !.Outcome = o] \in Attempts
  BY <1>1 DEF Attempts
<1> QED
  BY <1>1, <1>2 DEF Tally, PaxosTypeOK, Attempts

LEMMA RoundTypes ==
    ASSUME TypeOK, NEW p \in Proposers, ProposerStep(p)
    PROVE  PaxosTypeOK'
<1> USE DEF TypeOK
<1>1. CASE StartRound(p)
  <2>1. NextProposal(p) \in ProposalNumbers /\ NextProposal(p).Round \in Nat
    BY NextProposalType DEF ProposalNumbers
  <2>2. [NoAttempt EXCEPT !.Proposal = NextProposal(p)] \in Attempts
    BY <2>1, NoAttemptType DEF Attempts
  <2>3. \A a \in Acceptors : [type |-> "prepare", from |-> p, to |-> a,
                              Proposal |-> NextProposal(p)] \in PrepareRequests
    BY <2>1 DEF PrepareRequests
  <2>4. net' \subseteq PrepareRequests \cup AcceptRequests
    BY <1>1, <2>3 DEF StartRound, PaxosTypeOK
  <2> QED
    BY <1>1, <2>1, <2>2, <2>4 DEF StartRound, PaxosTypeOK
<1>2. CASE AbortUnstarted(p)
  <2>1. [NoAttempt EXCEPT !.Outcome = "aborted"] \in Attempts
    BY NoAttemptType DEF Attempts, Outcomes
  <2> QED
    BY <1>2, <2>1 DEF AbortUnstarted, PaxosTypeOK
<1>3. CASE StopBackoff(p)
  BY <1>3 DEF StopBackoff, PaxosTypeOK
<1>4. ASSUME NEW v \in Uint64, NEW n \in ProposalNumbers, NEW o \in Outcomes,
             NEW next \in {"backoff", "done"}, Tally(p, v, n, o), EndRound(p, next),
             round' \in [Proposers -> Nat]
      PROVE  PaxosTypeOK'
  <2>1. attempt' \in [Proposers -> Attempts]
    BY <1>4, TallyType
  <2> QED
    BY <1>4, <2>1 DEF EndRound, PaxosTypeOK
<1>5. ASSUME NEW v \in Uint64, NEW n \in ProposalNumbers, NEW o \in Outcomes,
             Defeat(p, v, n, o)
      PROVE  PaxosTypeOK'
  <2>1. round' \in [Proposers -> Nat]
    BY <1>5 DEF Defeat, PaxosTypeOK, ProposalNumbers
  <2> QED
    BY <1>4, <1>5, <2>1 DEF Defeat
<1>6. CASE AbortPrepare(p)
  BY <1>4, <1>6, AdoptedType, HighestSeenType DEF AbortPrepare, PaxosTypeOK, Outcomes
<1>7. CASE PrepareFails(p)
  BY <1>5, <1>7, AdoptedType, HighestSeenType DEF PrepareFails, Outcomes
<1>8. CASE SendAccepts(p)
  <2>1. PICK v \in Adopted(p), n \in HighestSeen(p) :
           /\ Tally(p, v, n, "unknown")
           /\ net' = net \cup {[type |-> "accept", from |-> p, to |-> a,
                                Proposal |-> attempt[p].Proposal, Value |-> v]
                               : a \in pending'[p]}
    BY <1>8 DEF SendAccepts
  <2>2. v \in Uint64 /\ n \in ProposalNumbers
    BY <1>8, AdoptedType, HighestSeenType DEF SendAccepts
  <2>3. attempt' \in [Proposers -> Attempts]
    BY <2>1, <2>2, TallyType DEF Outcomes
  <2>4. attempt[p].Proposal \in ProposalNumbers
    BY DEF PaxosTypeOK, Attempts
  <2>5. pending' \in [Proposers -> SUBSET Acceptors]
    BY <1>8, PaxosAssumption DEF SendAccepts, PaxosTypeOK
  <2>6. \A a \in pending'[p] : [type |-> "accept", from |-> p, to |-> a,
                                Proposal |-> attempt[p].Proposal, Value |-> v]
                               \in AcceptRequests
    BY <2>2, <2>4, <2>5 DEF AcceptRequests
  <2>7. net' \subseteq PrepareRequests \cup AcceptRequests
    BY <2>1, <2>6 DEF PaxosTypeOK
  <2> QED
    BY <1>8, <2>3, <2>5, <2>7 DEF SendAccepts, PaxosTypeOK
<1>9. attempt[p].Value \in Uint64
  BY DEF PaxosTypeOK, Attempts
<1>10. CASE ValueChosen(p)
  BY <1>4, <1>9, <1>10, HighestSeenType DEF ValueChosen, PaxosTypeOK, Outcomes
<1>11. CASE AbortAccept(p)
  BY <1>4, <1>9, <1>11, HighestSeenType DEF AbortAccept, PaxosTypeOK, Outcomes
<1>12. CASE AcceptFails(p)
  BY <1>5, <1>9, <1>12, HighestSeenType DEF AcceptFails, Outcomes
<1> QED
  BY <1>1, <1>2, <1>3, <1>6, <1>7, <1>8, <1>10, <1>11, <1>12 DEF ProposerStep

LEMMA RequestType ==
    ASSUME PaxosTypeOK, NEW m \in net
    PROVE  /\ m.from \in Proposers
           /\ m.to \in Acceptors
           /\ m.Proposal \in ProposalNumbers
           /\ m.type \in Phases
           /\ m.type = "prepare" => m \in PrepareRequests
           /\ m.type = "accept" => m \in AcceptRequests
<1>1. CASE m \in PrepareRequests
  BY <1>1 DEF PrepareRequests, Phases
<1>2. CASE m \in AcceptRequests
  BY <1>2 DEF AcceptRequests, Phases
<1> QED
  BY <1>1, <1>2 DEF PaxosTypeOK

LEMMA CallTypes ==
    ASSUME TypeOK,
           \/ \E m \in net : Handle(m)
           \/ \E p \in Proposers, a \in Acceptors : CallFails(p, a)
           \/ \E p \in Proposers : RoundTimeout(p) \/ Cancel(p)
           \/ \E a \in Acceptors : AcceptorProcess(a)
    PROVE  PaxosTypeOK'
<1> USE DEF TypeOK
<1>1. ASSUME NEW m \in net, NEW response,
             \/ m.type = "prepare" /\ response \in PrepareResponses
             \/ m.type = "accept" /\ response \in AcceptResponses,
             Return(m, response)
      PROVE  PaxosTypeOK'
  <2>1. m.from \in Proposers
    BY RequestType
  <2>2. net' \subseteq PrepareRequests \cup AcceptRequests
    BY <1>1 DEF Return, PaxosTypeOK
  <2>3. pending' \in [Proposers -> SUBSET Acceptors]
    BY <1>1, <2>1 DEF Return, PaxosTypeOK
  <2>4. CASE replies' = replies
    BY <1>1, <2>2, <2>3, <2>4 DEF Return, PaxosTypeOK
  <2>5. CASE Awaited(m) /\ replies' = [replies EXCEPT ![m.from] = @ \cup {response}]
    <3>1. replies' \in [Proposers -> SUBSET (PrepareResponses \cup AcceptResponses)]
      BY <1>1, <2>5, <2>1 DEF PaxosTypeOK
    <3>2. \A p \in Proposers : pc[p] = "prepare" => replies'[p] \subseteq PrepareResponses
      BY <1>1, <2>5, <2>1 DEF PaxosTypeOK, Awaited
    <3>3. \A p \in Proposers : pc[p] = "accept" => replies'[p] \subseteq AcceptResponses
      BY <1>1, <2>5, <2>1 DEF PaxosTypeOK, Awaited
    <3> QED
      BY <1>1, <2>2, <2>3, <3>1, <3>2, <3>3 DEF Return, PaxosTypeOK
  <2> QED
    BY <1>1, <2>4, <2>5 DEF Return
<1>2. ASSUME NEW m \in net, HandlePrepare(m) PROVE PaxosTypeOK'
  BY <1>1, <1>2, RequestType, ResponseTypes DEF HandlePrepare
<1>3. ASSUME NEW m \in net, HandleAccept(m) PROVE PaxosTypeOK'
  BY <1>1, <1>3, RequestType, ResponseTypes DEF HandleAccept
<1>4. ASSUME NEW m \in net, HandleFails(m) PROVE PaxosTypeOK'
  BY <1>4, RequestType DEF HandleFails, PaxosTypeOK
<1>5. ASSUME NEW p \in Proposers, NEW a \in Acceptors, CallFails(p, a) PROVE PaxosTypeOK'
  <2>1. net' \subseteq net
    BY <1>5 DEF CallFails
  <2> QED
    BY <1>5, <2>1 DEF CallFails, PaxosTypeOK
<1>6. ASSUME NEW p \in Proposers, RoundTimeout(p) PROVE PaxosTypeOK'
  BY <1>6 DEF RoundTimeout, PaxosTypeOK
<1>7. ASSUME NEW p \in Proposers, Cancel(p) PROVE PaxosTypeOK'
  BY <1>7 DEF Cancel, PaxosTypeOK
<1>8. ASSUME NEW a \in Acceptors, AcceptorProcess(a) PROVE PaxosTypeOK'
  BY <1>8 DEF AcceptorProcess, proposerVars, PaxosTypeOK
<1> QED
  BY <1>2, <1>3, <1>4, <1>5, <1>6, <1>7, <1>8 DEF Handle

LEMMA PaxosTypes ==
    ASSUME TypeOK, [PaxosNext]_vars
    PROVE  PaxosTypeOK'
<1>1. CASE UNCHANGED vars
  BY <1>1 DEF vars, proposerVars, TypeOK, PaxosTypeOK
<1> QED
  BY <1>1, RoundTypes, CallTypes DEF PaxosNext

-----------------------------------------------------------------------------
(* Every step is a step of the acceptors, or leaves them alone.            *)

LEMMA StepOfAcceptors ==
    ASSUME TypeOK, NumbersAreFresh, [PaxosNext]_vars
    PROVE  [AcceptorNext]_acceptorVars
<1>1. CASE UNCHANGED vars
  BY <1>1 DEF vars
<1>2. ASSUME NEW m \in net, Handle(m) PROVE AcceptorNext
  <2>1. m.to \in Acceptors /\ m.Proposal \in Proposals
    BY RequestType DEF NumbersAreFresh, TypeOK
  <2>2. m.type = "accept" => m.Value \in Uint64
    BY RequestType DEF AcceptRequests, TypeOK
  <2> QED
    BY <1>2, <2>1, <2>2 DEF Handle, HandlePrepare, HandleAccept, HandleFails, AcceptorNext
<1>3. ASSUME NEW a \in Acceptors, AcceptorProcess(a) PROVE AcceptorNext
  BY <1>3 DEF AcceptorProcess, AcceptorNext
<1>4. ASSUME NEW p \in Proposers, ProposerStep(p) \/ RoundTimeout(p) \/ Cancel(p)
      PROVE  UNCHANGED acceptorVars
  BY <1>4 DEF ProposerStep, StartRound, AbortUnstarted, StopBackoff, AbortPrepare,
              PrepareFails, SendAccepts, ValueChosen, AbortAccept, AcceptFails, Defeat,
              EndRound, RoundTimeout, Cancel
<1>5. ASSUME NEW p \in Proposers, NEW a \in Acceptors, CallFails(p, a)
      PROVE  UNCHANGED acceptorVars
  BY <1>5 DEF CallFails
<1> QED
  BY <1>1, <1>2, <1>3, <1>4, <1>5 DEF PaxosNext

-----------------------------------------------------------------------------
(* Where accepts come from                                                 *)

\* The one step that makes accepts possible that were not: p enters phase 2.
NewAccepts(p, v) ==
    /\ pc[p] = "prepare"
    /\ IsQuorum(Senders(Promises(p)))
    /\ v \in Adopted(p)
    /\ AcceptPairs' \subseteq AcceptPairs \cup {<<attempt[p].Proposal, v>>}
    /\ pc' = [pc EXCEPT ![p] = "accept"]
    /\ attempt'[p].Proposal = attempt[p].Proposal
    /\ UNCHANGED <<acceptorVars, round>>

LEMMA PairsOfNet ==
    ASSUME NEW m \in net, m.type = "accept"
    PROVE  <<m.Proposal, m.Value>> \in AcceptPairs
BY DEF AcceptPairs

LEMMA PairsOfVotes ==
    ASSUME NEW vote \in votes
    PROVE  <<vote.Proposal, vote.Value>> \in AcceptPairs
BY DEF AcceptPairs

LEMMA PairsOfAttempts ==
    ASSUME NEW p \in Proposers, pc[p] = "accept"
    PROVE  <<attempt[p].Proposal, attempt[p].Value>> \in AcceptPairs
BY DEF AcceptPairs

LEMMA PairsType ==
    ASSUME TypeOK, NEW x \in AcceptPairs
    PROVE  x[1] \in ProposalNumbers /\ x[2] \in Uint64
<1>1. ASSUME NEW m \in net, m.type = "accept"
      PROVE  m.Proposal \in ProposalNumbers /\ m.Value \in Uint64
  BY <1>1, RequestType DEF TypeOK, AcceptRequests
<1>2. ASSUME NEW p \in Proposers
      PROVE  attempt[p].Proposal \in ProposalNumbers /\ attempt[p].Value \in Uint64
  BY DEF TypeOK, PaxosTypeOK, Attempts
<1>3. ASSUME NEW vote \in votes
      PROVE  vote.Proposal \in ProposalNumbers /\ vote.Value \in Uint64
  BY DEF TypeOK, AcceptorTypeOK, Acceptance
<1> QED
  BY <1>1, <1>2, <1>3 DEF AcceptPairs

LEMMA PairsShrink ==
    ASSUME votes' = votes,
           \A m \in net' : m.type = "accept" => m \in net,
           \A p \in Proposers :
              pc'[p] = "accept" => pc[p] = "accept" /\ attempt'[p] = attempt[p]
    PROVE  AcceptPairs' \subseteq AcceptPairs
BY DEF AcceptPairs

LEMMA PairsStep ==
    ASSUME TypeOK, [PaxosNext]_vars
    PROVE  \/ AcceptPairs' \subseteq AcceptPairs
           \/ \E p \in Proposers : \E v \in Adopted(p) : NewAccepts(p, v)
<1> USE DEF TypeOK
<1>1. CASE UNCHANGED vars
  BY <1>1, PairsShrink DEF vars, acceptorVars, proposerVars
<1>2. ASSUME NEW p \in Proposers, StartRound(p) PROVE AcceptPairs' \subseteq AcceptPairs
  <2>1. \A m \in net' : m.type = "accept" => m \in net
    BY <1>2 DEF StartRound
  <2>2. \A q \in Proposers :
          pc'[q] = "accept" => pc[q] = "accept" /\ attempt'[q] = attempt[q]
    BY <1>2 DEF StartRound, PaxosTypeOK
  <2> QED
    BY <1>2, <2>1, <2>2, PairsShrink DEF StartRound, acceptorVars
<1>3. ASSUME NEW p \in Proposers,
             \/ AbortUnstarted(p) \/ StopBackoff(p) \/ AbortPrepare(p) \/ PrepareFails(p)
             \/ ValueChosen(p) \/ AbortAccept(p) \/ AcceptFails(p)
      PROVE  AcceptPairs' \subseteq AcceptPairs
  <2>1. net' = net /\ votes' = votes
    BY <1>3 DEF AbortUnstarted, StopBackoff, AbortPrepare, PrepareFails, ValueChosen,
                AbortAccept, AcceptFails, Defeat, EndRound, acceptorVars
  <2>2. pc'[p] # "accept" /\ \A q \in Proposers : q # p => pc'[q] = pc[q]
    BY <1>3 DEF AbortUnstarted, StopBackoff, AbortPrepare, PrepareFails, ValueChosen,
                AbortAccept, AcceptFails, Defeat, EndRound, PaxosTypeOK
  <2>3. \A q \in Proposers : q # p => attempt'[q] = attempt[q]
    BY <1>3 DEF AbortUnstarted, StopBackoff, AbortPrepare, PrepareFails, ValueChosen,
                AbortAccept, AcceptFails, Defeat, Tally, PaxosTypeOK
  <2> QED
    BY <2>1, <2>2, <2>3, PairsShrink
<1>4. ASSUME NEW p \in Proposers, SendAccepts(p)
      PROVE  \E v \in Adopted(p) : NewAccepts(p, v)
  <2>1. PICK v \in Adopted(p), n \in HighestSeen(p) :
           /\ Tally(p, v, n, "unknown")
           /\ net' = net \cup {[type |-> "accept", from |-> p, to |-> a,
                                Proposal |-> attempt[p].Proposal, Value |-> v]
                               : a \in pending'[p]}
    BY <1>4 DEF SendAccepts
  <2>2. v \in Uint64 /\ n \in ProposalNumbers
    BY <1>4, AdoptedType, HighestSeenType DEF SendAccepts
  <2>3. /\ attempt'[p].Proposal = attempt[p].Proposal
        /\ attempt'[p].Value = v
        /\ \A q \in Proposers : q # p => attempt'[q] = attempt[q]
    BY <2>1, <2>2, TallyType DEF Outcomes
  <2>4. pc' = [pc EXCEPT ![p] = "accept"] /\ votes' = votes
    BY <1>4 DEF SendAccepts, acceptorVars
  <2>5. AcceptPairs' \subseteq AcceptPairs \cup {<<attempt[p].Proposal, v>>}
    <3>1. ASSUME NEW vote \in votes'
          PROVE  <<vote.Proposal, vote.Value>> \in AcceptPairs
      BY <2>4, PairsOfVotes
    <3>2. ASSUME NEW m \in net', m.type = "accept"
          PROVE  <<m.Proposal, m.Value>> \in AcceptPairs \cup {<<attempt[p].Proposal, v>>}
      BY <2>1, <3>2, PairsOfNet
    <3>3. ASSUME NEW q \in Proposers, pc'[q] = "accept"
          PROVE  <<attempt'[q].Proposal, attempt'[q].Value>>
                    \in AcceptPairs \cup {<<attempt[p].Proposal, v>>}
      <4>1. CASE q = p
        BY <2>3, <4>1
      <4>2. CASE q # p
        BY <2>3, <2>4, <3>3, <4>2, PairsOfAttempts DEF PaxosTypeOK
      <4> QED BY <4>1, <4>2
    <3> QED
      BY <3>1, <3>2, <3>3 DEF AcceptPairs
  <2> QED
    BY <1>4, <2>1, <2>3, <2>4, <2>5 DEF NewAccepts, SendAccepts
<1>5. ASSUME NEW m \in net, HandlePrepare(m) \/ HandleFails(m)
      PROVE  AcceptPairs' \subseteq AcceptPairs
  <2>1. votes' = votes /\ net' \subseteq net /\ pc' = pc /\ attempt' = attempt
    BY <1>5 DEF HandlePrepare, HandleFails, Prepare, SaveFails, Return, acceptorVars
  <2> QED
    BY <2>1, PairsShrink
<1>6. ASSUME NEW m \in net, HandleAccept(m) PROVE AcceptPairs' \subseteq AcceptPairs
  <2>1. net' \subseteq net /\ pc' = pc /\ attempt' = attempt
    BY <1>6 DEF HandleAccept, Return
  <2>2. ASSUME NEW vote \in votes' PROVE <<vote.Proposal, vote.Value>> \in AcceptPairs
    <3>1. vote \in votes \/ (vote.Proposal = m.Proposal /\ vote.Value = m.Value)
      BY <1>6 DEF HandleAccept, Accept
    <3> QED
      BY <1>6, <3>1, PairsOfVotes, PairsOfNet DEF HandleAccept
  <2> QED
    BY <2>1, <2>2 DEF AcceptPairs
<1>7. ASSUME NEW p \in Proposers, RoundTimeout(p) \/ Cancel(p)
      PROVE  AcceptPairs' \subseteq AcceptPairs
  BY <1>7, PairsShrink DEF RoundTimeout, Cancel, acceptorVars
<1>8. ASSUME NEW p \in Proposers, NEW a \in Acceptors, CallFails(p, a)
      PROVE  AcceptPairs' \subseteq AcceptPairs
  <2>1. net' \subseteq net
    BY <1>8 DEF CallFails
  <2> QED
    BY <1>8, <2>1, PairsShrink DEF CallFails, acceptorVars
<1>9. ASSUME NEW a \in Acceptors, AcceptorProcess(a) PROVE AcceptPairs' \subseteq AcceptPairs
  BY <1>9, PairsShrink DEF AcceptorProcess, Crash, Restart, proposerVars
<1> QED
  BY <1>1, <1>2, <1>3, <1>4, <1>5, <1>6, <1>7, <1>8, <1>9
     DEF PaxosNext, ProposerStep, Handle

-----------------------------------------------------------------------------
(* Numbers                                                                 *)

\* Rounds only grow, and entering phase 1 is what takes a fresh one.
LEMMA RoundsGrow ==
    ASSUME TypeOK, [PaxosNext]_vars, NEW p \in Proposers
    PROVE  /\ round'[p] \in Nat
           /\ round'[p] >= round[p]
           /\ pc'[p] = "prepare" =>
                 \/ pc[p] = "prepare" /\ round'[p] = round[p] /\ attempt'[p] = attempt[p]
                 \/ StartRound(p)
           /\ pc'[p] = "accept" =>
                 \/ pc[p] = "accept" /\ round'[p] = round[p] /\ attempt'[p] = attempt[p]
                 \/ SendAccepts(p)
<1> USE DEF TypeOK
<1>1. round[p] \in Nat
  BY DEF PaxosTypeOK
<1>2. CASE UNCHANGED <<round, pc, attempt>>
  BY <1>1, <1>2
<1>3. ASSUME NEW q \in Proposers, ProposerStep(q), q # p
      PROVE  round'[p] = round[p] /\ pc'[p] = pc[p] /\ attempt'[p] = attempt[p]
  BY <1>3 DEF ProposerStep, StartRound, AbortUnstarted, StopBackoff, AbortPrepare,
              PrepareFails, SendAccepts, ValueChosen, AbortAccept, AcceptFails, Defeat,
              EndRound, Tally, PaxosTypeOK
<1>4. CASE StartRound(p)
  BY <1>1, <1>4 DEF StartRound, NextProposal, PaxosTypeOK
<1>5. CASE SendAccepts(p)
  BY <1>1, <1>5 DEF SendAccepts, PaxosTypeOK
<1>6. CASE \/ AbortUnstarted(p) \/ StopBackoff(p) \/ AbortPrepare(p)
           \/ ValueChosen(p) \/ AbortAccept(p)
  <2>1. round' = round /\ pc'[p] = "done"
    BY <1>6 DEF AbortUnstarted, StopBackoff, AbortPrepare, ValueChosen, AbortAccept,
                EndRound, PaxosTypeOK
  <2> QED BY <1>1, <2>1
<1>7. CASE PrepareFails(p) \/ AcceptFails(p)
  <2>1. \E n \in HighestSeen(p) : \E v, o : Defeat(p, v, n, o)
    <3>1. CASE PrepareFails(p)
      BY <3>1 DEF PrepareFails
    <3>2. CASE AcceptFails(p)
      BY <3>2 DEF AcceptFails
    <3> QED BY <1>7, <3>1, <3>2
  <2>2. PICK n \in HighestSeen(p) : \E v, o : Defeat(p, v, n, o)
    BY <2>1
  <2>2a. n.Round \in Nat
    BY HighestSeenType DEF ProposalNumbers
  <2>3. round'[p] = IF n.Round > round[p] THEN n.Round ELSE round[p]
    BY <2>2 DEF Defeat, PaxosTypeOK
  <2>4. pc'[p] = "backoff"
    BY <2>2 DEF Defeat, EndRound, PaxosTypeOK
  <2> QED BY <1>1, <2>2a, <2>3, <2>4
<1>8. ASSUME NEW q \in Proposers, RoundTimeout(q) \/ Cancel(q)
      PROVE  UNCHANGED <<round, pc, attempt>>
  BY <1>8 DEF RoundTimeout, Cancel
<1>9. ASSUME NEW q \in Proposers, NEW a \in Acceptors, CallFails(q, a)
      PROVE  UNCHANGED <<round, pc, attempt>>
  BY <1>9 DEF CallFails
<1>10. ASSUME NEW m \in net, Handle(m) PROVE UNCHANGED <<round, pc, attempt>>
  BY <1>10 DEF Handle, HandlePrepare, HandleAccept, HandleFails, Return
<1>11. ASSUME NEW a \in Acceptors, AcceptorProcess(a) PROVE UNCHANGED <<round, pc, attempt>>
  BY <1>11 DEF AcceptorProcess, proposerVars
<1>12. CASE UNCHANGED vars
  BY <1>2, <1>12 DEF vars, proposerVars
<1>13. CASE ProposerStep(p)
  BY <1>4, <1>5, <1>6, <1>7, <1>13 DEF ProposerStep
<1>14. CASE \E q \in Proposers : q # p /\ ProposerStep(q)
  BY <1>1, <1>3, <1>14
<1> QED
  BY <1>2, <1>8, <1>9, <1>10, <1>11, <1>12, <1>13, <1>14 DEF PaxosNext

LEMMA NumbersStayFresh ==
    ASSUME TypeOK, NumbersAreFresh, [PaxosNext]_vars
    PROVE  NumbersAreFresh'
<1> USE DEF TypeOK
<1>1. ASSUME NEW p \in Proposers, pc'[p] \in Phases
      PROVE  /\ attempt'[p].Proposal = [Round |-> round'[p], NodeID |-> IdOf[p]]
             /\ attempt'[p].Proposal \in Proposals
             /\ round'[p] > 0
  <2>1. CASE pc[p] \in Phases /\ round'[p] = round[p] /\ attempt'[p] = attempt[p]
    BY <2>1 DEF NumbersAreFresh
  <2>2. CASE StartRound(p)
    <3>1. /\ round'[p] = round[p] + 1
          /\ attempt'[p] = [NoAttempt EXCEPT !.Proposal = NextProposal(p)]
          /\ NextProposal(p) \in Proposals
      BY <2>2 DEF StartRound, PaxosTypeOK, NextProposal
    <3>2. attempt'[p].Proposal = NextProposal(p)
      BY <3>1 DEF NoAttempt
    <3> QED
      BY <3>1, <3>2 DEF NextProposal, PaxosTypeOK
  <2>3. CASE SendAccepts(p)
    <3>1. pc[p] = "prepare" /\ round' = round
      BY <2>3 DEF SendAccepts
    <3>2. attempt'[p].Proposal = attempt[p].Proposal
      BY <2>3, AdoptedType, HighestSeenType, TallyType DEF SendAccepts, Outcomes
    <3> QED
      BY <3>1, <3>2 DEF NumbersAreFresh, Phases
  <2> QED
    BY <1>1, <2>1, <2>2, <2>3, RoundsGrow DEF Phases
<1>2. ASSUME NEW m \in net' PROVE m.Proposal \in Proposals
  <2>1. CASE m \in net
    BY <2>1 DEF NumbersAreFresh
  <2>2. CASE m \notin net
    <3>1. PICK p \in Proposers : StartRound(p) \/ SendAccepts(p)
      BY <1>2, <2>2 DEF PaxosNext, vars, proposerVars, ProposerStep, AbortUnstarted,
              StopBackoff, AbortPrepare, PrepareFails, ValueChosen, AbortAccept,
              AcceptFails, Defeat, EndRound, RoundTimeout, Cancel, CallFails, Handle,
              HandlePrepare, HandleAccept, HandleFails, Return, AcceptorProcess
    <3>2. CASE StartRound(p)
      BY <1>2, <2>2, <3>2 DEF StartRound
    <3>3. CASE SendAccepts(p)
      <4>1. m.Proposal = attempt[p].Proposal /\ pc[p] = "prepare"
        BY <1>2, <2>2, <3>3 DEF SendAccepts
      <4> QED BY <4>1 DEF NumbersAreFresh, Phases
    <3> QED BY <3>1, <3>2, <3>3
  <2> QED BY <2>1, <2>2
<1>3. ASSUME NEW x \in AcceptPairs, NEW p \in Proposers, x[1].Round <= round[p],
             pc[p] = "prepare" => x[1].Round < round[p]
      PROVE  x[1].Round <= round'[p] /\ (pc'[p] = "prepare" => x[1].Round < round'[p])
  <2>1. x[1].Round \in Nat /\ round[p] \in Nat /\ round'[p] \in Nat
    BY PairsType, RoundsGrow DEF ProposalNumbers, PaxosTypeOK
  <2>2. StartRound(p) => round'[p] = round[p] + 1
    BY DEF StartRound, NextProposal, PaxosTypeOK
  <2> QED
    BY <1>3, <2>1, <2>2, RoundsGrow
<1>4. ASSUME NEW x \in AcceptPairs'
      PROVE  /\ x[1] \in Proposals
             /\ x[1].Round > 0
             /\ \E p \in Proposers :
                   /\ IdOf[p] = x[1].NodeID
                   /\ x[1].Round <= round'[p]
                   /\ pc'[p] = "prepare" => x[1].Round < round'[p]
  <2>1. CASE x \in AcceptPairs
    <3>1. PICK p \in Proposers :
             /\ IdOf[p] = x[1].NodeID
             /\ x[1].Round <= round[p]
             /\ pc[p] = "prepare" => x[1].Round < round[p]
      BY <2>1 DEF NumbersAreFresh
    <3>2. x[1].Round <= round'[p] /\ (pc'[p] = "prepare" => x[1].Round < round'[p])
      BY <1>3, <2>1, <3>1
    <3> QED
      BY <2>1, <3>1, <3>2 DEF NumbersAreFresh
  <2>2. ASSUME NEW q \in Proposers, NEW v, NewAccepts(q, v), x = <<attempt[q].Proposal, v>>
        PROVE  /\ x[1] \in Proposals
               /\ x[1].Round > 0
               /\ IdOf[q] = x[1].NodeID
               /\ x[1].Round <= round'[q]
               /\ pc'[q] # "prepare"
    <3>1. /\ attempt[q].Proposal = [Round |-> round[q], NodeID |-> IdOf[q]]
          /\ attempt[q].Proposal \in Proposals
          /\ round[q] > 0
          /\ pc'[q] = "accept"
          /\ round' = round
          /\ round[q] \in Nat
      BY <2>2 DEF NewAccepts, NumbersAreFresh, Phases, PaxosTypeOK
    <3>2. x[1] = [Round |-> round[q], NodeID |-> IdOf[q]]
      BY <2>2, <3>1
    <3> QED
      BY <3>1, <3>2
  <2>3. CASE x \notin AcceptPairs
    <3>1. PICK q \in Proposers : \E v \in Adopted(q) : NewAccepts(q, v)
      BY <1>4, <2>3, PairsStep
    <3>2. PICK v \in Adopted(q) : NewAccepts(q, v)
      BY <3>1
    <3>3. x = <<attempt[q].Proposal, v>>
      BY <1>4, <2>3, <3>2 DEF NewAccepts
    <3> QED BY <2>2, <3>2, <3>3
  <2> QED
    BY <2>1, <2>3
<1> QED
  BY <1>1, <1>2, <1>4 DEF NumbersAreFresh

\* The campaigns that have contested a round yet have ids of their own.
IdsInUseDiffer ==
    \A p, q \in Proposers :
        round[p] > 0 /\ round[q] > 0 /\ IdOf[p] = IdOf[q] => p = q

\* A campaign in phase 1 is the only one to have used its number, and it has not
\* been in phase 2 of that round: what the ids are there for.
LEMMA FreshIsUnused ==
    ASSUME TypeOK, NumbersAreFresh, IdsInUseDiffer
    PROVE  NumbersAreUnused
<1> SUFFICES ASSUME NEW p \in Proposers, pc[p] = "prepare", NEW x \in AcceptPairs
             PROVE  x[1] # attempt[p].Proposal
  BY DEF NumbersAreUnused
<1>1. /\ attempt[p].Proposal = [Round |-> round[p], NodeID |-> IdOf[p]]
      /\ round[p] > 0
  BY DEF NumbersAreFresh, Phases
<1>2. PICK q \in Proposers :
         /\ IdOf[q] = x[1].NodeID
         /\ x[1].Round > 0
         /\ x[1].Round <= round[q]
         /\ pc[q] = "prepare" => x[1].Round < round[q]
  BY DEF NumbersAreFresh
<1>3. x[1].Round \in Nat /\ round[p] \in Nat /\ round[q] \in Nat
  BY PairsType DEF TypeOK, PaxosTypeOK, ProposalNumbers
<1>4. IdOf[q] = IdOf[p] => x[1].Round < round[p]
  BY <1>1, <1>2, <1>3 DEF IdsInUseDiffer
<1> QED
  BY <1>1, <1>2, <1>3, <1>4

LEMMA OneValueStays ==
    ASSUME TypeOK, NumbersAreUnused, OneValuePerProposal, [PaxosNext]_vars
    PROVE  OneValuePerProposal'
<1>1. CASE AcceptPairs' \subseteq AcceptPairs
  BY <1>1 DEF OneValuePerProposal
<1>2. ASSUME NEW p \in Proposers, NEW v, NewAccepts(p, v) PROVE OneValuePerProposal'
  <2>1. ASSUME NEW x \in AcceptPairs PROVE x[1] # attempt[p].Proposal
    BY <1>2 DEF NewAccepts, NumbersAreUnused
  <2> QED
    BY <1>2, <2>1 DEF NewAccepts, OneValuePerProposal
<1> QED
  BY <1>1, <1>2, PairsStep

-----------------------------------------------------------------------------
(* Safe values                                                             *)

\* What is ruled out below n stays ruled out: promises only rise and binding
\* acceptors accept nothing below them.
LEMMA SafeStays ==
    ASSUME TypeOK, TypeOK', Binding, OneValuePerProposal',
           NEW n \in ProposalNumbers, NEW v, SafeAt(n, v)
    PROVE  SafeAt(n, v)'
<1> SUFFICES ASSUME NEW m \in Proposals, Less(m, n)
             PROVE  \E Q \in SUBSET Acceptors :
                       /\ IsQuorum(Q)
                       /\ \A a \in Q :
                             /\ \A vote \in votes' :
                                   vote.AcceptorID = a /\ vote.Proposal = m => vote.Value = v
                             /\ \/ [AcceptorID |-> a, Proposal |-> m, Value |-> v] \in votes'
                                \/ PastIt(a, m)'
  BY DEF SafeAt, IsQuorum, Quorum
<1>1. PICK Q \in SUBSET Acceptors :
         /\ IsQuorum(Q)
         /\ \A a \in Q :
               /\ \A vote \in votes :
                     vote.AcceptorID = a /\ vote.Proposal = m => vote.Value = v
               /\ \/ [AcceptorID |-> a, Proposal |-> m, Value |-> v] \in votes
                  \/ PastIt(a, m)
  BY DEF SafeAt
<1>2. m \in ProposalNumbers
  BY AcceptorAssumption
<1>3. ASSUME NEW a \in Acceptors
      PROVE  store[a].Promised \in ProposalNumbers /\ store'[a].Promised \in ProposalNumbers
  BY DEF TypeOK, AcceptorTypeOK, AcceptorState
<1>4. ASSUME NEW a \in Q
      PROVE  \/ [AcceptorID |-> a, Proposal |-> m, Value |-> v] \in votes'
             \/ PastIt(a, m)'
  <2>1. PastIt(a, m) => PastIt(a, m)'
    <3>1. AtLeast(store'[a].Promised, store[a].Promised)
      BY DEF Binding
    <3> QED BY <3>1, <1>2, <1>3, LessTransitive DEF PastIt
  <2> QED BY <1>1, <2>1 DEF Binding
<1>5. ASSUME NEW a \in Q, NEW vote \in votes', vote.AcceptorID = a, vote.Proposal = m
      PROVE  vote.Value = v
  <2>1. CASE vote \in votes
    BY <1>1, <1>5, <2>1
  <2>2. CASE vote \notin votes
    <3>1. AtLeast(m, store[a].Promised)
      BY <1>5, <2>2 DEF Binding
    <3>2. ~PastIt(a, m)
      BY <3>1, <1>2, <1>3, LessDef DEF PastIt
    <3>3. [AcceptorID |-> a, Proposal |-> m, Value |-> v] \in votes'
      BY <1>1, <3>2 DEF Binding
    <3>4. <<m, v>> \in AcceptPairs' /\ <<m, vote.Value>> \in AcceptPairs'
      BY <1>5, <3>3 DEF AcceptPairs
    <3> QED
      BY <3>4 DEF OneValuePerProposal
  <2> QED BY <2>1, <2>2
<1> QED
  BY <1>1, <1>4, <1>5

\* The adoption rule: whatever a quorum of promises leads a campaign to propose
\* is safe at its number.
LEMMA AdoptedIsSafe ==
    ASSUME IInv, NEW p \in Proposers, pc[p] = "prepare",
           IsQuorum(Senders(Promises(p))), NEW v \in Adopted(p)
    PROVE  SafeAt(attempt[p].Proposal, v)
<1> USE DEF IInv, TypeOK
<1> DEFINE n == attempt[p].Proposal
           Q == Senders(Promises(p))
<1>1. n \in ProposalNumbers
  BY DEF PaxosTypeOK, Attempts
<1>2. ASSUME NEW r \in Promises(p)
      PROVE  /\ r \in PrepareResponses
             /\ r.AcceptorID \in Acceptors
             /\ r.AcceptedProposal \in ProposalNumbers
             /\ r.HasAccepted \in BOOLEAN
             /\ store[r.AcceptorID].Promised \in ProposalNumbers
             /\ AtLeast(store[r.AcceptorID].Promised, n)
  <2>1. r \in PrepareResponses
    BY DEF Promises, PaxosTypeOK
  <2>2. r.AcceptorID \in Acceptors
    BY <2>1 DEF PrepareResponses
  <2> QED
    BY <2>1, <2>2 DEF PrepareResponses, AcceptorTypeOK, AcceptorState, PromisesAreTrue
<1>3. Q \in SUBSET Acceptors
  BY <1>2 DEF Senders
<1>4. ASSUME NEW m \in Proposals, Less(m, n), NEW a \in Q PROVE PastIt(a, m)
  <2>1. PICK r \in Promises(p) : a = r.AcceptorID
    BY DEF Senders
  <2>2. m \in ProposalNumbers
    BY AcceptorAssumption
  <2> QED
    BY <2>1, <2>2, <1>1, <1>2, <1>4, LessTransitive DEF PastIt
<1>5. ASSUME NEW vote \in votes, NEW r \in Promises(p), r.AcceptorID = vote.AcceptorID,
             Less(vote.Proposal, n)
      PROVE  r \in Reported(p) /\ AtLeast(r.AcceptedProposal, vote.Proposal)
  <2>1. r.HasAccepted /\ AtLeast(r.AcceptedProposal, vote.Proposal)
    BY <1>5 DEF PromisesHold
  <2>2. [AcceptorID |-> r.AcceptorID, Proposal |-> r.AcceptedProposal,
         Value |-> r.AcceptedValue] \in votes
    BY <2>1 DEF PromisesAreTrue
  <2>3. <<r.AcceptedProposal, r.AcceptedValue>> \in AcceptPairs
    BY <2>2 DEF AcceptPairs
  <2>4. r.AcceptedProposal.Round > 0
    BY <2>3 DEF NumbersAreFresh
  <2>5. Less(ZeroProposal, r.AcceptedProposal)
    BY <2>4, <1>2, ZeroIsLeast DEF IsZero, ProposalNumbers
  <2> QED
    BY <2>1, <2>5 DEF Reported
<1>6. SUFFICES ASSUME NEW m \in Proposals, Less(m, n)
               PROVE  \E S \in SUBSET Acceptors :
                         /\ IsQuorum(S)
                         /\ \A a \in S :
                               /\ \A vote \in votes :
                                     vote.AcceptorID = a /\ vote.Proposal = m => vote.Value = v
                               /\ \/ [AcceptorID |-> a, Proposal |-> m, Value |-> v] \in votes
                                  \/ PastIt(a, m)
  BY DEF SafeAt
<1>7. m \in ProposalNumbers
  BY AcceptorAssumption
<1>8. CASE Reported(p) = {}
  <2>1. ASSUME NEW a \in Q, NEW vote \in votes, vote.AcceptorID = a, vote.Proposal = m
        PROVE  FALSE
    <3>1. PICK r \in Promises(p) : a = r.AcceptorID
      BY DEF Senders
    <3> QED
      BY <1>5, <1>6, <1>8, <2>1, <3>1
  <2> QED
    BY <1>3, <1>4, <1>6, <2>1
<1>9. CASE Reported(p) # {}
  <2>1. PICK h \in Reported(p) :
           /\ v = h.AcceptedValue
           /\ \A o \in Reported(p) : AtLeast(h.AcceptedProposal, o.AcceptedProposal)
    BY <1>9 DEF Adopted
  <2> DEFINE k == h.AcceptedProposal
  <2>2. h \in Promises(p) /\ h.HasAccepted
    BY DEF Reported
  <2>3. [AcceptorID |-> h.AcceptorID, Proposal |-> k, Value |-> v] \in votes
    BY <2>1, <2>2 DEF PromisesAreTrue
  <2>4. <<k, v>> \in AcceptPairs
    BY <2>3 DEF AcceptPairs
  <2>5. k \in ProposalNumbers
    BY <1>2, <2>2
  <2>6. CASE Less(m, k)
    <3>1. SafeAt(k, v)
      BY <2>4 DEF AcceptsAreSafe
    <3> QED
      BY <2>6, <3>1 DEF SafeAt
  <2>7. CASE ~Less(m, k)
    <3>1. ASSUME NEW a \in Q, NEW vote \in votes, vote.AcceptorID = a, vote.Proposal = m
          PROVE  vote.Value = v
      <4>1. PICK r \in Promises(p) : a = r.AcceptorID
        BY DEF Senders
      <4>2. r \in Reported(p) /\ AtLeast(r.AcceptedProposal, m)
        BY <1>5, <1>6, <3>1, <4>1
      <4>3. AtLeast(k, r.AcceptedProposal) /\ r.AcceptedProposal \in ProposalNumbers
        BY <1>2, <2>1, <4>1, <4>2
      <4>4. AtLeast(k, m)
        BY <1>7, <2>5, <4>2, <4>3, LessTransitive
      <4>5. m = k
        BY <1>7, <2>5, <2>7, <4>4, LessTrichotomy
      <4>6. <<k, vote.Value>> \in AcceptPairs
        BY <3>1, <4>5 DEF AcceptPairs
      <4> QED
        BY <2>4, <4>6 DEF OneValuePerProposal
    <3> QED
      BY <1>3, <1>4, <1>6, <3>1
  <2> QED BY <2>6, <2>7
<1> QED BY <1>8, <1>9

LEMMA AcceptsStaySafe ==
    ASSUME IInv, TypeOK', Binding, OneValuePerProposal', [PaxosNext]_vars
    PROVE  AcceptsAreSafe'
<1> SUFFICES ASSUME NEW x \in AcceptPairs' PROVE SafeAt(x[1], x[2])'
  BY DEF AcceptsAreSafe
<1>1. CASE x \in AcceptPairs
  <2>1. x[1] \in ProposalNumbers /\ SafeAt(x[1], x[2])
    BY <1>1, PairsType DEF IInv, AcceptsAreSafe
  <2> QED
    BY <2>1, SafeStays DEF IInv
<1>2. CASE x \notin AcceptPairs
  <2>1. PICK p \in Proposers : \E v \in Adopted(p) : NewAccepts(p, v)
    BY <1>2, PairsStep DEF IInv
  <2>2. PICK v \in Adopted(p) : NewAccepts(p, v)
    BY <2>1
  <2>3. PICK n \in ProposalNumbers : n = attempt[p].Proposal
    BY DEF IInv, TypeOK, PaxosTypeOK, Attempts
  <2>4. x = <<n, v>>
    BY <1>2, <2>2, <2>3 DEF NewAccepts
  <2>5. SafeAt(n, v)
    BY <2>2, <2>3, AdoptedIsSafe DEF NewAccepts
  <2>6. SafeAt(n, v)'
    BY <2>5, SafeStays DEF IInv
  <2>7. x[1] = n /\ x[2] = v
    BY <2>4
  <2> QED
    BY <2>6, <2>7
<1> QED BY <1>1, <1>2

-----------------------------------------------------------------------------
(* What a campaign has in hand                                             *)

\* How the promises and acceptances of a campaign change: a phase that goes on
\* may hear one more answer, from the handler that this step runs.
LEMMA RepliesStep ==
    ASSUME TypeOK, [PaxosNext]_vars, NEW p \in Proposers, pc[p] \in Phases,
           pc'[p] = pc[p], attempt'[p] = attempt[p], NEW r \in replies'[p], r \notin replies[p]
    PROVE  \E m \in net :
              /\ m.to \in Acceptors
              /\ m.type = pc[p]
              /\ m.Proposal = attempt[p].Proposal
              /\ \/ HandlePrepare(m) /\ r = PrepareResponse(m.to, m.Proposal)
                 \/ HandleAccept(m) /\ r = AcceptResponse(m.to, m.Proposal)
<1> USE DEF TypeOK
<1>1. ASSUME NEW q \in Proposers, ProposerStep(q) PROVE replies'[p] \subseteq replies[p]
  BY <1>1 DEF ProposerStep, StartRound, AbortUnstarted, StopBackoff, AbortPrepare,
              PrepareFails, SendAccepts, ValueChosen, AbortAccept, AcceptFails, Defeat,
              EndRound, PaxosTypeOK
<1>2. CASE replies' = replies
  BY <1>2
<1>3. ASSUME NEW m \in net, Handle(m)
      PROVE  \/ replies' = replies
             \/ /\ m.type = pc[p]
                /\ m.Proposal = attempt[p].Proposal
                /\ \/ HandlePrepare(m) /\ r = PrepareResponse(m.to, m.Proposal)
                   \/ HandleAccept(m) /\ r = AcceptResponse(m.to, m.Proposal)
  <2>1. m.from \in Proposers
    BY RequestType
  <2>2. ASSUME NEW response, Return(m, response), replies' # replies
        PROVE  m.type = pc[p] /\ m.Proposal = attempt[p].Proposal /\ r = response
    <3>1. Awaited(m) /\ replies' = [replies EXCEPT ![m.from] = @ \cup {response}]
      BY <2>2 DEF Return
    <3>2. m.from = p /\ r = response
      BY <2>1, <3>1 DEF PaxosTypeOK
    <3> QED
      BY <3>1, <3>2 DEF Awaited
  <2>3. CASE HandlePrepare(m)
    BY <2>2, <2>3 DEF HandlePrepare
  <2>4. CASE HandleAccept(m)
    BY <2>2, <2>4 DEF HandleAccept
  <2>5. CASE HandleFails(m)
    BY <2>5 DEF HandleFails
  <2> QED BY <1>3, <2>3, <2>4, <2>5 DEF Handle
<1>4. ASSUME NEW q \in Proposers, RoundTimeout(q) \/ Cancel(q) PROVE replies' = replies
  BY <1>4 DEF RoundTimeout, Cancel
<1>5. ASSUME NEW q \in Proposers, NEW a \in Acceptors, CallFails(q, a)
      PROVE  replies' = replies
  BY <1>5 DEF CallFails
<1>6. ASSUME NEW a \in Acceptors, AcceptorProcess(a) PROVE replies' = replies
  BY <1>6 DEF AcceptorProcess, proposerVars
<1>7. CASE UNCHANGED vars
  BY <1>2, <1>7 DEF vars, proposerVars
<1> QED
  BY <1>1, <1>2, <1>3, <1>4, <1>5, <1>6, <1>7, RequestType DEF PaxosNext

\* What a handler that promises knows of its own acceptances.
LEMMA PromiseIsTrue ==
    ASSUME NumbersAreUnused, IInv, NEW p \in Proposers, pc[p] = "prepare", NEW m \in net,
           m.to \in Acceptors, m.Proposal = attempt[p].Proposal, HandlePrepare(m),
           NEW r, r = PrepareResponse(m.to, m.Proposal), r.Promised
    PROVE  /\ r.AcceptorID = m.to
           /\ votes' = votes
           /\ store'[m.to].Promised = m.Proposal
           /\ r.HasAccepted =>
                 /\ [AcceptorID |-> m.to, Proposal |-> r.AcceptedProposal,
                     Value |-> r.AcceptedValue] \in votes
                 /\ Less(r.AcceptedProposal, m.Proposal)
           /\ \A vote \in votes :
                 vote.AcceptorID = m.to =>
                     r.HasAccepted /\ AtLeast(r.AcceptedProposal, vote.Proposal)
<1> USE DEF IInv, TypeOK
<1> DEFINE a == m.to
           n == m.Proposal
<1>1. /\ r.AcceptorID = a
      /\ r.AcceptedProposal = state[a].AcceptedProposal
      /\ r.AcceptedValue = state[a].AcceptedValue
      /\ r.HasAccepted = state[a].HasAccepted
      /\ ~Refuses(a, n)
  BY DEF PrepareResponse
<1>2. up[a] /\ state[a] = store[a]
  BY DEF HandlePrepare, Prepare, MemoryIsDurable
<1>3. votes' = votes /\ store' = [store EXCEPT ![a] = [state[a] EXCEPT !.Promised = n]]
  BY <1>1 DEF HandlePrepare, Prepare, Save
<1>4. store[a] \in AcceptorState
  BY DEF AcceptorTypeOK
<1>5. store'[a].Promised = n
  BY <1>2, <1>3, <1>4 DEF AcceptorTypeOK, AcceptorState
<1>6. \A vote \in votes :
         vote.AcceptorID = a =>
             r.HasAccepted /\ AtLeast(r.AcceptedProposal, vote.Proposal)
  BY <1>1, <1>2 DEF StoreKeepsNewestVote, VotesOf
<1>7. ASSUME r.HasAccepted
      PROVE  /\ [AcceptorID |-> a, Proposal |-> r.AcceptedProposal,
                 Value |-> r.AcceptedValue] \in votes
             /\ Less(r.AcceptedProposal, n)
  <2> DEFINE k == r.AcceptedProposal
             vote == [AcceptorID |-> a, Proposal |-> k, Value |-> r.AcceptedValue]
  <2>1. vote \in votes
    BY <1>1, <1>2, <1>7 DEF StoreKeepsNewestVote
  <2>2. vote \in VotesOf(a)
    BY <2>1 DEF VotesOf
  <2>3. AtLeast(store[a].Promised, k)
    BY <2>2 DEF StoreKeepsNewestVote
  <2>4. AtLeast(n, store[a].Promised)
    BY <1>1, <1>2 DEF Refuses
  <2>5. k \in ProposalNumbers /\ store[a].Promised \in ProposalNumbers
    BY <1>1, <1>2, <1>4 DEF AcceptorState
  <2>6. n \in ProposalNumbers
    BY AcceptorAssumption DEF NumbersAreFresh, Phases
  <2>7. <<k, r.AcceptedValue>> \in AcceptPairs
    BY <2>1 DEF AcceptPairs
  <2>8. k # n
    BY <2>7 DEF NumbersAreUnused
  <2>9. AtLeast(n, k)
    BY <2>3, <2>4, <2>5, <2>6, LessTransitive
  <2> QED
    BY <2>1, <2>5, <2>6, <2>8, <2>9, LessTrichotomy
<1> QED
  BY <1>1, <1>3, <1>5, <1>6, <1>7

LEMMA PromisesStayTrue ==
    ASSUME NumbersAreUnused, IInv, TypeOK', Binding, [PaxosNext]_vars
    PROVE  PromisesAreTrue' /\ PromisesHold'
<1> USE DEF IInv, TypeOK
<1> SUFFICES ASSUME NEW p \in Proposers, pc'[p] = "prepare", NEW r \in Promises(p)'
             PROVE  /\ AtLeast(store'[r.AcceptorID].Promised, attempt'[p].Proposal)
                    /\ r.HasAccepted =>
                          /\ [AcceptorID |-> r.AcceptorID, Proposal |-> r.AcceptedProposal,
                              Value |-> r.AcceptedValue] \in votes'
                          /\ Less(r.AcceptedProposal, attempt'[p].Proposal)
                    /\ \A vote \in votes' :
                          /\ r.AcceptorID = vote.AcceptorID
                          /\ Less(vote.Proposal, attempt'[p].Proposal)
                          => r.HasAccepted /\ AtLeast(r.AcceptedProposal, vote.Proposal)
  BY DEF PromisesAreTrue, PromisesHold
<1>1. r \in replies'[p] /\ r.Promised
  BY DEF Promises
<1>2. r \in PrepareResponses
  BY <1>1 DEF PaxosTypeOK
<1>3. r.AcceptorID \in Acceptors /\ r.AcceptedProposal \in ProposalNumbers
  BY <1>2 DEF PrepareResponses
<1>4. CASE StartRound(p)
  BY <1>1, <1>4 DEF StartRound, PaxosTypeOK
<1>5. CASE pc[p] = "prepare" /\ attempt'[p] = attempt[p]
  <2> DEFINE a == r.AcceptorID
  <2>1. PICK n \in ProposalNumbers : n = attempt[p].Proposal /\ n = attempt'[p].Proposal
    BY <1>5 DEF PaxosTypeOK, Attempts
  <2>2. /\ store[a].Promised \in ProposalNumbers
        /\ store'[a].Promised \in ProposalNumbers
        /\ AtLeast(store'[a].Promised, store[a].Promised)
    BY <1>3 DEF AcceptorTypeOK, AcceptorState, Binding
  <2>3. CASE r \in replies[p]
    <3>1. r \in Promises(p)
      BY <1>1, <2>3 DEF Promises
    <3>2. AtLeast(store[a].Promised, n)
      BY <1>5, <2>1, <3>1 DEF PromisesAreTrue
    <3>3. AtLeast(store'[a].Promised, n)
      BY <2>1, <2>2, <3>2, LessTransitive
    <3>4. r.HasAccepted =>
             /\ [AcceptorID |-> a, Proposal |-> r.AcceptedProposal,
                 Value |-> r.AcceptedValue] \in votes'
             /\ Less(r.AcceptedProposal, n)
      BY <1>5, <2>1, <3>1 DEF PromisesAreTrue, Binding
    <3>5. ASSUME NEW vote \in votes', a = vote.AcceptorID, Less(vote.Proposal, n)
          PROVE  r.HasAccepted /\ AtLeast(r.AcceptedProposal, vote.Proposal)
      <4>1. CASE vote \in votes
        BY <1>5, <2>1, <3>1, <3>5, <4>1 DEF PromisesHold
      <4>2. CASE vote \notin votes
        <5>1. AtLeast(vote.Proposal, store[a].Promised)
          BY <1>3, <3>5, <4>2 DEF Binding
        <5>2. vote.Proposal \in ProposalNumbers
          BY DEF AcceptorTypeOK, Acceptance
        <5>3. AtLeast(vote.Proposal, n)
          BY <2>1, <2>2, <3>2, <5>1, <5>2, LessTransitive
        <5> QED
          BY <2>1, <3>5, <5>2, <5>3, LessDef
      <4> QED BY <4>1, <4>2
    <3> QED
      BY <2>1, <3>3, <3>4, <3>5
  <2>4. CASE r \notin replies[p]
    <3>1. PICK m \in net :
             /\ m.to \in Acceptors
             /\ m.type = "prepare"
             /\ m.Proposal = attempt[p].Proposal
             /\ \/ HandlePrepare(m) /\ r = PrepareResponse(m.to, m.Proposal)
                \/ HandleAccept(m) /\ r = AcceptResponse(m.to, m.Proposal)
      BY <1>1, <1>5, <2>4, RepliesStep DEF Phases
    <3>2. HandlePrepare(m) /\ r = PrepareResponse(m.to, m.Proposal)
      BY <3>1 DEF HandleAccept
    <3>3. /\ a = m.to
          /\ votes' = votes
          /\ store'[m.to].Promised = m.Proposal
          /\ r.HasAccepted =>
                /\ [AcceptorID |-> m.to, Proposal |-> r.AcceptedProposal,
                    Value |-> r.AcceptedValue] \in votes
                /\ Less(r.AcceptedProposal, m.Proposal)
          /\ \A vote \in votes :
                vote.AcceptorID = m.to =>
                    r.HasAccepted /\ AtLeast(r.AcceptedProposal, vote.Proposal)
      BY <1>1, <1>5, <3>1, <3>2, PromiseIsTrue
    <3>4. AtLeast(n, n)
      BY LessTrichotomy
    <3> QED
      BY <2>1, <3>1, <3>3, <3>4
  <2> QED BY <2>3, <2>4
<1> QED
  BY <1>4, <1>5, RoundsGrow

LEMMA AcceptancesStayTrue ==
    ASSUME IInv, Binding, OneValuePerProposal, [PaxosNext]_vars
    PROVE  AcceptancesAreTrue'
<1> USE DEF IInv, TypeOK
<1> SUFFICES ASSUME NEW p \in Proposers, pc'[p] = "accept", NEW r \in Accepts(p)'
             PROVE  [AcceptorID |-> r.AcceptorID, Proposal |-> attempt'[p].Proposal,
                     Value |-> attempt'[p].Value] \in votes'
  BY DEF AcceptancesAreTrue
<1>1. r \in replies'[p] /\ r.Accepted
  BY DEF Accepts
<1>2. CASE SendAccepts(p)
  BY <1>1, <1>2 DEF SendAccepts, PaxosTypeOK
<1>3. CASE pc[p] = "accept" /\ attempt'[p] = attempt[p]
  <2>1. CASE r \in replies[p]
    <3>1. r \in Accepts(p)
      BY <1>1, <2>1 DEF Accepts
    <3> QED
      BY <1>3, <3>1 DEF AcceptancesAreTrue, Binding
  <2>2. CASE r \notin replies[p]
    <3>1. PICK m \in net :
             /\ m.to \in Acceptors
             /\ m.type = "accept"
             /\ m.Proposal = attempt[p].Proposal
             /\ \/ HandlePrepare(m) /\ r = PrepareResponse(m.to, m.Proposal)
                \/ HandleAccept(m) /\ r = AcceptResponse(m.to, m.Proposal)
      BY <1>1, <1>3, <2>2, RepliesStep DEF Phases
    <3>2. HandleAccept(m) /\ r = AcceptResponse(m.to, m.Proposal)
      BY <3>1 DEF HandlePrepare
    <3>3. r.AcceptorID = m.to /\ ~Refuses(m.to, m.Proposal)
      BY <1>1, <3>2 DEF AcceptResponse
    <3>4. [AcceptorID |-> m.to, Proposal |-> m.Proposal, Value |-> m.Value] \in votes'
      BY <3>2, <3>3 DEF HandleAccept, Accept
    <3>5. m.Value = attempt[p].Value
      BY <1>3, <3>1, PairsOfNet, PairsOfAttempts DEF OneValuePerProposal
    <3> QED
      BY <1>3, <3>1, <3>3, <3>4, <3>5
  <2> QED BY <2>1, <2>2
<1> QED
  BY <1>2, <1>3, RoundsGrow

\* A campaign comes to report "chosen" in one way only.
LEMMA OutcomeStep ==
    ASSUME TypeOK, [PaxosNext]_vars, NEW p \in Proposers, attempt'[p].Outcome = "chosen"
    PROVE  attempt'[p] = attempt[p] \/ ValueChosen(p)
<1> USE DEF TypeOK
<1>1. CASE attempt' = attempt
  BY <1>1
<1>2. ASSUME NEW q \in Proposers, q # p, ProposerStep(q) PROVE attempt'[p] = attempt[p]
  BY <1>2 DEF ProposerStep, StartRound, AbortUnstarted, StopBackoff, AbortPrepare,
              PrepareFails, SendAccepts, ValueChosen, AbortAccept, AcceptFails, Defeat,
              Tally, PaxosTypeOK
<1>3. ASSUME NEW o, o # "chosen", \E v, n : Tally(p, v, n, o) PROVE FALSE
  <2>1. attempt[p] \in Attempts
    BY DEF PaxosTypeOK
  <2>2. attempt'[p].Outcome = o
    BY <1>3, <2>1 DEF Tally, PaxosTypeOK, Attempts
  <2> QED BY <1>3, <2>2
<1>4. CASE AbortPrepare(p) \/ PrepareFails(p) \/ SendAccepts(p) \/ AbortAccept(p)
           \/ AcceptFails(p)
  <2>1. CASE AbortPrepare(p)
    BY <1>3, <2>1 DEF AbortPrepare
  <2>2. CASE PrepareFails(p)
    BY <1>3, <2>2 DEF PrepareFails, Defeat
  <2>3. CASE SendAccepts(p)
    BY <1>3, <2>3 DEF SendAccepts
  <2>4. CASE AbortAccept(p)
    BY <1>3, <2>4 DEF AbortAccept
  <2>5. CASE AcceptFails(p)
    BY <1>3, <2>5 DEF AcceptFails, Defeat
  <2> QED BY <1>4, <2>1, <2>2, <2>3, <2>4, <2>5
<1>5. CASE StartRound(p) \/ AbortUnstarted(p)
  BY <1>5 DEF StartRound, AbortUnstarted, NoAttempt, PaxosTypeOK
<1>6. CASE StopBackoff(p)
  BY <1>1, <1>6 DEF StopBackoff
<1>7. ASSUME NEW q \in Proposers, RoundTimeout(q) \/ Cancel(q) PROVE attempt' = attempt
  BY <1>7 DEF RoundTimeout, Cancel
<1>8. ASSUME NEW q \in Proposers, NEW a \in Acceptors, CallFails(q, a)
      PROVE  attempt' = attempt
  BY <1>8 DEF CallFails
<1>9. ASSUME NEW m \in net, Handle(m) PROVE attempt' = attempt
  BY <1>9 DEF Handle, HandlePrepare, HandleAccept, HandleFails, Return
<1>10. ASSUME NEW a \in Acceptors, AcceptorProcess(a) PROVE attempt' = attempt
  BY <1>10 DEF AcceptorProcess, proposerVars
<1>11. CASE UNCHANGED vars
  BY <1>1, <1>11 DEF vars, proposerVars
<1>12. CASE ProposerStep(p)
  BY <1>4, <1>5, <1>6, <1>12 DEF ProposerStep
<1> QED
  BY <1>1, <1>2, <1>7, <1>8, <1>9, <1>10, <1>11, <1>12 DEF PaxosNext

LEMMA LearnedStaysChosen ==
    ASSUME IInv, Binding, [PaxosNext]_vars
    PROVE  LearnedIsChosen'
<1> USE DEF IInv, TypeOK
<1> SUFFICES ASSUME NEW p \in Proposers, attempt'[p].Outcome = "chosen"
             PROVE  ChosenAt(attempt[p].Proposal, attempt[p].Value)'
  BY DEF LearnedIsChosen
<1>1. PICK n, v : n = attempt'[p].Proposal /\ v = attempt'[p].Value
  OBVIOUS
<1>2. ChosenAt(n, v) => ChosenAt(n, v)'
  <2>1. VotersFor(n, v) \subseteq VotersFor(n, v)'
    BY DEF VotersFor, Binding
  <2>2. VotersFor(n, v) \in SUBSET Acceptors /\ VotersFor(n, v)' \in SUBSET Acceptors
    BY DEF VotersFor
  <2>3. ASSUME IsQuorum(VotersFor(n, v)) PROVE IsQuorum(VotersFor(n, v)')
    BY <2>1, <2>2, <2>3, QuorumGrows
  <2> QED
    BY <2>3 DEF ChosenAt, IsQuorum, Quorum
<1>3. CASE attempt'[p] = attempt[p]
  <2>1. ChosenAt(n, v)
    BY <1>1, <1>3 DEF LearnedIsChosen
  <2> QED
    BY <1>1, <1>2, <2>1 DEF ChosenAt, VotersFor, IsQuorum, Quorum
<1>4. CASE ValueChosen(p)
  <2>1. /\ pc[p] = "accept"
        /\ IsQuorum(Senders(Accepts(p)))
        /\ \E h \in HighestSeen(p) : Tally(p, attempt[p].Value, h, "chosen")
    BY <1>4 DEF ValueChosen
  <2>2. attempt[p].Value \in Uint64
    BY DEF PaxosTypeOK, Attempts
  <2>3. n = attempt[p].Proposal /\ v = attempt[p].Value
    BY <1>1, <2>1, <2>2, HighestSeenType, TallyType DEF Outcomes
  <2>4. Senders(Accepts(p)) \subseteq VotersFor(n, v)
    <3>1. ASSUME NEW r \in Accepts(p) PROVE r.AcceptorID \in VotersFor(n, v)
      <4>1. r.AcceptorID \in Acceptors
        BY <2>1 DEF Accepts, PaxosTypeOK, AcceptResponses
      <4>2. [AcceptorID |-> r.AcceptorID, Proposal |-> n, Value |-> v] \in votes
        BY <2>1, <2>3 DEF AcceptancesAreTrue
      <4> QED BY <4>1, <4>2 DEF VotersFor
    <3> QED BY <3>1 DEF Senders
  <2>5. VotersFor(n, v) \in SUBSET Acceptors
    BY DEF VotersFor
  <2>6. ChosenAt(n, v)
    BY <2>1, <2>4, <2>5, QuorumGrows DEF ChosenAt
  <2> QED
    BY <1>1, <1>2, <2>6 DEF ChosenAt, VotersFor, IsQuorum, Quorum
<1> QED
  BY <1>3, <1>4, OutcomeStep

-----------------------------------------------------------------------------
(* The theorems                                                            *)

LEMMA IInvInit == PaxosInit => IInv
<1> SUFFICES ASSUME PaxosInit PROVE IInv
  OBVIOUS
<1> USE DEF PaxosInit
<1>1. AInv
  BY AInvInit
<1>2. PaxosTypeOK
  BY NoAttemptType DEF PaxosTypeOK
<1>3. votes = {} /\ net = {}
  BY DEF AcceptorInit
<1>4. \A p \in Proposers : pc[p] = "idle"
  OBVIOUS
<1>5. AcceptPairs = {}
  BY <1>3, <1>4 DEF AcceptPairs
<1>6. NumbersAreFresh
  BY <1>3, <1>4, <1>5 DEF NumbersAreFresh, Phases
<1>7. OneValuePerProposal /\ AcceptsAreSafe
  BY <1>5 DEF OneValuePerProposal, AcceptsAreSafe
<1>8. PromisesAreTrue /\ PromisesHold /\ AcceptancesAreTrue
  BY <1>4 DEF PromisesAreTrue, PromisesHold, AcceptancesAreTrue
<1>9. LearnedIsChosen
  BY DEF LearnedIsChosen, NoAttempt
<1> QED
  BY <1>1, <1>2, <1>6, <1>7, <1>8, <1>9 DEF IInv, AInv, TypeOK

\* What holds whatever the ids: types, durable acceptors, numbers that only rise.
BInv == TypeOK /\ MemoryIsDurable /\ StoreKeepsNewestVote /\ NumbersAreFresh

LEMMA BInvStep ==
    ASSUME BInv, [PaxosNext]_vars
    PROVE  BInv' /\ Binding
<1>1. AInv /\ TypeOK /\ NumbersAreFresh
  BY DEF BInv, TypeOK, AInv
<1>2. AInv' /\ Binding
  BY <1>1, StepOfAcceptors, AcceptorStep
<1>3. TypeOK'
  BY <1>1, <1>2, PaxosTypes DEF TypeOK, AInv
<1>4. NumbersAreFresh'
  BY <1>1, NumbersStayFresh
<1> QED
  BY <1>2, <1>3, <1>4 DEF BInv, AInv

LEMMA IInvStep ==
    ASSUME NumbersAreUnused, IInv, [PaxosNext]_vars
    PROVE  IInv' /\ Binding
<1>1. BInv' /\ Binding
  BY BInvStep DEF IInv, BInv
<1>2. TypeOK'
  BY <1>1 DEF BInv
<1>3. OneValuePerProposal'
  BY OneValueStays DEF IInv
<1>4. PromisesAreTrue' /\ PromisesHold'
  BY <1>1, <1>2, PromisesStayTrue
<1>5. AcceptsAreSafe'
  BY <1>1, <1>2, <1>3, AcceptsStaySafe
<1>6. AcceptancesAreTrue'
  BY <1>1, AcceptancesStayTrue DEF IInv
<1>7. LearnedIsChosen'
  BY <1>1, LearnedStaysChosen
<1> QED
  BY <1>1, <1>3, <1>4, <1>5, <1>6, <1>7 DEF IInv, BInv

\* A value chosen at a number is the only one at it, and every accept above it
\* is safe: the quorum that chose it meets the quorum that SafeAt names.
LEMMA ChosenBinds ==
    ASSUME IInv, NEW vote \in votes, ChosenAt(vote.Proposal, vote.Value),
           NEW x \in AcceptPairs, Less(vote.Proposal, x[1])
    PROVE  x[2] = vote.Value
<1> DEFINE m == vote.Proposal
           V == VotersFor(m, vote.Value)
<1>1. m \in Proposals /\ SafeAt(x[1], x[2])
  BY PairsOfVotes DEF IInv, NumbersAreFresh, AcceptsAreSafe
<1>2. PICK Q \in SUBSET Acceptors :
         /\ IsQuorum(Q)
         /\ \A a \in Q : \A w \in votes :
               w.AcceptorID = a /\ w.Proposal = m => w.Value = x[2]
  BY <1>1 DEF SafeAt
<1>3. V \in SUBSET Acceptors /\ IsQuorum(V)
  BY DEF VotersFor, ChosenAt
<1>4. PICK a \in Q : a \in V
  BY <1>2, <1>3, QuorumsIntersect
<1>5. [AcceptorID |-> a, Proposal |-> m, Value |-> vote.Value] \in votes
  BY <1>4 DEF VotersFor
<1> QED
  BY <1>2, <1>4, <1>5

LEMMA IInvImpliesAgreement ==
    ASSUME IInv
    PROVE  Agreement /\ ChosenBindsLaterRounds
<1>1. ChosenBindsLaterRounds
  BY ChosenBinds DEF ChosenBindsLaterRounds
<1>2. ASSUME NEW s \in votes, NEW t \in votes, ChosenAt(s.Proposal, s.Value),
             ChosenAt(t.Proposal, t.Value)
      PROVE  s.Value = t.Value
  <2>1. <<s.Proposal, s.Value>> \in AcceptPairs /\ <<t.Proposal, t.Value>> \in AcceptPairs
    BY PairsOfVotes
  <2>2. s.Proposal \in ProposalNumbers /\ t.Proposal \in ProposalNumbers
    BY DEF IInv, TypeOK, AcceptorTypeOK, Acceptance
  <2>3. CASE s.Proposal = t.Proposal
    BY <2>1, <2>3 DEF IInv, OneValuePerProposal
  <2>4. CASE Less(s.Proposal, t.Proposal)
    BY <1>2, <2>1, <2>4, ChosenBinds
  <2>5. CASE Less(t.Proposal, s.Proposal)
    BY <1>2, <2>1, <2>5, ChosenBinds
  <2> QED BY <2>2, <2>3, <2>4, <2>5, LessTrichotomy
<1>3. Agreement
  BY <1>2 DEF Agreement, Chosen
<1> QED BY <1>1, <1>3

LEMMA IdsAreEnough == ASSUME IdsDiffer, IInv PROVE NumbersAreUnused
BY FreshIsUnused DEF IdsDiffer, IdsInUseDiffer, IInv

\* The invariant of module PaxosInv, of every reachable state.
THEOREM InvariantHolds == ASSUME IdsDiffer PROVE PaxosSpec => []IInv
<1>1. IInv => NumbersAreUnused
  BY IdsAreEnough
<1>2. IInv /\ NumbersAreUnused /\ [PaxosNext]_vars => IInv'
  BY IInvStep
<1> QED
  BY IInvInit, <1>1, <1>2, PTL DEF PaxosSpec

LEMMA BInvHolds == PaxosSpec => []BInv
<1>1. PaxosInit => BInv
  BY IInvInit DEF IInv, BInv
<1>2. BInv /\ [PaxosNext]_vars => BInv'
  BY BInvStep
<1> QED
  BY <1>1, <1>2, PTL DEF PaxosSpec

\* Every variable keeps its type, also if campaigns share an id.
THEOREM TypeCorrect == PaxosSpec => []TypeOK
<1>1. BInv => TypeOK
  BY DEF BInv
<1> QED
  BY BInvHolds, <1>1, PTL

\* No two values are ever chosen, and a value once chosen binds every accept
\* above it, for any cluster, any faults and any number of rounds.
THEOREM PaxosAgrees ==
    ASSUME IdsDiffer PROVE PaxosSpec => [](Agreement /\ ChosenBindsLaterRounds)
<1>1. IInv => Agreement /\ ChosenBindsLaterRounds
  BY IInvImpliesAgreement
<1> QED
  BY InvariantHolds, <1>1, PTL

\* A number never stands for two values, and what campaigns learn is chosen.
THEOREM CampaignsAreTrue ==
    ASSUME IdsDiffer
    PROVE  PaxosSpec => [](OneValuePerProposal /\ PromisesHold /\ LearnedIsChosen)
<1>1. IInv => OneValuePerProposal /\ PromisesHold /\ LearnedIsChosen
  BY DEF IInv
<1> QED
  BY InvariantHolds, <1>1, PTL

-----------------------------------------------------------------------------
(* Retries                                                                 *)

\* A campaign that is to retry has its round at or above that of its last number
\* and of the highest promise it came across, so the next number is above both.
RoundIsUpToDate ==
    \A p \in Proposers : pc[p] = "backoff" =>
        /\ round[p] >= attempt[p].Proposal.Round
        /\ round[p] >= attempt[p].HighestSeen.Round

LEMMA LessByRound ==
    ASSUME NEW m \in ProposalNumbers, NEW n \in ProposalNumbers, m.Round < n.Round
    PROVE  Less(m, n)
BY DEF Less, Compare, ProposalNumbers

LEMMA BackoffStep ==
    ASSUME TypeOK, [PaxosNext]_vars, NEW p \in Proposers, pc'[p] = "backoff"
    PROVE  \/ pc[p] = "backoff" /\ round'[p] = round[p] /\ attempt'[p] = attempt[p]
           \/ PrepareFails(p) \/ AcceptFails(p)
<1> USE DEF TypeOK
<1>1. CASE UNCHANGED <<round, pc, attempt>>
  BY <1>1
<1>2. ASSUME NEW q \in Proposers, ProposerStep(q), q # p
      PROVE  round'[p] = round[p] /\ pc'[p] = pc[p] /\ attempt'[p] = attempt[p]
  BY <1>2 DEF ProposerStep, StartRound, AbortUnstarted, StopBackoff, AbortPrepare,
              PrepareFails, SendAccepts, ValueChosen, AbortAccept, AcceptFails, Defeat,
              EndRound, Tally, PaxosTypeOK
<1>3. CASE \/ StartRound(p) \/ AbortUnstarted(p) \/ StopBackoff(p) \/ AbortPrepare(p)
           \/ SendAccepts(p) \/ ValueChosen(p) \/ AbortAccept(p)
  BY <1>3 DEF StartRound, AbortUnstarted, StopBackoff, AbortPrepare, SendAccepts,
              ValueChosen, AbortAccept, EndRound, PaxosTypeOK
<1>4. CASE ProposerStep(p)
  BY <1>3, <1>4 DEF ProposerStep
<1>5. ASSUME NEW q \in Proposers, RoundTimeout(q) \/ Cancel(q)
      PROVE  pc'[p] = pc[p] /\ UNCHANGED <<round, attempt>>
  BY <1>5 DEF RoundTimeout, Cancel
<1>6. ASSUME NEW q \in Proposers, NEW a \in Acceptors, CallFails(q, a)
      PROVE  UNCHANGED <<round, pc, attempt>>
  BY <1>6 DEF CallFails
<1>7. ASSUME NEW m \in net, Handle(m) PROVE UNCHANGED <<round, pc, attempt>>
  BY <1>7 DEF Handle, HandlePrepare, HandleAccept, HandleFails, Return
<1>8. ASSUME NEW a \in Acceptors, AcceptorProcess(a) PROVE UNCHANGED <<round, pc, attempt>>
  BY <1>8 DEF AcceptorProcess, proposerVars
<1>9. CASE UNCHANGED vars
  BY <1>1, <1>9 DEF vars, proposerVars
<1>10. CASE \E q \in Proposers : q # p /\ ProposerStep(q)
  BY <1>2, <1>10
<1> QED
  BY <1>1, <1>4, <1>5, <1>6, <1>7, <1>8, <1>9, <1>10 DEF PaxosNext

LEMMA RoundStaysUpToDate ==
    ASSUME BInv, RoundIsUpToDate, [PaxosNext]_vars, TypeOK'
    PROVE  RoundIsUpToDate'
<1> USE DEF BInv, TypeOK
<1> SUFFICES ASSUME NEW p \in Proposers, pc'[p] = "backoff"
             PROVE  /\ round'[p] >= attempt'[p].Proposal.Round
                    /\ round'[p] >= attempt'[p].HighestSeen.Round
  BY DEF RoundIsUpToDate
<1>1. CASE pc[p] = "backoff" /\ round'[p] = round[p] /\ attempt'[p] = attempt[p]
  BY <1>1 DEF RoundIsUpToDate
<1>2. CASE PrepareFails(p) \/ AcceptFails(p)
  <2>1. PICK n \in HighestSeen(p) : \E v, o : Defeat(p, v, n, o)
    <3>1. CASE PrepareFails(p)
      BY <3>1 DEF PrepareFails
    <3>2. CASE AcceptFails(p)
      BY <3>2 DEF AcceptFails
    <3> QED BY <1>2, <3>1, <3>2
  <2>2. n.Round \in Nat /\ round[p] \in Nat
    BY HighestSeenType DEF ProposalNumbers, PaxosTypeOK
  <2>3. attempt[p].Proposal.Round = round[p]
    <3>1. pc[p] \in Phases
      BY <1>2 DEF Phases, PrepareFails, AcceptFails
    <3> HIDE DEF BInv
    <3>2. NumbersAreFresh
      BY DEF BInv
    <3>3. attempt[p].Proposal = [Round |-> round[p], NodeID |-> IdOf[p]]
      BY <3>1, <3>2 DEF NumbersAreFresh
    <3> QED BY <3>3
  <2>4. attempt'[p].Proposal = attempt[p].Proposal /\ attempt'[p].HighestSeen = n
    BY <2>1 DEF Defeat, Tally, PaxosTypeOK, Attempts
  <2>5. round'[p] = IF n.Round > round[p] THEN n.Round ELSE round[p]
    BY <2>1 DEF Defeat, PaxosTypeOK
  <2> QED
    BY <2>2, <2>3, <2>4, <2>5
<1> QED
  BY <1>1, <1>2, BackoffStep

LEMMA RetryStep ==
    ASSUME TypeOK, RoundIsUpToDate, [PaxosNext]_vars, NEW p \in Proposers,
           pc[p] = "backoff", pc'[p] = "prepare"
    PROVE  /\ Less(attempt[p].Proposal, attempt'[p].Proposal)
           /\ Less(attempt[p].HighestSeen, attempt'[p].Proposal)
<1> USE DEF TypeOK
<1>1. StartRound(p)
  BY RoundsGrow
<1>2. attempt'[p].Proposal = NextProposal(p)
  BY <1>1, NoAttemptType DEF StartRound, PaxosTypeOK, Attempts
<1>3. NextProposal(p) \in ProposalNumbers /\ NextProposal(p).Round = round[p] + 1
  BY NextProposalType DEF NextProposal
<1>4. attempt[p].Proposal \in ProposalNumbers /\ attempt[p].HighestSeen \in ProposalNumbers
  BY DEF PaxosTypeOK, Attempts
<1>5. /\ attempt[p].Proposal.Round < NextProposal(p).Round
      /\ attempt[p].HighestSeen.Round < NextProposal(p).Round
  BY <1>3, <1>4 DEF RoundIsUpToDate, ProposalNumbers, PaxosTypeOK
<1> QED
  BY <1>2, <1>3, <1>4, <1>5, LessByRound

\* However many rounds a rival is ahead, the campaign that it defeated takes a
\* number above all that it heard of.
THEOREM RetriesOutbid == PaxosSpec => RetryOutbids
<1>1. PaxosInit => RoundIsUpToDate
  BY DEF PaxosInit, RoundIsUpToDate
<1>2. BInv /\ RoundIsUpToDate /\ [PaxosNext]_vars /\ BInv' => RoundIsUpToDate'
  BY RoundStaysUpToDate DEF BInv
<1>3. BInv /\ RoundIsUpToDate /\ [PaxosNext]_vars
      => [\A p \in Proposers :
             pc[p] = "backoff" /\ pc'[p] = "prepare" =>
                 /\ Less(attempt[p].Proposal, attempt'[p].Proposal)
                 /\ Less(attempt[p].HighestSeen, attempt'[p].Proposal)]_vars
  BY RetryStep DEF BInv
<1> QED
  BY BInvHolds, <1>1, <1>2, <1>3, PTL DEF PaxosSpec, RetryOutbids

\* Whatever Paxos does, its acceptors only ever see a sequence of requests, so
\* all that is proved of them alone holds here, also if campaigns share an id.
THEOREM PaxosRunsAcceptors == PaxosSpec => AcceptorSpec
<1>1. BInv /\ [PaxosNext]_vars => [AcceptorNext]_acceptorVars
  BY StepOfAcceptors DEF BInv
<1>2. PaxosInit => AcceptorInit
  BY DEF PaxosInit
<1> QED
  BY BInvHolds, <1>1, <1>2, PTL DEF PaxosSpec, AcceptorSpec

-----------------------------------------------------------------------------
(***************************************************************************)
(* What phase 2 is lost to.  The calls of a round that goes on are either  *)
(* still on their way, or were answered, as long as nothing makes calls    *)
(* fail: a campaign that is cancelled does not count its round as lost.    *)
(***************************************************************************)

\* No call fails but for a crash or a cancellation, and a quorum does not crash.
CallsAreAnswered ==
    /\ "loss" \notin Faults /\ "timeout" \notin Faults
    /\ Hung = {}
    /\ ~StoreErrors
    /\ IsQuorum(Acceptors \ Crashable)

\* p's call of a in phase 2 is yet to be handled, or was with success.
AskedIn(p, a) ==
    /\ a \in pending[p]
    /\ \E m \in net : /\ m.type = "accept" /\ m.from = p /\ m.to = a
                      /\ m.Proposal = attempt[p].Proposal

AcceptedIn(p, a) == \E r \in replies[p] : r.AcceptorID = a /\ r.Accepted

\* Of an acceptor that does not crash, phase 2 hears, unless it has promised to a rival.
PhaseTwoGoesOn ==
    \A p \in Proposers : pc[p] = "accept" /\ ctx[p] = "live" =>
        \A a \in Acceptors \ Crashable :
            AskedIn(p, a) \/ AcceptedIn(p, a) \/ PastIt(a, attempt[p].Proposal)

SteadyAreUp == \A a \in Acceptors \ Crashable : up[a]

NoTimeouts == \A p \in Proposers : ctx[p] # "timeout"

LInv == SteadyAreUp /\ NoTimeouts /\ PhaseTwoGoesOn /\ LostOnlyToHigher

\* An acceptor that is past a number stays past it.
LEMMA PastItStays ==
    ASSUME BInv, BInv', Binding, NEW a \in Acceptors, NEW m \in ProposalNumbers, PastIt(a, m)
    PROVE  PastIt(a, m)'
<1>1. store[a].Promised \in ProposalNumbers /\ store'[a].Promised \in ProposalNumbers
  BY DEF BInv, TypeOK, AcceptorTypeOK, AcceptorState
<1>2. AtLeast(store'[a].Promised, store[a].Promised) /\ Less(m, store[a].Promised)
  BY DEF Binding, PastIt
<1> QED
  BY <1>1, <1>2, LessTransitive DEF PastIt

LEMMA SteadyStayUp ==
    ASSUME BInv, SteadyAreUp, [PaxosNext]_vars
    PROVE  SteadyAreUp'
<1>1. [AcceptorNext]_acceptorVars /\ up \in [Acceptors -> BOOLEAN]
  BY StepOfAcceptors DEF BInv, TypeOK, AcceptorTypeOK
<1>2. CASE UNCHANGED acceptorVars
  BY <1>2 DEF acceptorVars, SteadyAreUp
<1>3. ASSUME NEW a \in Acceptors, Crash(a) \/ Restart(a)
      PROVE  SteadyAreUp'
  BY <1>1, <1>3 DEF Crash, Restart, SteadyAreUp
<1>4. ASSUME NEW a \in Acceptors, NEW n \in Proposals,
             Prepare(a, n) \/ SaveFails(a, n) \/ \E v \in Uint64 : Accept(a, n, v)
      PROVE  SteadyAreUp'
  BY <1>4 DEF Prepare, SaveFails, Accept, acceptorVars, SteadyAreUp
<1> QED
  BY <1>1, <1>2, <1>3, <1>4 DEF AcceptorNext

\* What a proposer's own step does to the context and the calls of another.
LEMMA OthersGoOn ==
    ASSUME TypeOK, NEW q \in Proposers, ProposerStep(q)
    PROVE  /\ UNCHANGED acceptorVars
           /\ \A p \in Proposers : p # q =>
                 /\ pc'[p] = pc[p] /\ ctx'[p] = ctx[p] /\ attempt'[p] = attempt[p]
                 /\ pending'[p] = pending[p] /\ replies'[p] = replies[p]
           /\ net \subseteq net'
           /\ pc'[q] = "accept" => SendAccepts(q)
           /\ ctx'[q] = ctx[q] \/ ctx'[q] = "live"
<1> USE DEF TypeOK, PaxosTypeOK
<1>1. CASE StartRound(q) \/ AbortUnstarted(q) \/ StopBackoff(q)
  BY <1>1 DEF StartRound, AbortUnstarted, StopBackoff
<1>2. CASE AbortPrepare(q)
  BY <1>2 DEF AbortPrepare, EndRound, Tally
<1>3. CASE PrepareFails(q)
  BY <1>3 DEF PrepareFails, Defeat, EndRound, Tally
<1>4. CASE SendAccepts(q)
  BY <1>4 DEF SendAccepts, Tally
<1>5. CASE ValueChosen(q) \/ AbortAccept(q)
  BY <1>5 DEF ValueChosen, AbortAccept, EndRound, Tally
<1>6. CASE AcceptFails(q)
  BY <1>6 DEF AcceptFails, Defeat, EndRound, Tally
<1> QED
  BY <1>1, <1>2, <1>3, <1>4, <1>5, <1>6 DEF ProposerStep

LEMMA NoTimeoutsStep ==
    ASSUME CallsAreAnswered, TypeOK, NoTimeouts, [PaxosNext]_vars
    PROVE  NoTimeouts'
<1> SUFFICES ASSUME NEW p \in Proposers
             PROVE  ctx'[p] # "timeout"
  BY DEF NoTimeouts
<1>0. ctx[p] # "timeout" /\ ctx \in [Proposers -> {"live", "timeout", "caller"}]
  BY DEF NoTimeouts, TypeOK, PaxosTypeOK
<1>1. ASSUME NEW q \in Proposers, ProposerStep(q)
      PROVE  ctx'[p] # "timeout"
  BY <1>0, <1>1, OthersGoOn
<1>2. ASSUME NEW q \in Proposers, RoundTimeout(q)
      PROVE  FALSE
  BY <1>2 DEF RoundTimeout, CallsAreAnswered
<1>3. ASSUME NEW q \in Proposers, Cancel(q)
      PROVE  ctx'[p] # "timeout"
  BY <1>0, <1>3 DEF Cancel
<1>4. ASSUME NEW q \in Proposers, NEW a \in Acceptors, CallFails(q, a)
      PROVE  ctx' = ctx
  BY <1>4 DEF CallFails
<1>5. ASSUME NEW m \in net, Handle(m)
      PROVE  ctx' = ctx
  BY <1>5 DEF Handle, HandlePrepare, HandleAccept, HandleFails, Return
<1>6. ASSUME NEW a \in Acceptors, AcceptorProcess(a)
      PROVE  ctx' = ctx
  BY <1>6 DEF AcceptorProcess, proposerVars
<1>7. CASE UNCHANGED vars
  BY <1>0, <1>7 DEF vars, proposerVars
<1> QED
  BY <1>0, <1>1, <1>2, <1>3, <1>4, <1>5, <1>6, <1>7 DEF PaxosNext

\* A request of phase 2 that is handled is answered, with a refusal only by an
\* acceptor that is past its number.
LEMMA HandledIsAnswered ==
    ASSUME CallsAreAnswered, BInv, NEW m \in net, Handle(m),
           NEW p \in Proposers, NEW a \in Acceptors \ Crashable, pc[p] = "accept",
           AskedIn(p, a)
    PROVE  \/ AskedIn(p, a)'
           \/ AcceptedIn(p, a)'
           \/ PastIt(a, attempt[p].Proposal)
<1>1. TypeOK /\ MemoryIsDurable /\ NumbersAreFresh
  BY DEF BInv
<1>2. /\ m.from \in Proposers /\ m.to \in Acceptors /\ a \in Acceptors
      /\ m.Proposal \in ProposalNumbers
  BY <1>1, RequestType, AcceptorAssumption DEF TypeOK, NumbersAreFresh
<1>3. /\ pending \in [Proposers -> SUBSET Acceptors]
      /\ replies \in [Proposers -> SUBSET (PrepareResponses \cup AcceptResponses)]
  BY <1>1 DEF TypeOK, PaxosTypeOK
<1>4. ~HandleFails(m)
  BY DEF HandleFails, SaveFails, CallsAreAnswered
<1>5. PICK response : Return(m, response)
  BY <1>4 DEF Handle, HandlePrepare, HandleAccept
<1>6. net' = net \ {m} /\ UNCHANGED <<pc, attempt>>
  BY <1>5 DEF Return
<1>7. CASE ~(Awaited(m) /\ m.from = p /\ m.to = a)
  <2>1. a \in pending'[p]
    BY <1>2, <1>3, <1>5, <1>7 DEF Return, AskedIn
  <2>2. PICK r \in net : /\ r.type = "accept" /\ r.from = p /\ r.to = a
                         /\ r.Proposal = attempt[p].Proposal
    BY DEF AskedIn
  <2>3. r # m
    BY <1>7, <2>2 DEF Awaited, AskedIn
  <2> QED
    BY <1>6, <2>1, <2>2, <2>3 DEF AskedIn
<1>8. CASE Awaited(m) /\ m.from = p /\ m.to = a
  <2>1. m.type = "accept" /\ m.Proposal = attempt[p].Proposal
    BY <1>8 DEF Awaited
  <2>2. HandleAccept(m)
    BY <1>4, <2>1 DEF Handle, HandlePrepare
  <2>3. /\ Accept(a, m.Proposal, m.Value)
        /\ Return(m, AcceptResponse(a, m.Proposal))
    BY <1>8, <2>2 DEF HandleAccept
  <2>4. CASE Refuses(a, m.Proposal)
    <3>1. up[a] /\ state[a] = store[a]
      BY <1>1, <1>2, <2>3 DEF Accept, MemoryIsDurable
    <3>2. ~IsZero(m.Proposal)
      <4>1. pc[p] \in Phases
        BY DEF Phases
      <4>2. m.Proposal = [Round |-> round[p], NodeID |-> IdOf[p]] /\ round[p] > 0
        BY <1>1, <2>1, <4>1 DEF NumbersAreFresh
      <4>3. m.Proposal.Round = round[p] /\ round[p] \in Nat
        BY <1>1, <4>2 DEF TypeOK, PaxosTypeOK
      <4> QED
        BY <4>2, <4>3 DEF IsZero
    <3>3. ~AtLeast(m.Proposal, store[a].Promised)
      BY <2>4, <3>1, <3>2 DEF Refuses
    <3>4. store[a].Promised \in ProposalNumbers
      BY <1>1, <1>2 DEF TypeOK, AcceptorTypeOK, AcceptorState
    <3> QED
      BY <1>2, <2>1, <3>3, <3>4, LessDef DEF PastIt
  <2>5. CASE ~Refuses(a, m.Proposal)
    <3>1. replies' = [replies EXCEPT ![p] = @ \cup {AcceptResponse(a, m.Proposal)}]
      BY <1>8, <2>3 DEF Return, CallsAreAnswered
    <3>2. AcceptResponse(a, m.Proposal) \in replies'[p]
      BY <1>3, <3>1
    <3>3. /\ AcceptResponse(a, m.Proposal).AcceptorID = a
          /\ AcceptResponse(a, m.Proposal).Accepted
      BY <2>5 DEF AcceptResponse
    <3> QED
      BY <3>2, <3>3 DEF AcceptedIn
  <2> QED
    BY <2>4, <2>5
<1> QED
  BY <1>7, <1>8

LEMMA PhaseTwoStep ==
    ASSUME CallsAreAnswered, BInv, BInv', Binding, SteadyAreUp, NoTimeouts, PhaseTwoGoesOn,
           [PaxosNext]_vars
    PROVE  PhaseTwoGoesOn'
<1> SUFFICES ASSUME NEW p \in Proposers, pc'[p] = "accept", ctx'[p] = "live",
                    NEW a \in Acceptors \ Crashable
             PROVE  \/ AskedIn(p, a)' \/ AcceptedIn(p, a)'
                    \/ PastIt(a, attempt[p].Proposal)'
  BY DEF PhaseTwoGoesOn
<1>1. /\ TypeOK /\ a \in Acceptors
      /\ pending \in [Proposers -> SUBSET Acceptors]
      /\ attempt \in [Proposers -> Attempts]
      /\ ctx \in [Proposers -> {"live", "timeout", "caller"}]
      /\ replies \in [Proposers -> SUBSET (PrepareResponses \cup AcceptResponses)]
      /\ attempt[p].Proposal \in ProposalNumbers
  BY DEF BInv, TypeOK, PaxosTypeOK, Attempts
\* It is enough that the campaign was in phase 2 and its calls were not touched.
<1>2. ASSUME pc[p] = "accept", ctx[p] = "live", attempt'[p] = attempt[p],
             AskedIn(p, a) => AskedIn(p, a)' \/ AcceptedIn(p, a)'
                              \/ PastIt(a, attempt[p].Proposal),
             replies[p] \subseteq replies'[p]
      PROVE  AskedIn(p, a)' \/ AcceptedIn(p, a)' \/ PastIt(a, attempt[p].Proposal)'
  <2>1. AskedIn(p, a) \/ AcceptedIn(p, a) \/ PastIt(a, attempt[p].Proposal)
    BY <1>2 DEF PhaseTwoGoesOn
  <2>2. PastIt(a, attempt[p].Proposal) => PastIt(a, attempt[p].Proposal)'
    BY <1>1, <1>2, PastItStays DEF PastIt
  <2>3. AcceptedIn(p, a) => AcceptedIn(p, a)'
    BY <1>2 DEF AcceptedIn
  <2> QED
    BY <1>2, <2>1, <2>2, <2>3
<1>3. CASE SendAccepts(p)
  <2>1. ctx[p] = "live"
    BY <1>3 DEF SendAccepts
  <2>2. /\ pending'[p] = Acceptors
        /\ \E v : [type |-> "accept", from |-> p, to |-> a,
                   Proposal |-> attempt[p].Proposal, Value |-> v] \in net'
    BY <1>1, <1>3, <2>1 DEF SendAccepts
  <2>3. attempt'[p].Proposal = attempt[p].Proposal
    BY <1>1, <1>3 DEF SendAccepts, Tally, Attempts
  <2> QED
    BY <1>1, <2>2, <2>3 DEF AskedIn
<1>4. ASSUME NEW q \in Proposers, q # p, ProposerStep(q)
      PROVE  AskedIn(p, a)' \/ AcceptedIn(p, a)' \/ PastIt(a, attempt[p].Proposal)'
  <2>1. /\ pc'[p] = pc[p] /\ ctx'[p] = ctx[p] /\ attempt'[p] = attempt[p]
        /\ pending'[p] = pending[p] /\ replies'[p] = replies[p] /\ net \subseteq net'
    BY <1>1, <1>4, OthersGoOn
  <2> QED
    BY <1>2, <2>1 DEF AskedIn
<1>5. ASSUME NEW q \in Proposers, RoundTimeout(q)
      PROVE  FALSE
  BY <1>5 DEF RoundTimeout, CallsAreAnswered
<1>6. ASSUME NEW q \in Proposers, Cancel(q)
      PROVE  AskedIn(p, a)' \/ AcceptedIn(p, a)' \/ PastIt(a, attempt[p].Proposal)'
  <2>1. UNCHANGED <<pc, attempt, pending, replies, net>>
    BY <1>6 DEF Cancel
  <2>2. ctx'[p] = ctx[p] \/ ctx'[p] = "caller"
    BY <1>1, <1>6 DEF Cancel
  <2> QED
    BY <1>2, <2>1, <2>2 DEF AskedIn
<1>7. ASSUME NEW q \in Proposers, NEW b \in Acceptors, CallFails(q, b)
      PROVE  AskedIn(p, a)' \/ AcceptedIn(p, a)' \/ PastIt(a, attempt[p].Proposal)'
  <2>1. /\ UNCHANGED <<pc, attempt, replies, ctx>>
        /\ pending' = [pending EXCEPT ![q] = @ \ {b}]
        /\ net \ {Request(q, b)} \subseteq net'
        /\ ~up[b] \/ ctx[q] # "live"
    BY <1>7 DEF CallFails, CallsAreAnswered
  <2>2. q # p \/ b # a
    BY <2>1 DEF SteadyAreUp
  <2>3. a \in pending[p] => a \in pending'[p]
    BY <1>1, <2>1, <2>2
  <2>4. Request(q, b).from = q /\ Request(q, b).to = b
    BY DEF Request
  <2>5. AskedIn(p, a) => AskedIn(p, a)'
    BY <2>1, <2>2, <2>3, <2>4 DEF AskedIn
  <2> QED
    BY <1>2, <2>1, <2>5
<1>8. ASSUME NEW m \in net, Handle(m)
      PROVE  AskedIn(p, a)' \/ AcceptedIn(p, a)' \/ PastIt(a, attempt[p].Proposal)'
  <2>1. UNCHANGED <<pc, attempt, ctx>>
    BY <1>8 DEF Handle, HandlePrepare, HandleAccept, HandleFails, Return
  <2>2. replies[p] \subseteq replies'[p]
    BY <1>1, <1>8 DEF Handle, HandlePrepare, HandleAccept, HandleFails, Return
  <2> QED
    BY <1>2, <1>8, <2>1, <2>2, HandledIsAnswered
<1>9. ASSUME NEW b \in Acceptors, AcceptorProcess(b)
      PROVE  AskedIn(p, a)' \/ AcceptedIn(p, a)' \/ PastIt(a, attempt[p].Proposal)'
  BY <1>2, <1>9 DEF AcceptorProcess, proposerVars, AskedIn
<1>10. CASE UNCHANGED vars
  BY <1>2, <1>10 DEF vars, proposerVars, AskedIn
<1>11. CASE ProposerStep(p)
  BY <1>1, <1>3, <1>11, OthersGoOn
<1> QED
  BY <1>4, <1>5, <1>6, <1>7, <1>8, <1>9, <1>10, <1>11 DEF PaxosNext

\* A quorum that answers and has not accepted has somebody past the number.
LEMMA LossHasCause ==
    ASSUME CallsAreAnswered, TypeOK, NoTimeouts, PhaseTwoGoesOn, NEW p \in Proposers,
           AcceptFails(p)
    PROVE  \E a \in Acceptors : PastIt(a, attempt[p].Proposal)
<1> SUFFICES ASSUME \A a \in Acceptors : ~PastIt(a, attempt[p].Proposal)
             PROVE  FALSE
  OBVIOUS
<1>1. /\ pc[p] = "accept" /\ pending[p] = {} /\ ctx[p] = "live"
      /\ ~IsQuorum(Senders(Accepts(p))) /\ replies[p] \subseteq AcceptResponses
  BY DEF AcceptFails, NoTimeouts, TypeOK, PaxosTypeOK
<1>2. \A a \in Acceptors \ Crashable : AcceptedIn(p, a)
  BY <1>1 DEF PhaseTwoGoesOn, AskedIn
<1>3. Acceptors \ Crashable \subseteq Senders(Accepts(p))
  BY <1>2 DEF AcceptedIn, Senders, Accepts
<1>4. Senders(Accepts(p)) \subseteq Acceptors
  BY <1>1 DEF Senders, Accepts, AcceptResponses
<1> QED
  BY <1>1, <1>3, <1>4, QuorumGrows DEF CallsAreAnswered

\* A campaign comes to report a lost phase 2 in one way only.
LEMMA LossStep ==
    ASSUME TypeOK, [PaxosNext]_vars, NEW p \in Proposers, attempt'[p].Outcome = "accept_failed"
    PROVE  attempt'[p] = attempt[p] \/ AcceptFails(p)
<1> USE DEF TypeOK
<1>1. ASSUME NEW q \in Proposers, q # p, ProposerStep(q)
      PROVE  attempt'[p] = attempt[p]
  BY <1>1, OthersGoOn
<1>2. ASSUME NEW o, o # "accept_failed", \E v, n : Tally(p, v, n, o)
      PROVE  FALSE
  <2>1. attempt[p] \in Attempts
    BY DEF PaxosTypeOK
  <2>2. attempt'[p].Outcome = o
    BY <1>2, <2>1 DEF Tally, PaxosTypeOK, Attempts
  <2> QED
    BY <1>2, <2>2
<1>3. CASE AbortPrepare(p)
  BY <1>2, <1>3 DEF AbortPrepare
<1>4. CASE PrepareFails(p)
  BY <1>2, <1>4 DEF PrepareFails, Defeat
<1>5. CASE SendAccepts(p)
  BY <1>2, <1>5 DEF SendAccepts
<1>6. CASE ValueChosen(p)
  BY <1>2, <1>6 DEF ValueChosen
<1>7. CASE AbortAccept(p)
  BY <1>2, <1>7 DEF AbortAccept
<1>8. CASE StartRound(p) \/ AbortUnstarted(p)
  BY <1>8 DEF StartRound, AbortUnstarted, NoAttempt, PaxosTypeOK
<1>9. CASE StopBackoff(p)
  BY <1>9 DEF StopBackoff
<1>10. ASSUME NEW q \in Proposers, RoundTimeout(q) \/ Cancel(q)
       PROVE  attempt' = attempt
  BY <1>10 DEF RoundTimeout, Cancel
<1>11. ASSUME NEW q \in Proposers, NEW a \in Acceptors, CallFails(q, a)
       PROVE  attempt' = attempt
  BY <1>11 DEF CallFails
<1>12. ASSUME NEW m \in net, Handle(m)
       PROVE  attempt' = attempt
  BY <1>12 DEF Handle, HandlePrepare, HandleAccept, HandleFails, Return
<1>13. ASSUME NEW a \in Acceptors, AcceptorProcess(a)
       PROVE  attempt' = attempt
  BY <1>13 DEF AcceptorProcess, proposerVars
<1>14. CASE UNCHANGED vars
  BY <1>14 DEF vars, proposerVars
<1>15. CASE ProposerStep(p)
  BY <1>3, <1>4, <1>5, <1>6, <1>7, <1>8, <1>9, <1>15 DEF ProposerStep
<1> QED
  BY <1>1, <1>10, <1>11, <1>12, <1>13, <1>14, <1>15 DEF PaxosNext

LEMMA LossesStay ==
    ASSUME CallsAreAnswered, BInv, BInv', Binding, LInv, [PaxosNext]_vars
    PROVE  LostOnlyToHigher'
<1> SUFFICES ASSUME NEW p \in Proposers, attempt'[p].Outcome = "accept_failed"
             PROVE  \E a \in Acceptors : PastIt(a, attempt[p].Proposal)'
  BY DEF LostOnlyToHigher, PastIt
<1>1. /\ TypeOK /\ attempt \in [Proposers -> Attempts]
      /\ attempt[p].Proposal \in ProposalNumbers
  BY DEF BInv, TypeOK, PaxosTypeOK, Attempts
<1>2. /\ attempt'[p].Proposal = attempt[p].Proposal
      /\ \E a \in Acceptors : PastIt(a, attempt[p].Proposal)
  <2>1. CASE attempt'[p] = attempt[p]
    BY <2>1 DEF LInv, LostOnlyToHigher, PastIt
  <2>2. CASE AcceptFails(p)
    <3>1. attempt'[p].Proposal = attempt[p].Proposal
      BY <1>1, <2>2 DEF AcceptFails, Defeat, Tally, Attempts
    <3> QED
      BY <1>1, <2>2, <3>1, LossHasCause DEF LInv
  <2> QED
    BY <1>1, <2>1, <2>2, LossStep
<1> QED
  BY <1>1, <1>2, PastItStays DEF PastIt

\* However many campaigns there are, and whatever the size of the cluster, one that has
\* a quorum of promises loses phase 2 only if an acceptor has promised to a rival since,
\* as long as a quorum does not crash and nothing makes the calls to it fail.
THEOREM LossesAreToHigher == ASSUME CallsAreAnswered PROVE PaxosSpec => []LostOnlyToHigher
<1>1. PaxosInit => LInv
  BY DEF PaxosInit, AcceptorInit, LInv, SteadyAreUp, NoTimeouts, PhaseTwoGoesOn,
         LostOnlyToHigher, NoAttempt
<1>2. BInv /\ BInv' /\ LInv /\ [PaxosNext]_vars => LInv'
  <2> SUFFICES ASSUME BInv, BInv', LInv, [PaxosNext]_vars
               PROVE  LInv'
    OBVIOUS
  <2>1. Binding
    BY BInvStep
  <2>2. SteadyAreUp' /\ NoTimeouts'
    BY SteadyStayUp, NoTimeoutsStep DEF LInv, BInv
  <2>3. PhaseTwoGoesOn' /\ LostOnlyToHigher'
    BY <2>1, PhaseTwoStep, LossesStay DEF LInv
  <2> QED
    BY <2>2, <2>3 DEF LInv
<1>3. LInv => LostOnlyToHigher
  BY DEF LInv
<1> QED
  BY BInvHolds, <1>1, <1>2, <1>3, PTL DEF PaxosSpec

-----------------------------------------------------------------------------
(***************************************************************************)
(* Paxos implements Consensus.  A step of Consensus is a Paxos step that   *)
(* completes a quorum of acceptances, or in which a campaign reports what  *)
(* it learned.                                                             *)
(***************************************************************************)

\* Only what some proposer proposed is ever accepted.
AcceptsAreProposed ==
    \A x \in AcceptPairs : \E p \in Proposers : x[2] = ValueOf[p]

\* A campaign that has reported a value is over.
LearnedIsFinal ==
    \A p \in Proposers : attempt[p].Outcome = "chosen" => pc[p] = "done"

CInv == IInv /\ AcceptsAreProposed /\ LearnedIsFinal

-----------------------------------------------------------------------------
(* The invariant                                                           *)

LEMMA AdoptedIsProposed ==
    ASSUME IInv, AcceptsAreProposed, NEW p \in Proposers, pc[p] = "prepare",
           NEW v \in Adopted(p)
    PROVE  \E q \in Proposers : v = ValueOf[q]
<1>1. CASE v = ValueOf[p]
  BY <1>1
<1>2. ASSUME NEW r \in Reported(p), v = r.AcceptedValue
      PROVE  \E q \in Proposers : v = ValueOf[q]
  <2>1. r \in Promises(p) /\ r.HasAccepted
    BY DEF Reported
  <2> DEFINE vote == [AcceptorID |-> r.AcceptorID, Proposal |-> r.AcceptedProposal,
                      Value |-> r.AcceptedValue]
  <2>2. vote \in votes
    BY <2>1 DEF IInv, PromisesAreTrue
  <2>3. <<vote.Proposal, vote.Value>> \in AcceptPairs
    BY <2>2, PairsOfVotes
  <2> QED
    BY <1>2, <2>3 DEF AcceptsAreProposed
<1> QED
  BY <1>1, <1>2 DEF Adopted

LEMMA ProposedStays ==
    ASSUME IInv, AcceptsAreProposed, [PaxosNext]_vars
    PROVE  AcceptsAreProposed'
<1> SUFFICES ASSUME NEW x \in AcceptPairs' PROVE \E q \in Proposers : x[2] = ValueOf[q]
  BY DEF AcceptsAreProposed
<1>1. CASE x \in AcceptPairs
  BY <1>1 DEF AcceptsAreProposed
<1>2. ASSUME NEW p \in Proposers, NEW v \in Adopted(p), NewAccepts(p, v),
             x \notin AcceptPairs
      PROVE  \E q \in Proposers : x[2] = ValueOf[q]
  <2>1. pc[p] = "prepare" /\ x[2] = v
    BY <1>2 DEF NewAccepts
  <2> QED
    BY <2>1, AdoptedIsProposed
<1> QED
  BY <1>1, <1>2, PairsStep DEF IInv

\* A campaign that is over takes no further step.
LEMMA DoneStays ==
    ASSUME TypeOK, [PaxosNext]_vars, NEW p \in Proposers, pc[p] = "done"
    PROVE  pc'[p] = "done" /\ attempt'[p] = attempt[p]
<1> USE DEF TypeOK, PaxosTypeOK
<1>1. ASSUME NEW q \in Proposers, ProposerStep(q) PROVE q # p
  BY <1>1 DEF ProposerStep, StartRound, AbortUnstarted, StopBackoff, AbortPrepare,
              PrepareFails, SendAccepts, ValueChosen, AbortAccept, AcceptFails
<1>2. ASSUME NEW q \in Proposers, ProposerStep(q)
      PROVE  pc'[p] = pc[p] /\ attempt'[p] = attempt[p]
  BY <1>1, <1>2 DEF ProposerStep, StartRound, AbortUnstarted, StopBackoff, AbortPrepare,
                    PrepareFails, SendAccepts, ValueChosen, AbortAccept, AcceptFails, Defeat,
                    Tally, EndRound
<1>3. ASSUME NEW q \in Proposers, RoundTimeout(q) \/ Cancel(q)
      PROVE  UNCHANGED <<pc, attempt>>
  BY <1>3 DEF RoundTimeout, Cancel
<1>4. ASSUME NEW q \in Proposers, NEW a \in Acceptors, CallFails(q, a)
      PROVE  UNCHANGED <<pc, attempt>>
  BY <1>4 DEF CallFails
<1>5. ASSUME NEW m \in net, Handle(m) PROVE UNCHANGED <<pc, attempt>>
  BY <1>5 DEF Handle, HandlePrepare, HandleAccept, HandleFails, Return
<1>6. ASSUME NEW a \in Acceptors, AcceptorProcess(a) PROVE UNCHANGED <<pc, attempt>>
  BY <1>6 DEF AcceptorProcess, proposerVars
<1>7. CASE UNCHANGED vars
  BY <1>7 DEF vars, proposerVars
<1> QED
  BY <1>2, <1>3, <1>4, <1>5, <1>6, <1>7 DEF PaxosNext

LEMMA FinalStays ==
    ASSUME TypeOK, LearnedIsFinal, [PaxosNext]_vars
    PROVE  LearnedIsFinal'
<1> SUFFICES ASSUME NEW p \in Proposers, attempt'[p].Outcome = "chosen"
             PROVE  pc'[p] = "done"
  BY DEF LearnedIsFinal
<1>1. CASE attempt'[p] = attempt[p]
  BY <1>1, DoneStays DEF LearnedIsFinal
<1>2. CASE ValueChosen(p)
  BY <1>2 DEF ValueChosen, EndRound, TypeOK, PaxosTypeOK
<1> QED
  BY <1>1, <1>2, OutcomeStep

LEMMA CInvInit == PaxosInit => CInv
<1> SUFFICES ASSUME PaxosInit PROVE CInv
  OBVIOUS
<1>1. AcceptPairs = {}
  BY DEF PaxosInit, AcceptorInit, AcceptPairs
<1>2. LearnedIsFinal
  BY DEF PaxosInit, LearnedIsFinal, NoAttempt
<1> QED
  BY <1>1, <1>2, IInvInit DEF CInv, AcceptsAreProposed

LEMMA CInvStep ==
    ASSUME NumbersAreUnused, CInv, [PaxosNext]_vars
    PROVE  CInv' /\ Binding
BY IInvStep, ProposedStays, FinalStays DEF CInv, IInv

-----------------------------------------------------------------------------
(* The refinement                                                          *)

\* What is chosen at some number is the value of an acceptance there is.
LEMMA ChosenHasVote ==
    ASSUME NEW n, NEW v, ChosenAt(n, v)
    PROVE  \E vote \in votes : vote.Proposal = n /\ vote.Value = v
<1>1. VotersFor(n, v) # {}
  <2> SUFFICES ASSUME VotersFor(n, v) = {} PROVE FALSE
    OBVIOUS
  <2>1. Cardinality(Acceptors) \in Nat
    BY AcceptorAssumption, FS_CardinalityType
  <2>2. Quorum >= 1
    BY <2>1 DEF Quorum
  <2>3. Cardinality(VotersFor(n, v)) = 0
    BY FS_EmptySet
  <2>4. Cardinality(VotersFor(n, v)) >= Quorum
    BY DEF ChosenAt, IsQuorum
  <2>5. Quorum \in Nat
    BY <2>1 DEF Quorum
  <2> HIDE DEF Quorum
  <2> QED
    BY <2>2, <2>3, <2>4, <2>5
<1> QED
  BY <1>1 DEF VotersFor

LEMMA ChosenIsChosen ==
    ASSUME NEW n, NEW v, ChosenAt(n, v)
    PROVE  v \in Chosen
BY ChosenHasVote DEF Chosen

\* What is chosen stays chosen.
LEMMA ChosenGrows ==
    ASSUME Binding
    PROVE  Chosen \subseteq Chosen'
<1> SUFFICES ASSUME NEW w \in votes, ChosenAt(w.Proposal, w.Value)
             PROVE  w \in votes' /\ ChosenAt(w.Proposal, w.Value)'
  BY DEF Chosen
<1> DEFINE S == VotersFor(w.Proposal, w.Value)
           T == {a \in Acceptors : [AcceptorID |-> a, Proposal |-> w.Proposal,
                                    Value |-> w.Value] \in votes'}
<1>1. S \subseteq T /\ S \in SUBSET Acceptors /\ T \in SUBSET Acceptors
  BY DEF VotersFor, Binding
<1>2. IsQuorum(T)
  BY <1>1, QuorumGrows DEF ChosenAt
<1> QED
  BY <1>2 DEF ChosenAt, VotersFor, IsQuorum, Quorum, Binding

ChosenIsProposed == \A v \in Chosen : \E p \in Proposers : v = ValueOf[p]

LEMMA OneProposedChosen == CInv => Agreement /\ ChosenIsProposed
<1> SUFFICES ASSUME CInv PROVE Agreement /\ ChosenIsProposed
  OBVIOUS
<1>1. ChosenIsProposed
  BY PairsOfVotes DEF ChosenIsProposed, Chosen, CInv, AcceptsAreProposed
<1> QED
  BY <1>1, IInvImpliesAgreement DEF CInv

\* A step after which no campaign reports anything new.
LEMMA NothingLearned ==
    ASSUME CInv, [PaxosNext]_vars, \A p \in Proposers : ~ValueChosen(p)
    PROVE  Learned' = Learned
<1> SUFFICES ASSUME NEW p \in Proposers
             PROVE  \/ attempt'[p] = attempt[p]
                    \/ attempt[p].Outcome # "chosen" /\ attempt'[p].Outcome # "chosen"
  BY DEF Learned
<1>1. CASE attempt[p].Outcome = "chosen"
  BY <1>1, DoneStays DEF CInv, IInv, LearnedIsFinal
<1>2. CASE attempt'[p].Outcome = "chosen"
  BY <1>2, OutcomeStep DEF CInv, IInv
<1> QED
  BY <1>1, <1>2

\* A quorum of acceptances is complete.
LEMMA ChoosingStep ==
    ASSUME Binding, Agreement', ChosenIsProposed', Learned' = Learned
    PROVE  C!Choose \/ UNCHANGED <<Chosen, Learned>>
<1>1. Chosen \subseteq Chosen'
  BY ChosenGrows
<1>2. CASE Chosen' # Chosen
  <2>1. PICK v \in Chosen' : v \notin Chosen
    BY <1>1, <1>2
  <2>2. Chosen = {} /\ Chosen' = {v}
    BY <1>1, <2>1 DEF Agreement
  <2>3. PICK p \in Proposers : v = ValueOf[p]
    BY <2>1 DEF ChosenIsProposed
  <2> QED
    BY <2>2, <2>3 DEF C!Choose
<1> QED
  BY <1>2

\* A campaign reports the value that its quorum accepted.
LEMMA LearningStep ==
    ASSUME CInv, [PaxosNext]_vars, LearnedIsChosen', Agreement,
           NEW p \in Proposers, ValueChosen(p)
    PROVE  C!Learn(p)
<1> USE DEF CInv, IInv, TypeOK
<1> DEFINE v == attempt[p].Value
<1>1. /\ attempt'[p].Outcome = "chosen"
      /\ attempt'[p].Proposal = attempt[p].Proposal
      /\ attempt'[p].Value = v
      /\ \A q \in Proposers : q # p => attempt'[q] = attempt[q]
  <2>1. PICK n \in HighestSeen(p) : Tally(p, v, n, "chosen")
    BY DEF ValueChosen
  <2>2. v \in Uint64 /\ n \in ProposalNumbers
    BY HighestSeenType DEF PaxosTypeOK, Attempts
  <2> QED
    BY <2>1, <2>2, TallyType DEF Outcomes
<1>2. votes' = votes
  BY DEF ValueChosen, EndRound, acceptorVars
<1>3. attempt[p].Outcome # "chosen"
  BY DEF ValueChosen, LearnedIsFinal
<1>4. ChosenAt(attempt[p].Proposal, v)
  BY <1>1, <1>2 DEF LearnedIsChosen, ChosenAt, VotersFor, IsQuorum, Quorum
<1>5. Chosen = {v}
  BY <1>4, ChosenIsChosen DEF Agreement
<1>6. Chosen' = Chosen
  BY <1>2 DEF Chosen, ChosenAt, VotersFor, IsQuorum, Quorum
<1>7. Learned[p] = {} /\ Learned' = [Learned EXCEPT ![p] = {v}]
  BY <1>1, <1>3 DEF Learned
<1> QED
  BY <1>5, <1>6, <1>7 DEF C!Learn

LEMMA RefinementStep ==
    ASSUME CInv, Binding, CInv', Agreement, Agreement', ChosenIsProposed', [PaxosNext]_vars
    PROVE  [C!ConsensusNext]_<<Chosen, Learned>>
<1>1. CASE \E p \in Proposers : ValueChosen(p)
  <2>1. LearnedIsChosen'
    BY DEF CInv, IInv
  <2> QED
    BY <1>1, <2>1, LearningStep DEF C!ConsensusNext
<1>2. CASE \A p \in Proposers : ~ValueChosen(p)
  BY <1>2, NothingLearned, ChoosingStep DEF C!ConsensusNext
<1> QED
  BY <1>1, <1>2

\* The cluster chooses at most one value, once and for good, one that was proposed,
\* and what a campaign reports is that value: each step of the proposers, acceptors
\* and network is a step of Consensus or leaves it as it is.
THEOREM PaxosImplementsConsensus ==
    ASSUME IdsDiffer PROVE PaxosSpec => ImplementsConsensus
<1>1. PaxosInit => C!ConsensusInit
  BY DEF PaxosInit, AcceptorInit, C!ConsensusInit, Chosen, Learned, NoAttempt
<1>2. CInv /\ [PaxosNext]_vars => CInv' /\ Binding
  BY CInvStep, IdsAreEnough DEF CInv
<1>3. CInv => Agreement /\ ChosenIsProposed
  BY OneProposedChosen
<1>4. CInv /\ Binding /\ CInv' /\ Agreement /\ Agreement' /\ ChosenIsProposed'
         /\ [PaxosNext]_vars
      => [C!ConsensusNext]_<<Chosen, Learned>>
  BY RefinementStep
<1> QED
  BY CInvInit, <1>1, <1>2, <1>3, <1>4, PTL
  DEF PaxosSpec, ImplementsConsensus, C!ConsensusSpec

-----------------------------------------------------------------------------
(* The tests' ledger                                                       *)

\* What the tests' ledger counts as chosen is what is chosen, although it counts
\* by number alone: a number stands for one value.
THEOREM LedgerTellsChosen == ASSUME IdsDiffer PROVE PaxosSpec => []LedgerIsRight
<1>1. IInv => LedgerIsRight
  <2> SUFFICES ASSUME IInv, NEW w \in votes
               PROVE  VotersFor(w.Proposal, w.Value)
                        = {u.AcceptorID : u \in {x \in votes : x.Proposal = w.Proposal}}
    BY DEF LedgerIsRight, LedgerChosen, Chosen, ChosenAt
  <2>1. ASSUME NEW x \in votes, x.Proposal = w.Proposal
        PROVE  x.AcceptorID \in VotersFor(w.Proposal, w.Value)
    <3>1. x.Value = w.Value
      BY <2>1, PairsOfVotes DEF IInv, OneValuePerProposal
    <3>2. x \in Acceptance
      BY DEF IInv, TypeOK, AcceptorTypeOK
    <3>3. x = [AcceptorID |-> x.AcceptorID, Proposal |-> w.Proposal, Value |-> w.Value]
      BY <2>1, <3>1, <3>2 DEF Acceptance
    <3> QED
      BY <3>2, <3>3 DEF VotersFor, Acceptance
  <2>2. ASSUME NEW a \in VotersFor(w.Proposal, w.Value)
        PROVE  \E x \in votes : x.Proposal = w.Proposal /\ x.AcceptorID = a
    BY DEF VotersFor
  <2> QED
    BY <2>1, <2>2
<1> QED
  BY InvariantHolds, <1>1, PTL
=============================================================================
