--------------------------- MODULE AcceptorProofs ---------------------------
(***************************************************************************)
(* What an acceptor owes, proved for any set of acceptors, any numbers and *)
(* any requests.                                                           *)
(***************************************************************************)
EXTENDS Acceptor, TLAPS

-----------------------------------------------------------------------------
(* Proposal numbers are totally ordered, with zero at the bottom.          *)

LEMMA LessDef ==
    ASSUME NEW p \in ProposalNumbers, NEW q \in ProposalNumbers
    PROVE  /\ Less(p, q) <=> \/ p.Round < q.Round
                             \/ p.Round = q.Round /\ p.NodeID < q.NodeID
           /\ AtLeast(p, q) <=> ~Less(p, q)
BY DEF Less, AtLeast, Compare, ProposalNumbers

LEMMA SameNumber ==
    ASSUME NEW p \in ProposalNumbers, NEW q \in ProposalNumbers
    PROVE  p = q <=> p.Round = q.Round /\ p.NodeID = q.NodeID
BY DEF ProposalNumbers

LEMMA LessTrichotomy ==
    ASSUME NEW p \in ProposalNumbers, NEW q \in ProposalNumbers
    PROVE  /\ Less(p, q) \/ p = q \/ Less(q, p)
           /\ ~(Less(p, q) /\ Less(q, p))
           /\ ~Less(p, p)
           /\ AtLeast(p, q) <=> Less(q, p) \/ p = q
           /\ AtLeast(p, p)
<1>1. p.Round \in Nat /\ p.NodeID \in Nat /\ q.Round \in Nat /\ q.NodeID \in Nat
  BY DEF ProposalNumbers
<1> QED
  BY <1>1, LessDef, SameNumber

LEMMA LessTransitive ==
    ASSUME NEW p \in ProposalNumbers, NEW q \in ProposalNumbers, NEW r \in ProposalNumbers
    PROVE  /\ Less(p, q) /\ Less(q, r) => Less(p, r)
           /\ Less(p, q) /\ AtLeast(r, q) => Less(p, r)
           /\ AtLeast(q, p) /\ Less(q, r) => Less(p, r)
           /\ AtLeast(r, q) /\ AtLeast(q, p) => AtLeast(r, p)
<1>1. /\ p.Round \in Nat /\ p.NodeID \in Nat /\ q.Round \in Nat /\ q.NodeID \in Nat
      /\ r.Round \in Nat /\ r.NodeID \in Nat
  BY DEF ProposalNumbers
<1> QED
  BY <1>1, LessDef

LEMMA ZeroIsLeast ==
    ASSUME NEW p \in ProposalNumbers
    PROVE  /\ ZeroProposal \in ProposalNumbers
           /\ AtLeast(p, ZeroProposal)
           /\ IsZero(p) <=> p = ZeroProposal
           /\ ~IsZero(p) => Less(ZeroProposal, p)
<1>1. ZeroProposal \in ProposalNumbers /\ ZeroProposal.Round = 0 /\ ZeroProposal.NodeID = 0
  BY DEF ZeroProposal, ProposalNumbers
<1>2. p.Round \in Nat /\ p.NodeID \in Nat
  BY DEF ProposalNumbers
<1> QED
  BY <1>1, <1>2, LessDef, SameNumber DEF IsZero

-----------------------------------------------------------------------------
(* The invariant                                                           *)

AInv == AcceptorTypeOK /\ MemoryIsDurable /\ StoreKeepsNewestVote

LEMMA FreshStateType == FreshState \in AcceptorState
BY ZeroIsLeast DEF FreshState, AcceptorState, Uint64, ZeroProposal, ProposalNumbers

LEMMA AInvInit == AcceptorInit => AInv
<1> SUFFICES ASSUME AcceptorInit PROVE AInv
  OBVIOUS
<1>1. AcceptorTypeOK
  BY FreshStateType DEF AcceptorInit, AcceptorTypeOK
<1>2. MemoryIsDurable
  BY DEF AcceptorInit, MemoryIsDurable
<1>3. StoreKeepsNewestVote
  BY DEF AcceptorInit, StoreKeepsNewestVote, VotesOf, FreshState
<1> QED
  BY <1>1, <1>2, <1>3 DEF AInv

\* What a step leaves every acceptor with: a promise no lower than before, and
\* new acceptances only at or above the promise it had.
Binding ==
    /\ votes \subseteq votes'
    /\ \A a \in Acceptors :
          /\ AtLeast(store'[a].Promised, store[a].Promised)
          /\ \A vote \in votes' \ votes :
                vote.AcceptorID = a => AtLeast(vote.Proposal, store[a].Promised)

LEMMA PrepareStep ==
    ASSUME AInv, NEW a \in Acceptors, NEW n \in Proposals, Prepare(a, n)
    PROVE  AInv' /\ Binding
<1> USE AcceptorAssumption DEF AInv
<1>0. n \in ProposalNumbers
  OBVIOUS
<1>1. state[a] = store[a]
  BY DEF MemoryIsDurable, Prepare
<1>2. \A b \in Acceptors : state[b] \in AcceptorState /\ store[b] \in AcceptorState
  BY DEF AcceptorTypeOK
<1>3. \A b \in Acceptors : store[b].Promised \in ProposalNumbers
  BY <1>2 DEF AcceptorState
<1>4. CASE Refuses(a, n)
  <2>1. UNCHANGED acceptorVars
    BY <1>4 DEF Prepare, acceptorVars
  <2>2. AInv'
    BY <2>1 DEF acceptorVars, AcceptorTypeOK, MemoryIsDurable, StoreKeepsNewestVote, VotesOf
  <2>3. Binding
    BY <2>1, <1>3, LessTrichotomy DEF acceptorVars, Binding
  <2> QED BY <2>2, <2>3
<1>5. CASE ~Refuses(a, n)
  <2> DEFINE next == [store[a] EXCEPT !.Promised = n]
  <2>1. /\ store' = [store EXCEPT ![a] = next]
        /\ state' = [state EXCEPT ![a] = next]
        /\ up' = up /\ votes' = votes
    BY <1>1, <1>5 DEF Prepare, Save
  <2>2. AtLeast(n, store[a].Promised)
    BY <1>1, <1>5 DEF Refuses
  <2>3. next \in AcceptorState
    BY <1>2, <1>0 DEF AcceptorState
  <2>3a. /\ next.Promised = n
         /\ next.AcceptedProposal = store[a].AcceptedProposal
         /\ next.AcceptedValue = store[a].AcceptedValue
         /\ next.HasAccepted = store[a].HasAccepted
    BY <1>2 DEF AcceptorState
  <2>4. AcceptorTypeOK'
    BY <2>1, <2>3 DEF AcceptorTypeOK
  <2>5. MemoryIsDurable'
    BY <2>1 DEF MemoryIsDurable, AcceptorTypeOK
  <2>6. \A b \in Acceptors : AtLeast(store'[b].Promised, store[b].Promised)
    <3> TAKE b \in Acceptors
    <3>1. CASE b = a
      <4>1. store'[b] = next
        BY <2>1, <3>1 DEF AcceptorTypeOK
      <4> QED BY <4>1, <2>2, <2>3a, <3>1
    <3>2. CASE b # a
      <4>1. store'[b] = store[b]
        BY <2>1, <3>2 DEF AcceptorTypeOK
      <4> QED BY <4>1, <1>3, LessTrichotomy
    <3> QED BY <3>1, <3>2
  <2>7. StoreKeepsNewestVote'
    <3> SUFFICES ASSUME NEW b \in Acceptors
                 PROVE  /\ store'[b].HasAccepted <=> VotesOf(b)' # {}
                        /\ store'[b].HasAccepted =>
                              [AcceptorID |-> b, Proposal |-> store'[b].AcceptedProposal,
                               Value |-> store'[b].AcceptedValue] \in votes'
                        /\ \A vote \in VotesOf(b)' :
                              /\ AtLeast(store'[b].AcceptedProposal, vote.Proposal)
                              /\ AtLeast(store'[b].Promised, vote.Proposal)
      BY DEF StoreKeepsNewestVote
    <3>1. /\ store'[b].AcceptedProposal = store[b].AcceptedProposal
          /\ store'[b].AcceptedValue = store[b].AcceptedValue
          /\ store'[b].HasAccepted = store[b].HasAccepted
      BY <2>1, <2>3a DEF AcceptorTypeOK
    <3>2. VotesOf(b)' = VotesOf(b)
      BY <2>1 DEF VotesOf
    <3>3. \A vote \in VotesOf(b) : AtLeast(store'[b].Promised, vote.Proposal)
      <4> TAKE vote \in VotesOf(b)
      <4>1. vote.Proposal \in ProposalNumbers /\ store'[b].Promised \in ProposalNumbers
        BY <2>4 DEF VotesOf, AcceptorTypeOK, Acceptance, AcceptorState
      <4>2. AtLeast(store[b].Promised, vote.Proposal)
        BY DEF StoreKeepsNewestVote
      <4> QED BY <4>1, <4>2, <2>6, <1>3, LessTransitive
    <3> QED
      BY <3>1, <3>2, <3>3, <2>1 DEF StoreKeepsNewestVote
  <2>8. Binding
    BY <2>6, <2>1 DEF Binding
  <2> QED BY <2>4, <2>5, <2>7, <2>8
<1> QED BY <1>4, <1>5

LEMMA AcceptStep ==
    ASSUME AInv, NEW a \in Acceptors, NEW n \in Proposals, NEW v \in Uint64,
           Accept(a, n, v)
    PROVE  AInv' /\ Binding
<1> USE AcceptorAssumption DEF AInv
<1> DEFINE new == [AcceptorID |-> a, Proposal |-> n, Value |-> v]
           next == [Promised |-> n, AcceptedProposal |-> n,
                    AcceptedValue |-> v, HasAccepted |-> TRUE]
<1>0. n \in ProposalNumbers
  OBVIOUS
<1>1. state[a] = store[a]
  BY DEF MemoryIsDurable, Accept
<1>2. \A b \in Acceptors : state[b] \in AcceptorState /\ store[b] \in AcceptorState
  BY DEF AcceptorTypeOK
<1>3. \A b \in Acceptors : store[b].Promised \in ProposalNumbers
  BY <1>2 DEF AcceptorState
<1>4. CASE Refuses(a, n)
  <2>1. UNCHANGED acceptorVars
    BY <1>4 DEF Accept, acceptorVars
  <2>2. AInv'
    BY <2>1 DEF acceptorVars, AcceptorTypeOK, MemoryIsDurable, StoreKeepsNewestVote, VotesOf
  <2>3. Binding
    BY <2>1, <1>3, LessTrichotomy DEF acceptorVars, Binding
  <2> QED BY <2>2, <2>3
<1>5. CASE ~Refuses(a, n)
  <2>1. /\ store' = [store EXCEPT ![a] = next]
        /\ state' = [state EXCEPT ![a] = next]
        /\ up' = up /\ votes' = votes \cup {new}
    BY <1>5 DEF Accept, Save
  <2>2. AtLeast(n, store[a].Promised)
    BY <1>1, <1>5 DEF Refuses
  <2>3. next \in AcceptorState
    BY <1>0 DEF AcceptorState
  <2>3a. new \in Acceptance
    BY <1>0 DEF Acceptance
  <2>4. AcceptorTypeOK'
    BY <2>1, <2>3, <2>3a DEF AcceptorTypeOK
  <2>5. MemoryIsDurable'
    BY <2>1 DEF MemoryIsDurable, AcceptorTypeOK
  <2>6. \A b \in Acceptors : AtLeast(store'[b].Promised, store[b].Promised)
    <3> TAKE b \in Acceptors
    <3>1. CASE b = a
      <4>1. store'[b] = next
        BY <2>1, <3>1 DEF AcceptorTypeOK
      <4> QED BY <4>1, <2>2, <3>1
    <3>2. CASE b # a
      <4>1. store'[b] = store[b]
        BY <2>1, <3>2 DEF AcceptorTypeOK
      <4> QED BY <4>1, <1>3, LessTrichotomy
    <3> QED BY <3>1, <3>2
  <2>7. StoreKeepsNewestVote'
    <3> SUFFICES ASSUME NEW b \in Acceptors
                 PROVE  /\ store'[b].HasAccepted <=> VotesOf(b)' # {}
                        /\ store'[b].HasAccepted =>
                              [AcceptorID |-> b, Proposal |-> store'[b].AcceptedProposal,
                               Value |-> store'[b].AcceptedValue] \in votes'
                        /\ \A vote \in VotesOf(b)' :
                              /\ AtLeast(store'[b].AcceptedProposal, vote.Proposal)
                              /\ AtLeast(store'[b].Promised, vote.Proposal)
      BY DEF StoreKeepsNewestVote
    <3>1. CASE b # a
      <4>1. store'[b] = store[b] /\ VotesOf(b)' = VotesOf(b)
        BY <2>1, <3>1 DEF AcceptorTypeOK, VotesOf
      <4> QED BY <4>1, <2>1 DEF StoreKeepsNewestVote
    <3>2. CASE b = a
      <4>1. store'[b] = next
        BY <2>1, <3>2 DEF AcceptorTypeOK
      <4>2. VotesOf(b)' = VotesOf(b) \cup {new}
        BY <2>1, <3>2 DEF VotesOf
      <4>3. \A vote \in VotesOf(b) : AtLeast(n, vote.Proposal)
        <5> TAKE vote \in VotesOf(b)
        <5>1. vote.Proposal \in ProposalNumbers
          BY DEF VotesOf, AcceptorTypeOK, Acceptance
        <5>2. AtLeast(store[b].Promised, vote.Proposal)
          BY DEF StoreKeepsNewestVote
        <5> QED BY <5>1, <5>2, <2>2, <3>2, <1>0, <1>3, LessTransitive
      <4>4. AtLeast(n, new.Proposal)
        BY <1>0, LessTrichotomy
      <4>5. /\ store'[b].HasAccepted = TRUE
            /\ store'[b].Promised = n
            /\ store'[b].AcceptedProposal = n
            /\ store'[b].AcceptedValue = v
        BY <4>1
      <4>6. new \in votes' /\ VotesOf(b)' # {}
        BY <2>1, <4>2
      <4>7. \A vote \in VotesOf(b)' : AtLeast(n, vote.Proposal)
        BY <4>2, <4>3, <4>4
      <4> HIDE DEF next
      <4> QED
        BY <4>5, <4>6, <4>7, <3>2
    <3> QED BY <3>1, <3>2
  <2>8. Binding
    BY <2>6, <2>1, <2>2 DEF Binding
  <2> QED BY <2>4, <2>5, <2>7, <2>8
<1> QED BY <1>4, <1>5

LEMMA ProcessStep ==
    ASSUME AInv, NEW a \in Acceptors, Crash(a) \/ Restart(a)
    PROVE  AInv' /\ Binding
<1>1. store' = store /\ votes' = votes
  BY DEF Crash, Restart
<1>2. AcceptorTypeOK'
  BY FreshStateType DEF AInv, AcceptorTypeOK, Crash, Restart
<1>3. MemoryIsDurable'
  BY DEF AInv, AcceptorTypeOK, MemoryIsDurable, Crash, Restart
<1>4. StoreKeepsNewestVote'
  BY <1>1 DEF AInv, StoreKeepsNewestVote, VotesOf
<1>5. Binding
  <2>1. \A b \in Acceptors : store[b].Promised \in ProposalNumbers
    BY DEF AInv, AcceptorTypeOK, AcceptorState
  <2> QED BY <1>1, <2>1, LessTrichotomy DEF Binding
<1> QED BY <1>2, <1>3, <1>4, <1>5 DEF AInv

LEMMA AcceptorStep ==
    ASSUME AInv, [AcceptorNext]_acceptorVars
    PROVE  AInv' /\ Binding
<1>1. ASSUME UNCHANGED acceptorVars PROVE AInv' /\ Binding
  <2>1. AInv'
    BY <1>1 DEF AInv, acceptorVars, AcceptorTypeOK, MemoryIsDurable,
                StoreKeepsNewestVote, VotesOf
  <2>2. \A b \in Acceptors : store[b].Promised \in ProposalNumbers
    BY DEF AInv, AcceptorTypeOK, AcceptorState
  <2> QED BY <1>1, <2>1, <2>2, LessTrichotomy DEF Binding, acceptorVars
<1>2. ASSUME NEW a \in Acceptors, NEW n \in Proposals, SaveFails(a, n)
      PROVE  AInv' /\ Binding
  BY <1>1, <1>2 DEF SaveFails
<1> QED
  BY <1>1, <1>2, PrepareStep, AcceptStep, ProcessStep DEF AcceptorNext

-----------------------------------------------------------------------------
(* The theorems                                                            *)

\* Every state of an acceptor is well-typed, the copy it answers from is the
\* durable one, and the durable one remembers its highest acceptance.
THEOREM AcceptorCorrect ==
    AcceptorSpec => [](AcceptorTypeOK /\ MemoryIsDurable /\ StoreKeepsNewestVote)
<1>1. AInv /\ [AcceptorNext]_acceptorVars => AInv'
  BY AcceptorStep
<1> QED
  BY AInvInit, <1>1, PTL DEF AcceptorSpec, AInv

\* A promise binds its acceptor across any crashes and failed Saves.
THEOREM PromisesBind == AcceptorSpec => PromiseBinds
<1>1. AInv /\ [AcceptorNext]_acceptorVars => AInv'
  BY AcceptorStep
<1>2. AInv /\ [AcceptorNext]_acceptorVars =>
        [\A a \in Acceptors :
            /\ AtLeast(store'[a].Promised, store[a].Promised)
            /\ \A vote \in votes' \ votes :
                  vote.AcceptorID = a => AtLeast(vote.Proposal, store[a].Promised)
        ]_acceptorVars
  BY AcceptorStep DEF Binding
<1> QED
  BY AInvInit, <1>1, <1>2, PTL DEF AcceptorSpec, PromiseBinds
=============================================================================
