--------------------------- MODULE RestartsProofs ---------------------------
(***************************************************************************)
(* What revivals leave of the guarantees of Paxos, for any number of nodes *)
(* and lives.  The acceptors keep all of theirs.  Agreement is kept as     *)
(* long as no number is contested that a value was proposed at before; in  *)
(* particular if each node campaigns in one of its lives at most.          *)
(***************************************************************************)
EXTENDS Restarts, PaxosProofs

\* Beside the steps of Paxos there are a kill and a further campaign of a life.
LEMMA RestartsStep ==
    ASSUME [RestartsNext]_restartVars
    PROVE  \/ [PaxosNext]_vars
           \/ \E p \in Proposers : TriggerCampaign(p)
           \/ \E n \in Acceptors : Kill(n)
<1>1. CASE UNCHANGED restartVars
  BY <1>1 DEF restartVars
<1>2. ASSUME NEW p \in Proposers, CampaignStep(p)
      PROVE  PaxosNext \/ TriggerCampaign(p)
  BY <1>2 DEF CampaignStep, PaxosNext
<1>3. ASSUME NEW n \in Acceptors, Revive(n) PROVE PaxosNext
  BY <1>3 DEF Revive, AcceptorProcess, PaxosNext
<1>4. ASSUME NEW p \in Proposers, NEW a \in Acceptors, CallFails(p, a) PROVE PaxosNext
  BY <1>4 DEF PaxosNext
<1>5. ASSUME NEW m \in net, Handle(m) PROVE PaxosNext
  BY <1>5 DEF PaxosNext
<1> QED
  BY <1>1, <1>2, <1>3, <1>4, <1>5 DEF RestartsNext

\* A step that takes no campaign on and changes nothing durable: requests may be
\* withdrawn, and a campaign that is in no phase may change its place.
Harmless ==
    /\ UNCHANGED <<store, votes, round, attempt, replies>>
    /\ net' \subseteq net
    /\ \A p \in Proposers : pc'[p] \in Phases => pc'[p] = pc[p]

LEMMA HarmlessKeepsInv ==
    ASSUME BInv, Harmless, TypeOK', MemoryIsDurable'
    PROVE  BInv' /\ (IInv => IInv')
<1> USE DEF Harmless, Phases
<1>1. AcceptPairs' \subseteq AcceptPairs
  BY PairsShrink
<1>2. StoreKeepsNewestVote'
  BY DEF BInv, StoreKeepsNewestVote, VotesOf
<1>3. NumbersAreFresh'
  <2>1. NumbersAreFresh
    BY DEF BInv
  <2>2. ASSUME NEW x \in AcceptPairs'
        PROVE  /\ x[1] \in Proposals
               /\ x[1].Round > 0
               /\ \E p \in Proposers :
                     /\ IdOf[p] = x[1].NodeID
                     /\ x[1].Round <= round'[p]
                     /\ pc'[p] = "prepare" => x[1].Round < round'[p]
    BY <1>1, <2>1 DEF NumbersAreFresh
  <2> QED
    BY <2>1, <2>2 DEF NumbersAreFresh
<1>4. ASSUME IInv
      PROVE  /\ OneValuePerProposal' /\ PromisesAreTrue' /\ PromisesHold'
             /\ AcceptsAreSafe' /\ AcceptancesAreTrue' /\ LearnedIsChosen'
  <2>1. OneValuePerProposal'
    BY <1>1, <1>4 DEF IInv, OneValuePerProposal
  <2>2. PromisesAreTrue' /\ PromisesHold'
    BY <1>4 DEF IInv, PromisesAreTrue, PromisesHold, Promises
  <2>3. AcceptsAreSafe'
    <3>1. ASSUME NEW n, NEW v, SafeAt(n, v) PROVE SafeAt(n, v)'
      BY <3>1 DEF SafeAt, PastIt, IsQuorum, Quorum
    <3> QED
      BY <1>1, <1>4, <3>1 DEF IInv, AcceptsAreSafe
  <2>4. AcceptancesAreTrue'
    BY <1>4 DEF IInv, AcceptancesAreTrue, Accepts
  <2>5. LearnedIsChosen'
    BY <1>4 DEF IInv, LearnedIsChosen, ChosenAt, VotersFor, IsQuorum, Quorum
  <2> QED
    BY <2>1, <2>2, <2>3, <2>4, <2>5
<1> QED
  BY <1>2, <1>3, <1>4 DEF BInv, IInv

LEMMA TriggerKeepsInv ==
    ASSUME BInv, NEW p \in Proposers, TriggerCampaign(p)
    PROVE  BInv' /\ (IInv => IInv') /\ UNCHANGED <<acceptorVars, round>>
<1>1. TypeOK'
  BY DEF BInv, TypeOK, AcceptorTypeOK, PaxosTypeOK, TriggerCampaign, acceptorVars
<1>2. Harmless
  BY DEF BInv, TypeOK, PaxosTypeOK, TriggerCampaign, acceptorVars, Harmless, Phases
<1>3. MemoryIsDurable'
  BY DEF BInv, MemoryIsDurable, TriggerCampaign, acceptorVars
<1> QED
  BY <1>1, <1>2, <1>3, HarmlessKeepsInv DEF TriggerCampaign

LEMMA KillKeepsInv ==
    ASSUME BInv, NEW n \in Acceptors, Kill(n)
    PROVE  BInv' /\ (IInv => IInv') /\ AcceptorNext /\ UNCHANGED round
<1>1. AcceptorNext /\ UNCHANGED round
  BY DEF Kill, AcceptorNext
<1>2. AInv'
  BY <1>1, AcceptorStep DEF BInv, AInv, TypeOK
<1>3. PaxosTypeOK'
  BY DEF BInv, TypeOK, PaxosTypeOK, Kill
<1>4. Harmless
  BY DEF BInv, TypeOK, PaxosTypeOK, Kill, Crash, Harmless
<1> QED
  BY <1>1, <1>2, <1>3, <1>4, HarmlessKeepsInv DEF AInv, TypeOK

LEMMA RestartsKeepBInv ==
    ASSUME BInv, [RestartsNext]_restartVars
    PROVE  BInv' /\ [AcceptorNext]_acceptorVars
<1>1. CASE [PaxosNext]_vars
  BY <1>1, BInvStep, StepOfAcceptors DEF BInv
<1> QED
  BY <1>1, RestartsStep, TriggerKeepsInv, KillKeepsInv

LEMMA RestartsKeepIInv ==
    ASSUME IInv, NumbersAreUnused, [RestartsNext]_restartVars
    PROVE  IInv'
<1>1. BInv
  BY DEF IInv, BInv
<1> QED
  BY <1>1, IInvStep, RestartsStep, TriggerKeepsInv, KillKeepsInv

LEMMA RestartsBegin == RestartsInit => IInv /\ BInv
BY IInvInit DEF RestartsInit, IInv, BInv

LEMMA BInvOfRestarts == RestartsSpec => []BInv
<1>1. BInv /\ [RestartsNext]_restartVars => BInv'
  BY RestartsKeepBInv
<1> QED
  BY RestartsBegin, <1>1, PTL DEF RestartsSpec

-----------------------------------------------------------------------------
(* The theorems                                                            *)

\* Kills, revivals and the campaigns that outlive them make the acceptors do
\* nothing that requests and restarts do not: AcceptorCorrect and PromisesBind
\* hold of them, whatever numbers the revived proposers use.
THEOREM RestartsRunAcceptors == RestartsSpec => AcceptorSpec
<1>1. BInv /\ [RestartsNext]_restartVars => [AcceptorNext]_acceptorVars
  BY RestartsKeepBInv
<1>2. RestartsInit => AcceptorInit
  BY DEF RestartsInit, PaxosInit
<1> QED
  BY BInvOfRestarts, <1>1, <1>2, PTL DEF RestartsSpec, AcceptorSpec

\* Memory and store agree in every life, and the store keeps the newest acceptance.
THEOREM RestartsForgetNothing ==
    RestartsSpec => [](TypeOK /\ MemoryIsDurable /\ StoreKeepsNewestVote)
<1>1. BInv => TypeOK /\ MemoryIsDurable /\ StoreKeepsNewestVote
  BY DEF BInv
<1> QED
  BY BInvOfRestarts, <1>1, PTL

\* Numbers that are used again are the only harm that revivals do: while nobody
\* asks for promises at a number at which something was, or may yet be, accepted,
\* all agree and every report is true, whatever outlives the kills.
THEOREM OnlyReuseHarms ==
    RestartsSpec /\ []NumbersAreUnused
        => [](Agreement /\ ChosenBindsLaterRounds /\ LearnedIsChosen)
<1>1. IInv /\ NumbersAreUnused /\ [RestartsNext]_restartVars => IInv'
  BY RestartsKeepIInv
<1>2. IInv => Agreement /\ ChosenBindsLaterRounds /\ LearnedIsChosen
  BY IInvImpliesAgreement DEF IInv
<1> QED
  BY RestartsBegin, <1>1, <1>2, PTL DEF RestartsSpec

-----------------------------------------------------------------------------
(* Nodes that campaign in one life                                         *)

\* No two nodes share an id.  Two lives of a node do.
NodeIdsDiffer == \A p, q \in Proposers : IdOf[p] = IdOf[q] => p[1] = q[1]

\* No node has contested a round in two of its lives.
OneLifeCampaigns ==
    \A p, q \in Proposers : round[p] > 0 /\ round[q] > 0 /\ p[1] = q[1] => p = q

LEMMA RoundsNeverFall ==
    ASSUME BInv, [RestartsNext]_restartVars, OneLifeCampaigns'
    PROVE  OneLifeCampaigns
<1>1. ASSUME NEW p \in Proposers
      PROVE  round'[p] \in Nat /\ round[p] \in Nat /\ round'[p] >= round[p]
  <2>1. round[p] \in Nat
    BY DEF BInv, TypeOK, PaxosTypeOK
  <2>2. CASE [PaxosNext]_vars
    BY <2>1, <2>2, RoundsGrow DEF BInv
  <2>3. CASE UNCHANGED round
    BY <2>1, <2>3
  <2> QED
    BY <2>2, <2>3, RestartsStep, TriggerKeepsInv, KillKeepsInv
<1> QED
  BY <1>1 DEF OneLifeCampaigns

\* A node that acts as an acceptor in all of its lives and campaigns in one of them
\* does no harm.  Finding A is of a node that campaigns in two.
THEOREM OneLifeAgrees ==
    ASSUME NodeIdsDiffer
    PROVE  RestartsSpec => [](OneLifeCampaigns => Agreement)
<1>1. BInv /\ OneLifeCampaigns => NumbersAreUnused
  <2>1. OneLifeCampaigns => IdsInUseDiffer
    BY DEF OneLifeCampaigns, NodeIdsDiffer, IdsInUseDiffer
  <2> QED
    BY <2>1, FreshIsUnused DEF BInv
<1>2. (OneLifeCampaigns => IInv) /\ BInv /\ [RestartsNext]_restartVars
      => (OneLifeCampaigns => IInv)'
  BY <1>1, RestartsKeepIInv, RoundsNeverFall
<1>3. (OneLifeCampaigns => IInv) => (OneLifeCampaigns => Agreement)
  BY IInvImpliesAgreement
<1> QED
  BY RestartsBegin, BInvOfRestarts, <1>2, <1>3, PTL DEF RestartsSpec
=============================================================================
