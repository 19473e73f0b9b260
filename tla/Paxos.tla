------------------------------- MODULE Paxos -------------------------------
(***************************************************************************)
(* Single-decree Paxos as pkg/paxos runs it: proposers that campaign       *)
(* (proposer.go, prepare.go, accept.go) over the acceptors of module       *)
(* Acceptor.                                                               *)
(*                                                                         *)
(* A phase calls every acceptor at once, from one goroutine each, and      *)
(* waits for all of the calls to return (wg.Wait): `pending' holds the     *)
(* calls that have not, `replies' the responses of those that did without  *)
(* an error.  `net' holds the requests on their way.  A handler's step and *)
(* the return of its answer are one step: an answer that travels for long  *)
(* waits in `replies' either way, and one that arrives after the caller    *)
(* gave up is a lost one.                                                  *)
(***************************************************************************)
EXTENDS Acceptor

CONSTANTS
    Proposers,  \* the campaigns: one Proposer each
    IdOf,       \* Proposer.id
    ValueOf,    \* Proposer.value
    Local,      \* the acceptors a proposer calls in its own process, which
                \* look at no context and sit behind no network
    Hung,       \* acceptors whose process runs but never handles a request
    Faults      \* what else may go wrong, of FaultKinds

FaultKinds == {"loss",      \* a request, or the answer to it, is lost
               "late",      \* a call fails while its request is still on its way
               "timeout",   \* RoundTimeout passes though every call would return
               "cancel"}    \* the caller cancels a campaign

ASSUME PaxosAssumption ==
    /\ IdOf \in [Proposers -> Nat]
    /\ ValueOf \in [Proposers -> Values]
    /\ Local \in [Proposers -> SUBSET Acceptors]
    /\ Hung \subseteq Acceptors
    /\ Faults \subseteq FaultKinds

VARIABLES
    round,      \* Proposer.round
    pc,         \* where each campaign stands
    attempt,    \* the Attempt that Propose fills in
    pending,    \* the acceptors whose call in this phase has not returned
    replies,    \* the responses of this phase
    ctx,        \* the round's context: live, or what ended it first
    cancelled,  \* whether the campaign's own context is cancelled
    net         \* requests on their way

proposerVars == <<round, pc, attempt, pending, replies, ctx, cancelled, net>>

vars == <<acceptorVars, proposerVars>>

Phases == {"prepare", "accept"}

Outcomes == {"unknown", "chosen", "prepare_failed", "accept_failed", "aborted"}

Attempts == [Proposal : ProposalNumbers, Value : Uint64,
             HighestSeen : ProposalNumbers, Outcome : Outcomes]

NoAttempt == [Proposal |-> ZeroProposal, Value |-> ZeroValue,
              HighestSeen |-> ZeroProposal, Outcome |-> "unknown"]

PrepareRequests ==
    [type : {"prepare"}, from : Proposers, to : Acceptors, Proposal : ProposalNumbers]

AcceptRequests ==
    [type : {"accept"}, from : Proposers, to : Acceptors, Proposal : ProposalNumbers,
     Value : Uint64]

PrepareResponses ==
    [AcceptorID : Acceptors, Promised : BOOLEAN, HighestPromised : ProposalNumbers,
     AcceptedProposal : ProposalNumbers, AcceptedValue : Uint64,
     HasAccepted : BOOLEAN]

AcceptResponses ==
    [AcceptorID : Acceptors, Accepted : BOOLEAN, HighestPromised : ProposalNumbers]

Quorum == Cardinality(Acceptors) \div 2 + 1

IsQuorum(S) == Cardinality(S) >= Quorum

PaxosInit ==
    /\ AcceptorInit
    /\ round = [p \in Proposers |-> 0]
    /\ pc = [p \in Proposers |-> "idle"]
    /\ attempt = [p \in Proposers |-> NoAttempt]
    /\ pending = [p \in Proposers |-> {}]
    /\ replies = [p \in Proposers |-> {}]
    /\ ctx = [p \in Proposers |-> "live"]
    /\ cancelled = [p \in Proposers |-> FALSE]
    /\ net = {}

-----------------------------------------------------------------------------
(* A round's number and its requests                                       *)

\* A number that is taken again as long as the round has not moved on.
NextProposalSticky(p) ==
    [Round |-> IF round[p] = 0 THEN 1 ELSE round[p], NodeID |-> IdOf[p]]

NextProposal(p) == [Round |-> round[p] + 1, NodeID |-> IdOf[p]]

Request(p, a) ==
    IF pc[p] = "prepare"
    THEN [type |-> "prepare", from |-> p, to |-> a, Proposal |-> attempt[p].Proposal]
    ELSE [type |-> "accept", from |-> p, to |-> a, Proposal |-> attempt[p].Proposal,
          Value |-> attempt[p].Value]

\* Campaign's call of Propose, up to the broadcast of prepare(n).
StartRound(p) ==
    /\ pc[p] \in {"idle", "backoff"}
    /\ ~cancelled[p]
    /\ NextProposal(p) \in Proposals
    /\ round' = [round EXCEPT ![p] = NextProposal(p).Round]
    /\ attempt' = [attempt EXCEPT ![p] = [NoAttempt EXCEPT !.Proposal = NextProposal(p)]]
    /\ pc' = [pc EXCEPT ![p] = "prepare"]
    /\ pending' = [pending EXCEPT ![p] = Acceptors]
    /\ net' = net \cup {[type |-> "prepare", from |-> p, to |-> a,
                         Proposal |-> NextProposal(p)] : a \in Acceptors}
    /\ replies' = [replies EXCEPT ![p] = {}]
    /\ UNCHANGED <<acceptorVars, ctx, cancelled>>

\* Propose under a context that is already cancelled: no number is used up.
AbortUnstarted(p) ==
    /\ pc[p] \in {"idle", "backoff"}
    /\ cancelled[p]
    /\ attempt' = [attempt EXCEPT ![p] = [NoAttempt EXCEPT !.Outcome = "aborted"]]
    /\ pc' = [pc EXCEPT ![p] = "done"]
    /\ UNCHANGED <<acceptorVars, round, pending, replies, ctx, cancelled, net>>

\* Campaign's select sees the cancelled context before the backoff is over.
StopBackoff(p) ==
    /\ pc[p] = "backoff"
    /\ cancelled[p]
    /\ pc' = [pc EXCEPT ![p] = "done"]
    /\ UNCHANGED <<acceptorVars, round, attempt, pending, replies, ctx, cancelled, net>>

-----------------------------------------------------------------------------
(* Calls                                                                   *)

\* A match of answers to calls that forgets which phase and round asked.
AwaitedLoosely(m) == m.to \in pending[m.from]

Awaited(m) ==
    /\ pc[m.from] = m.type
    /\ attempt[m.from].Proposal = m.Proposal
    /\ m.to \in pending[m.from]

\* The handler of m has answered: the caller, if it still waits, gets the
\* response or, when the answer is lost, an error.
Return(m, response) ==
    /\ net' = net \ {m}
    /\ IF Awaited(m)
       THEN /\ pending' = [pending EXCEPT ![m.from] = @ \ {m.to}]
            /\ \/ replies' = [replies EXCEPT ![m.from] = @ \cup {response}]
               \/ "loss" \in Faults /\ m.to \notin Local[m.from] /\ UNCHANGED replies
       ELSE UNCHANGED <<pending, replies>>
    /\ UNCHANGED <<round, pc, attempt, ctx, cancelled>>

HandlePrepare(m) ==
    /\ m.type = "prepare"
    /\ m.to \notin Hung
    /\ Prepare(m.to, m.Proposal)
    /\ Return(m, PrepareResponse(m.to, m.Proposal))

HandleAccept(m) ==
    /\ m.type = "accept"
    /\ m.to \notin Hung
    /\ Accept(m.to, m.Proposal, m.Value)
    /\ Return(m, AcceptResponse(m.to, m.Proposal))

\* The acceptor could not persist: its error is all the caller gets.
HandleFails(m) ==
    /\ m.to \notin Hung
    /\ SaveFails(m.to, m.Proposal)
    /\ net' = net \ {m}
    /\ pending' = IF Awaited(m) THEN [pending EXCEPT ![m.from] = @ \ {m.to}] ELSE pending
    /\ UNCHANGED <<round, pc, attempt, replies, ctx, cancelled>>

\* Calls that do not look at their context: one that hangs never returns.
CallFailsWithoutContext(p, a) ==
    /\ a \in pending[p]
    /\ pending' = [pending EXCEPT ![p] = @ \ {a}]
    /\ (~up[a] \/ (a \notin Local[p] \cup Hung /\ "loss" \in Faults))
    /\ net' = net \ {Request(p, a)}
    /\ UNCHANGED <<acceptorVars, round, pc, attempt, replies, ctx, cancelled>>

\* A call returns an error and was not handled: nobody listens, the context is
\* over, or the network lost the request.  A late request may arrive yet, or never.
CallFails(p, a) ==
    /\ a \in pending[p]
    /\ pending' = [pending EXCEPT ![p] = @ \ {a}]
    /\ \/ /\ ~up[a]
          /\ net' = net \ {Request(p, a)}
       \/ /\ a \notin Local[p]
          /\ ctx[p] # "live" \/ "loss" \in Faults
          /\ net' = IF "late" \in Faults THEN net ELSE net \ {Request(p, a)}
    /\ UNCHANGED <<acceptorVars, round, pc, attempt, replies, ctx, cancelled>>

\* context.WithTimeoutCause: without the fault, only a call that never returns
\* outlasts RoundTimeout.
RoundTimeout(p) ==
    /\ pc[p] \in Phases
    /\ ctx[p] = "live"
    /\ "timeout" \in Faults \/ pending[p] \cap Hung # {}
    /\ ctx' = [ctx EXCEPT ![p] = "timeout"]
    /\ UNCHANGED <<acceptorVars, round, pc, attempt, pending, replies, cancelled, net>>

\* The caller cancels; a round that has timed out keeps that as its cause.
Cancel(p) ==
    /\ "cancel" \in Faults
    /\ pc[p] # "done"
    /\ ~cancelled[p]
    /\ cancelled' = [cancelled EXCEPT ![p] = TRUE]
    /\ ctx' = IF pc[p] \in Phases /\ ctx[p] = "live"
              THEN [ctx EXCEPT ![p] = "caller"] ELSE ctx
    /\ UNCHANGED <<acceptorVars, round, pc, attempt, pending, replies, net>>

-----------------------------------------------------------------------------
(* What a phase concludes, once all of its calls have returned             *)

Promises(p) == {r \in replies[p] : r.Promised}

\* A peer answers a phase once, so counting answers is counting acceptors.
Senders(responses) == {r.AcceptorID : r \in responses}

\* Answers counted as acceptances, refusals among them.
Answers(p) == replies[p]

Accepts(p) == {r \in replies[p] : r.Accepted}

\* The highest promise reported, by refusals too: HighestSeen holds one number.
HighestSeen(p) ==
    Highest({attempt[p].HighestSeen} \cup {r.HighestPromised : r \in replies[p]})

Reported(p) == {r \in Promises(p) : r.HasAccepted /\ Less(ZeroProposal, r.AcceptedProposal)}

\* The value of any acceptance reported, not of the highest.
AnyReported(p) ==
    IF Reported(p) = {} THEN {ValueOf[p]} ELSE {r.AcceptedValue : r \in Reported(p)}

\* The value phase 2 must propose.  The loop keeps the first of the highest
\* acceptances; which peer comes first is a matter of configuration.
Adopted(p) ==
    IF Reported(p) = {}
    THEN {ValueOf[p]}
    ELSE {r.AcceptedValue : r \in {h \in Reported(p) :
             \A o \in Reported(p) : AtLeast(h.AcceptedProposal, o.AcceptedProposal)}}

\* The attempt after a phase that proposes v and saw up to n.
Tally(p, v, n, outcome) ==
    attempt' = [attempt EXCEPT ![p] =
                  [@ EXCEPT !.Value = v, !.HighestSeen = n, !.Outcome = outcome]]

\* Propose returns and the campaign goes on to `next'.
EndRound(p, next) ==
    /\ pc' = [pc EXCEPT ![p] = next]
    /\ replies' = [replies EXCEPT ![p] = {}]
    /\ ctx' = [ctx EXCEPT ![p] = "live"]
    /\ UNCHANGED <<acceptorVars, pending, cancelled, net>>

\* A defeated round: Campaign moves its round up to the highest number seen.
Defeat(p, v, n, outcome) ==
    /\ Tally(p, v, n, outcome)
    /\ round' = [round EXCEPT ![p] = IF n.Round > @ THEN n.Round ELSE @]
    /\ EndRound(p, "backoff")

AbortPrepare(p) ==
    /\ pc[p] = "prepare" /\ pending[p] = {}
    /\ ctx[p] = "caller"
    /\ \E v \in Adopted(p), n \in HighestSeen(p) : Tally(p, v, n, "aborted")
    /\ EndRound(p, "done")
    /\ UNCHANGED round

PrepareFails(p) ==
    /\ pc[p] = "prepare" /\ pending[p] = {}
    /\ ctx[p] # "caller"
    /\ ~IsQuorum(Senders(Promises(p)))
    /\ \E v \in Adopted(p), n \in HighestSeen(p) : Defeat(p, v, n, "prepare_failed")

\* Phase 2.  Under a context that has timed out, a call that looks at its
\* context fails before anything is sent.
SendAccepts(p) ==
    /\ pc[p] = "prepare" /\ pending[p] = {}
    /\ ctx[p] # "caller"
    /\ IsQuorum(Senders(Promises(p)))
    /\ pending' = [pending EXCEPT ![p] = IF ctx[p] = "live" THEN Acceptors ELSE Local[p]]
    /\ \E v \in Adopted(p), n \in HighestSeen(p) :
          /\ Tally(p, v, n, "unknown")
          /\ net' = net \cup {[type |-> "accept", from |-> p, to |-> a,
                               Proposal |-> attempt[p].Proposal, Value |-> v]
                              : a \in pending'[p]}
    /\ replies' = [replies EXCEPT ![p] = {}]
    /\ pc' = [pc EXCEPT ![p] = "accept"]
    /\ UNCHANGED <<acceptorVars, round, ctx, cancelled>>

\* A quorum of acceptances is the decision, even if the caller has left.
ValueChosen(p) ==
    /\ pc[p] = "accept" /\ pending[p] = {}
    /\ IsQuorum(Senders(Accepts(p)))
    /\ \E n \in HighestSeen(p) : Tally(p, attempt[p].Value, n, "chosen")
    /\ EndRound(p, "done")
    /\ UNCHANGED round

AbortAccept(p) ==
    /\ pc[p] = "accept" /\ pending[p] = {}
    /\ ctx[p] = "caller"
    /\ ~IsQuorum(Senders(Accepts(p)))
    /\ \E n \in HighestSeen(p) : Tally(p, attempt[p].Value, n, "aborted")
    /\ EndRound(p, "done")
    /\ UNCHANGED round

AcceptFails(p) ==
    /\ pc[p] = "accept" /\ pending[p] = {}
    /\ ctx[p] # "caller"
    /\ ~IsQuorum(Senders(Accepts(p)))
    /\ \E n \in HighestSeen(p) : Defeat(p, attempt[p].Value, n, "accept_failed")

-----------------------------------------------------------------------------
ProposerStep(p) ==
    \/ StartRound(p) \/ AbortUnstarted(p) \/ StopBackoff(p)
    \/ AbortPrepare(p) \/ PrepareFails(p) \/ SendAccepts(p)
    \/ ValueChosen(p) \/ AbortAccept(p) \/ AcceptFails(p)

Handle(m) == HandlePrepare(m) \/ HandleAccept(m) \/ HandleFails(m)

AcceptorProcess(a) == (Crash(a) \/ Restart(a)) /\ UNCHANGED proposerVars

PaxosNext ==
    \/ \E p \in Proposers : ProposerStep(p) \/ RoundTimeout(p) \/ Cancel(p)
    \/ \E p \in Proposers, a \in Acceptors : CallFails(p, a)
    \/ \E m \in net : Handle(m)
    \/ \E a \in Acceptors : AcceptorProcess(a)

PaxosSpec == PaxosInit /\ [][PaxosNext]_vars

-----------------------------------------------------------------------------
(* Correctness                                                             *)

PaxosTypeOK ==
    /\ round \in [Proposers -> Nat]
    /\ pc \in [Proposers -> {"idle", "prepare", "accept", "backoff", "done"}]
    /\ attempt \in [Proposers -> Attempts]
    /\ pending \in [Proposers -> SUBSET Acceptors]
    /\ replies \in [Proposers -> SUBSET (PrepareResponses \cup AcceptResponses)]
    /\ \A p \in Proposers : pc[p] = "prepare" => replies[p] \subseteq PrepareResponses
    /\ \A p \in Proposers : pc[p] = "accept" => replies[p] \subseteq AcceptResponses
    /\ ctx \in [Proposers -> {"live", "timeout", "caller"}]
    /\ cancelled \in [Proposers -> BOOLEAN]
    /\ net \subseteq PrepareRequests \cup AcceptRequests

TypeOK == AcceptorTypeOK /\ PaxosTypeOK

VotersFor(n, v) == {a \in Acceptors : [AcceptorID |-> a, Proposal |-> n, Value |-> v] \in votes}

\* A quorum has accepted v at n, whether or not any proposer has heard of it.
ChosenAt(n, v) == IsQuorum(VotersFor(n, v))

Chosen == {vote.Value : vote \in {w \in votes : ChosenAt(w.Proposal, w.Value)}}

\* No two different values are ever chosen, at the same number or at two.
Agreement == \A v, w \in Chosen : v = w

\* A ledger that counts who accepted a value, at whatever numbers.
LedgerByValue ==
    {v \in {vote.Value : vote \in votes} :
        IsQuorum({u.AcceptorID : u \in {x \in votes : x.Value = v}})}

\* What paxostest's Ledger.Chosen makes of the acceptances: it counts those of each
\* number, and takes the value of any one of them.
LedgerChosen ==
    {vote.Value : vote \in {w \in votes :
        IsQuorum({u.AcceptorID : u \in {x \in votes : x.Proposal = w.Proposal}})}}

\* The tests' check of agreement goes by that count, and yet sees every value that
\* is chosen, and none that is not.
LedgerIsRight == LedgerChosen = Chosen

\* The (n, v) of every accept that was ever carried out or still may be.
AcceptPairs ==
    {<<vote.Proposal, vote.Value>> : vote \in votes}
        \cup {<<m.Proposal, m.Value>> : m \in {r \in net : r.type = "accept"}}
        \cup {<<attempt[p].Proposal, attempt[p].Value>> :
                p \in {q \in Proposers : pc[q] = "accept"}}

\* A number stands for one value: no two accepts of the same number differ,
\* however the rounds of its proposer and their late requests interleave.
OneValuePerProposal ==
    \A x, y \in AcceptPairs : x[1] = y[1] => x[2] = y[2]

\* Once v is chosen, every accept with a higher number, even one still in
\* flight, carries v: what prepare.go's adoption rule is there to ensure.
ChosenBindsLaterRounds ==
    \A vote \in votes :
        ChosenAt(vote.Proposal, vote.Value) =>
            \A x \in AcceptPairs : Less(vote.Proposal, x[1]) => x[2] = vote.Value

\* A campaign that reports "chosen" has a quorum of acceptances behind it, at
\* the very number and value it reports.
LearnedIsChosen ==
    \A p \in Proposers :
        attempt[p].Outcome = "chosen" => ChosenAt(attempt[p].Proposal, attempt[p].Value)

\* A promise a proposer has in hand still tells the truth: since it was given,
\* its acceptor accepted nothing between the acceptance it reported and n.
PromisesHold ==
    \A p \in Proposers : pc[p] = "prepare" =>
        \A r \in Promises(p), vote \in votes :
            /\ r.AcceptorID = vote.AcceptorID
            /\ Less(vote.Proposal, attempt[p].Proposal)
            => r.HasAccepted /\ AtLeast(r.AcceptedProposal, vote.Proposal)

\* A campaign's next number exceeds its last one and every promise that its
\* last round came across, so one retry is enough to outbid them.
RetryOutbids ==
    [][\A p \in Proposers :
          pc[p] = "backoff" /\ pc'[p] = "prepare" =>
              /\ Less(attempt[p].Proposal, attempt'[p].Proposal)
              /\ Less(attempt[p].HighestSeen, attempt'[p].Proposal)]_vars

\* Paxos implements Consensus: a value becomes chosen when a quorum has
\* accepted it, and is learned when a campaign reports it.
Learned ==
    [p \in Proposers |-> IF attempt[p].Outcome = "chosen" THEN {attempt[p].Value} ELSE {}]

C == INSTANCE Consensus WITH chosen <- Chosen, learned <- Learned

ImplementsConsensus == C!ConsensusSpec

-----------------------------------------------------------------------------
(* Progress                                                                *)

\* p's call of a is handled or fails.
CallReturns(p, a) ==
    CallFails(p, a) \/ \E m \in net : m.from = p /\ m.to = a /\ Handle(m)

\* What a campaign waits for: its own goroutine, a timer, or a call to return.
CampaignGoesOn(p) ==
    ProposerStep(p) \/ RoundTimeout(p) \/ \E a \in Acceptors : CallReturns(p, a)

\* Goroutines are scheduled and timers fire; a call to an acceptor that runs,
\* and is not hung, is handled.  No crash, restart, loss or cancellation is owed.
Fairness == \A p \in Proposers : WF_vars(CampaignGoesOn(p))

FairPaxosSpec == PaxosSpec /\ Fairness

\* The proposers whose numbers go a round beyond every rival's: the rivals give
\* up first.  Without that, duelling campaigns may outbid each other for ever.
Outlasting ==
    {p \in Proposers :
        \A n \in Proposals :
            n.NodeID # IdOf[p] => [Round |-> n.Round + 1, NodeID |-> IdOf[p]] \in Proposals}

\* A campaign that outlasts its rivals reports a chosen value, though a
\* minority of the acceptors may crash and restart at any point.
OutlastingDecides ==
    \A p \in Outlasting : <>(attempt[p].Outcome = "chosen")

\* Phase 2 is lost only to a higher number: with a majority of acceptors able to
\* answer, a quorum of promises leads to a quorum of acceptances unless some
\* acceptor has promised to a rival since.
LostOnlyToHigher ==
    \A p \in Proposers :
        attempt[p].Outcome = "accept_failed" =>
            \E a \in Acceptors : Less(attempt[p].Proposal, store[a].Promised)

\* A cancelled campaign returns, whatever round it is in and even if an
\* acceptor it waits for never answers.
CancelledCampaignEnds ==
    \A p \in Proposers : cancelled[p] ~> pc[p] = "done"
=============================================================================
