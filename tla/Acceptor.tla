------------------------------ MODULE Acceptor ------------------------------
(***************************************************************************)
(* The acceptors of pkg/paxos/acceptor.go with the stores they persist to  *)
(* (pkg/paxos/store.go, pkg/storage/bolt.go).                              *)
(*                                                                         *)
(* A handler runs under the acceptor's mutex and its Save is one           *)
(* transaction, so each of Prepare and Accept is one step; a crash between *)
(* the Save and the reply is that step, then a lost reply, then a Crash.   *)
(* A Save that reports an error has written nothing: bbolt rolls the       *)
(* transaction back.                                                       *)
(***************************************************************************)
EXTENDS ProposalNumber, FiniteSets

CONSTANTS
    Acceptors,      \* the acceptors of the cluster
    Values,         \* the values proposers propose
    ZeroValue,      \* Go's zero uint64: the AcceptedValue of a fresh state
    Proposals,      \* the numbers a request may carry; finite for TLC, where
                    \* it is the bound on rounds
    Crashable,      \* the acceptors that may crash and restart
    StoreErrors     \* whether a Save may fail

ASSUME AcceptorAssumption ==
    /\ IsFiniteSet(Acceptors)
    /\ Acceptors # {}
    /\ Proposals \subseteq ProposalNumbers
    /\ Crashable \subseteq Acceptors
    /\ StoreErrors \in BOOLEAN

VARIABLES
    up,     \* whether the acceptor's process runs
    state,  \* Acceptor.state: the copy in memory that handlers answer from
    store,  \* the durable record
    votes   \* every acceptance ever made; paxostest.Ledger keeps the same

acceptorVars == <<up, state, store, votes>>

\* The values a request or a record can hold.
Uint64 == Values \cup {ZeroValue}

AcceptorState ==
    [Promised : ProposalNumbers,
     AcceptedProposal : ProposalNumbers,
     AcceptedValue : Uint64,
     HasAccepted : BOOLEAN]

Acceptance == [AcceptorID : Acceptors, Proposal : ProposalNumbers, Value : Uint64]

FreshState == [Promised |-> ZeroProposal, AcceptedProposal |-> ZeroProposal,
               AcceptedValue |-> ZeroValue, HasAccepted |-> FALSE]

AcceptorInit ==
    /\ up = [a \in Acceptors |-> TRUE]
    /\ state = [a \in Acceptors |-> FreshState]
    /\ store = [a \in Acceptors |-> FreshState]
    /\ votes = {}

-----------------------------------------------------------------------------
(* The handlers                                                            *)

\* A refusal that looks at what was accepted instead of what was promised.
RefusesAccepted(a, n) == ~AtLeast(n, state[a].AcceptedProposal) \/ IsZero(n)

\* A refusal of the number already promised, too.
RefusesPromised(a, n) == AtLeast(state[a].Promised, n)

\* The early return of both handlers.
Refuses(a, n) == ~AtLeast(n, state[a].Promised) \/ IsZero(n)

\* What Prepare answers: the state before the call, and the promise.
PrepareResponse(a, n) ==
    [AcceptorID |-> a,
     Promised |-> ~Refuses(a, n),
     HighestPromised |-> IF Refuses(a, n) THEN state[a].Promised ELSE n,
     AcceptedProposal |-> state[a].AcceptedProposal,
     AcceptedValue |-> state[a].AcceptedValue,
     HasAccepted |-> state[a].HasAccepted]

AcceptResponse(a, n) ==
    [AcceptorID |-> a,
     Accepted |-> ~Refuses(a, n),
     HighestPromised |-> IF Refuses(a, n) THEN state[a].Promised ELSE n]

Save(a, next) ==
    /\ store' = [store EXCEPT ![a] = next]
    /\ state' = [state EXCEPT ![a] = next]

\* A Prepare that also forgets the acceptance it should carry over.
PrepareForgetting(a, n) ==
    /\ up[a]
    /\ IF Refuses(a, n)
       THEN UNCHANGED <<state, store>>
       ELSE Save(a, [FreshState EXCEPT !.Promised = n])
    /\ UNCHANGED <<up, votes>>

Prepare(a, n) ==
    /\ up[a]
    /\ IF Refuses(a, n)
       THEN UNCHANGED <<state, store>>
       ELSE Save(a, [state[a] EXCEPT !.Promised = n])
    /\ UNCHANGED <<up, votes>>

Accept(a, n, v) ==
    /\ up[a]
    /\ IF Refuses(a, n)
       THEN UNCHANGED <<state, store, votes>>
       ELSE /\ Save(a, [Promised |-> n, AcceptedProposal |-> n,
                        AcceptedValue |-> v, HasAccepted |-> TRUE])
            /\ votes' = votes \cup {[AcceptorID |-> a, Proposal |-> n, Value |-> v]}
    /\ UNCHANGED up

\* A failed Save after the copy in memory was already updated.
SaveFailsLate(a, n) ==
    /\ StoreErrors
    /\ up[a]
    /\ ~Refuses(a, n)
    /\ state' = [state EXCEPT ![a].Promised = n]
    /\ UNCHANGED <<up, store, votes>>

\* Either handler, when its Save reports an error: the caller gets the error
\* and the acceptor stays as it was.
SaveFails(a, n) ==
    /\ StoreErrors
    /\ up[a]
    /\ ~Refuses(a, n)
    /\ UNCHANGED acceptorVars

-----------------------------------------------------------------------------
(* The process                                                             *)

\* The process ends and takes the copy in memory with it.
Crash(a) ==
    /\ a \in Crashable
    /\ up[a]
    /\ up' = [up EXCEPT ![a] = FALSE]
    /\ state' = [state EXCEPT ![a] = FreshState]
    /\ UNCHANGED <<store, votes>>

\* A restart that begins from an empty state instead of loading the store.
RestartEmpty(a) ==
    /\ ~up[a]
    /\ up' = [up EXCEPT ![a] = TRUE]
    /\ UNCHANGED <<state, store, votes>>

\* NewAcceptor: the state is what the store holds.
Restart(a) ==
    /\ ~up[a]
    /\ up' = [up EXCEPT ![a] = TRUE]
    /\ state' = [state EXCEPT ![a] = store[a]]
    /\ UNCHANGED <<store, votes>>

\* Any requests, in any order: the acceptor does not rely on the proposers.
AcceptorNext ==
    \E a \in Acceptors :
        \/ \E n \in Proposals : Prepare(a, n)
        \/ \E n \in Proposals, v \in Uint64 : Accept(a, n, v)
        \/ \E n \in Proposals : SaveFails(a, n)
        \/ Crash(a)
        \/ Restart(a)

AcceptorSpec == AcceptorInit /\ [][AcceptorNext]_acceptorVars

-----------------------------------------------------------------------------
(* What an acceptor owes                                                   *)

AcceptorTypeOK ==
    /\ up \in [Acceptors -> BOOLEAN]
    /\ state \in [Acceptors -> AcceptorState]
    /\ store \in [Acceptors -> AcceptorState]
    /\ votes \subseteq Acceptance

\* A running acceptor answers from memory, a restarted one from the store: the
\* two agree in every state, whatever Saves failed and whenever it crashed.
MemoryIsDurable == \A a \in Acceptors : up[a] => state[a] = store[a]

VotesOf(a) == {vote \in votes : vote.AcceptorID = a}

\* What the store holds for a, and so what a reports in its promises, is the
\* highest-numbered of all its acceptances, and its promise covers them all.
StoreKeepsNewestVote ==
    \A a \in Acceptors :
        /\ store[a].HasAccepted <=> VotesOf(a) # {}
        /\ store[a].HasAccepted =>
              [AcceptorID |-> a, Proposal |-> store[a].AcceptedProposal,
               Value |-> store[a].AcceptedValue] \in votes
        /\ \A vote \in VotesOf(a) :
              /\ AtLeast(store[a].AcceptedProposal, vote.Proposal)
              /\ AtLeast(store[a].Promised, vote.Proposal)

\* A promise binds the acceptor for good, across crashes and failed Saves: the
\* durable promise never moves down, and no acceptance is made below it.
PromiseBinds ==
    [][\A a \in Acceptors :
          /\ AtLeast(store'[a].Promised, store[a].Promised)
          /\ \A vote \in votes' \ votes :
                vote.AcceptorID = a => AtLeast(vote.Proposal, store[a].Promised)
      ]_acceptorVars
=============================================================================
