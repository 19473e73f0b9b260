------------------------------ MODULE Restarts ------------------------------
(***************************************************************************)
(* Nodes that are killed and revived (pkg/node/node.go), each an acceptor  *)
(* with a proposer in the same process.  The acceptor comes back with what *)
(* its store holds.  The proposer does not: Revive makes a new one, under  *)
(* the same id, whose round begins at zero.                                *)
(*                                                                         *)
(* A proposer of Paxos is here a pair <<node, life>>.                      *)
(***************************************************************************)
EXTENDS Paxos

CONSTANT Lives  \* how many lives each node has: the bound on revivals

ASSUME RestartsAssumption ==
    /\ Lives \in [Acceptors -> Nat \ {0}]
    /\ Proposers = UNION {{n} \X (1..Lives[n]) : n \in Acceptors}

VARIABLE life   \* the life each node is in, or was in when it was killed

restartVars == <<vars, life>>

RestartsInit == PaxosInit /\ life = [n \in Acceptors |-> 1]

\* Whether p is the proposer of a node that is alive.
Running(p) == up[p[1]] /\ life[p[1]] = p[2]

\* Kill: the node stops serving and its campaign is cancelled.  Calls to the
\* acceptor in its own process fail from here on, its store being closed.
Kill(n) ==
    LET p == <<n, life[n]>> IN
    /\ Crash(n)
    /\ cancelled' = [cancelled EXCEPT ![p] = TRUE]
    /\ ctx' = IF pc[p] \in Phases /\ ctx[p] = "live"
              THEN [ctx EXCEPT ![p] = "caller"] ELSE ctx
    /\ pending' = [pending EXCEPT ![p] = @ \ {n}]
    /\ net' = {m \in net : ~(m.from = p /\ m.to = n)}
    /\ UNCHANGED <<round, pc, attempt, replies, life>>

\* Revive: a new acceptor over the old store, a new proposer with round zero.
Revive(n) ==
    /\ life[n] < Lives[n]
    /\ Restart(n)
    /\ life' = [life EXCEPT ![n] = @ + 1]
    /\ UNCHANGED proposerVars

\* TriggerCampaign, when an earlier campaign of this life has returned: the
\* proposer, and its round with it, is the same.
TriggerCampaign(p) ==
    /\ pc[p] = "done"
    /\ Running(p)
    /\ pc' = [pc EXCEPT ![p] = "idle"]
    /\ UNCHANGED <<acceptorVars, round, attempt, pending, replies, ctx, cancelled, net>>

\* A campaign begins in the life that is on.  One that was cancelled winds up,
\* whether or not its node has been revived.
CampaignStep(p) ==
    /\ pc[p] = "idle" => Running(p)
    /\ ProposerStep(p) \/ RoundTimeout(p) \/ TriggerCampaign(p)

RestartsNext ==
    \/ /\ \/ \E p \in Proposers : CampaignStep(p)
          \/ \E p \in Proposers, a \in Acceptors : CallFails(p, a)
          \/ \E m \in net : Handle(m)
       /\ UNCHANGED life
    \/ \E n \in Acceptors : Kill(n) \/ Revive(n)

RestartsSpec == RestartsInit /\ [][RestartsNext]_restartVars
=============================================================================
