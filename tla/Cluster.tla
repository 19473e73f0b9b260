------------------------------ MODULE Cluster ------------------------------
(***************************************************************************)
(* The nodes as the console sees them: what its calls (pkg/console/        *)
(* client.go) make the handlers of each node (pkg/ui/server.go) do, and    *)
(* what the nodes do of their own accord, which is to run campaigns and,   *)
(* in chaos, to die and come back.                                         *)
(*                                                                         *)
(* Of a campaign only its end is here: its node learns some value, at any  *)
(* time, or never.  Which values may be learned together, and which calls  *)
(* that takes, is not assumed: nodes that were revived use their numbers   *)
(* again, and wiped ones forget, so that two values may well be chosen     *)
(* (modules Paxos and Restarts).  What is shown of the console holds       *)
(* whatever the campaigns agree on.                                        *)
(***************************************************************************)
EXTENDS Integers, FiniteSets

CONSTANTS
    N,      \* the number of nodes: their ids are 1..N
    Values  \* what the nodes' campaigns propose

Nodes == 1..N

ASSUME ClusterAssumption == N \in Nat \ {0} /\ Values \subseteq Nat \ {0}

VARIABLES
    node,   \* each node: Node, its decision and its fault.Config
    strike  \* what the chaos loop of a node has decided to do next

clusterVars == <<node, strike>>

\* The decision of a node that has learned nothing.
Nothing == 0

IsQuorum(Q) == 2 * Cardinality(Q) > N

\* A cluster that has just been started with -campaign.
ClusterInit ==
    /\ node = [n \in Nodes |->
                 [alive |-> TRUE, campaigning |-> TRUE, chaos |-> FALSE, decision |-> Nothing,
                  latency |-> FALSE, drop |-> FALSE, blocked |-> {}]]
    /\ strike = [n \in Nodes |-> "none"]

-----------------------------------------------------------------------------
(* The handlers: what they make of a node's state s                        *)

TriggerCampaign(s) == [s EXCEPT !.campaigning = s.alive]

\* The decision survives.  The killed campaign is forgotten.
Kill(s) == [s EXCEPT !.alive = FALSE, !.campaigning = FALSE]

\* handleRevive campaigns at once.
Revive(s) == TriggerCampaign([s EXCEPT !.alive = TRUE])

\* What is left of a Reset that fails after the file was wiped.
Wipe(s) == [Kill(s) EXCEPT !.decision = Nothing]

Reset(s) == TriggerCampaign([Wipe(s) EXCEPT !.alive = TRUE])

\* The rates go, the links stay cut.
HealRates(s) == [s EXCEPT !.latency = FALSE, !.drop = FALSE]

Heal(s) == [s EXCEPT !.latency = FALSE, !.drop = FALSE, !.blocked = {}]

\* SetChaos(enabled): the console asks for the snapshot and toggles chaos if it
\* differs.  Nobody else toggles it here.
SetChaos(s, enabled) == [s EXCEPT !.chaos = enabled]

\* A handler answers with an error: only Revive of a living node does.
Refuses(act, s) == act = "revive" /\ s.alive

\* Call act, with argument peer for SetBlocked, at a node in state s.
Handler(act, peer, s) ==
    CASE act = "kill"     -> Kill(s)
      [] act = "revive"   -> Revive(s)
      [] act = "campaign" -> TriggerCampaign(s)
      [] act = "reset"    -> Reset(s)
      [] act = "heal"     -> Heal(s)
      [] act = "latency"  -> [s EXCEPT !.latency = TRUE]
      [] act = "drop"     -> [s EXCEPT !.drop = TRUE]
      [] act = "block"    -> [s EXCEPT !.blocked = @ \cup {peer}]
      [] act = "chaos"    -> SetChaos(s, TRUE)
      [] act = "calm"     -> SetChaos(s, FALSE)

\* What a call that was cut short may have done: all, nothing, or half a Reset.
Partly(act, peer, s) ==
    {s} \cup (IF Refuses(act, s) THEN {} ELSE {Handler(act, peer, s)})
        \cup (IF act = "reset" THEN {Kill(s), Wipe(s)} ELSE {})

-----------------------------------------------------------------------------
(* The nodes by themselves                                                 *)

\* A campaign of n succeeds, and n learns the value that its round has chosen.  One
\* that was killed after that round learns it of a dead node.
Learn(n) ==
    /\ node[n].campaigning \/ ~node[n].alive
    /\ \E v \in Values :
         node' = [node EXCEPT ![n].decision = v, ![n].campaigning = FALSE]
    /\ UNCHANGED strike

\* The chaos loop's wait is over ...
ChaosWakes(n) ==
    /\ node[n].chaos
    /\ strike[n] = "none"
    /\ strike' = [strike EXCEPT ![n] = "awake"]
    /\ UNCHANGED node

\* ... it looks whether its node is alive ...
ChaosLooks(n) ==
    /\ strike[n] = "awake"
    /\ strike' = [strike EXCEPT ![n] = IF node[n].alive THEN "kill" ELSE "revive"]
    /\ UNCHANGED node

\* ... and kills or revives it.  It does not hear that chaos was disabled meanwhile.
ChaosStrikes(n) ==
    /\ strike[n] \in {"kill", "revive"}
    /\ node' = IF Refuses(strike[n], node[n]) THEN node
               ELSE [node EXCEPT ![n] = Handler(strike[n], n, @)]
    /\ strike' = [strike EXCEPT ![n] = "none"]

NodeStep ==
    \E n \in Nodes : Learn(n) \/ ChaosWakes(n) \/ ChaosLooks(n) \/ ChaosStrikes(n)
=============================================================================
