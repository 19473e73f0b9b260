-------------------------------- MODULE Node --------------------------------
(***************************************************************************)
(* The life of one node (pkg/node/node.go): operators kill, revive, wipe   *)
(* and campaign it through HTTP handlers (pkg/ui/server.go), and the chaos *)
(* loop does the same on its own.  All of them run on goroutines of their  *)
(* own and share the fields of Node, which n.mu guards for one critical    *)
(* section at a time: each section is a step here, and so is each call in  *)
(* between that opens, closes, binds or cancels something.                 *)
(*                                                                         *)
(* What an acceptor and a campaign do is left to modules Acceptor and      *)
(* Paxos.  Here a store holds the number of the wipe that it stems from,   *)
(* and a campaign runs until it learns a value or gives up.                *)
(***************************************************************************)
EXTENDS Naturals

CONSTANTS
    Callers,        \* the goroutines that operate the node
    MaxOps,         \* how many operations they begin in all: a bound
    MaxCampaigns,   \* how many campaigns these start in all: a bound
    StoreErrors     \* whether loading, saving or opening the store may fail

ASSUME NodeAssumption ==
    /\ MaxOps \in Nat /\ MaxCampaigns \in Nat
    /\ StoreErrors \in BOOLEAN
    /\ "none" \notin Callers
    /\ "node" \notin Callers

VARIABLES
    alive,          \* Node.alive
    campaigning,    \* Node.campaigning
    campaignCancel, \* whom Node.campaignCancel cancels, 0 for nil
    acceptor,       \* the wipe that Node.acceptor's state in memory stems from
    decision,       \* Node.decision: whether learned, and after which wipe
    life,           \* how many times the node was revived
    lock,           \* who has the state file open: "none", a caller, "node"
    file,           \* how many times the state file was wiped
    port,           \* what became of the listener on Config.ListenAddr
    resets,         \* for each caller, whether the operation it runs is a Reset
    pc,             \* and where it is
    victim,         \* the campaign that Kill is about to cancel
    loaded,         \* what NewAcceptor loaded, before Revive installs it
    campaigns,      \* the goroutines that TriggerCampaign started
    begun           \* how many operations were begun

fields == <<alive, campaigning, campaignCancel, acceptor, decision, life>>

nodeVars == <<fields, lock, file, port, resets, pc, victim, loaded, campaigns, begun>>

Ops == {"kill", "revive", "reset", "campaign", "chaos"}

\* A caller at one of these points has the state file open itself.
Holding == {"cancel", "stop", "close", "load", "listen", "install", "save", "wiped"}

NoDecision == [Learned |-> FALSE, wipe |-> 0]

Points == {"idle", "kill", "check", "open", "wipe", "clear", "trigger"} \cup Holding

\* The goroutines of campaign, in the order in which they are started.
CampaignIds == 1..MaxCampaigns

Campaigns ==
    [at : {"unused", "run", "learned", "leave", "done"}, cancelled : BOOLEAN, learned : Nat]

NodeInit ==
    /\ alive = FALSE
    /\ campaigning = FALSE
    /\ campaignCancel = 0
    /\ acceptor = 0
    /\ decision = NoDecision
    /\ life = 0
    /\ lock = "none"
    /\ file = 0
    /\ port = "free"
    /\ resets = [c \in Callers |-> FALSE]
    /\ pc = [c \in Callers |-> "idle"]
    /\ victim = [c \in Callers |-> 0]
    /\ loaded = [c \in Callers |-> 0]
    /\ campaigns = [k \in CampaignIds |->
                      [at |-> "unused", cancelled |-> FALSE, learned |-> 0]]
    /\ begun = 0

\* Caller c moves from one point to another.  What it will not read again is set back
\* where its last reading is, so that states that go on alike are the same.
Goes(c, from, to) == pc[c] = from /\ pc' = [pc EXCEPT ![c] = to]

-----------------------------------------------------------------------------
(* Operations begin                                                        *)

\* A handler is called, or the chaos loop's wait is over: it looks whether the
\* node is alive, and acts on the answer in a later step.
Begin(c, o) ==
    /\ begun < MaxOps
    /\ begun' = begun + 1
    /\ Goes(c, "idle", CASE o \in {"kill", "reset"} -> "kill"
                         [] o = "revive"            -> "check"
                         [] o = "campaign"          -> "trigger"
                         [] o = "chaos"             -> IF alive THEN "kill" ELSE "check")
    /\ resets' = [resets EXCEPT ![c] = (o = "reset")]
    /\ UNCHANGED <<fields, lock, file, port, victim, loaded, campaigns>>

-----------------------------------------------------------------------------
(* Kill                                                                    *)

AfterKill(c) == IF resets[c] THEN "wipe" ELSE "idle"

KillDead(c) ==
    /\ ~alive
    /\ Goes(c, "kill", AfterKill(c))
    /\ UNCHANGED <<fields, lock, file, port, resets, victim, loaded, campaigns, begun>>

\* A critical section that takes everything and leaves n.alive as it is.
KillAliveUnmarked(c) ==
    /\ alive
    /\ Goes(c, "kill", "cancel")
    /\ victim' = [victim EXCEPT ![c] = campaignCancel]
    /\ lock' = c
    /\ campaigning' = FALSE
    /\ campaignCancel' = 0
    /\ UNCHANGED <<alive, acceptor, decision, life, file, port, resets, loaded, campaigns,
                   begun>>

\* The critical section takes everything from the node: store, server, cancel.
KillAlive(c) ==
    /\ alive
    /\ Goes(c, "kill", "cancel")
    /\ victim' = [victim EXCEPT ![c] = campaignCancel]
    /\ lock' = c
    /\ alive' = FALSE
    /\ campaigning' = FALSE
    /\ campaignCancel' = 0
    /\ UNCHANGED <<acceptor, decision, life, file, port, resets, loaded, campaigns, begun>>

KillCancels(c) ==
    /\ Goes(c, "cancel", "stop")
    /\ campaigns' = [k \in CampaignIds |->
                        IF k = victim[c] THEN [campaigns[k] EXCEPT !.cancelled = TRUE]
                                         ELSE campaigns[k]]
    /\ victim' = [victim EXCEPT ![c] = 0]
    /\ UNCHANGED <<fields, lock, file, port, resets, loaded, begun>>

\* GracefulStop.  A server that does not serve yet has no listener to close:
\* Serve will close it when it finds the server stopped.
KillStops(c) ==
    /\ Goes(c, "stop", "close")
    /\ port' = IF port = "starting" THEN "abandoned" ELSE "free"
    /\ UNCHANGED <<fields, lock, file, resets, victim, loaded, campaigns, begun>>

KillCloses(c) ==
    /\ Goes(c, "close", AfterKill(c))
    /\ lock' = "none"
    /\ UNCHANGED <<fields, file, port, resets, victim, loaded, campaigns, begun>>

-----------------------------------------------------------------------------
(* Revive                                                                  *)

\* Revive returns an error, with what it opened closed again.
ReviveGivesUp(c) ==
    /\ lock' = IF lock = c THEN "none" ELSE lock
    /\ UNCHANGED <<fields, file, port, resets, victim, loaded, campaigns, begun>>

\* ErrAlreadyAlive.
ReviveAlive(c) == alive /\ Goes(c, "check", "idle") /\ ReviveGivesUp(c)

ReviveDead(c) ==
    /\ ~alive
    /\ Goes(c, "check", "open")
    /\ UNCHANGED <<fields, lock, file, port, resets, victim, loaded, campaigns, begun>>

\* An OpenBolt for which somebody else's lock is no reason to wait.
OpensShared(c, from, to) ==
    /\ Goes(c, from, to)
    /\ lock' = c
    /\ UNCHANGED <<fields, file, port, resets, victim, loaded, campaigns, begun>>

\* OpenBolt waits for the file's lock, and has it exclusively from then on.
Opens(c, from, to) ==
    /\ lock = "none"
    /\ Goes(c, from, to)
    /\ lock' = c
    /\ UNCHANGED <<fields, file, port, resets, victim, loaded, campaigns, begun>>

\* OpenBolt without its default for a StoreTimeout of zero: bbolt waits for ever.
OpenWaits(c, from) == FALSE

\* StoreTimeout passes before the file is unlocked.
OpenTimesOut(c, from) ==
    /\ lock # "none"
    /\ Goes(c, from, "idle")
    /\ UNCHANGED <<fields, lock, file, port, resets, victim, loaded, campaigns, begun>>

\* The file cannot be opened at all.
OpenFails(c) ==
    /\ pc[c] \in {"open", "wipe"}
    /\ pc' = [pc EXCEPT ![c] = "idle"]
    /\ UNCHANGED <<fields, lock, file, port, resets, victim, loaded, campaigns, begun>>

\* NewAcceptor reads the durable record.
ReviveLoads(c) ==
    /\ Goes(c, "load", "listen")
    /\ loaded' = [loaded EXCEPT ![c] = file]
    /\ UNCHANGED <<fields, lock, file, port, resets, victim, campaigns, begun>>

ReviveLoadFails(c) == Goes(c, "load", "idle") /\ ReviveGivesUp(c)

ReviveListens(c) ==
    /\ port = "free"
    /\ Goes(c, "listen", "install")
    /\ port' = "bound"
    /\ UNCHANGED <<fields, lock, file, resets, victim, loaded, campaigns, begun>>

\* The error path of NewServer without its store.Close.
ReviveListenLeaks(c) ==
    /\ port # "free"
    /\ Goes(c, "listen", "idle")
    /\ UNCHANGED <<fields, lock, file, port, resets, victim, loaded, campaigns, begun>>

\* The address is in use.
ReviveListenFails(c) == port # "free" /\ Goes(c, "listen", "idle") /\ ReviveGivesUp(c)

\* The second critical section, which does not look at alive again.
ReviveInstalls(c) ==
    /\ Goes(c, "install", "trigger")
    /\ alive' = TRUE
    /\ acceptor' = loaded[c]
    /\ life' = life + 1
    /\ lock' = "node"
    /\ port' = "starting"
    /\ loaded' = [loaded EXCEPT ![c] = 0]
    /\ UNCHANGED <<campaigning, campaignCancel, decision, file, resets, victim,
                   campaigns, begun>>

\* The goroutine that Revive leaves behind.
Serve ==
    /\ \/ port = "starting" /\ port' = "serving"
       \/ port = "abandoned" /\ port' = "free"
    /\ UNCHANGED <<fields, lock, file, resets, pc, victim, loaded, campaigns, begun>>

-----------------------------------------------------------------------------
(* Reset, between its Kill and its Revive                                  *)

\* The zero state is saved.
WipeSaves(c) ==
    /\ Goes(c, "save", "wiped")
    /\ file' = file + 1
    /\ UNCHANGED <<fields, lock, port, resets, victim, loaded, campaigns, begun>>

WipeFails(c) == Goes(c, "save", "idle") /\ ReviveGivesUp(c)

WipeCloses(c) ==
    /\ Goes(c, "wiped", "clear")
    /\ lock' = "none"
    /\ UNCHANGED <<fields, file, port, resets, victim, loaded, campaigns, begun>>

\* n.decision = Decision{}; Revive comes next.
ClearDecision(c) ==
    /\ Goes(c, "clear", "check")
    /\ decision' = NoDecision
    /\ UNCHANGED <<alive, campaigning, campaignCancel, acceptor, life, lock, file, port,
                   resets, victim, loaded, campaigns, begun>>

-----------------------------------------------------------------------------
(* Campaigns                                                               *)

\* TriggerCampaign finds nothing to do.
TriggerNothing(c) ==
    /\ ~alive \/ campaigning
    /\ Goes(c, "trigger", "idle")
    /\ UNCHANGED <<fields, lock, file, port, resets, victim, loaded, campaigns, begun>>

TriggerCampaign(c) ==
    /\ alive
    /\ ~campaigning
    /\ Goes(c, "trigger", "idle")
    /\ \E k \in CampaignIds :
          /\ campaigns[k].at = "unused"
          /\ \A j \in 1..(k - 1) : campaigns[j].at # "unused"
          /\ campaignCancel' = k
          /\ campaigns' = [campaigns EXCEPT
                             ![k] = [at |-> "run", cancelled |-> FALSE, learned |-> 0]]
    /\ campaigning' = TRUE
    /\ UNCHANGED <<alive, acceptor, decision, life, lock, file, port, resets, victim,
                   loaded, begun>>

\* Campaign returns a chosen value, cancelled or not: a quorum of acceptances
\* counts in either case.
CampaignLearns(k) ==
    /\ campaigns[k].at = "run"
    /\ campaigns' = [campaigns EXCEPT ![k].at = "learned", ![k].learned = file]
    /\ UNCHANGED <<fields, lock, file, port, resets, pc, victim, loaded, begun>>

CampaignStops(k) ==
    /\ campaigns[k].at = "run"
    /\ campaigns[k].cancelled
    /\ campaigns' = [campaigns EXCEPT ![k].at = "leave"]
    /\ UNCHANGED <<fields, lock, file, port, resets, pc, victim, loaded, begun>>

CampaignStores(k) ==
    /\ campaigns[k].at = "learned"
    /\ decision' = [Learned |-> TRUE, wipe |-> campaigns[k].learned]
    /\ campaigns' = [campaigns EXCEPT ![k].at = "leave", ![k].learned = 0]
    /\ UNCHANGED <<alive, campaigning, campaignCancel, acceptor, life, lock, file, port,
                   resets, pc, victim, loaded, begun>>

\* A deferred function that leaves the flag to whoever has cancelled the campaign.
CampaignLeavesQuietly(k) ==
    /\ campaigns[k].at = "leave"
    /\ campaigning' = (campaigning /\ campaigns[k].cancelled)
    /\ campaigns' = [campaigns EXCEPT ![k].at = "done"]
    /\ UNCHANGED <<alive, campaignCancel, acceptor, decision, life, lock, file, port,
                   resets, pc, victim, loaded, begun>>

\* The deferred function, which does not look whose flag it clears.
CampaignLeaves(k) ==
    /\ campaigns[k].at = "leave"
    /\ campaigning' = FALSE
    /\ campaigns' = [campaigns EXCEPT ![k].at = "done"]
    /\ UNCHANGED <<alive, campaignCancel, acceptor, decision, life, lock, file, port,
                   resets, pc, victim, loaded, begun>>

-----------------------------------------------------------------------------
CallerStep(c) ==
    \/ KillDead(c) \/ KillAlive(c) \/ KillCancels(c) \/ KillStops(c) \/ KillCloses(c)
    \/ ReviveAlive(c) \/ ReviveDead(c)
    \/ Opens(c, "open", "load") \/ OpenTimesOut(c, "open")
    \/ ReviveLoads(c)
    \/ ReviveListens(c) \/ ReviveListenFails(c) \/ ReviveInstalls(c)
    \/ Opens(c, "wipe", "save") \/ OpenTimesOut(c, "wipe")
    \/ WipeSaves(c) \/ WipeCloses(c) \/ ClearDecision(c)
    \/ TriggerNothing(c) \/ TriggerCampaign(c)

\* A store error, which ends the operation.
StoreFails(c) == StoreErrors /\ (OpenFails(c) \/ ReviveLoadFails(c) \/ WipeFails(c))

CampaignStep(k) ==
    CampaignLearns(k) \/ CampaignStops(k) \/ CampaignStores(k) \/ CampaignLeaves(k)

NodeNext ==
    \/ \E c \in Callers : CallerStep(c) \/ StoreFails(c) \/ \E o \in Ops : Begin(c, o)
    \/ \E k \in CampaignIds : CampaignStep(k)
    \/ Serve

NodeSpec == NodeInit /\ [][NodeNext]_nodeVars

-----------------------------------------------------------------------------
(* Correctness                                                             *)

NodeTypeOK ==
    /\ alive \in BOOLEAN
    /\ campaigning \in BOOLEAN
    /\ campaignCancel \in CampaignIds \cup {0}
    /\ acceptor \in Nat
    /\ decision \in [Learned : BOOLEAN, wipe : Nat]
    /\ life \in Nat
    /\ lock \in Callers \cup {"none", "node"}
    /\ file \in Nat
    /\ port \in {"free", "bound", "starting", "serving", "abandoned"}
    /\ resets \in [Callers -> BOOLEAN]
    /\ pc \in [Callers -> Points]
    /\ victim \in [Callers -> CampaignIds \cup {0}]
    /\ loaded \in [Callers -> Nat]
    /\ campaigns \in [CampaignIds -> Campaigns]
    /\ begun \in 0..MaxOps

\* Whoever has the state file open will close it: it is the living node's, or
\* that of an operation on its way, however operations overlap or fail.
StoreIsOwned ==
    /\ lock = "node" <=> alive
    /\ \A c \in Callers : lock = c <=> pc[c] \in Holding

\* A living node's acceptor stems from the last wipe, and its address is bound:
\* no Reset wipes the file beneath it, no Revive installs what it read before
\* another's wipe, and no late Kill takes the listener of the next life.
ServesTheFile == alive => acceptor = file /\ port \in {"starting", "serving"}

\* The inductive invariant of NodeProofs: what a revival has loaded is still what
\* the file holds, since it has had the file open all along.
NodeInv ==
    /\ StoreIsOwned
    /\ ServesTheFile
    /\ \A c \in Callers : pc[c] \in {"listen", "install"} => loaded[c] = file

\* Revive's second critical section does not check alive again, yet no two
\* revivals that both saw a dead node install one over the other.
NoNodeReplaced == [][alive => life' = life]_nodeVars

\* A node says that it campaigns only while the campaign it started last is there, and
\* is the one that a kill will cancel: no death, revival or signal leaves the flag up
\* for good, with which no campaign would be started any more.
FlagHasCampaign ==
    campaigning =>
        /\ campaignCancel # 0
        /\ campaigns[campaignCancel].at \in {"run", "learned", "leave"}
=============================================================================
