----------------------------- MODULE NodeProofs -----------------------------
(***************************************************************************)
(* The lock on the state file is what orders overlapping operations of a   *)
(* node, n.mu being released in their middle: proofs for any number of     *)
(* callers and of operations.                                              *)
(***************************************************************************)
EXTENDS Process, TLAPS

NInv == NodeTypeOK /\ NodeInv

LEMMA NInvInit == NodeInit => NInv
<1> SUFFICES ASSUME NodeInit PROVE NInv
  OBVIOUS
<1>1. campaigns \in [CampaignIds -> Campaigns]
  BY DEF NodeInit, Campaigns
<1>2. resets \in [Callers -> BOOLEAN] /\ pc \in [Callers -> Points]
  BY DEF NodeInit, Points
<1>3. begun \in 0..MaxOps
  BY NodeAssumption DEF NodeInit
<1>4. NodeTypeOK
  BY <1>3, <1>1, <1>2, NodeAssumption DEF NodeInit, NodeTypeOK, NoDecision
<1>5. NodeInv
  BY NodeAssumption DEF NodeInit, NodeInv, StoreIsOwned, ServesTheFile, Holding
<1> QED  BY <1>4, <1>5 DEF NInv

\* Kill gives the store to the caller that found the node alive, and no other.
LEMMA KillKeepsNInv ==
  ASSUME NInv, NEW c \in Callers,
         \/ KillDead(c) \/ KillAlive(c) \/ KillCancels(c) \/ KillStops(c) \/ KillCloses(c)
  PROVE  NInv' /\ (alive => life' = life)
<1> USE NodeAssumption DEF NInv, NodeTypeOK, NodeInv, StoreIsOwned, ServesTheFile, Goes,
      fields, Points, Holding
<1>1. CASE KillDead(c)    BY <1>1 DEF KillDead, AfterKill
<1>2. CASE KillAlive(c)
  <2>1. lock = "node" /\ \A d \in Callers : pc[d] \notin Holding
    BY <1>2 DEF KillAlive
  <2>2. pc' = [pc EXCEPT ![c] = "cancel"] /\ lock' = c /\ ~alive'
    BY <1>2 DEF KillAlive
  <2>3. NodeTypeOK'
    BY <1>2 DEF KillAlive
  <2>4. NodeInv'
    BY <1>2, <2>1, <2>2 DEF KillAlive
  <2> QED  BY <1>2, <2>3, <2>4 DEF KillAlive
<1>3. CASE KillCancels(c)
  <2>1. campaigns' \in [CampaignIds -> Campaigns]
    <3>1. \A r \in Campaigns : [r EXCEPT !.cancelled = TRUE] \in Campaigns
      BY DEF Campaigns
    <3>2. \A k \in CampaignIds : campaigns[k] \in Campaigns
      OBVIOUS
    <3> QED  BY <1>3, <3>1, <3>2 DEF KillCancels
  <2> QED  BY <1>3, <2>1 DEF KillCancels
<1>4. CASE KillStops(c)   BY <1>4 DEF KillStops
<1>5. CASE KillCloses(c)  BY <1>5 DEF KillCloses, AfterKill
<1> QED  BY <1>1, <1>2, <1>3, <1>4, <1>5

\* Revive holds the file from OpenBolt on, so the node is dead when it installs.
LEMMA ReviveKeepsNInv ==
  ASSUME NInv, NEW c \in Callers,
         \/ ReviveAlive(c) \/ ReviveDead(c)
         \/ Opens(c, "open", "load") \/ OpenTimesOut(c, "open")
         \/ ReviveLoads(c) \/ ReviveLoadFails(c)
         \/ ReviveListens(c) \/ ReviveListenFails(c) \/ ReviveInstalls(c)
  PROVE  NInv' /\ (alive => life' = life)
<1> USE NodeAssumption DEF NInv, NodeTypeOK, NodeInv, StoreIsOwned, ServesTheFile, Goes,
      fields, Points, Holding
<1>1. CASE ReviveAlive(c)       BY <1>1 DEF ReviveAlive, ReviveGivesUp
<1>2. CASE ReviveDead(c)        BY <1>2 DEF ReviveDead
<1>3. CASE Opens(c, "open", "load") BY <1>3 DEF Opens
<1>4. CASE OpenTimesOut(c, "open") BY <1>4 DEF OpenTimesOut
<1>5. CASE ReviveLoads(c)       BY <1>5 DEF ReviveLoads
<1>6. CASE ReviveLoadFails(c)   BY <1>6 DEF ReviveLoadFails, ReviveGivesUp
<1>7. CASE ReviveListens(c)     BY <1>7 DEF ReviveListens
<1>8. CASE ReviveListenFails(c) BY <1>8 DEF ReviveListenFails, ReviveGivesUp
<1>9. CASE ReviveInstalls(c)    BY <1>9 DEF ReviveInstalls
<1> QED  BY <1>1, <1>2, <1>3, <1>4, <1>5, <1>6, <1>7, <1>8, <1>9

\* A wipe happens with the file open, when nobody has anything loaded from it.
LEMMA WipeKeepsNInv ==
  ASSUME NInv, NEW c \in Callers,
         \/ Opens(c, "wipe", "save") \/ OpenTimesOut(c, "wipe") \/ OpenFails(c)
         \/ WipeSaves(c) \/ WipeFails(c) \/ WipeCloses(c) \/ ClearDecision(c)
  PROVE  NInv' /\ (alive => life' = life)
<1> USE NodeAssumption DEF NInv, NodeTypeOK, NodeInv, StoreIsOwned, ServesTheFile, Goes,
      fields, Points, Holding
<1>1. CASE Opens(c, "wipe", "save") BY <1>1 DEF Opens
<1>2. CASE OpenTimesOut(c, "wipe") BY <1>2 DEF OpenTimesOut
<1>3. CASE WipeSaves(c)         BY <1>3 DEF WipeSaves
<1>4. CASE WipeFails(c)         BY <1>4 DEF WipeFails, ReviveGivesUp
<1>5. CASE WipeCloses(c)        BY <1>5 DEF WipeCloses
<1>6. CASE ClearDecision(c)     BY <1>6 DEF ClearDecision, NoDecision
<1>7. CASE OpenFails(c)         BY <1>7 DEF OpenFails
<1> QED  BY <1>1, <1>2, <1>3, <1>4, <1>5, <1>6, <1>7

\* Campaigns and the goroutine that serves own no file and revive nothing.
LEMMA OthersKeepNInv ==
  ASSUME NInv,
         \/ \E c \in Callers : TriggerNothing(c) \/ TriggerCampaign(c)
         \/ \E c \in Callers, o \in Ops : Begin(c, o)
         \/ \E k \in CampaignIds : CampaignStep(k)
         \/ Serve
  PROVE  NInv' /\ (alive => life' = life)
<1> USE NodeAssumption DEF NInv, NodeTypeOK, NodeInv, StoreIsOwned, ServesTheFile, Goes,
      fields, Points, Holding
<1>1. ASSUME NEW c \in Callers, TriggerNothing(c)  PROVE NInv' /\ (alive => life' = life)
  BY <1>1 DEF TriggerNothing
<1>2. ASSUME NEW c \in Callers, TriggerCampaign(c) PROVE NInv' /\ (alive => life' = life)
  BY <1>2 DEF TriggerCampaign, Campaigns
<1>3. ASSUME NEW c \in Callers, NEW o \in Ops, Begin(c, o)
      PROVE  NInv' /\ (alive => life' = life)
  BY <1>3 DEF Begin, Ops
<1>4. ASSUME NEW k \in CampaignIds, CampaignStep(k) PROVE NInv' /\ (alive => life' = life)
  <2>1. CASE CampaignLearns(k)
    <3>1. campaigns' \in [CampaignIds -> Campaigns]
      <4>1. campaigns[k] \in Campaigns /\ file \in Nat
        BY <1>4
      <4>2. [campaigns[k] EXCEPT !.at = "learned", !.learned = file] \in Campaigns
        BY <4>1 DEF Campaigns
      <4> QED  BY <2>1, <4>2 DEF CampaignLearns
    <3> QED  BY <1>4, <2>1, <3>1 DEF CampaignLearns
  <2>2. CASE CampaignStops(k)
    <3>1. campaigns' \in [CampaignIds -> Campaigns]
      <4>1. [campaigns[k] EXCEPT !.at = "leave"] \in Campaigns
        BY <1>4 DEF Campaigns
      <4> QED  BY <2>2, <4>1 DEF CampaignStops
    <3> QED  BY <2>2, <3>1 DEF CampaignStops
  <2>3. CASE CampaignStores(k)
    <3>1. campaigns[k] \in Campaigns
      BY <1>4
    <3>2. campaigns' \in [CampaignIds -> Campaigns]
      <4>1. [campaigns[k] EXCEPT !.at = "leave", !.learned = 0] \in Campaigns
        BY <3>1 DEF Campaigns
      <4> QED  BY <2>3, <4>1 DEF CampaignStores
    <3>3. decision' \in [Learned : BOOLEAN, wipe : Nat]
      <4>1. campaigns[k].learned \in Nat
        BY <3>1 DEF Campaigns
      <4> QED  BY <2>3, <4>1 DEF CampaignStores
    <3> QED  BY <2>3, <3>2, <3>3 DEF CampaignStores
  <2>4. CASE CampaignLeaves(k)
    <3>1. campaigns' \in [CampaignIds -> Campaigns]
      <4>1. [campaigns[k] EXCEPT !.at = "done"] \in Campaigns
        BY <1>4 DEF Campaigns
      <4> QED  BY <2>4, <4>1 DEF CampaignLeaves
    <3> QED  BY <2>4, <3>1 DEF CampaignLeaves
  <2> QED  BY <1>4, <2>1, <2>2, <2>3, <2>4 DEF CampaignStep
<1>5. CASE Serve  BY <1>5 DEF Serve
<1> QED  BY <1>1, <1>2, <1>3, <1>4, <1>5

LEMMA NodeStep ==
  ASSUME NInv, [NodeNext]_nodeVars
  PROVE  NInv' /\ (alive => life' = life)
<1>1. CASE UNCHANGED nodeVars
  BY <1>1 DEF nodeVars, fields, NInv, NodeTypeOK, NodeInv, StoreIsOwned, ServesTheFile
<1>2. CASE NodeNext
  BY <1>2, KillKeepsNInv, ReviveKeepsNInv, WipeKeepsNInv, OthersKeepNInv
     DEF NodeNext, CallerStep, StoreFails
<1> QED  BY <1>1, <1>2

\* Whatever operations overlap, and however they fail: the state file is open in
\* exactly one place, which is the living node or an operation on its way, and a
\* living node serves what the file holds.
THEOREM StoreHasOneOwner == NodeSpec => [](NodeTypeOK /\ StoreIsOwned /\ ServesTheFile)
<1>1. NodeInit => NInv  BY NInvInit
<1>2. NInv /\ [NodeNext]_nodeVars => NInv'  BY NodeStep
<1>3. NInv => NodeTypeOK /\ StoreIsOwned /\ ServesTheFile  BY DEF NInv, NodeInv
<1> QED  BY <1>1, <1>2, <1>3, PTL DEF NodeSpec

\* No operation revives a node that is alive.
THEOREM NoRevivalOfTheLiving == NodeSpec => NoNodeReplaced
<1>1. NodeInit => NInv  BY NInvInit
<1>2. NInv /\ [NodeNext]_nodeVars => NInv' /\ [alive => life' = life]_nodeVars
  BY NodeStep
<1> QED  BY <1>1, <1>2, PTL DEF NodeSpec, NoNodeReplaced

-----------------------------------------------------------------------------
(* The campaigning flag                                                    *)

\* What leaves the campaigns where they are, and the flag alone or down, keeps it.
LEMMA FlagKept ==
    ASSUME NodeTypeOK, FlagHasCampaign,
           \/ ~campaigning'
           \/ /\ UNCHANGED <<campaigning, campaignCancel>>
              /\ \A k \in CampaignIds : campaigns'[k].at = campaigns[k].at
    PROVE  FlagHasCampaign'
BY DEF FlagHasCampaign, NodeTypeOK

\* A flag goes up with a campaign, and down when any campaign leaves.
LEMMA FlagStep ==
    ASSUME NodeTypeOK, FlagHasCampaign, [NodeNext]_nodeVars
    PROVE  FlagHasCampaign'
<1> USE DEF fields
<1>1. CASE UNCHANGED <<campaigning, campaignCancel, campaigns>>
  BY <1>1, FlagKept
<1>2. ASSUME NEW c \in Callers, KillAlive(c) PROVE FlagHasCampaign'
  BY <1>2, FlagKept DEF KillAlive
<1>3. ASSUME NEW c \in Callers, KillCancels(c) PROVE FlagHasCampaign'
  <2>1. \A k \in CampaignIds : campaigns'[k].at = campaigns[k].at
    BY <1>3 DEF KillCancels, NodeTypeOK, Campaigns
  <2> QED
    BY <1>3, <2>1, FlagKept DEF KillCancels
<1>4. ASSUME NEW c \in Callers, TriggerCampaign(c) PROVE FlagHasCampaign'
  <2>1. PICK k \in CampaignIds :
           /\ campaignCancel' = k
           /\ campaigns' = [campaigns EXCEPT
                              ![k] = [at |-> "run", cancelled |-> FALSE, learned |-> 0]]
    BY <1>4 DEF TriggerCampaign
  <2>2. k # 0 /\ campaigns'[k].at = "run"
    BY <2>1 DEF NodeTypeOK, CampaignIds
  <2> QED
    BY <2>1, <2>2 DEF FlagHasCampaign
<1>5. ASSUME NEW k \in CampaignIds, CampaignStep(k) PROVE FlagHasCampaign'
  <2>1. CASE CampaignLeaves(k)
    BY <2>1, FlagKept DEF CampaignLeaves
  <2>2. CASE CampaignLearns(k) \/ CampaignStops(k) \/ CampaignStores(k)
    <3>1. /\ campaigns'[k].at \in {"learned", "leave"}
          /\ \A j \in CampaignIds : j # k => campaigns'[j] = campaigns[j]
      BY <2>2 DEF CampaignLearns, CampaignStops, CampaignStores, NodeTypeOK, Campaigns
    <3>2. UNCHANGED <<campaigning, campaignCancel>>
      BY <2>2 DEF CampaignLearns, CampaignStops, CampaignStores
    <3> QED
      BY <3>1, <3>2 DEF FlagHasCampaign, NodeTypeOK
  <2> QED
    BY <1>5, <2>1, <2>2 DEF CampaignStep
<1>6. ASSUME NEW c \in Callers, CallerStep(c) \/ StoreFails(c) \/ \E o \in Ops : Begin(c, o)
      PROVE  \/ KillAlive(c) \/ KillCancels(c) \/ TriggerCampaign(c)
             \/ UNCHANGED <<campaigning, campaignCancel, campaigns>>
  BY <1>6 DEF CallerStep, StoreFails, Begin, KillDead, KillStops, KillCloses, ReviveAlive,
              ReviveDead, Opens, OpenTimesOut, OpenFails, ReviveLoads, ReviveLoadFails,
              ReviveListens, ReviveListenFails, ReviveInstalls, ReviveGivesUp, WipeSaves,
              WipeFails, WipeCloses, ClearDecision, TriggerNothing
<1>7. UNCHANGED nodeVars \/ Serve => UNCHANGED <<campaigning, campaignCancel, campaigns>>
  BY DEF nodeVars, Serve
<1> QED
  BY <1>1, <1>2, <1>3, <1>4, <1>5, <1>6, <1>7 DEF NodeNext

\* However operations overlap, the flag is not left up without a campaign.
THEOREM FlagNamesCampaign == NodeSpec => []FlagHasCampaign
<1>1. NodeInit => NInv /\ FlagHasCampaign
  BY NInvInit DEF NodeInit, FlagHasCampaign
<1>2. NInv /\ FlagHasCampaign /\ [NodeNext]_nodeVars => NInv' /\ FlagHasCampaign'
  BY NodeStep, FlagStep DEF NInv
<1> QED
  BY <1>1, <1>2, PTL DEF NodeSpec

-----------------------------------------------------------------------------
(***************************************************************************)
(* What is shown above of overlapping operations holds of the process with *)
(* its chaos loops, its signal and its shutdown, and chaos requests that   *)
(* overlap leave no loop behind that nobody can cancel: for any number of  *)
(* loops, requests and handlers.                                           *)
(***************************************************************************)

-----------------------------------------------------------------------------
(* The process does to the node what module Node has its callers do        *)

LEMMA ProcessStepsNode ==
    ASSUME [ProcessNext]_processVars
    PROVE  [NodeNext]_nodeVars \/ \E k \in CampaignIds : ContextEnds(k)
<1>1. CASE UNCHANGED processVars
  BY <1>1 DEF processVars
<1>2. CASE MainStep
  <2>1. Main \in Callers
    BY ProcessAssumption
  <2> QED
    BY <1>2, <2>1 DEF MainStep, MainChaos, MainRuns, MainNodeStep, MainFails, MainStops,
                      MainExits, NodeNext, Ops
<1>3. CASE Signal \/ ShutDownUI
  BY <1>3 DEF Signal, ShutDownUI
<1>4. CASE OtherNodeStep
  BY <1>4, ProcessAssumption DEF OtherNodeStep, NodeNext
<1>5. ASSUME NEW l \in Loops, LoopWakes(l) \/ LoopActs(l) \/ LoopEnds(l)
      PROVE  [NodeNext]_nodeVars
  BY <1>5, ProcessAssumption DEF LoopWakes, LoopActs, LoopEnds, NodeNext, Ops
<1>6. ASSUME NEW a \in Askers, AskerStep(a) PROVE UNCHANGED nodeVars
  BY <1>6 DEF AskerStep, Toggle, ToggleSets, SetChaos
<1>7. ASSUME NEW h \in Handlers, HandlerBegins(h) PROVE NodeNext
  BY <1>7, ProcessAssumption DEF HandlerBegins, NodeNext
<1> QED
  BY <1>1, <1>2, <1>3, <1>4, <1>5, <1>6, <1>7 DEF ProcessNext

\* The signal cancels campaigns, and touches nothing else of the node.
LEMMA ContextKeepsNInv ==
    ASSUME NInv, NEW k \in CampaignIds, ContextEnds(k)
    PROVE  NInv' /\ (alive => life' = life)
<1>1. campaigns' \in [CampaignIds -> Campaigns]
  <2>1. \A r \in Campaigns : [r EXCEPT !.cancelled = TRUE] \in Campaigns
    BY DEF Campaigns
  <2> QED
    BY <2>1 DEF ContextEnds, NInv, NodeTypeOK
<1> QED
  BY <1>1 DEF ContextEnds, fields, NInv, NodeTypeOK, NodeInv, StoreIsOwned, ServesTheFile

LEMMA ProcessKeepsNInv ==
    ASSUME NInv, [ProcessNext]_processVars
    PROVE  NInv' /\ (alive => life' = life)
BY ProcessStepsNode, NodeStep, ContextKeepsNInv

\* Whatever the page's handlers, the chaos loops and the shutdown do to the node at
\* once, the state file has one owner, a living node serves what it holds, and none
\* is revived over another.
THEOREM ProcessKeepsStore ==
    ProcessSpec => [](StoreIsOwned /\ ServesTheFile) /\ NoNodeReplaced
<1>1. ProcessInit => NInv
  BY NInvInit DEF ProcessInit
<1>2. NInv /\ [ProcessNext]_processVars => NInv' /\ [alive => life' = life]_nodeVars
  BY ProcessKeepsNInv
<1>3. NInv => StoreIsOwned /\ ServesTheFile
  BY DEF NInv, NodeInv
<1> QED
  BY <1>1, <1>2, <1>3, PTL DEF ProcessSpec, NoNodeReplaced

\* ... nor by the signal, which reaches campaigns without a kill.
THEOREM ProcessFlagNamesCampaign == ProcessSpec => []FlagHasCampaign
<1>1. ProcessInit => NInv /\ FlagHasCampaign
  BY NInvInit DEF ProcessInit, NodeInit, FlagHasCampaign
<1>2. ASSUME NInv, FlagHasCampaign, NEW k \in CampaignIds, ContextEnds(k)
      PROVE  FlagHasCampaign'
  <2>1. \A j \in CampaignIds : campaigns'[j].at = campaigns[j].at
    BY <1>2 DEF ContextEnds, NInv, NodeTypeOK, Campaigns
  <2> QED
    BY <1>2, <2>1, FlagKept DEF ContextEnds, NInv, fields
<1>3. NInv /\ FlagHasCampaign /\ [ProcessNext]_processVars => NInv' /\ FlagHasCampaign'
  BY <1>2, ProcessStepsNode, ProcessKeepsNInv, FlagStep DEF NInv
<1> QED
  BY <1>1, <1>3, PTL DEF ProcessSpec

-----------------------------------------------------------------------------
(* Chaos                                                                   *)

LoopRecords ==
    [at : {"unused", "waiting", "woken", "ended"}, underRun : BOOLEAN, cancelled : BOOLEAN]

ChaosTypeOK ==
    /\ runCtx \in BOOLEAN
    /\ signalled \in BOOLEAN
    /\ chaos \in BOOLEAN
    /\ chaosCancel \in Loops \cup {Nobody}
    /\ loop \in [Loops -> LoopRecords]
    /\ late \in [Loops -> Nat]
    /\ seen \in [Askers -> BOOLEAN]

\* A loop that has acted late is done, and will not be woken again.
LateIsOver ==
    \A l \in Loops :
        \/ late[l] = 0
        \/ late[l] = 1 /\ Done(l) /\ loop[l].at \in {"waiting", "ended"}

\* Before the flags are seen to there is no loop.
NoChaosYet == main = "flags" => ~chaos

ChaosInv == ChaosTypeOK /\ NoStrayLoop /\ LateIsOver /\ NoChaosYet

LEMMA ChaosInvInit == ProcessInit => ChaosInv
<1> SUFFICES ASSUME ProcessInit PROVE ChaosInv
  OBVIOUS
<1> USE DEF ProcessInit
<1>1. ChaosTypeOK
  BY DEF ChaosTypeOK, LoopRecords
<1>2. NoStrayLoop
  BY ProcessAssumption DEF NoStrayLoop
<1>3. LateIsOver
  BY DEF LateIsOver
<1>4. NoChaosYet
  BY DEF NoChaosYet
<1> QED
  BY <1>1, <1>2, <1>3, <1>4 DEF ChaosInv

\* A loop that starts replaces one that is cancelled, if there was any.
LEMMA StartKeepsInv ==
    ASSUME ChaosInv, StartsLoop(CancelsLoop), chaos' = TRUE,
           late' = late, signalled' = signalled, runCtx' = runCtx,
           seen' \in [Askers -> BOOLEAN], main' # "flags"
    PROVE  ChaosInv'
<1> USE DEF ChaosInv, ChaosTypeOK
<1> DEFINE l == NextLoop
           underRun == runCtx
           kept(k) == [loop[k] EXCEPT !.cancelled = @ \/ k = chaosCancel]
<1>0. /\ l \in Loops /\ loop[l].at = "unused" /\ chaosCancel' = l
      /\ loop' = [[k \in Loops |-> kept(k)]
                      EXCEPT ![l] = [at |-> "waiting", underRun |-> underRun,
                                     cancelled |-> FALSE]]
  <2>1. l \in UnusedLoops
    BY DEF StartsLoop, NextLoop
  <2> QED
    BY <2>1 DEF StartsLoop, CancelsLoop, UnusedLoops
<1> HIDE DEF l
<1>1. \A k \in Loops : /\ loop[k] \in LoopRecords /\ kept(k) \in LoopRecords
                       /\ kept(k).at = loop[k].at
                       /\ kept(k).underRun = loop[k].underRun
                       /\ kept(k).cancelled = (loop[k].cancelled \/ k = chaosCancel)
  BY DEF LoopRecords
<1>2. loop'[l] = [at |-> "waiting", underRun |-> underRun, cancelled |-> FALSE]
  BY <1>0
<1>3. \A k \in Loops : k # l => loop'[k] = kept(k)
  BY <1>0
<1>4. loop' \in [Loops -> LoopRecords]
  <2>1. loop'[l] \in LoopRecords
    BY <1>2 DEF LoopRecords
  <2>2. \A k \in Loops : loop'[k] \in LoopRecords
    BY <1>1, <1>3, <2>1
  <2>3. loop' = [k \in Loops |-> loop'[k]]
    BY <1>0
  <2> QED
    BY <2>2, <2>3
<1>5. ChaosTypeOK'
  BY <1>0, <1>4
<1>6. NoStrayLoop'
  <2>1. ASSUME NEW k \in Loops, loop'[k].at \in {"waiting", "woken"}, ~loop'[k].cancelled
        PROVE  k = l
    BY <1>1, <1>3, <2>1 DEF NoStrayLoop
  <2> QED
    BY <1>0, <2>1, ProcessAssumption DEF NoStrayLoop
<1>7. LateIsOver'
  <2>1. ASSUME NEW k \in Loops, late[k] # 0
        PROVE  late[k] = 1 /\ Done(k)' /\ loop'[k].at \in {"waiting", "ended"}
    <3>1. late[k] = 1 /\ Done(k) /\ loop[k].at \in {"waiting", "ended"}
      BY <2>1 DEF LateIsOver
    <3>2. loop'[k] = kept(k)
      BY <1>0, <1>3, <3>1
    <3> QED
      BY <1>1, <3>1, <3>2 DEF Done
  <2> QED
    BY <2>1 DEF LateIsOver
<1> QED
  BY <1>5, <1>6, <1>7 DEF NoChaosYet

LEMMA StopKeepsInv ==
    ASSUME ChaosInv, chaos' = FALSE, chaosCancel' = Nobody, loop' = CancelsLoop,
           late' = late, signalled' = signalled, runCtx' = runCtx,
           seen' \in [Askers -> BOOLEAN]
    PROVE  ChaosInv'
<1> USE DEF ChaosInv, ChaosTypeOK, CancelsLoop
<1>1. \A k \in Loops : /\ loop'[k] \in LoopRecords
                       /\ loop'[k].at = loop[k].at
                       /\ loop'[k].underRun = loop[k].underRun
                       /\ loop'[k].cancelled = (loop[k].cancelled \/ k = chaosCancel)
  BY DEF LoopRecords
<1>2. ChaosTypeOK'
  BY <1>1
<1>3. NoStrayLoop'
  BY <1>1 DEF NoStrayLoop
<1>4. LateIsOver'
  BY <1>1 DEF LateIsOver, Done
<1> QED
  BY <1>2, <1>3, <1>4 DEF NoChaosYet

\* A loop acts late at most once, since it is woken only while its context is live.
LEMMA LoopKeepsInv ==
    ASSUME ChaosInv, NEW l \in Loops, LoopWakes(l) \/ LoopActs(l) \/ LoopEnds(l)
    PROVE  ChaosInv'
<1> USE DEF ChaosInv, ChaosTypeOK
<1>1. PICK at \in {"waiting", "woken", "ended"} : loop' = [loop EXCEPT ![l].at = at]
  BY DEF LoopWakes, LoopActs, LoopEnds, LoopGoes
<1>2. /\ loop'[l] = [loop[l] EXCEPT !.at = at]
      /\ \A k \in Loops : k # l => loop'[k] = loop[k]
  BY <1>1
<1>3. /\ loop'[l].at = at
      /\ loop'[l].underRun = loop[l].underRun
      /\ loop'[l].cancelled = loop[l].cancelled
      /\ loop'[l] \in LoopRecords
  BY <1>2 DEF LoopRecords
<1>4. UNCHANGED <<signalled, runCtx, seen, chaos, chaosCancel, main>>
  BY DEF LoopWakes, LoopActs, LoopEnds, mainVars, askVars
<1>5. \A k \in Loops : Done(k)' = Done(k)
  BY <1>2, <1>3, <1>4 DEF Done
<1>6. NoStrayLoop'
  <2>1. at \in {"waiting", "woken"} => loop[l].at \in {"waiting", "woken"}
    BY <1>1, <1>3 DEF LoopWakes, LoopActs, LoopEnds, LoopGoes
  <2> QED
    BY <1>2, <1>3, <1>4, <2>1 DEF NoStrayLoop
<1>7. loop' \in [Loops -> LoopRecords]
  BY <1>1, <1>2, <1>3
<1>8. late' \in [Loops -> Nat] /\ LateIsOver'
  <2>1. CASE LoopWakes(l)
    <3>1. late' = late /\ ~Done(l)
      BY <2>1 DEF LoopWakes
    <3> QED
      BY <1>2, <1>5, <3>1 DEF LateIsOver
  <2>2. CASE LoopActs(l)
    <3>1. late' = [late EXCEPT ![l] = IF Done(l) THEN @ + 1 ELSE @] /\ loop[l].at = "woken"
      BY <2>2 DEF LoopActs, LoopGoes
    <3>2. late[l] = 0 /\ loop'[l].at = "waiting"
      BY <1>3, <2>2, <3>1 DEF LateIsOver, LoopActs, LoopGoes
    <3>3. late' \in [Loops -> Nat]
      BY <3>1, <3>2
    <3>4. late'[l] \in {0, 1} /\ (Done(l)' \/ late'[l] = 0)
      BY <1>5, <3>1, <3>2
    <3>5. \A k \in Loops : k # l => late'[k] = late[k]
      BY <3>1
    <3> QED
      BY <1>2, <1>5, <3>2, <3>3, <3>4, <3>5 DEF LateIsOver
  <2>3. CASE LoopEnds(l)
    <3>1. late' = late /\ loop'[l].at = "ended"
      BY <1>3, <2>3 DEF LoopEnds, LoopGoes
    <3> QED
      BY <1>2, <1>5, <3>1 DEF LateIsOver
  <2> QED
    BY <2>1, <2>2, <2>3
<1> QED
  BY <1>4, <1>6, <1>7, <1>8 DEF NoChaosYet

\* All else leaves the loops alone; the signal only adds to what is done.
LEMMA OthersKeepInv ==
    ASSUME ChaosInv, UNCHANGED chaosVars,
           runCtx' \in BOOLEAN, signalled' \in BOOLEAN, seen' \in [Askers -> BOOLEAN],
           signalled => signalled', main' = "flags" => main = "flags"
    PROVE  ChaosInv'
<1> USE DEF ChaosInv, chaosVars
<1>1. ChaosTypeOK'
  BY DEF ChaosTypeOK
<1>2. LateIsOver'
  BY DEF LateIsOver, Done
<1> QED
  BY <1>1, <1>2 DEF NoStrayLoop, NoChaosYet

LEMMA ChaosStep ==
    ASSUME ChaosInv, [ProcessNext]_processVars
    PROVE  ChaosInv'
<1> USE DEF mainVars, chaosVars, askVars
<1>1. runCtx \in BOOLEAN /\ signalled \in BOOLEAN /\ seen \in [Askers -> BOOLEAN]
  BY DEF ChaosInv, ChaosTypeOK
<1>2. CASE UNCHANGED processVars
  BY <1>1, <1>2, OthersKeepInv DEF processVars
<1>3. CASE MainChaos
  <2>1. StartsLoop(loop) /\ chaos' = TRUE /\ UNCHANGED <<late, signalled, runCtx, seen>>
    BY <1>3 DEF MainChaos
  <2>2. \A k \in Loops : k # chaosCancel
    BY <1>3, ProcessAssumption DEF MainChaos, ChaosInv, NoChaosYet, NoStrayLoop
  <2>3. loop = CancelsLoop
    <3>1. loop \in [Loops -> LoopRecords]
      BY DEF ChaosInv, ChaosTypeOK
    <3>2. \A k \in Loops : [loop[k] EXCEPT !.cancelled = @ \/ k = chaosCancel] = loop[k]
      BY <2>2, <3>1 DEF LoopRecords
    <3> QED
      BY <3>1, <3>2 DEF CancelsLoop
  <2>4. main' # "flags"
    BY <1>3 DEF MainChaos
  <2> QED
    BY <2>1, <2>3, <2>4, <1>1, StartKeepsInv
<1>4. CASE MainRuns \/ MainNodeStep \/ MainFails \/ MainStops \/ MainExits
  BY <1>1, <1>4, OthersKeepInv DEF MainRuns, MainNodeStep, MainFails, MainStops, MainExits
<1>5. CASE Signal \/ ShutDownUI \/ OtherNodeStep
  BY <1>1, <1>5, OthersKeepInv DEF Signal, ShutDownUI, OtherNodeStep, Beside
<1>6. ASSUME NEW a \in Askers, AskerStep(a) PROVE ChaosInv'
  <2>1. CASE Toggle(a)
    BY <1>1, <2>1, OthersKeepInv DEF Toggle, ChaosInv, ChaosTypeOK
  <2>2. CASE ToggleSets(a)
    <3>1. SetChaos(~seen[a]) /\ seen' = [seen EXCEPT ![a] = FALSE] /\ main # "flags"
      BY <1>6, <2>2 DEF ToggleSets, AskerStep
    <3>2. UNCHANGED <<main, signalled, runCtx, late>> /\ chaos' = ~seen[a]
      BY <3>1 DEF SetChaos
    <3>3. CASE ~seen[a]
      <4>1. StartsLoop(CancelsLoop)
        BY <3>1, <3>3 DEF SetChaos
      <4> QED
        BY <1>1, <3>1, <3>2, <3>3, <4>1, StartKeepsInv
    <3>4. CASE seen[a]
      BY <1>1, <3>1, <3>2, <3>4, StopKeepsInv DEF SetChaos
    <3> QED
      BY <3>3, <3>4
  <2> QED
    BY <1>6, <2>1, <2>2 DEF AskerStep
<1>7. ASSUME NEW h \in Handlers, HandlerBegins(h) PROVE ChaosInv'
  BY <1>1, <1>7, OthersKeepInv DEF HandlerBegins
<1>8. ASSUME NEW k \in CampaignIds, ContextEnds(k) PROVE ChaosInv'
  BY <1>1, <1>8, OthersKeepInv DEF ContextEnds
<1> QED
  BY <1>2, <1>3, <1>4, <1>5, <1>6, <1>7, <1>8, LoopKeepsInv DEF ProcessNext, MainStep

\* Toggles of chaos that overlap, also with --chaos, leave no loop on its own, and a
\* loop whose context is done kills or revives the node once more at most.
THEOREM ChaosIsControlled == ProcessSpec => [](NoStrayLoop /\ LateOnce)
<1>1. ChaosInv /\ [ProcessNext]_processVars => ChaosInv'
  BY ChaosStep
<1>2. ChaosInv => NoStrayLoop /\ LateOnce
  BY DEF ChaosInv, LateIsOver, LateOnce
<1> QED
  BY ChaosInvInit, <1>1, <1>2, PTL DEF ProcessSpec
=============================================================================
