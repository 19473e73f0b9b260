----------------------------- MODULE Scenarios -----------------------------
(***************************************************************************)
(* The console's scenarios (pkg/console/scenario.go, scenarios.go) against *)
(* a cluster that lives on while they run.  A scenario is a script, a      *)
(* sequence of instructions: calls to nodes, sleeps, one timed loop, looks *)
(* at the cluster's status.  It is run by one goroutine that whoever uses  *)
(* the console may stop at any point.                                      *)
(***************************************************************************)
EXTENDS Cluster, SequencesExt

CONSTANTS
    Runs,       \* what may be run: a scenario, a count of nodes, what is ticked
    Failing     \* nodes whose calls may fail, before or after they took effect

Names == {"fresh-election", "dueling-proposers", "partition", "quorum-loss",
          "packet-loss", "slow-network", "rolling-restart", "chaos"}

ASSUME ScenariosAssumption ==
    Runs \subseteq [name : Names, count : Int, ticked : SUBSET {"reset", "heal", "drop"}]

VARIABLES
    script,     \* the instructions of the run, its parameters filled in
    ip,         \* the instruction it is at
    calls,      \* the nodes whose calls of this instruction have not returned
    waiting,    \* whether the calls of this instruction were started
    error,      \* the first error that one of them returned
    snaps,      \* the snapshots that Status has collected
    before,     \* the value that a rolling restart found, or Nothing
    stopped,    \* whether the run's context was cancelled
    outcome,    \* how the run ended
    alarm,      \* whether it reported SAFETY VIOLATED
    settled     \* whether it reported that all live nodes agree

runVars == <<script, ip, calls, waiting, error, snaps, before, stopped,
             outcome, alarm, settled>>

scenarioVars == <<clusterVars, runVars>>

-----------------------------------------------------------------------------
(* Instructions                                                            *)

Instr(do, act, ids, peer) ==
    <<[do |-> do, act |-> act, ids |-> ids, peer |-> peer]>>

Plain(do) == Instr(do, "none", {}, 0)
Each(act, ids) == Instr("each", act, ids, 0)
Try(act, ids) == Instr("try", act, ids, 0)

\* A timed loop: it looks at the clock each time before its body.
While(body) == Plain("while") \o body \o Plain("again")

ResetAll == Each("reset", {}) \o Each("heal", {})
HealAll == Each("heal", {}) \o Each("calm", {})

Lowest(k) == {n \in Nodes : n <= k}
Highest(k) == {n \in Nodes : n > N - k}

PickNodes(count) == IF count <= 0 THEN Nodes ELSE Lowest(count)

-----------------------------------------------------------------------------
(* Scripts.  Their parameters: count, a number of nodes; reset, heal, drop,  *)
(* what the operator ticked.                                               *)

When(condition, part) == IF condition THEN part ELSE <<>>

FreshElection == ResetAll \o Plain("settle")

DuelingProposers(count, heal) ==
    LET contenders == PickNodes(count) IN
    ResetAll \o Each("latency", {}) \o Each("campaign", contenders)
    \o While(Plain("sleep") \o Each("campaign", contenders))
    \o Plain("check")
    \o When(heal, HealAll \o Each("campaign", Nodes) \o Plain("settle"))

\* One call for every link between the two sides, one after the other.
Cut(A, B) ==
    LET links == SetToSeq(A \X B) \o SetToSeq(B \X A) IN
    FlattenSeq([i \in DOMAIN links |-> Instr("each", "block", {links[i][1]}, links[i][2])])

Partition(count, reset) ==
    LET size == IF count >= N THEN N - 1 ELSE count
        minority == Highest(IF size < 1 THEN 1 ELSE size) IN
    When(reset, ResetAll) \o Cut(Nodes \ minority, minority)
    \o Each("campaign", Nodes) \o Plain("sleep")
    \o HealAll \o Each("campaign", Nodes) \o Plain("settle")

\* A negative count puts the beginning of the list of victims beyond its end.
QuorumLoss(count, reset) ==
    LET victims == Highest(count) IN
    IF count < 0
    THEN When(reset, ResetAll) \o Plain("panic")
    ELSE When(reset, ResetAll) \o Each("kill", victims)
         \o Each("campaign", Nodes \ victims) \o Plain("sleep")
         \o Each("revive", victims) \o Each("campaign", Nodes) \o Plain("settle")

PacketLoss(reset) ==
    When(reset, ResetAll) \o Each("drop", {})
    \o Each("campaign", Nodes) \o Plain("sleep")
    \o HealAll \o Each("campaign", Nodes) \o Plain("settle")

SlowNetwork(reset) ==
    When(reset, ResetAll) \o Each("latency", {})
    \o Each("campaign", Nodes) \o Plain("sleep")
    \o HealAll \o Plain("settle")

RollingRestart(reset) ==
    When(reset, ResetAll \o Plain("settle")) \o Plain("before")
    \o FlattenSeq([n \in Nodes |-> Try("kill", {n}) \o Plain("sleep")
                                   \o Try("revive", {n}) \o Plain("sleep")])
    \o Plain("after") \o Plain("settle")

ChaosMonkey(count, drop, reset) ==
    When(reset, ResetAll) \o When(drop, Each("drop", {}))
    \o Each("chaos", PickNodes(count))
    \o While(Plain("sleep") \o Plain("check"))
    \o HealAll \o Try("revive", {}) \o Each("campaign", Nodes) \o Plain("settle")

\* The script of a scenario, count and ticked being what the operator chose.
Script(name, count, ticked) ==
    LET reset == "reset" \in ticked IN
    CASE name = "fresh-election"    -> FreshElection
      [] name = "dueling-proposers" -> DuelingProposers(count, "heal" \in ticked)
      [] name = "partition"         -> Partition(count, reset)
      [] name = "quorum-loss"       -> QuorumLoss(count, reset)
      [] name = "packet-loss"       -> PacketLoss(reset)
      [] name = "slow-network"      -> SlowNetwork(reset)
      [] name = "rolling-restart"   -> RollingRestart(reset)
      [] name = "chaos"             -> ChaosMonkey(count, "drop" \in ticked, reset)

-----------------------------------------------------------------------------
(* The run                                                                 *)

Unreachable == [reachable |-> FALSE, alive |-> FALSE, decision |-> Nothing]

ScenarioInit ==
    /\ ClusterInit
    /\ script = <<>>
    /\ ip = 1
    /\ calls = {}
    /\ waiting = FALSE
    /\ error = "none"
    /\ snaps = [n \in Nodes |-> Unreachable]
    /\ before = Nothing
    /\ stopped = FALSE
    /\ outcome = "none"
    /\ alarm = FALSE
    /\ settled = FALSE

Start(r) ==
    /\ outcome = "none"
    /\ script' = Script(r.name, r.count, r.ticked)
    /\ outcome' = "running"
    /\ UNCHANGED <<clusterVars, ip, calls, waiting, error, snaps, before, stopped,
                   alarm, settled>>

Stop ==
    /\ outcome = "running"
    /\ stopped' = TRUE
    /\ UNCHANGED <<clusterVars, script, ip, calls, waiting, error, snaps, before,
                   outcome, alarm, settled>>

\* The run is at an instruction of one of these kinds.
At(kinds) == outcome = "running" /\ script[ip].do \in kinds

Looks == {"check", "before", "after", "settle"}

\* It goes on to instruction i, or ends.
Goto(i) ==
    /\ ip' = i
    /\ outcome' = IF i > Len(script) THEN "finished" ELSE outcome
    /\ waiting' = FALSE

\* A status that was looked at is not looked at again.
Forget == snaps' = [n \in Nodes |-> Unreachable]

\* It returns an error.
Fail(how) ==
    /\ outcome' = how
    /\ waiting' = FALSE
    /\ UNCHANGED ip

\* The instructions that set nothing but where to go on.
Moves == UNCHANGED <<clusterVars, script, calls, error, snaps, before, stopped, alarm, settled>>

Sleep ==
    /\ At({"sleep"})
    /\ IF stopped THEN Fail("stopped") ELSE Goto(ip + 1)
    /\ Moves

\* Nobody recovers from a panic in the run's goroutine.
Panic ==
    /\ At({"panic"})
    /\ Fail("panicked")
    /\ Moves

LoopBegins ==
    \/ At({"while"}) /\ Goto(ip + 1) /\ Moves
    \/ At({"again"}) /\ Goto(SelectInSeq(script, LAMBDA i : i.do = "while")) /\ Moves

\* time.Now is no longer before the deadline.
LoopEnds ==
    /\ At({"while"})
    /\ Goto(SelectInSeq(script, LAMBDA i : i.do = "again") + 1)
    /\ Moves

-----------------------------------------------------------------------------
(* Cluster.each                                                            *)

\* An empty list of ids stands for every node.
Targets == IF script[ip].ids = {} THEN Nodes ELSE script[ip].ids

\* A goroutine per node.  With its context cancelled a call fails unsent.
Issue ==
    /\ At({"each", "try"} \cup Looks)
    /\ ~waiting
    /\ waiting' = TRUE
    /\ calls' = IF stopped THEN {} ELSE Targets
    /\ error' = IF stopped THEN "stopped" ELSE "none"
    /\ Forget
    /\ UNCHANGED <<clusterVars, script, ip, before, stopped, outcome, alarm, settled>>

FirstError(how) == error' = IF error = "none" THEN how ELSE error

Call(n) ==
    LET i == script[ip] IN
    /\ At({"each", "try"})
    /\ n \in calls
    /\ calls' = calls \ {n}
    /\ \/ /\ ~Refuses(i.act, node[n])
          /\ node' = [node EXCEPT ![n] = Handler(i.act, i.peer, @)]
          /\ UNCHANGED error
       \/ /\ Refuses(i.act, node[n])
          /\ FirstError("failed")
          /\ UNCHANGED node
       \/ /\ n \in Failing \/ stopped
          /\ \E s \in Partly(i.act, i.peer, node[n]) : node' = [node EXCEPT ![n] = s]
          /\ FirstError(IF stopped THEN "stopped" ELSE "failed")
    /\ UNCHANGED <<strike, script, ip, waiting, snaps, before, stopped,
                   outcome, alarm, settled>>

\* Its errors are lost.
ReturnAnyway ==
    /\ At({"each", "try"})
    /\ waiting /\ calls = {}
    /\ Goto(ip + 1)
    /\ Moves

\* Each returns when all of its calls have.  An instruction that is only tried
\* ignores what it returns.
Return ==
    /\ At({"each", "try"})
    /\ waiting /\ calls = {}
    /\ IF error = "none" \/ At({"try"}) THEN Goto(ip + 1) ELSE Fail(error)
    /\ Moves

-----------------------------------------------------------------------------
(* Cluster.Status                                                          *)

Snapshot(n) ==
    /\ At(Looks)
    /\ n \in calls
    /\ calls' = calls \ {n}
    /\ \/ snaps' = [snaps EXCEPT ![n] = [reachable |-> TRUE, alive |-> node[n].alive,
                                         decision |-> node[n].decision]]
       \/ (n \in Failing \/ stopped) /\ UNCHANGED snaps
    /\ UNCHANGED <<clusterVars, script, ip, waiting, error, before, stopped,
                   outcome, alarm, settled>>

Looked == waiting /\ calls = {}

Alive == {n \in Nodes : snaps[n].alive}
Learned == {n \in Nodes : snaps[n].decision # Nothing}
Shown == {snaps[n].decision : n \in Learned}

Disagreement == Cardinality(Shown) > 1
HasSettled == Cardinality(Shown) = 1 /\ IsQuorum(Learned)
SettledValue == CHOOSE v \in Shown : TRUE

Converged == HasSettled /\ Cardinality(Learned) = Cardinality(Alive) /\ Alive # {}

Alarm == alarm' = TRUE /\ Fail("failed") /\ UNCHANGED settled

LookVars == <<clusterVars, script, calls, error, stopped>>

\* The look that the loops take.
Check ==
    /\ At({"check"}) /\ Looked
    /\ IF Disagreement THEN Alarm ELSE Goto(ip + 1) /\ UNCHANGED <<alarm, settled>>
    /\ Forget
    /\ UNCHANGED <<LookVars, before>>

\* The looks of a rolling restart.
Before ==
    /\ At({"before"}) /\ Looked
    /\ before' = IF HasSettled THEN SettledValue ELSE Nothing
    /\ Goto(ip + 1)
    /\ Forget
    /\ UNCHANGED <<LookVars, alarm, settled>>

After ==
    /\ At({"after"}) /\ Looked
    /\ IF before # Nothing /\ HasSettled /\ SettledValue # before
       THEN Alarm
       ELSE Goto(ip + 1) /\ UNCHANGED <<alarm, settled>>
    /\ Forget
    /\ UNCHANGED <<LookVars, before>>

-----------------------------------------------------------------------------
(* Run.Settle, and Cluster.WaitConverged in it                             *)

Settle ==
    /\ At({"settle"}) /\ Looked
    /\ Converged
    /\ settled' = TRUE
    /\ Goto(ip + 1)
    /\ UNCHANGED <<LookVars, snaps, before, alarm>>

\* The ticker fires, and Status is asked again.
KeepWaiting ==
    /\ At({"settle"}) /\ Looked
    /\ ~Converged
    /\ waiting' = FALSE
    /\ Forget
    /\ UNCHANGED <<LookVars, before, ip, outcome, alarm, settled>>

\* Without a deadline.
GiveUpIfStopped ==
    /\ At({"settle"}) /\ Looked
    /\ ~Converged /\ stopped
    /\ IF Disagreement THEN Alarm ELSE Goto(ip + 1) /\ UNCHANGED <<alarm, settled>>
    /\ Forget
    /\ UNCHANGED <<LookVars, before>>

\* The deadline has passed, or the run was stopped: neither is an error.
GiveUp ==
    /\ At({"settle"}) /\ Looked
    /\ ~Converged
    /\ IF Disagreement THEN Alarm ELSE Goto(ip + 1) /\ UNCHANGED <<alarm, settled>>
    /\ Forget
    /\ UNCHANGED <<LookVars, before>>

-----------------------------------------------------------------------------
ScriptStep ==
    \/ Sleep \/ Panic \/ LoopBegins \/ LoopEnds
    \/ Issue \/ Return \/ \E n \in Nodes : Call(n) \/ Snapshot(n)
    \/ Check \/ Before \/ After
    \/ Settle \/ KeepWaiting \/ GiveUp

ScenarioNext ==
    \/ \E r \in Runs : Start(r)
    \/ Stop
    \/ ScriptStep
    \/ outcome \in {"none", "running"} /\ NodeStep /\ UNCHANGED runVars

ScenarioSpec == ScenarioInit /\ [][ScenarioNext]_scenarioVars

\* The run's goroutines are scheduled and calls time out.  Time passes: whoever
\* looks at the clock again and again finds one day that the deadline is over.
FairScenarioSpec ==
    /\ ScenarioSpec
    /\ WF_scenarioVars(ScriptStep)
    /\ SF_scenarioVars(LoopEnds \/ GiveUp)

-----------------------------------------------------------------------------
(* Correctness                                                             *)

Has(do, act) == \E i \in DOMAIN script : script[i].do = do /\ script[i].act = act

\* A run that healed the cluster and finished has left no node disturbed.
HealedAtEnd ==
    outcome = "finished" /\ Has("each", "calm") =>
        \A n \in Nodes :
            /\ ~node[n].chaos /\ ~node[n].latency /\ ~node[n].drop
            /\ node[n].blocked = {}

\* A quorum-loss that finished has brought back all that it killed, whichever
\* calls failed.  No chaos loop is about in it.
VictimsAreBack ==
    outcome = "finished" /\ Has("each", "kill") =>
        \A n \in Nodes : node[n].alive

\* Every run ends.
ScenarioEnds == outcome = "running" ~> outcome # "running"

\* What Settle reports: all live nodes agree on one value.
SettledIsTrue ==
    settled /\ outcome = "finished" =>
        \A n \in Nodes : snaps[n].alive => snaps[n].decision = SettledValue
=============================================================================
