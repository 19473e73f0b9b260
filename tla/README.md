# Interactive Paxos in TLA+

Specifications, model checks and proofs of the program in `src/`: a cluster of
nodes that run single-decree Paxos, each an acceptor and a proposer in one
process, with a web page per node and a console from which an operator kills,
revives, wipes and disturbs them.

## 1. The system

| part | state it keeps | operations | speaks to |
|---|---|---|---|
| acceptor `pkg/paxos/acceptor.go` | the promised number, the accepted number and value, in memory and in its store | `Prepare`, `Accept`, `State`, `NewAcceptor` | store (Save before each answer) |
| proposer `pkg/paxos/proposer.go`, `prepare.go`, `accept.go` | `round`, the attempt under way | `Campaign`, `Propose`, and in it the two phases | every acceptor, through `Peer`: its own one directly, the others through the fault gate and gRPC |
| node `pkg/node/node.go` | alive, campaigning, decision, the current store/acceptor/server/proposer, the cancel function of the campaign, chaos | `Run`, `Revive`, `Kill`, `Reset`, `TriggerCampaign`, `SetChaos`, `Snapshot` | owns acceptor, proposer, store and server; called by HTTP handlers, the chaos loop and `Run` on goroutines of their own |
| store `pkg/storage/bolt.go` | one record in a bbolt file, which is locked while open | `OpenBolt`, `Load`, `Save`, `Close` | the file |
| transport `pkg/transport` | a listener, a gRPC server, a connection per peer | `Prepare`, `Accept`, `Serve`, `Stop` | the acceptor |
| fault controller `pkg/fault` | drop rates, latency, blocked links, isolation | `SetDropRates`, `SetLatency`, `SetBlocked`, `SetIsolated`, `Heal`, the gate before each call | sits between the proposer and the client |
| members `pkg/cluster` | none: a list of peers per process | `ParsePeer`, `ParsePeers` | read once at the start of `cmd/node` |
| process `cmd/node/cli.go` | the signal's context | `run`: chaos, the page, `Node.Run`, shutdown | node, page |
| recorder `pkg/events` | a ring of events, subscribers' channels | `Handle`, `Since`, `Latest`, `Subscribe` | log handler, web page, console |
| node page `pkg/ui` | nothing of its own | handlers for kill, revive, campaign, reset, faults; a stream of events | node, recorder, fault controller |
| console `pkg/console` | per node the last event seen; the guard of the scenario runner, the step log and the pages that follow it | `Status`, `WaitConverged`, `each`, eight scenarios, the scenario runner, the tailer | the nodes' HTTP handlers |
| test harness `pkg/paxostest` | a ledger of acceptances, which acceptors are down | `Crash`, `Restart`, `Propose` | acceptors, proposers |

What is hard in it, and what has to be true:

* **The protocol under real calls.** A phase waits for *all* of its calls, one
  timeout covers both phases, calls fail while their requests are still on the
  way, and the same proposer retries with a new number. Wanted: at most one value
  is chosen; what a campaign reports is chosen; a number stands for one value;
  promises stay true; a retry outbids what it has seen.
* **Durability.** An acceptor answers only after `Save`. Wanted: memory never runs
  ahead of the store, a restart forgets nothing, a promise binds for good.
* **Cancellation and timeouts.** Wanted: a cancelled campaign ends, and does not
  report a value that was not chosen.
* **The life of a node.** `Kill`, `Revive` and `Reset` each work in several
  critical sections with file and network operations between them, and may be
  called by several goroutines at once, while campaigns of earlier lives wind up.
  Wanted: one owner of the state file, a living node that serves what the file
  holds, operations that return, a decision that is from after the last wipe, a
  flag that says whether a campaign runs.
* **Restarts.** An acceptor's state survives and its proposer's does not.
* **Scenarios.** The console drives all nodes at once, by calls that may fail at
  some of them, while these elect, die and come back by themselves, and judges the
  outcome by snapshots taken at different moments. Wanted: no false success, every run
  ends, one that kills or disturbs nodes brings them back, and a run that finished leaves
  nothing disturbed. (An alarm may be true: nodes that were revived can choose two values.)
* **Streams of events.** A node's log goes to its page by subscription and to the
  console by polling, through a ring and channels of limited length, while the node
  restarts. Wanted: what is lost or sent twice is what a full channel, a full ring or
  a restart accounts for, and nothing else.
* **The console's own goroutines.** Runs, requests, tailers and pages share a guard, a
  log and channels, and speak outside the mutex. Wanted: one run at a time, stops that
  hit what they saw, a guard that comes down, pages that miss nothing.
* **The process.** The chaos loop, the page and the main goroutine operate the node
  side by side, and the signal may come at any point. Wanted: chaos can always be
  turned off, and the process ends.

`PROJECT.json` lists each of these hazards at its line. For those without a property,
and for those whose note says that a property is false of the code, see section 6.

## 2. The modules

```
ProposalNumber <- Acceptor <- Paxos <- PaxosInv <- PaxosProofs <- RestartsProofs
                     ^          |  \                                  |
                     |          |   Restarts  <-----------------------+  (several lives)
              AcceptorProofs    +-- C == INSTANCE Consensus    (what Paxos promises)

Node <- Process <- NodeProofs (the life of one node; its whole process)

Members <- MembersProofs     (which nodes take each other for the cluster)

Recorder <- Stream <- Events <- EventsProofs  (a node's log: the ring; its page; all at once)
   ^                    |
   |                    +-- T == INSTANCE Tail
   +--- Tail (the console's tailer) -- F == INSTANCE Feed   (what it promises)

Cluster <- Scenarios <- ScenariosProofs  (the console's scenarios and the nodes they act on)

Console <- ConsoleProofs     (the console's server: runner, log, pages)
```

The modules `MC...` give the constants their values for TLC. Operators that carry
the name of an action and a qualification (`StartKeepsLog`, `OpenWaits`) are what a
plausible mistake would make of it; no action uses them.

**ProposalNumber** is `proposal.go`: numbers are pairs `<Round, NodeID>`, ordered
by round first. `Proposals` is the set of numbers that campaigns may use, and
the bound on rounds in every run.

**Acceptor** is one action per handler: `Prepare(a, n)` and `Accept(a, n, v)`
with the refusal, the save and the update of memory, `SaveFails` for the path on
which nothing changes, `Crash`, and `Restart` which loads the store. `store` is
the durable record, `state` the copy under `Acceptor.mu`, and `votes` the ledger
of acceptances that `paxostest` keeps (`harness.go:21`). A handler is atomic, as it
holds the mutex from the first read to the answer. `Save` is a bbolt transaction,
and so happens or does not.

**Paxos** adds the campaigns. `pc[p]` says where `Campaign` stands; `attempt[p]`
is the `Attempt` that `Propose` fills in. A phase puts a request to every acceptor
in `net` and its call in `pending[p]`; `HandlePrepare`, `HandleAccept` and
`HandleFails` take a request from `net`, `CallFails` ends a call with an error. As
in `wg.Wait`, a phase goes on only when no call is pending. An answer is counted
only by the call that asked (`Awaited`): a request that outlived its round changes
the acceptor and nobody hears of it. Calls of a proposer to the acceptors in
`Local[p]` look at no context and cannot be lost. Which faults may happen is
a constant, so that each run has those it is about:

| fault | in the code |
|---|---|
| `"loss"` | an error from the gate or from gRPC, before or after the handler ran |
| `"late"` | the call has failed, its request is handled later |
| `"timeout"` | `RoundTimeout` passes although every acceptor would answer |
| `"cancel"` | the campaign's context is cancelled |
| `Crashable`, `StoreErrors` | acceptors that crash and restart, `Save` that fails |
| `Hung` | a process that accepts connections and never answers |

The end of a phase is one action per way that `Propose` returns: `AbortPrepare`,
`PrepareFails`, `SendAccepts`, `ValueChosen`, `AbortAccept`, `AcceptFails`; the
order of the tests in the code is in their guards (a quorum of promises counts
only if the caller has not cancelled, a quorum of acceptances counts even if it
has). `Defeat` is what `Campaign` does after a lost round: it moves its round up to
the highest it has seen (`fastForwardProposalNumber`).

**Consensus** is what Paxos promises: a set `chosen` that goes from empty to one
value, and campaigns that learn what is chosen. `Paxos` defines the mapping
(`Chosen`, `Learned`) and the instance `C`.

**PaxosInv** is the inductive invariant, **AcceptorProofs** and **PaxosProofs** (which
extends both) the theorems, that `Paxos` implements `Consensus` among them.

**Restarts** composes acceptors and proposers to nodes: a proposer of `Paxos` is a
pair of a node and a life, `Kill` crashes the acceptor and cancels the campaign,
`Revive` restarts the acceptor and goes on to a proposer whose round is zero under
the same id. A cancelled campaign winds up in its own time, also after the next
`Revive`, since `Kill` does not wait for it.

**Node** looks at the same operations from inside. Every critical section of
`n.mu` is a step, and so is every call between two of them: cancel, stop, close,
open, load, listen, save. Operations run on the goroutines in `Callers`. `lock`
is bbolt's file lock, `port` the listener (a server that is stopped before its
`Serve` goroutine has started closes its listener only then), `file` counts the
wipes, and `acceptor`, `loaded` and `decision.wipe` say which wipe a piece of
state stems from. A campaign is reduced to a goroutine that may learn a value, even
after it was cancelled, that stops if it is cancelled, and that then stores the
decision and clears the flag in two critical sections.

**Process** adds whoever calls the node's operations in `cmd/node`. `main` is the main
goroutine of `run`: it turns chaos on if `--chaos` says so, serves the page, and calls
`Node.Run`, which revives the node, waits for the signal and kills the node on its way
out. A chaos loop (`loop[l]`) waits, wakes, and begins a kill or a revival; it looks at
its context only while it waits, so that it may act once after it was cancelled.
`SetChaos` cancels the loop that `chaosCancel` stands for and starts another. A request
for chaos has two moments: `Toggle` is the snapshot that `handleChaosToggle` takes,
`ToggleSets` the `SetChaos` of what that was not. What made somebody send the request (the
page that was shown, or the snapshot that the console's `SetChaos` took) may be old, so a
request arrives whatever chaos is by then. `ContextEnds` is the signal reaching the campaigns: those that
were started before `Run` (`bare`) do not hear of it.

**Members** is the start of processes with command lines of their own: `ParsesPeers` is
`cluster.ParsePeers`, `Calls` and `Quorum` what the proposer makes of the list. A process
knows its own list only, so the properties speak of nodes whose list is `True`: each
entry names the node that in fact listens there.

**Recorder** is the ring, the counter and the subscribers' channels, each method a step
as in the code, where one mutex covers it. **Stream** is `handleStream` of a node's page:
subscribe, copy the ring, send the copy, then send what the channel receives; `since` and
`seam` remember what was logged when the first two happened, `lost` what found the
channel full. **Tail** is the poll of the console's tailer with the two reads of
`handleEvents` in between, restarts of the node, and failures of any poll. **Feed** is
what it promises: events that were logged, in order, each once per life of the node.
**Events** runs a page and the tailer on one recorder that restarts.

**Cluster** is the nodes as the console sees them. A node is a record: alive,
campaigning, in chaos, its decision, its `fault.Config`; a handler is a function from one
record to the next. Between calls the nodes go on by themselves. Of campaigns there is
only `Learn`: a node that campaigns, or that was killed while it did, learns any value at
any time. That is more than the code allows, and leaves out none of what it allows: nodes
that were revived use their numbers again (finding A) and wiped ones forget, so two values
may well be chosen, and nothing that is shown of the console rests on their agreeing. The
chaos loop wakes, looks whether its node is alive, and strikes, in three steps; only the
first needs chaos to be on.

**Scenarios** writes each scenario as a script, a sequence of instructions, built by
the same combinators as in the code (`ResetAll`, `HealAll`, `Each`, `While`). `each`
is `Issue`, one `Call` per node in any order, and `Return` when none is out, which
fails the run if a call failed, unless the scenario ignores errors (`Try`). As in
`Cluster.each`, an empty list stands for all nodes. The console's server does not look at
a count, so that a `quorum-loss` may be to kill a negative number of nodes: `Panic` is the
slice expression of `scenarios.go:235`, which ends the console (outcome `"panicked"`). `Status` collects a `Snapshot`
per node in any order, and the instructions that look at it are `Check` (in and
after the loops), `Before` and `After` (of a rolling restart) and `Settle`. `Stop`
cancels the run's context at any point: calls that are out may fail with or without
effect, later ones fail unsent, a sleep ends the run as stopped, and `Settle` gives
up without an error, so that a run stopped there ends as finished. A call to a node
in `Failing` may fail before or after it took effect, and a `Reset` between its steps.

**Console** is the server that runs scenarios. `Start`, `Announce` and `Go` are `start` in
the handler; `Tell`, `Return`, `Clear` and `LastWord` the goroutine it leaves behind.
Whoever speaks appends to `steps` and copies the open channels in one step (`Emit`), and
sends to each of the copies in a step of its own (`Send`). A page opens its two
subscriptions and copies the log one after the other, and closes them likewise; a send
to a channel that was closed meanwhile is `SendToClosed`, a panic, which `net/http`
recovers in a handler and nobody in the console's own goroutines (`down`).

## 3. The runs

Three acceptors are the smallest cluster in which a quorum is not everybody, so
that quorums intersect in one acceptor and one may fail. Two campaigns with
different values are enough for every conflict of two quorums. Acceptors are symmetric
where none is singled out; there is no symmetry in runs that check liveness.

| run | what can happen | what is checked |
|---|---|---|
| `late` | timeouts, requests that arrive in later rounds or never, rounds (2, 1) | `TypeOK`, `OneValuePerProposal`, `ChosenBindsLaterRounds`, `PromisesHold`, `LedgerIsRight`, `ImplementsConsensus` |
| `contention` | duelling campaigns, rounds (3, 2), one acceptor that crashes and restarts | `IInv` (the inductive invariant), `StoreKeepsNewestVote`, `LostOnlyToHigher`, `PromiseBinds`, `RetryOutbids`, liveness `OutlastingDecides` |
| `cancel` | cancellation at any point, lost requests and answers, one acceptor hung, saves that fail, each proposer beside an acceptor of its own, rounds (1, 1) | `MemoryIsDurable`, `LearnedIsChosen`, liveness `CancelledCampaignEnds` |
| `restarts` | node 2 is killed and revived; no message is lost | `Agreement` |
| `reuse` | the same with message loss | `Agreement`: violated, finding A |
| `process` | the main goroutine with `--chaos` and without, two chaos loops, two requests that toggle chaos, one more goroutine of the page; three operations, two campaigns, store errors, the signal | `StoreIsOwned`, `ServesTheFile`, `FlagHasCampaign`, `NoStrayLoop`, `NoNodeReplaced`, liveness `OperationsEnd`, `LoopsEnd`, `SignalEndsProcess` |
| `scenarios` | the eight scenarios, stopped at any point; nodes learn either of two values; node 3 fails any call | `HealedAtEnd`, `VictimsAreBack`, liveness `ScenarioEnds` |
| `settled` | the chaos scenario on one node, no call fails | `SettledIsTrue`: violated, finding B |
| `members` | three addresses, any command line of up to two peers at every start | `MemberIdsDiffer`, `QuorumsMeet` |
| `events` | a page that comes and goes and the tailer; four events in each of two lives of the node, a ring and a channel of two | `NothingMissed`, `RepeatsOnlyAtSeam`, `RingIsTold`, `ImplementsFeed`, liveness `TailCatchesUp` |
| `guard` | two runs, two stops, an action on the cluster, a tailer | `OneRunAtATime`, `LogIsOfLatestRun`, `StopsWhatItSaw`, liveness `GuardComesDown` |
| `pages` | two pages that come and go, a run, an action on the cluster | `PageMissesNothing` |

Bounds: `Proposals` (rounds per campaign), `Lives` (revivals per node), `MaxOps`
(operations begun on a node), `MaxCampaigns`, `MaxActs` (operations and requests for chaos
together), `Loops` (how often chaos starts), `Askers` (requests for chaos),
`MaxEvents` and `MaxLives` (a recorder), `MaxRuns` and `MaxSteps` (the console),
`MaxPeers` (a command line). Most of what the code does it could go on doing for ever,
so a model in which a bound is used up stops: deadlock is not checked, except in
`members`, which has no such bound.

*Paxos.* One campaign of `late` and `contention` gets more rounds than the other, so
that it retries with what it has seen, and so that requests of one round meet the
next. A request that is late may also never arrive, so `late` has lost requests and,
when the handler runs after the call has failed, lost answers. In `cancel` the acceptor
that hangs makes a round time out unless its call is lost early: with the first, phase 2
finds its context over, with the second it runs, and a cancellation meets both. In
`contention` a rival is never ahead by more than the next round can make up for, since
nothing but a rival defeats a round there; that a retry outbids also a rival that is
further ahead is what the theorem `RetriesOutbid` adds. The run has no cancellation and no
request that outlives its call; `LossesAreToHigher` shows `LostOnlyToHigher` with both.

*Restarts.* In both runs node 1 may contest one round, node 2 one in each of two lives,
and node 3 only accepts. `restarts` looks at all executions of that without message loss.
`reuse` has message loss, and looks only at executions in which node 1 has its promises
before node 2 begins, and in which node 2 is killed in phase 2 (`N1First` in `MCRestarts`);
a constraint can hide violations and cannot make one up. `restarts` is narrow: the two
rounds of node 2 have the same number, and what it takes for them to do harm, an answer
that is lost, is missing. The theorems `OnlyReuseHarms` and `OneLifeAgrees` are about every
number of lives and rounds, with every fault.

*Process.* Three operations are enough for the orders that matter: the revival of `Run`,
its kill, and one more in whatever of them it meets, which may be a `Reset` that is kill,
wipe and revival in one, or what a chaos loop does. Two campaigns let one that was killed
wind up beside its successor. With two loops and two requests, toggles overlap (both read
before either sets), a loop is replaced while it waits and while it acts, and one that is
cancelled comes late: a `SetChaos` that does not cancel the loop it replaces breaks
`NoStrayLoop` in this run. `MaxActs` is four: both requests together with the two
operations of `Run`, or one request with all three operations. That a loop acts at most once
after its context was done (`LateOnce`) is not checked there; the theorem
`ChaosIsControlled` states it and `NoStrayLoop` for every number of loops and requests.

*Scenarios.* A cluster of three can lose one node and keep its quorum, or lose two.
The counts cover a kill of none (which is one of all), of two (no quorum is left), of fewer
than none (a panic) and, in the loop of `chaos`, a minority of one. Two values are enough
for nodes that disagree, and for those that have changed their minds by the next look.
Loops need no bound: the states repeat.

*Events.* With four events the ring of two turns over, and a channel of two is full
while the page's handler is still at its snapshot. In two lives the node logs less than,
as much as and more than was seen of the life before.

*Members.* Identifiers are -1 (which is refused) and three others, so every node may use
its neighbour's, or list itself, or list another twice. Lists of two name everybody.

*Console.* A second run is what the first one's last words, and a stop that was read
before, can hit. For `PageMissesNothing` one page leaves, or is full, while another follows;
the runner and the request for an action on the cluster speak at the same time.

### Fairness

`FairPaxosSpec`: weak fairness of a campaign's own steps (goroutines are
scheduled, backoffs end: `Campaign` sleeps a bounded time), of `RoundTimeout` (a
timer), and for each call of its being handled or failing. The last is what gRPC
and the deadline on every call give together; to an acceptor that hangs it
promises only that the call fails once the round has timed out. Nothing is owed by
faults: no crash, restart, loss or cancellation needs to happen. Campaigns that
outbid each other for ever are a behaviour of Paxos, which randomised backoff makes
improbable and no fairness excludes: `OutlastingDecides` therefore speaks of a
campaign whose rivals stop a round before it.

`FairProcessSpec`: weak fairness of the main goroutine, of each operation's steps, of a
chaos loop that is awake or whose context is done, and of the steps by which a campaign
that was cancelled or has learned a value winds up, all while the process lives.
`OpenBolt` has a timeout, so that waiting for the file ends. Store errors, requests and
the signal are no part of it: an operation that depended on one to return would be found
out.

`FairScenarioSpec`: weak fairness of the run's own steps (goroutines are scheduled,
and the console's HTTP client has a timeout), strong fairness of a deadline: a
loop that reads the clock again and again reads one day that the time is over. Nodes
owe nothing: a run must end although nothing is ever decided.

`FairEventsSpec`: weak fairness of the tailer's own steps (its ticker fires and its
requests time out), strong fairness of the two reads and of the answer: polls may fail
again and again, but not all of them for ever. Nothing needs to be logged.

`FairConsoleSpec`: weak fairness of a run's goroutine once it was started. It returns,
because `ScenarioEnds`; nobody has to start, stop or look at anything.

## 4. The proofs

All are for arbitrary values of the constants: any sets of acceptors, campaigns,
values, callers, loops, pages, any number of rounds, operations and events, with every
fault in the table above, in any combination. The assumptions are those the modules
name (`AcceptorAssumption`, `PaxosAssumption`, `NodeAssumption`, `ProcessAssumption`,
`RestartsAssumption`, `RecorderAssumption`, `EventsAssumption`, `ConsoleAssumption`,
`MembersAssumption`, `ClusterAssumption`, `ScenariosAssumption`: types of the constants, a
finite set of acceptors, a zero value among the values), and what a theorem itself assumes:

* `IdsDiffer`, for agreement, for truthful reports and for the refinement: no two campaigns
  share an id. In the program that is so while no node is revived (finding A). Types,
  durability, promises and `RetriesOutbid` do without it.
* `CallsAreAnswered`, for `LossesAreToHigher`: no losses, timeouts, hung peers or store
  errors, and a quorum that does not crash. With any of these a round may be lost to nobody.
* `NodeIdsDiffer`, for `OneLifeAgrees`: no two nodes share an id, while two lives of a node
  do.

*The acceptor.* `AcceptorCorrect`, `PromisesBind`: its types, `MemoryIsDurable` and
`StoreKeepsNewestVote` are inductive together, and every step respects the promise in the
store. `PaxosRunsAcceptors`: every step of `Paxos` is a step of `AcceptorSpec` or leaves
the acceptors alone; so these theorems hold in it.

*Paxos.* `PaxosAgrees` and `CampaignsAreTrue` come from `IInv`, which `InvariantHolds`
proves to be one; `TypeCorrect` and what needs no `IdsDiffer` from its part `BInv`.
`Agreement` is not inductive: nothing in it says why a second value may not gather
a quorum in the next step. `IInv` adds, in this order of need: every accept, made or
still possible, is for a value that is safe at its number (`AcceptsAreSafe`:
at each lower number some quorum has accepted that value or is past
accepting anything). When phase 2 begins this must follow from the promises in
hand, so these must be true (`PromisesAreTrue`) and still complete
(`PromisesHold`), although acceptors have moved on since. A number must stand for
one value (`OneValuePerProposal`), which rests on a proposer not using a number
twice while its old requests are still in flight (`NumbersAreFresh`). Promises are
in the store and not only in memory (`MemoryIsDurable`), and the acceptance that a
promise reports is the newest (`StoreKeepsNewestVote`). `LearnedIsChosen` needs
that acceptances in hand are for the attempt's own value (`AcceptancesAreTrue`).
Each conjunct's preservation is a lemma, with one step per action that can disturb
it; quorums intersect by a lemma on cardinalities.

`RetriesOutbid` needs `RoundIsUpToDate` besides: a campaign that is to retry has its round
at or above those of its last number and of the highest promise that it came across.

`LossesAreToHigher`: `LostOnlyToHigher` (when phase 2 is lost, some acceptor has promised a
higher number) is not inductive: a call may be pending whose request is no longer in the
network. `PhaseTwoGoesOn` rules that out for acceptors that do not crash: while a campaign
that is not cancelled is in phase 2, each of them is yet to be asked at its number, or has
accepted, or is past the number for good. When no call is pending and no quorum has
accepted, one of the quorum that does not crash is of the third kind. Cancelled campaigns
do not count their rounds as lost; requests may outlive them.

*The refinement.* `PaxosImplementsConsensus`: `PaxosSpec` implements `C!ConsensusSpec`
under the mapping in `Paxos`. To `IInv` it adds that accepted values were proposed by
somebody and that a campaign that has reported keeps its report. A step that completes a
quorum of acceptances is `Consensus`'s choice, `ValueChosen` is its learning, all others
are stutters. `LedgerTellsChosen` follows from `OneValuePerProposal`.

*Restarts.* `RestartsRunAcceptors`, `RestartsForgetNothing`: kills and revivals are
crashes and restarts to the acceptors, so everything in `BInv` survives them.
`OnlyReuseHarms`: `IInv` is kept by every step in a state where nobody asks for promises at a
number at which something was, or may yet be, accepted (`NumbersAreUnused`). `IInv` is
thus broken by reuse and by nothing else that a node's several lives, or the campaigns that
outlive them, do. `OneLifeAgrees` gives a condition that an operator can see to: nodes that
are killed and revived at will agree as long as each has contested rounds in one life only
(rounds never fall, so such a past stays such a past). Finding A has a node that contests in
two.

*The node.* `StoreHasOneOwner`, `NoRevivalOfTheLiving`: from `NInv`. The second critical
section of `Revive` does not look at `alive` again. That is safe because the
file lock is held from `OpenBolt` on and a living node holds it too:
`StoreIsOwned` makes that exact, and what was loaded under the lock is what the
file still holds. `FlagNamesCampaign`: a campaign that leaves clears the flag of
whichever runs, so a flag that is up stands for one that nobody has cleared since.
`ProcessKeepsStore` and `ProcessFlagNamesCampaign` carry this over: every step of
`Process` is a step of `Node`, or ends the context of a campaign, or leaves the node
alone. `ChaosIsControlled` is about chaos itself: `NoStrayLoop`, and that a loop acts at
most once after its context was done (`LateOnce`).

*The streams.* `StreamIsRight` proves `NothingMissed`, `RepeatsOnlyAtSeam` and that the
ring holds the latest events, from `StreamInv`: a channel holds events after the
subscription, in order, and what is neither there nor sent was refused; the copy is the
ring as it was at the seam. `PagesAreRight` carries it to a node that restarts and is polled.

The tailer's invariant is `TailInv`. `RingIsTold` says nothing of a poll that is under way,
so it adds what each part of one knows: the tailer asks for what follows the last event told
(`AsksForTheRest`), or for everything once a restart was noticed; a life that has told
something answers with a count that is no lower (`AnswerCountsTold`); the events of an answer
ascend, are above what was asked for, and were logged by the life that answers
(`BatchIsRight`); an event in the ring that the batch passes over was told, or was not asked
for, or was logged since (`BatchHasNoGap`); the rest of a batch that is being told is above
what was told of it (`EmissionGoesOn`). This needs what `Since` returns for a
ring of any length (`SinceIsRight`). `Since` is a recursive function that follows the loop
of `recorder.go:114`; its value is found by induction over the indices, which is done by
the least element of a set of naturals (`LeastNatural`), since the theorem of natural
induction takes an operator. From `TailInv` follow `TailerTellsRing` and
`TailerImplementsFeed`: an event that is told is `Feed`'s telling, a restart its new life,
every other step of the tailer a stutter.

*The scenarios.* `HealingLasts` and `VictimsReturn` are for any number of nodes, any list
of runs with any counts, any set of nodes at which calls fail, stops at any moment, and
nodes that learn any values, die and come back by themselves. They come from three
invariants that are inductive together:

* `ControlOK`: types, where the instruction pointer can be for each outcome, and which calls
  can be out at which instruction.
* `Healing`: after the instruction that calms a node it is out of chaos, after the one that
  heals it, it is undisturbed, and nothing later in the script undoes either.
* `Reviving`: in a `quorum-loss` no chaos is on and every node that the script has not killed
  yet, or has revived, lives.

The last two rest on what scripts look like (`ScriptFacts`): where the healing stands, that
only harmless instructions follow it, that a kill by the script has its revival three
instructions on, and that a script with a panic in it has no kill (`QuorumLossPanics`).
Scripts are built by folds and by flattening, so these facts are proved by the same
induction by least elements.

*The console.* `ScenariosRunOneAtATime`, `LogTellsLatestRun`, `StopsAreRight` and
`PagesAreTold` from `ConsoleInv`, whose core is `Guarded` (which places a run can be in
while the guard is up, and that these belong to the latest one), `StopsAreAimed` (a
cancelled run is one that somebody has read) and `FollowersAreOpen` (a page that follows
has its channels open, so no copy that was made since can lack them).

*The members.* `IdsOfMembersDiffer`, `QuorumsOfMembersMeet`: a list that `ParsePeers`
accepts and that is true names each member once, so calls are as many as acceptors.

Every invariant and action property that a passing run checks, and both refinements, are
stated by a theorem. Only model-checked is liveness (`OutlastingDecides`,
`CancelledCampaignEnds`, `OperationsEnd`, `LoopsEnd`, `SignalEndsProcess`, `ScenarioEnds`,
`TailCatchesUp`, `GuardComesDown`): reasoning under fairness needs `ENABLED`, which the
prover does not know, and `Agreement` in `restarts`: the theorems on `Restarts` have other
hypotheses. The two violations, `reuse` and `settled`, are TLC's.

## 5. What the runs found

A. **A revived proposer uses its old numbers again** (`reuse`; `node.go:244`).
`Revive` makes a proposer with round zero. Its first number, <1, id>, may be one
that its earlier life proposed a value for: with a lost answer and a request
still on its way, two acceptors accept different values at that one number, and two
values are chosen. The acceptor's store has the promise that would tell, but
`Prepare` grants a number equal to the one promised.

B. **All live nodes agree, though one has learned nothing** (`settled`;
`cluster.go:183`). `Status` counts the decision of a dead node as learned and the node
not as alive. With one dead node that had learned and one live node that has not,
the two numbers that `WaitConverged` compares are equal. The node dies late because
its chaos loop was past its wait when chaos was disabled.

Four things that no run is about, but that the models show. An acceptor that accepts
connections and never answers (`Hung`, in `cancel`) defeats every round unless its call
is lost: `prepare` waits for all calls (`prepare.go:46`), which uses up the timeout that
phase 2 has to share (`proposer.go:96`), so the accepts to remote acceptors fail unsent.
Crashed peers do no such harm, because calls to them fail at once; `LostOnlyToHigher`
and `OutlastingDecides` are therefore about clusters without hung peers. A
`quorum-loss` that is to kill no node kills all of them (`scenarios.go:235`), since
`each` takes the empty list for all; one that is to kill fewer than none panics at that
line, in a goroutine of the console's own, since nothing but the form on the page keeps a
count from being negative. And a `chaos` run without "reset first" kills and revives nodes
that campaign, while messages are lost, which is what finding A takes: that run may report
a violation of safety (`scenarios.go:476`, `scenario.go:184`) though nobody has wiped
anything, and the report is true.

## 6. What the code does not hold

These properties would be natural to expect. Nothing in the repository promises them, and
they are false of the models because of what the code does at the line given. They are
not part of the modules; to see a counterexample, add the formula to the module and
check it. Some are the reason why a property above is worded as it is.

| property | formula | where, and why it fails |
|---|---|---|
| `DecisionIsCurrent` (`Node`) | `decision.Learned /\ alive => decision.wipe = file` | `node.go:346`: `Kill` cancels a campaign and does not wait for it; one that has already learned its value stores it after `Reset` has cleared the decision |
| `CampaigningIsShown` (`Node`) | `alive => \A k \in CampaignIds : campaigns[k].at = "run" /\ ~campaigns[k].cancelled => campaigning` | `node.go:322`: a campaign that ends clears the flag of the next one; a second one can then be started beside it, and the next `Kill` cancels only that one |
| `ChaosKeepsProcess` (`Process`) | `main = "exited" => signalled \/ ~alive` | `cli.go:306`: with `--chaos`, or by the page, the node is revived before `Run` revives it, which then fails with `ErrAlreadyAlive`; the process ends with a living node |
| `RefusedOnlyWhileRunning` (`Console`) | `running => Underway # {}` | `server.go:291`: the handler speaks after it has put the guard up and before it starts the goroutine; if a page's leaving makes it panic there, `net/http` ends the request and the guard stays up. `GuardComesDown` exempts it |
| `RunsOutlivePages` (`Console`) | `down => Underway = {}` | `server.go:337`: a page that leaves closes a channel that the runner has copied, and the send to it panics in the console's own goroutine, in the middle of a run |

Two more cannot be put as a formula of these modules, which leave open what they would be
about:

* *A request to turn chaos off leaves it off* (`client.go:166`). `Client.SetChaos` looks at a
  snapshot and then toggles. Of two requests to turn chaos off that both look while it is
  on, the second toggle turns it on again. `Process` has the toggles, whatever the look said.
* *After a wipe of the whole cluster a decision is from after the wipe* (`scenario.go:149`).
  Nodes are wiped one by one, and one that is wiped already can learn the old value from one
  that is not. If it is the only one left with it, the others elect another, and the scenario
  reports a violation of safety, which is the wipe's and not Paxos's. `Cluster` leaves open
  where a learned value is from.

## 7. Not modelled, and the plan

Not modelled yet, in the order planned:

1. The wipe in detail: `Reset` in a composition of `Node` and `Paxos`, where late
   requests reach acceptors that were wiped meanwhile.
2. A theorem for the run `restarts`: which executions agree although numbers are used
   twice, when no message is lost.
3. A composition in which what the nodes of `Cluster` learn comes from the rounds of `Paxos`,
   with numbers used twice and wipes, so that the scenarios' alarms can be judged.
4. The console's status poll, and its actions on the whole cluster beside a run that
   acts on the same nodes.
5. Isolation and the clamping of rates in the fault controller (no scenario uses the
   first, and the second is a minimum and a maximum).

Left out for good: rendering (`view.go`, the templates, scripts and the generated
code), logging, the parsing of flags other than `--peer`, the wiring in `cmd/console`, the
JSON and protobuf conversions (each copies its fields one by one), the lengths of
backoffs and delays, and the counts in an `Attempt` that are only displayed.
`pkg/paxosv1` is generated. Corruption of the file, and bbolt's own durability, are
trusted.
