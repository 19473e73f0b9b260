------------------------------- MODULE Console -------------------------------
(***************************************************************************)
(* The console's server (pkg/console/server.go): the guard that lets one   *)
(* scenario run at a time, the log of steps, and the pages that follow it. *)
(* A run, an operator's request and a tailer of a node's log are           *)
(* goroutines that emit: each appends what it has to say and copies the    *)
(* subscribers' channels under the mutex, and sends once it has unlocked.  *)
(* A page that is closed meanwhile closes its channels, and a send on a    *)
(* closed channel panics, in a handler (net/http recovers and ends the     *)
(* request) or in a goroutine of the console's own (the process ends).     *)
(*                                                                         *)
(* What scenarios do is in Scenarios.tla.  Here they say something now and *)
(* then and end in some way.                                               *)
(***************************************************************************)
EXTENDS Naturals, Sequences, SequencesExt, FiniteSets

CONSTANTS
    MaxRuns,    \* how many scenarios are started: a bound
    Operators,  \* requests for an action on the whole cluster
    Stoppers,   \* requests to stop the scenario
    Tails,      \* the goroutines that tail a node each
    Pages,      \* the pages that are opened, once each
    MaxSteps,   \* how often a scenario or a tailer says something: a bound
    LogCap,     \* how many steps the log keeps: 500
    Buffer      \* the capacity of a channel: 256 for steps, 512 for node logs

ASSUME ConsoleAssumption ==
    /\ {MaxRuns, MaxSteps} \subseteq Nat
    /\ {LogCap, Buffer} \subseteq Nat \ {0}
    /\ (1..MaxRuns) \cap (Operators \cup Tails) = {}
    /\ Operators \cap Tails = {}

Runs == 1..MaxRuns
Emitters == Runs \cup Operators \cup Tails

\* What a page subscribes to.
Kinds == {"steps", "logs"}

Endings == {"finished", "stopped", "failed"}

VARIABLES
    running,    \* state.running: the guard
    current,    \* the run that state.scenario and state.cancel are of, 0 if none
    steps,      \* state.steps: pairs of an emitter and how often it has spoken
    open,       \* state.subs, state.logSubs: channels that are subscribed
    channel,    \* what is in a channel
    closed,     \* the channels that unsubscribing has closed
    at,         \* where a goroutine stands
    said,       \* how often an emitter has spoken
    sends,      \* the channels that its last step is still to be sent to
    ending,     \* how a run ended
    aim,        \* the run whose cancel function a stopper holds
    cancelled,  \* the runs whose context is cancelled
    shown,      \* the steps that a page has been sent
    lost,       \* the steps that found a page's channel full
    down        \* whether the process has ended

stateVars == <<running, current, steps>>
pageVars == <<open, channel, closed, shown, lost>>
consoleVars == <<stateVars, pageVars, at, said, sends, ending, aim, cancelled, down>>

ConsoleInit ==
    /\ running = FALSE
    /\ current = 0
    /\ steps = <<>>
    /\ open = {}
    /\ channel = [c \in Kinds \X Pages |-> <<>>]
    /\ closed = {}
    /\ at = [g \in Emitters \cup Stoppers \cup Pages |-> "idle"]
    /\ said = [e \in Emitters |-> 0]
    /\ sends = [e \in Emitters |-> {}]
    /\ ending = [r \in Runs |-> "none"]
    /\ aim = [s \in Stoppers |-> 0]
    /\ cancelled = {}
    /\ shown = [p \in Pages |-> {}]
    /\ lost = [p \in Pages |-> {}]
    /\ down = FALSE

Goes(g, from, to) ==
    /\ at[g] = from
    /\ at' = [at EXCEPT ![g] = to]

-----------------------------------------------------------------------------
(* emit and emitNodeLog                                                    *)

\* What an emitter has said last.
Word(e) == <<e, said[e]>>

Channels(kind) == {c \in open : c[1] = kind}

KeepLast(log) == SubSeq(log, (IF Len(log) > LogCap THEN Len(log) - LogCap ELSE 0) + 1, Len(log))

\* The half of emit that is under the mutex.
Emit(e) ==
    /\ sends[e] = {}
    /\ said' = [said EXCEPT ![e] = @ + 1]
    /\ steps' = KeepLast(Append(steps, <<e, said[e] + 1>>))
    /\ sends' = [sends EXCEPT ![e] = Channels("steps")]

EmitNodeLog(t) ==
    /\ sends[t] = {}
    /\ said[t] < MaxSteps
    /\ said' = [said EXCEPT ![t] = @ + 1]
    /\ sends' = [sends EXCEPT ![t] = Channels("logs")]
    /\ UNCHANGED <<stateVars, pageVars, at, ending, aim, cancelled, down>>

\* A loop that ends at the first channel that is full.
SendUntilFull(e) ==
    \E c \in sends[e] \ closed :
        /\ IF Len(channel[c]) < Buffer
           THEN /\ channel' = [channel EXCEPT ![c] = Append(@, Word(e))]
                /\ sends' = [sends EXCEPT ![e] = @ \ {c}]
                /\ UNCHANGED lost
           ELSE /\ lost' = [lost EXCEPT ![c[2]] = @ \cup {Word(e)}]
                /\ sends' = [sends EXCEPT ![e] = {}]
                /\ UNCHANGED channel
        /\ UNCHANGED <<stateVars, open, closed, shown, at, said, ending, aim, cancelled, down>>

\* One of the sends, which a full channel refuses.
Send(e) ==
    \E c \in sends[e] \ closed :
        /\ sends' = [sends EXCEPT ![e] = @ \ {c}]
        /\ IF Len(channel[c]) < Buffer
           THEN channel' = [channel EXCEPT ![c] = Append(@, Word(e))] /\ UNCHANGED lost
           ELSE lost' = [lost EXCEPT ![c[2]] = @ \cup {Word(e)}] /\ UNCHANGED channel
        /\ UNCHANGED <<stateVars, open, closed, shown, at, said, ending, aim, cancelled, down>>

\* The goroutines that serve a request: an operator's, and that of a run until
\* the run has a goroutine of its own.
InHandler(e) == e \in Operators \/ at[e] = "announced"

\* The send panics.
SendToClosed(e) ==
    /\ sends[e] \cap closed # {}
    /\ sends' = [sends EXCEPT ![e] = {}]
    /\ IF InHandler(e)
       THEN at' = [at EXCEPT ![e] = "aborted"] /\ UNCHANGED down
       ELSE down' = TRUE /\ UNCHANGED at
    /\ UNCHANGED <<stateVars, pageVars, said, ending, aim, cancelled>>

-----------------------------------------------------------------------------
(* A run: start, and the goroutine that it starts                          *)

\* A start that goes on with the log as it is.
StartKeepsLog(r) ==
    /\ Goes(r, "idle", "started")
    /\ r = current + 1
    /\ ~running
    /\ running' = TRUE
    /\ current' = r
    /\ UNCHANGED <<steps, pageVars, said, sends, ending, aim, cancelled, down>>

\* start, up to where it unlocks.  Where a scenario is running it returns an
\* error, and changes nothing.
Start(r) ==
    /\ Goes(r, "idle", "started")
    /\ r = current + 1
    /\ ~running
    /\ running' = TRUE
    /\ current' = r
    /\ steps' = <<>>
    /\ UNCHANGED <<pageVars, said, sends, ending, aim, cancelled, down>>

\* run.Info, in the handler.
Announce(r) ==
    /\ Goes(r, "started", "announced")
    /\ Emit(r)
    /\ UNCHANGED <<running, current, pageVars, ending, aim, cancelled, down>>

\* The go statement; the handler returns.
Go(r) ==
    /\ sends[r] = {}
    /\ Goes(r, "announced", "running")
    /\ UNCHANGED <<stateVars, pageVars, said, sends, ending, aim, cancelled, down>>

\* The scenario says something.
Tell(r) ==
    /\ at[r] = "running"
    /\ said[r] < MaxSteps
    /\ Emit(r)
    /\ UNCHANGED <<running, current, pageVars, at, ending, aim, cancelled, down>>

\* scenario.Run returns; with context.Canceled only if it was cancelled.
Return(r) ==
    /\ sends[r] = {}
    /\ Goes(r, "running", "returned")
    /\ \E e \in Endings :
          /\ e = "stopped" => r \in cancelled
          /\ ending' = [ending EXCEPT ![r] = e]
    /\ UNCHANGED <<stateVars, pageVars, said, sends, aim, cancelled, down>>

\* A goroutine that leaves the guard up when its scenario has failed.
ClearUnlessFailed(r) ==
    /\ Goes(r, "returned", "cleared")
    /\ running' = (ending[r] = "failed")
    /\ UNCHANGED <<current, steps, pageVars, said, sends, ending, aim, cancelled, down>>

Clear(r) ==
    /\ Goes(r, "returned", "cleared")
    /\ running' = FALSE
    /\ UNCHANGED <<current, steps, pageVars, said, sends, ending, aim, cancelled, down>>

\* The step that tells how the run ended.
LastWord(r) ==
    /\ Goes(r, "cleared", "done")
    /\ Emit(r)
    /\ UNCHANGED <<running, current, pageVars, ending, aim, cancelled, down>>

RunStep(r) ==
    Start(r) \/ Announce(r) \/ Go(r) \/ Tell(r) \/ Return(r) \/ Clear(r) \/ LastWord(r)

-----------------------------------------------------------------------------
(* An operator's requests                                                  *)

\* handleStopScenario takes the cancel function ...
StopReads(s) ==
    /\ Goes(s, "idle", "aimed")
    /\ aim' = [aim EXCEPT ![s] = current]
    /\ UNCHANGED <<stateVars, pageVars, said, sends, ending, cancelled, down>>

\* A handler that takes the guard down along with it.
StopClears(s) ==
    /\ Goes(s, "aimed", "done")
    /\ cancelled' = cancelled \cup ({aim[s]} \ {0})
    /\ running' = FALSE
    /\ UNCHANGED <<current, steps, pageVars, said, sends, ending, aim, down>>

\* A handler that calls the cancel function which is there when it has unlocked.
StopCancelsLatest(s) ==
    /\ Goes(s, "aimed", "done")
    /\ cancelled' = cancelled \cup ({current} \ {0})
    /\ UNCHANGED <<stateVars, pageVars, said, sends, ending, aim, down>>

\* ... and calls it when it has unlocked.
StopCancels(s) ==
    /\ Goes(s, "aimed", "done")
    /\ cancelled' = cancelled \cup ({aim[s]} \ {0})
    /\ UNCHANGED <<stateVars, pageVars, said, sends, ending, aim, down>>

\* handleClusterAction, once it has asked the nodes, says what it did ...
Act(o) ==
    /\ Goes(o, "idle", "acted")
    /\ Emit(o)
    /\ UNCHANGED <<running, current, pageVars, ending, aim, cancelled, down>>

\* ... and that it failed, if it did.
ActFailed(o) ==
    /\ Goes(o, "acted", "warned")
    /\ Emit(o)
    /\ UNCHANGED <<running, current, pageVars, ending, aim, cancelled, down>>

-----------------------------------------------------------------------------
(* A page: handleStream                                                    *)

Subscribe(p, kind) ==
    /\ open' = open \cup {<<kind, p>>}
    /\ UNCHANGED <<stateVars, channel, closed, shown, lost, said, sends, ending, aim,
                   cancelled, down>>

SubscribeSteps(p) == Goes(p, "idle", "subscribed") /\ Subscribe(p, "steps")

SubscribeLogs(p) == Goes(p, "subscribed", "following") /\ Subscribe(p, "logs")

\* The log so far is copied, and sent.
SnapshotSteps(p) ==
    /\ Goes(p, "following", "live")
    /\ shown' = [shown EXCEPT ![p] = ToSet(steps)]
    /\ UNCHANGED <<stateVars, open, channel, closed, lost, said, sends, ending, aim,
                   cancelled, down>>

\* The loop sends what a channel has.
Show(p) ==
    /\ at[p] = "live"
    /\ \E c \in open :
          /\ c[2] = p
          /\ channel[c] # <<>>
          /\ channel' = [channel EXCEPT ![c] = Tail(@)]
          /\ shown' = IF c[1] = "steps" THEN [shown EXCEPT ![p] = @ \cup {Head(channel[c])}]
                                        ELSE shown
    /\ UNCHANGED <<stateVars, open, closed, lost, at, said, sends, ending, aim, cancelled, down>>

Unsubscribe(p, kind) ==
    /\ open' = open \ {<<kind, p>>}
    /\ closed' = closed \cup {<<kind, p>>}
    /\ channel' = [channel EXCEPT ![<<kind, p>>] = <<>>]
    /\ shown' = [shown EXCEPT ![p] = {}]
    /\ lost' = [lost EXCEPT ![p] = {}]
    /\ UNCHANGED <<stateVars, said, sends, ending, aim, cancelled, down>>

\* The page is closed, and the handler's deferred calls unsubscribe it.
LeaveLogs(p) == Goes(p, "live", "leaving") /\ Unsubscribe(p, "logs")

LeaveSteps(p) == Goes(p, "leaving", "gone") /\ Unsubscribe(p, "steps")

PageStep(p) ==
    \/ SubscribeSteps(p) \/ SubscribeLogs(p) \/ SnapshotSteps(p) \/ Show(p)
    \/ LeaveLogs(p) \/ LeaveSteps(p)

-----------------------------------------------------------------------------

ConsoleNext ==
    /\ ~down
    /\ \/ \E r \in Runs : RunStep(r)
       \/ \E e \in Emitters : Send(e) \/ SendToClosed(e)
       \/ \E t \in Tails : EmitNodeLog(t)
       \/ \E s \in Stoppers : StopReads(s) \/ StopCancels(s)
       \/ \E o \in Operators : Act(o) \/ ActFailed(o)
       \/ \E p \in Pages : PageStep(p)

ConsoleSpec == ConsoleInit /\ [][ConsoleNext]_consoleVars

\* A started goroutine goes on.  Nobody has to start, stop, act or look.
RunGoesOn(r) ==
    /\ ~down
    /\ \/ Announce(r) \/ Go(r) \/ Return(r) \/ Clear(r) \/ LastWord(r)
       \/ Send(r) \/ SendToClosed(r)

FairConsoleSpec ==
    /\ ConsoleSpec
    /\ \A r \in Runs : WF_consoleVars(RunGoesOn(r))

-----------------------------------------------------------------------------
(* Correctness                                                             *)

\* Where a goroutine can stand.
Places ==
    {"idle", "aborted", "started", "announced", "running", "returned", "cleared", "done",
     "aimed", "acted", "warned", "subscribed", "following", "live", "leaving", "gone"}

ConsoleTypeOK ==
    /\ running \in BOOLEAN
    /\ current \in Nat
    /\ steps \in Seq((Runs \cup Operators) \X Nat)
    /\ open \subseteq Kinds \X Pages
    /\ channel \in [Kinds \X Pages -> Seq(Emitters \X Nat)]
    /\ at \in [Emitters \cup Stoppers \cup Pages -> Places]
    /\ said \in [Emitters -> Nat]
    /\ sends \in [Emitters -> SUBSET (Kinds \X Pages)]
    /\ ending \in [Runs -> Endings \cup {"none"}]
    /\ aim \in [Stoppers -> Nat]
    /\ shown \in [Pages -> SUBSET (Emitters \X Nat)]
    /\ lost \in [Pages -> SUBSET (Emitters \X Nat)]

\* The runs between the guard's going up and its coming down.
Underway == {r \in Runs : at[r] \in {"started", "announced", "running", "returned"}}

\* Scenarios run one at a time, under the guard, also where the operator stops one
\* and starts the next.
OneRunAtATime ==
    /\ Cardinality(Underway) <= 1
    /\ Underway # {} => running

\* The log is about the latest run: what an earlier one left in it can only be the
\* last words that it had still to say when the next was started.
LogIsOfLatestRun ==
    \A i \in 1..Len(steps) :
        LET e == steps[i][1] IN
        e \in Runs \ {current} => at[e] = "done" /\ steps[i][2] = said[e]

\* Only a run that was the latest when somebody asked for a stop is stopped, and not
\* the one that was started in its place.
StopsWhatItSaw ==
    \A r \in Runs : ending[r] = "stopped" => \E s \in Stoppers : aim[s] >= r

\* A page that follows the log has been sent every step in it, or will be, except
\* those that its channel had no room for, and those of a handler that another page's
\* leaving has aborted.
PageMissesNothing ==
    \A p \in Pages : at[p] = "live" /\ ~down =>
        \A i \in 1..Len(steps) :
            LET w == steps[i] IN
            \/ w \in shown[p] \cup ToSet(channel[<<"steps", p>>]) \cup lost[p]
            \/ w = Word(w[1]) /\ (<<"steps", p>> \in sends[w[1]] \/ at[w[1]] = "aborted")

\* The next scenario can be started some time, unless a page's leaving has aborted
\* the handler that was starting one, or has ended the process.
GuardComesDown ==
    running ~> (~running \/ down \/ \E r \in Runs : at[r] = "aborted")
=============================================================================
