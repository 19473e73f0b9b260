------------------------------- MODULE Process -------------------------------
(***************************************************************************)
(* The process of a node (cmd/node/cli.go): its main goroutine starts the  *)
(* node and ends it when a signal comes, the web page's handlers operate   *)
(* it meanwhile, and so do the chaos loops, which Node.SetChaos starts and *)
(* cancels.  Each of them is a caller of module Node.                      *)
(*                                                                         *)
(* Requests for chaos come from the node's page, whose button toggles what *)
(* the page shows, and from the console's Client.SetChaos, which looks at  *)
(* a snapshot first and toggles if there is a difference.  Either may have *)
(* looked long ago: a request may arrive here whatever chaos is by then.   *)
(***************************************************************************)
EXTENDS Node, FiniteSets

CONSTANTS
    Main,       \* the main goroutine
    Loops,      \* the chaos loops, each started once: a bound
    MaxActs,    \* how many operations and requests for chaos there are in all: a bound
    Handlers,   \* the goroutines of the page's other requests
    Askers,     \* requests that toggle chaos
    ChaosFlags, \* what --chaos may be
    Nobody      \* a nil cancel function

ASSUME ProcessAssumption ==
    /\ Callers = {Main} \cup Loops \cup Handlers
    /\ Main \notin Loops \cup Handlers
    /\ Loops \cap Handlers = {}
    /\ Nobody \notin Loops
    /\ ChaosFlags \subseteq BOOLEAN
    /\ MaxActs \in Nat

VARIABLES
    main,           \* where the main goroutine stands
    signalled,      \* whether SIGTERM or an interrupt has cancelled its context
    runCtx,         \* whether Node.runCtx is set to that context
    uiDown,         \* whether the page's server has been shut down
    bare,           \* the campaigns that were started before runCtx was set
    chaos,          \* Node.chaos
    chaosCancel,    \* whom Node.chaosCancel cancels
    loop,           \* what became of each chaos loop
    late,           \* how often it has killed or revived after its context was done
    asker,          \* where a request for chaos stands
    seen            \* what its handler has read

mainVars == <<main, signalled, runCtx, uiDown, bare>>
chaosVars == <<chaos, chaosCancel, loop, late>>
askVars == <<asker, seen>>

processVars == <<nodeVars, mainVars, chaosVars, askVars>>

ProcessInit ==
    /\ NodeInit
    /\ \E flag \in ChaosFlags : main = IF flag THEN "flags" ELSE "boot"
    /\ signalled = FALSE
    /\ runCtx = FALSE
    /\ uiDown = FALSE
    /\ bare = {}
    /\ chaos = FALSE
    /\ chaosCancel = Nobody
    /\ loop = [l \in Loops |-> [at |-> "unused", underRun |-> FALSE, cancelled |-> FALSE]]
    /\ late = [l \in Loops |-> 0]
    /\ asker = [a \in Askers |-> "idle"]
    /\ seen = [a \in Askers |-> FALSE]

\* The operations that main has still to begin, for which the bounds leave room.
Owed == CASE main \in {"flags", "boot"}  -> 2
          [] main \in {"starting", "up"} -> 1
          [] OTHER                       -> 0

Begins == begun + Owed + Cardinality({l \in Loops : loop[l].at = "woken"})

Asked == {a \in Askers : asker[a] # "idle"}

RoomToAct == Begins + Cardinality(Asked) < MaxActs

Room == Begins < MaxOps /\ RoomToAct

\* Who starts next.  They are all alike.
UnusedLoops == {l \in Loops : loop[l].at = "unused"}
NextLoop == CHOOSE l \in UnusedLoops : TRUE
NextAsker == CHOOSE a \in Askers \ Asked : TRUE

-----------------------------------------------------------------------------
(* Chaos                                                                   *)

\* A new loop, which is the one that chaosCancel cancels from now on.
StartsLoop(loops) ==
    /\ UnusedLoops # {}
    /\ chaosCancel' = NextLoop
    /\ loop' = [loops EXCEPT ![NextLoop] = [at |-> "waiting", underRun |-> runCtx,
                                            cancelled |-> FALSE]]

\* The loop there is gets cancelled.
CancelsLoop == [l \in Loops |-> [loop[l] EXCEPT !.cancelled = @ \/ l = chaosCancel]]

\* A SetChaos that takes it that there is no loop when chaos is to be on.
SetChaosAdds(on) ==
    /\ chaos' = on
    /\ IF on THEN StartsLoop(loop)
       ELSE chaosCancel' = Nobody /\ loop' = CancelsLoop
    /\ UNCHANGED <<nodeVars, mainVars, late>>

\* SetChaos: the loop there is gets cancelled, and a new one starts if chaos is on.
\* Its context is that of Run, or none if Run has not been called yet.
SetChaos(on) ==
    /\ chaos' = on
    /\ IF on THEN StartsLoop(CancelsLoop)
       ELSE chaosCancel' = Nobody /\ loop' = CancelsLoop
    /\ UNCHANGED <<nodeVars, mainVars, late>>

Done(l) == loop[l].cancelled \/ (loop[l].underRun /\ signalled)

LoopGoes(l, from, to) ==
    /\ loop[l].at = from
    /\ pc[l] = "idle"
    /\ loop' = [loop EXCEPT ![l].at = to]

\* The timer fires before the context is done ...
LoopWakes(l) ==
    /\ LoopGoes(l, "waiting", "woken")
    /\ ~Done(l)
    /\ Room
    /\ UNCHANGED <<nodeVars, mainVars, chaos, chaosCancel, late, askVars>>

\* ... and the loop kills the node or revives it, whatever the context is by now.
LoopActs(l) ==
    /\ LoopGoes(l, "woken", "waiting")
    /\ Begin(l, "chaos")
    /\ late' = [late EXCEPT ![l] = IF Done(l) THEN @ + 1 ELSE @]
    /\ UNCHANGED <<mainVars, chaos, chaosCancel, askVars>>

\* A loop that looks at its context only when it has killed the node.
LoopEndsDead(l) ==
    /\ LoopGoes(l, "waiting", "ended")
    /\ Done(l)
    /\ ~alive
    /\ UNCHANGED <<nodeVars, mainVars, chaos, chaosCancel, late, askVars>>

LoopEnds(l) ==
    /\ LoopGoes(l, "waiting", "ended")
    /\ Done(l)
    /\ UNCHANGED <<nodeVars, mainVars, chaos, chaosCancel, late, askVars>>

\* A request to toggle arrives, and handleChaosToggle takes a snapshot ...
Toggle(a) ==
    /\ asker[a] = "idle" /\ a = NextAsker
    /\ RoomToAct
    /\ ~uiDown
    /\ asker' = [asker EXCEPT ![a] = "read"]
    /\ seen' = [seen EXCEPT ![a] = chaos]
    /\ UNCHANGED <<nodeVars, mainVars, chaosVars>>

\* ... and sets the opposite.
ToggleSets(a) ==
    /\ asker[a] = "read"
    /\ SetChaos(~seen[a])
    /\ asker' = [asker EXCEPT ![a] = "done"]
    /\ seen' = [seen EXCEPT ![a] = FALSE]

-----------------------------------------------------------------------------
(* The main goroutine                                                      *)

\* --chaos is seen to before the node is run.
MainChaos ==
    /\ main = "flags"
    /\ main' = "boot"
    /\ StartsLoop(loop)
    /\ chaos' = TRUE
    /\ UNCHANGED <<nodeVars, signalled, runCtx, uiDown, bare, late, askVars>>

\* The page is served from here on.  Run sets runCtx, and revives the node.
MainRuns ==
    /\ main = "boot"
    /\ main' = "starting"
    /\ runCtx' = TRUE
    /\ Begin(Main, "revive")
    /\ UNCHANGED <<signalled, uiDown, bare, chaosVars, askVars>>

\* A step of its Revive, its TriggerCampaign or its Kill.
MainNodeStep ==
    /\ CallerStep(Main) \/ StoreFails(Main)
    /\ main' = IF pc[Main] = "install" THEN "up" ELSE main
    /\ UNCHANGED <<signalled, runCtx, uiDown, bare, chaosVars, askVars>>

\* Revive has returned an error, and so does Run: the process ends.
MainFails ==
    /\ main = "starting"
    /\ pc[Main] = "idle"
    /\ main' = "exited"
    /\ UNCHANGED <<nodeVars, signalled, runCtx, uiDown, bare, chaosVars, askVars>>

\* A Run that waits for the node to be alive before it lets go of it.
MainStopsAlive ==
    /\ main = "up"
    /\ signalled
    /\ alive
    /\ main' = "stopping"
    /\ Begin(Main, "kill")
    /\ UNCHANGED <<signalled, runCtx, uiDown, bare, chaosVars, askVars>>

\* The context is done, and the deferred Kill runs.
MainStops ==
    /\ main = "up"
    /\ signalled
    /\ main' = "stopping"
    /\ Begin(Main, "kill")
    /\ UNCHANGED <<signalled, runCtx, uiDown, bare, chaosVars, askVars>>

MainExits ==
    /\ main = "stopping"
    /\ pc[Main] = "idle"
    /\ main' = "exited"
    /\ UNCHANGED <<nodeVars, signalled, runCtx, uiDown, bare, chaosVars, askVars>>

MainStep == MainChaos \/ MainRuns \/ MainNodeStep \/ MainFails \/ MainStops \/ MainExits

Signal ==
    /\ ~signalled
    /\ signalled' = TRUE
    /\ UNCHANGED <<nodeVars, main, runCtx, uiDown, bare, chaosVars, askVars>>

\* The page's server is shut down, and takes no more requests.
ShutDownUI ==
    /\ signalled
    /\ ~uiDown
    /\ uiDown' = TRUE
    /\ UNCHANGED <<nodeVars, main, signalled, runCtx, bare, chaosVars, askVars>>

\* The signal reaches the context of a campaign, if it was started under Run's.
ContextEnds(k) ==
    /\ signalled
    /\ campaigns[k].at \notin {"unused", "done"}
    /\ k \notin bare
    /\ campaigns' = [campaigns EXCEPT ![k].cancelled = TRUE]
    /\ UNCHANGED <<fields, lock, file, port, resets, pc, victim, loaded, begun>>
    /\ UNCHANGED <<mainVars, chaosVars, askVars>>

-----------------------------------------------------------------------------

\* A request of the page's other buttons.
HandlerBegins(h) ==
    /\ main # "flags"
    /\ ~uiDown
    /\ Room
    /\ \E o \in Ops \ {"chaos"} : Begin(h, o)
    /\ UNCHANGED <<mainVars, chaosVars, askVars>>

\* Nothing but the node changes; a campaign that starts has the context there is.
Beside ==
    /\ bare' = IF runCtx THEN bare ELSE {k \in CampaignIds : campaigns'[k].at # "unused"}
    /\ UNCHANGED <<main, signalled, runCtx, uiDown, chaosVars, askVars>>

OtherNodeStep ==
    /\ \/ \E c \in Loops \cup Handlers : CallerStep(c) \/ StoreFails(c)
       \/ \E k \in CampaignIds : CampaignStep(k)
       \/ Serve
    /\ Beside

AskerStep(a) == main # "flags" /\ (Toggle(a) \/ ToggleSets(a))

ProcessNext ==
    /\ main # "exited"
    /\ \/ MainStep \/ Signal \/ ShutDownUI \/ OtherNodeStep
       \/ \E l \in Loops : LoopWakes(l) \/ LoopActs(l) \/ LoopEnds(l)
       \/ \E a \in Askers : AskerStep(a)
       \/ \E h \in Handlers : HandlerBegins(h)
       \/ \E k \in CampaignIds : ContextEnds(k)

ProcessSpec == ProcessInit /\ [][ProcessNext]_processVars

\* What one goroutine does next, while the process is there.
Goroutine(A) == main # "exited" /\ A

\* What a campaign has to do where it is not left to run.
CampaignOwes(k) == CampaignStops(k) \/ CampaignStores(k) \/ CampaignLeaves(k)

\* Goroutines are scheduled.  Nobody has to ask for anything, and no timer of a
\* chaos loop has to fire rather than its context's end be noticed.
FairProcessSpec ==
    /\ ProcessSpec
    /\ WF_processVars(Goroutine(MainStep))
    /\ \A h \in Handlers : WF_processVars(Goroutine(CallerStep(h) /\ Beside))
    /\ \A l \in Loops :
          WF_processVars(Goroutine(LoopActs(l) \/ LoopEnds(l) \/ (CallerStep(l) /\ Beside)))
    /\ \A k \in CampaignIds :
          WF_processVars(Goroutine(CampaignOwes(k) /\ Beside))

-----------------------------------------------------------------------------
(* Correctness                                                             *)

\* A chaos loop that runs is one that turning chaos off will cancel, and the page
\* shows chaos if there is one: toggles that overlap leave no loop on its own.
NoStrayLoop ==
    /\ \A l \in Loops :
          loop[l].at \in {"waiting", "woken"} /\ ~loop[l].cancelled => chaosCancel = l
    /\ chaos <=> chaosCancel # Nobody

\* A loop whose context is done kills or revives the node once more at most.
LateOnce == \A l \in Loops : late[l] <= 1

\* A loop that was cancelled ends, also in the middle of a kill or a revival.
LoopsEnd ==
    \A l \in Loops :
        (loop[l].at # "unused" /\ Done(l)) ~> (loop[l].at = "ended" \/ main = "exited")

\* Every operation returns, also one that finds the file locked or the address in use,
\* and so does every campaign that a kill or the signal has cancelled; unless the
\* process ends first.
OperationsEnd ==
    /\ \A c \in Callers : pc[c] # "idle" ~> (pc[c] = "idle" \/ main = "exited")
    /\ \A k \in CampaignIds :
          campaigns[k].cancelled ~> (campaigns[k].at = "done" \/ main = "exited")

\* The process ends when it is told to, whatever its other goroutines do to the node.
SignalEndsProcess == signalled ~> main = "exited"
=============================================================================
