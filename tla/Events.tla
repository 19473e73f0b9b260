------------------------------- MODULE Events -------------------------------
(***************************************************************************)
(* All that goes on about a node's recorder: its web page streams events   *)
(* (module Stream) while the console's tailer polls for them (module Tail),*)
(* and the node's process may end and begin again, which breaks every      *)
(* connection; a page then connects again by itself.                       *)
(***************************************************************************)
EXTENDS Stream

CONSTANT MaxLives   \* how many lives the node's process has: a bound

ASSUME EventsAssumption == MaxLives \in Nat \ {0}

VARIABLES
    life, published,                        \* the node's process, as in Tail
    seen, poll, asked, latest, batch, from, \* the tailer, where poll and asked are
                                            \* Tail's at and since
    told, shown, base                       \* what it has told

T == INSTANCE Tail WITH at <- poll, since <- asked

pageVars == <<at, snapshot, sent, since, seam, lost>>

tailerVars == <<seen, poll, asked, latest, batch, from, told, shown, base>>

eventsVars == <<recorderVars, pageVars, life, published, tailerVars>>

EventsInit == StreamInit /\ T!TailInit

LogsEvent == Log /\ T!Log

\* Every page's handler ends with the process.
Restarts ==
    /\ T!Restart
    /\ at' = [r \in Readers |-> "closed"]
    /\ snapshot' = [r \in Readers |-> <<>>]
    /\ sent' = [r \in Readers |-> <<>>]
    /\ since' = [r \in Readers |-> 0]
    /\ seam' = [r \in Readers |-> 0]
    /\ lost' = [r \in Readers |-> {}]

PageStep(r) ==
    /\ Open(r) \/ CopyRing(r) \/ SendSnapshot(r) \/ SendNext(r) \/ Close(r)
    /\ UNCHANGED <<life, published, tailerVars>>

Polls(step) == step /\ UNCHANGED pageVars

EventsNext ==
    \/ LogsEvent
    \/ Restarts
    \/ \E r \in Readers : PageStep(r)
    \/ Polls(T!PollStep)

EventsSpec == EventsInit /\ [][EventsNext]_eventsVars

\* The ticker fires, a request is answered or times out, and not every answer of a
\* node that runs is lost.  Nothing needs to be logged, and no page to be opened.
FairEventsSpec ==
    /\ EventsSpec
    /\ WF_eventsVars(Polls(T!PollStep))
    /\ SF_eventsVars(Polls(T!ReadLatest))
    /\ SF_eventsVars(Polls(T!ReadEvents))
    /\ SF_eventsVars(Polls(T!Accept \/ T!NoticeRestart))

-----------------------------------------------------------------------------
(* Correctness, beside that of Stream                                      *)

\* The tailer implements Feed, whatever polls fail and whenever the node restarts.
ImplementsFeed == T!F!FeedSpec

\* Up to where the tailer has come in the node's present life, it has told all that
\* the ring still holds and that a restart has not made it begin above.
RingIsTold == T!RingIsTold

\* Once the node logs no more the tailer gets to its last event, unless it overlooks
\* a restart.
TailCatchesUp == T!TailCatchesUp
=============================================================================
