-------------------------------- MODULE Tail --------------------------------
(***************************************************************************)
(* The console's tailer (pkg/console/tail.go) and the log of one node that *)
(* it follows.  Every half second it asks the node for the events since    *)
(* the last one it has seen; the node's handler (pkg/ui/server.go,         *)
(* handleEvents) reads the newest number and then the events, under the    *)
(* recorder's mutex each.  The node may restart at any point, with an      *)
(* empty recorder that counts from one, and any poll may fail.             *)
(***************************************************************************)
EXTENDS Recorder

CONSTANT MaxLives   \* how many lives the node's process has: a bound

VARIABLES
    life,       \* the life that the node's process is in
    published,  \* how many events it has logged in each life
    seen,       \* tailer.seen of this node
    at,         \* where the poll stands
    since,      \* the number that it asks with
    latest,     \* the newest number, as the handler has read it
    batch,      \* the events that are still to be emitted
    from,       \* the life that answers, or has answered
    told,       \* the last event that was emitted, with its life
    shown,      \* the events emitted of the life that told is from
    base        \* what the first of them was asked for with

tailVars == <<recorderVars, life, published, seen, at, since, latest, batch, from,
              told, shown, base>>

pollVars == <<seen, at, since, latest, batch, from, told, shown, base>>

TailInit ==
    /\ RecorderInit
    /\ life = 1
    /\ published = <<0>>
    /\ seen = 0
    /\ at = "waiting"
    /\ since = 0
    /\ latest = 0
    /\ batch = <<>>
    /\ from = 0
    /\ told = <<0, 0>>
    /\ shown = {}
    /\ base = 0

-----------------------------------------------------------------------------
(* The node                                                                *)

Log ==
    /\ Publish
    /\ published' = [published EXCEPT ![life] = @ + 1]
    /\ UNCHANGED <<life, pollVars>>

\* The process ends and a new one begins.
Restart ==
    /\ life < MaxLives
    /\ life' = life + 1
    /\ published' = Append(published, 0)
    /\ ring' = <<>>
    /\ next' = 0
    /\ subs' = [r \in {} |-> <<>>]
    /\ UNCHANGED pollVars

-----------------------------------------------------------------------------
(* A poll                                                                  *)

\* The ticker fires.
Ask ==
    /\ at = "waiting"
    /\ at' = "asked"
    /\ since' = seen
    /\ UNCHANGED <<recorderVars, life, published, seen, latest, batch, from, told, shown, base>>

\* The handler reads Latest ...
ReadLatest ==
    /\ at = "asked"
    /\ at' = "counted"
    /\ latest' = Latest
    /\ from' = life
    /\ UNCHANGED <<recorderVars, life, published, seen, since, batch, told, shown, base>>

\* ... and then the events, unless its process has ended.
ReadEvents ==
    /\ at = "counted"
    /\ from = life
    /\ at' = "answered"
    /\ batch' = Since(since)
    /\ UNCHANGED <<recorderVars, life, published, seen, since, latest, from, told, shown, base>>

\* EventsSince returns an error, and the tailer waits for the next tick.
PollFails ==
    /\ at \in {"asked", "counted", "answered"}
    /\ at' = "waiting"
    /\ batch' = <<>>
    /\ UNCHANGED <<recorderVars, life, published, seen, since, latest, from, told, shown, base>>

\* A tailer that waits until the node counts as much as before.
NoticeNothing ==
    /\ at = "answered"
    /\ latest < since
    /\ at' = "waiting"
    /\ batch' = <<>>
    /\ UNCHANGED <<recorderVars, life, published, seen, since, latest, from, told, shown, base>>

\* The node counts less than was seen of it: it has restarted.
NoticeRestart ==
    /\ at = "answered"
    /\ latest < since
    /\ seen' = 0
    /\ at' = "waiting"
    /\ batch' = <<>>
    /\ UNCHANGED <<recorderVars, life, published, since, latest, from, told, shown, base>>

Accept ==
    /\ at = "answered"
    /\ latest >= since
    /\ at' = IF batch = <<>> THEN "waiting" ELSE "emitting"
    /\ UNCHANGED <<recorderVars, life, published, seen, since, latest, batch, from,
                   told, shown, base>>

\* One event goes to the pages.  With the last of them, which has the highest
\* number, seen moves up to the newest number that the answer named.
EmitToLatest ==
    /\ at = "emitting"
    /\ told' = <<from, Head(batch)>>
    /\ shown' = (IF told[1] = from THEN shown ELSE {}) \cup {Head(batch)}
    /\ base' = IF told[1] = from THEN base ELSE since
    /\ batch' = Tail(batch)
    /\ IF Len(batch) = 1
       THEN seen' = latest /\ at' = "waiting"
       ELSE UNCHANGED <<seen, at>>
    /\ UNCHANGED <<recorderVars, life, published, since, latest, from>>

\* One event goes to the pages.  With the last of them, which has the highest
\* number, seen moves up.
Emit ==
    /\ at = "emitting"
    /\ told' = <<from, Head(batch)>>
    /\ shown' = (IF told[1] = from THEN shown ELSE {}) \cup {Head(batch)}
    /\ base' = IF told[1] = from THEN base ELSE since
    /\ batch' = Tail(batch)
    /\ IF Len(batch) = 1
       THEN seen' = Head(batch) /\ at' = "waiting"
       ELSE UNCHANGED <<seen, at>>
    /\ UNCHANGED <<recorderVars, life, published, since, latest, from>>

Answer == ReadEvents \/ Accept \/ NoticeRestart

PollStep == Ask \/ ReadLatest \/ Answer \/ PollFails \/ Emit

TailNext == Log \/ Restart \/ PollStep

TailSpec == TailInit /\ [][TailNext]_tailVars

-----------------------------------------------------------------------------
(* Correctness                                                             *)

\* The tailer implements Feed, whatever polls fail and whenever the node restarts.
F == INSTANCE Feed

ImplementsFeed == F!FeedSpec

\* Up to where the tailer has come in the node's present life, everything the
\* ring still holds was emitted, except what lies below the number that a restart
\* made it begin with.
RingIsTold ==
    told[1] = life =>
        \A i \in 1..Len(ring) : ring[i] <= told[2] => ring[i] \in shown \/ ring[i] <= base

\* The tailer cannot tell a node that has restarted, and has logged exactly as
\* much as was seen of it before, from one that has logged nothing since.
Overlooked == told[1] < life /\ seen = next

\* Once the node logs no more the tailer gets to its last event, unless it
\* overlooks a restart.
TailCatchesUp == <>[](next = 0 \/ told = <<life, next>> \/ Overlooked)
=============================================================================
