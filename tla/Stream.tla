------------------------------- MODULE Stream -------------------------------
(***************************************************************************)
(* The stream of events that a node sends to each page that is open        *)
(* (pkg/ui/server.go, handleStream).  The handler of a connection first    *)
(* subscribes, then copies the ring and sends the copy, and from then on   *)
(* sends what its channel receives, until the page is closed.  Events are  *)
(* published all the while.                                                *)
(***************************************************************************)
EXTENDS Recorder

VARIABLES
    at,         \* where the handler of each reader's connection stands
    snapshot,   \* the copy of the ring that it is about to send
    sent,       \* what it has sent on this connection
    since,      \* the last event before it subscribed
    seam,       \* the last event when it copied the ring
    lost        \* the events that found its channel full

streamVars == <<recorderVars, at, snapshot, sent, since, seam, lost>>

StreamInit ==
    /\ RecorderInit
    /\ at = [r \in Readers |-> "closed"]
    /\ snapshot = [r \in Readers |-> <<>>]
    /\ sent = [r \in Readers |-> <<>>]
    /\ since = [r \in Readers |-> 0]
    /\ seam = [r \in Readers |-> 0]
    /\ lost = [r \in Readers |-> {}]

\* A page is opened.
Open(r) ==
    /\ at[r] = "closed"
    /\ at' = [at EXCEPT ![r] = "subscribed"]
    /\ Subscribe(r)
    /\ since' = [since EXCEPT ![r] = next]
    /\ UNCHANGED <<snapshot, sent, seam, lost>>

CopyRing(r) ==
    /\ at[r] = "subscribed"
    /\ at' = [at EXCEPT ![r] = "copied"]
    /\ snapshot' = [snapshot EXCEPT ![r] = ring]
    /\ seam' = [seam EXCEPT ![r] = next]
    /\ UNCHANGED <<recorderVars, sent, since, lost>>

\* A handler that drops what waits in its channel by then, to send nothing twice.
SendSnapshotOnly(r) ==
    /\ at[r] = "copied"
    /\ at' = [at EXCEPT ![r] = "live"]
    /\ sent' = [sent EXCEPT ![r] = snapshot[r]]
    /\ subs' = [subs EXCEPT ![r] = <<>>]
    /\ UNCHANGED <<ring, next, snapshot, since, seam, lost>>

SendSnapshot(r) ==
    /\ at[r] = "copied"
    /\ at' = [at EXCEPT ![r] = "live"]
    /\ sent' = [sent EXCEPT ![r] = snapshot[r]]
    /\ UNCHANGED <<recorderVars, snapshot, since, seam, lost>>

SendNext(r) ==
    /\ at[r] = "live"
    /\ Receive(r)
    /\ sent' = [sent EXCEPT ![r] = Append(@, Head(subs[r]))]
    /\ UNCHANGED <<at, snapshot, since, seam, lost>>

\* The request's context is done, which only the loop looks at.
Close(r) ==
    /\ at[r] = "live"
    /\ at' = [at EXCEPT ![r] = "closed"]
    /\ Unsubscribe(r)
    /\ snapshot' = [snapshot EXCEPT ![r] = <<>>]
    /\ sent' = [sent EXCEPT ![r] = <<>>]
    /\ since' = [since EXCEPT ![r] = 0]
    /\ seam' = [seam EXCEPT ![r] = 0]
    /\ lost' = [lost EXCEPT ![r] = {}]

\* The node logs something.
Log ==
    /\ Publish
    /\ lost' = [r \in Readers |->
                  IF r \in DOMAIN subs /\ Len(subs[r]) = Buffer
                  THEN lost[r] \cup {next + 1} ELSE lost[r]]
    /\ UNCHANGED <<at, snapshot, sent, since, seam>>

StreamNext ==
    \/ Log
    \/ \E r \in Readers :
          Open(r) \/ CopyRing(r) \/ SendSnapshot(r) \/ SendNext(r) \/ Close(r)

StreamSpec == StreamInit /\ [][StreamNext]_streamVars

-----------------------------------------------------------------------------
(* Correctness                                                             *)

Elements(s) == {s[i] : i \in 1..Len(s)}

\* A page that is open misses no event from the oldest it was sent on, also not
\* one of those logged while the connection was set up, but for those that found
\* its channel full.
NothingMissed ==
    \A r \in Readers : at[r] = "live" =>
        \A e \in 1..next :
            \/ e \in Elements(sent[r]) \cup Elements(subs[r]) \cup lost[r]
            \/ e <= since[r] /\ \A s \in Elements(sent[r]) : e < s

\* An event is sent twice, or after a later one, only if it was logged between
\* the subscription and the copy of the ring.
RepeatsOnlyAtSeam ==
    \A r \in Readers :
        \A i, j \in 1..Len(sent[r]) :
            i < j /\ sent[r][j] <= sent[r][i] => sent[r][j] \in (since[r] + 1)..seam[r]
=============================================================================
