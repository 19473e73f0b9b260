------------------------------ MODULE Recorder ------------------------------
(***************************************************************************)
(* The recorder of pkg/events/recorder.go: whatever a node logs is kept in *)
(* a ring of limited length, for pages that are opened and consoles that   *)
(* ask later, and is offered to the channel of each subscriber.  All of it *)
(* happens under one mutex, so each method is one step.                    *)
(*                                                                         *)
(* An event is here its sequence number, which publish gives it.           *)
(***************************************************************************)
EXTENDS Naturals, Sequences

CONSTANTS
    Limit,      \* how many events the ring keeps
    Buffer,     \* the capacity of a subscriber's channel
    Readers,    \* who may subscribe, each to one channel at a time
    MaxEvents   \* how many events are logged: a bound

ASSUME RecorderAssumption ==
    /\ Limit \in Nat \ {0}
    /\ Buffer \in Nat \ {0}
    /\ MaxEvents \in Nat

VARIABLES
    ring,   \* state.ring: the latest events, the oldest first
    next,   \* state.next: the number of the last event
    subs    \* state.subs: the subscribers' channels

recorderVars == <<ring, next, subs>>

RecorderInit ==
    /\ ring = <<>>
    /\ next = 0
    /\ subs = [r \in {} |-> <<>>]

-----------------------------------------------------------------------------
\* The send of publish: it does not wait for a channel that is full.
Offer(channel, e) == IF Len(channel) < Buffer THEN Append(channel, e) ELSE channel

\* A ring that overwrites its slots in turn and leaves the others in place.
KeepInPlace(e) ==
    IF Len(ring) = Limit THEN [ring EXCEPT ![((e - 1) % Limit) + 1] = e] ELSE Append(ring, e)

\* The ring with one more event: the oldest goes when it is full.
Keep(e) == IF Len(ring) = Limit THEN Append(Tail(ring), e) ELSE Append(ring, e)

Publish ==
    /\ next < MaxEvents
    /\ next' = next + 1
    /\ ring' = Keep(next + 1)
    /\ subs' = [r \in DOMAIN subs |-> Offer(subs[r], next + 1)]

Subscribe(r) ==
    /\ r \notin DOMAIN subs
    /\ subs' = [x \in DOMAIN subs \cup {r} |-> IF x = r THEN <<>> ELSE subs[x]]
    /\ UNCHANGED <<ring, next>>

Unsubscribe(r) ==
    /\ r \in DOMAIN subs
    /\ subs' = [x \in DOMAIN subs \ {r} |-> subs[x]]
    /\ UNCHANGED <<ring, next>>

\* A subscriber takes the first event from its channel.
Receive(r) ==
    /\ r \in DOMAIN subs
    /\ subs[r] # <<>>
    /\ subs' = [subs EXCEPT ![r] = Tail(@)]
    /\ UNCHANGED <<ring, next>>

\* The methods that only read.
Latest == next

\* A comparison that is off by one.
SinceNext(seq) ==
    LET out[i \in 0..Len(ring)] ==
            IF i = 0 THEN <<>>
            ELSE IF ring[i] > seq + 1 THEN Append(out[i - 1], ring[i]) ELSE out[i - 1]
    IN  out[Len(ring)]

\* The events of the ring after seq: out[i] is what was collected from the first i.
Since(seq) ==
    LET out[i \in 0..Len(ring)] ==
            IF i = 0 THEN <<>>
            ELSE IF ring[i] > seq THEN Append(out[i - 1], ring[i]) ELSE out[i - 1]
    IN  out[Len(ring)]

-----------------------------------------------------------------------------
(* What the recorder owes                                                  *)

\* The ring holds the latest events without a gap, in order, as many as it may.
RingHoldsLatest ==
    /\ Len(ring) = IF next < Limit THEN next ELSE Limit
    /\ \A i \in 1..Len(ring) : ring[i] = next - Len(ring) + i
=============================================================================
