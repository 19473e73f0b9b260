---------------------------- MODULE EventsProofs ----------------------------
(***************************************************************************)
(* A page that is opened on a node misses nothing but what its channel has *)
(* no room for, and is told nothing twice but what is logged while it is   *)
(* opened.  The console's tailer passes over nothing that the ring still   *)
(* holds, and shows the events in their order and none twice, whatever     *)
(* polls fail and however often the node restarts: for any length of the   *)
(* ring, any capacity and any number of pages, events and lives.           *)
(***************************************************************************)
EXTENDS Events, SequenceTheorems, WellFoundedInduction, TLAPS

-----------------------------------------------------------------------------
(* Sequences of numbers                                                    *)

\* The numbers of a sequence go up.
Ascends(s) == \A i, j \in 1..Len(s) : i < j => s[i] < s[j]

LEMMA AppendNumber ==
    ASSUME NEW s \in Seq(Nat), NEW e \in Nat
    PROVE  /\ Append(s, e) \in Seq(Nat)
           /\ Elements(Append(s, e)) = Elements(s) \cup {e}
           /\ \A i \in 1..Len(Append(s, e)) :
                 \/ i \in 1..Len(s) /\ Append(s, e)[i] = s[i]
                 \/ i = Len(s) + 1 /\ Append(s, e)[i] = e
<1>1. /\ Append(s, e) \in Seq(Nat) /\ Len(s) \in Nat
      /\ Len(Append(s, e)) = Len(s) + 1
      /\ \A i \in 1..Len(s) : Append(s, e)[i] = s[i]
      /\ Append(s, e)[Len(s) + 1] = e
  BY AppendProperties, LenProperties
<1>2. \A i \in 1..Len(Append(s, e)) : i \in 1..Len(s) \/ i = Len(s) + 1
  BY <1>1
<1>3. 1..Len(s) \subseteq 1..Len(Append(s, e)) /\ Len(s) + 1 \in 1..Len(Append(s, e))
  BY <1>1
<1>4. Elements(Append(s, e)) \subseteq Elements(s) \cup {e}
  BY <1>1, <1>2 DEF Elements
<1>5. Elements(s) \cup {e} \subseteq Elements(Append(s, e))
  BY <1>1, <1>3 DEF Elements
<1> QED
  BY <1>1, <1>2, <1>4, <1>5

LEMMA TailOfNumbers ==
    ASSUME NEW s \in Seq(Nat), s # <<>>
    PROVE  /\ Tail(s) \in Seq(Nat) /\ Len(s) \in Nat /\ Len(s) >= 1
           /\ Head(s) \in Nat /\ Head(s) = s[1] /\ 1 \in 1..Len(s)
           /\ Len(Tail(s)) = Len(s) - 1
           /\ \A i \in 1..Len(Tail(s)) : i + 1 \in 1..Len(s) /\ Tail(s)[i] = s[i + 1]
           /\ Elements(s) \subseteq {Head(s)} \cup Elements(Tail(s))
<1>1. /\ Tail(s) \in Seq(Nat) /\ Head(s) \in Nat /\ Len(s) \in Nat
      /\ Len(Tail(s)) = Len(s) - 1
      /\ \A i \in 1..Len(Tail(s)) : Tail(s)[i] = s[i + 1]
  BY HeadTailProperties, LenProperties
<1>2. Len(s) # 0 /\ Head(s) = s[1]
  BY EmptySeq
<1>3. \A i \in 1..Len(s) : i = 1 \/ (i - 1 \in 1..Len(Tail(s)) /\ s[i] = Tail(s)[i - 1])
  BY <1>1
<1>4. Elements(s) \subseteq {Head(s)} \cup Elements(Tail(s))
  BY <1>2, <1>3 DEF Elements
<1> QED
  BY <1>1, <1>2, <1>4

-----------------------------------------------------------------------------
(* The invariant                                                           *)

StreamTypeOK ==
    /\ ring \in Seq(Nat) /\ next \in Nat
    /\ at \in [Readers -> {"closed", "subscribed", "copied", "live"}]
    /\ DOMAIN subs = {r \in Readers : at[r] # "closed"}
    /\ \A r \in DOMAIN subs : subs[r] \in Seq(Nat) /\ Len(subs[r]) <= Buffer
    /\ snapshot \in [Readers -> Seq(Nat)]
    /\ sent \in [Readers -> Seq(Nat)]
    /\ since \in [Readers -> Nat]
    /\ seam \in [Readers -> Nat]
    /\ lost \in [Readers -> SUBSET Nat]

\* A channel holds events from after the subscription, in their order, and each of
\* those events is in it, was received, or was lost.
ChannelIsRight(r) ==
    /\ since[r] <= next
    /\ Ascends(subs[r])
    /\ \A e \in Elements(subs[r]) : since[r] < e /\ e <= next
    /\ \A e \in Nat : since[r] < e /\ e <= next =>
          e \in Elements(sent[r]) \cup Elements(subs[r]) \cup lost[r]

\* What a handler copies is the end of the log at that time.
CopyIsRight(r) ==
    /\ since[r] <= seam[r] /\ seam[r] <= next
    /\ Ascends(snapshot[r])
    /\ \A e \in Elements(snapshot[r]) : e <= seam[r]
    /\ \A e \in Nat : e <= seam[r] =>
          e \in Elements(snapshot[r]) \/ \A s \in Elements(snapshot[r]) : e < s

\* What it has sent begins with the copy, and goes on from the channel.
SentIsRight(r) ==
    /\ seam[r] <= next
    /\ \A s \in Elements(sent[r]) : s <= next
    /\ \A s \in Elements(sent[r]), e \in Elements(subs[r]) : s < e \/ s <= seam[r]
    /\ \A e \in Nat : e <= since[r] =>
          e \in Elements(sent[r]) \/ \A s \in Elements(sent[r]) : e < s
    /\ \A i, j \in 1..Len(sent[r]) :
          i < j /\ sent[r][j] <= sent[r][i] => since[r] < sent[r][j] /\ sent[r][j] <= seam[r]

StreamInv ==
    /\ StreamTypeOK
    /\ RingHoldsLatest
    /\ \A r \in Readers : at[r] # "closed" => ChannelIsRight(r)
    /\ \A r \in Readers : at[r] \in {"subscribed", "copied"} => sent[r] = <<>>
    /\ \A r \in Readers : at[r] = "closed" => lost[r] = {} /\ sent[r] = <<>>
    /\ \A r \in Readers : at[r] = "copied" => CopyIsRight(r)
    /\ \A r \in Readers : at[r] = "live" => SentIsRight(r)

LEMMA StreamInvInit == StreamInit => StreamInv
<1> SUFFICES ASSUME StreamInit PROVE StreamInv
  OBVIOUS
<1> USE DEF StreamInit, RecorderInit
<1>1. <<>> \in Seq(Nat) /\ Len(<<>>) = 0
  BY EmptySeq
<1>2. \A r \in Readers : at[r] = "closed" /\ sent[r] = <<>> /\ lost[r] = {}
  OBVIOUS
<1>3. StreamTypeOK
  <2>1. at \in [Readers -> {"closed", "subscribed", "copied", "live"}]
    OBVIOUS
  <2>2. DOMAIN subs = {r \in Readers : at[r] # "closed"} /\ DOMAIN subs = {}
    OBVIOUS
  <2>3. snapshot \in [Readers -> Seq(Nat)] /\ sent \in [Readers -> Seq(Nat)]
    BY <1>1
  <2>4. since \in [Readers -> Nat] /\ seam \in [Readers -> Nat]
    OBVIOUS
  <2>5. lost \in [Readers -> SUBSET Nat]
    OBVIOUS
  <2> QED
    BY <1>1, <2>1, <2>2, <2>3, <2>4, <2>5 DEF StreamTypeOK
<1>4. RingHoldsLatest
  BY <1>1, RecorderAssumption DEF RingHoldsLatest
<1> QED
  BY <1>2, <1>3, <1>4 DEF StreamInv

-----------------------------------------------------------------------------
(* An event is logged                                                      *)

\* The recorder keeps the latest events, whatever the ring's length.
LEMMA PublishKeepsRing ==
    ASSUME ring \in Seq(Nat), next \in Nat, RingHoldsLatest,
           ring' = Keep(next + 1), next' = next + 1
    PROVE  ring' \in Seq(Nat) /\ RingHoldsLatest'
<1>1. Len(ring) \in Nat /\ Limit \in Nat /\ Limit >= 1
  BY RecorderAssumption, LenProperties
<1>2. /\ Len(ring) = IF next < Limit THEN next ELSE Limit
      /\ \A i \in 1..Len(ring) : ring[i] = next - Len(ring) + i
  BY DEF RingHoldsLatest
<1>3. CASE Len(ring) = Limit
  <2>1. ring # <<>> /\ next >= Limit
    BY <1>1, <1>2, <1>3, EmptySeq
  <2>2. /\ Tail(ring) \in Seq(Nat) /\ Len(Tail(ring)) = Limit - 1
        /\ \A i \in 1..(Limit - 1) : i + 1 \in 1..Limit /\ Tail(ring)[i] = ring[i + 1]
    BY <1>3, <2>1, TailOfNumbers
  <2>3. /\ ring' = Append(Tail(ring), next + 1)
        /\ ring' \in Seq(Nat) /\ Len(ring') = Limit
        /\ \A i \in 1..(Limit - 1) : ring'[i] = Tail(ring)[i]
        /\ ring'[Limit] = next + 1
    BY <1>1, <1>3, <2>2, AppendProperties DEF Keep
  <2>4. \A i \in 1..Limit : i \in 1..(Limit - 1) \/ i = Limit
    BY <1>1
  <2>5. \A i \in 1..Limit : ring[i] = next - Limit + i
    BY <1>2, <1>3
  <2>6. ASSUME NEW i \in 1..Limit PROVE ring'[i] = next + 1 - Limit + i
    <3>1. CASE i = Limit
      BY <1>1, <2>3, <3>1
    <3>2. CASE i \in 1..(Limit - 1)
      <4>1. ring'[i] = ring[i + 1] /\ i + 1 \in 1..Limit
        BY <2>2, <2>3, <3>2
      <4> QED
        BY <1>1, <2>5, <4>1
    <3> QED
      BY <2>4, <3>1, <3>2
  <2>7. Len(ring') = IF next' < Limit THEN next' ELSE Limit
    BY <1>1, <2>1, <2>3
  <2>8. \A i \in 1..Limit : ring'[i] = next' - Limit + i
    BY <1>1, <2>6
  <2>9. \A i \in 1..Len(ring') : ring'[i] = next' - Len(ring') + i
    BY <2>3, <2>8
  <2> QED
    BY <2>3, <2>7, <2>9 DEF RingHoldsLatest
<1>4. CASE Len(ring) # Limit
  <2>1. Len(ring) = next /\ next < Limit
    BY <1>2, <1>4
  <2>2. /\ ring' = Append(ring, next + 1)
        /\ ring' \in Seq(Nat) /\ Len(ring') = next + 1
        /\ \A i \in 1..next : ring'[i] = ring[i]
        /\ ring'[next + 1] = next + 1
    BY <1>4, <2>1, AppendProperties DEF Keep
  <2>3. \A i \in 1..(next + 1) : i \in 1..next \/ i = next + 1
    OBVIOUS
  <2>4. \A i \in 1..next : ring[i] = i
    BY <1>2, <2>1
  <2>5. ASSUME NEW i \in 1..(next + 1) PROVE ring'[i] = i
    BY <2>2, <2>3, <2>4
  <2>6. Len(ring') = IF next' < Limit THEN next' ELSE Limit
    BY <1>1, <2>1, <2>2
  <2>7. \A i \in 1..Len(ring') : ring'[i] = next' - Len(ring') + i
    BY <2>2, <2>5
  <2> QED
    BY <2>2, <2>6, <2>7 DEF RingHoldsLatest
<1> QED
  BY <1>3, <1>4

\* The ring is a copy of the end of the log.
LEMMA RingIsEndOfLog ==
    ASSUME ring \in Seq(Nat), next \in Nat, RingHoldsLatest
    PROVE  /\ Ascends(ring)
           /\ \A e \in Elements(ring) : e <= next
           /\ \A e \in Nat : e <= next =>
                 e \in Elements(ring) \/ \A s \in Elements(ring) : e < s
<1>1. /\ Len(ring) \in Nat /\ Len(ring) <= next
      /\ \A i \in 1..Len(ring) : ring[i] = next - Len(ring) + i
  BY LenProperties, RecorderAssumption DEF RingHoldsLatest
<1>2. Ascends(ring)
  BY <1>1 DEF Ascends
<1>3. \A e \in Elements(ring) : e <= next /\ e > next - Len(ring)
  BY <1>1 DEF Elements
<1>4. ASSUME NEW e \in Nat, e <= next, e > next - Len(ring) PROVE e \in Elements(ring)
  <2>1. e - (next - Len(ring)) \in 1..Len(ring)
    BY <1>1, <1>4
  <2>2. ring[e - (next - Len(ring))] = e
    BY <1>1, <2>1
  <2> QED
    BY <2>1, <2>2 DEF Elements
<1>5. \A s \in Elements(ring) : s \in Nat
  BY <1>1, ElementOfSeq DEF Elements
<1>6. ASSUME NEW e \in Nat, e <= next PROVE e \in Elements(ring) \/ \A s \in Elements(ring) : e < s
  <2>1. CASE e > next - Len(ring)
    BY <1>4, <1>6, <2>1
  <2>2. CASE e <= next - Len(ring)
    BY <1>1, <1>3, <1>5, <2>2
  <2> QED
    BY <1>1, <2>1, <2>2
<1> QED
  BY <1>2, <1>3, <1>6

LEMMA LogKeepsInv ==
    ASSUME StreamInv, Log
    PROVE  StreamInv'
<1>1. /\ StreamTypeOK /\ RingHoldsLatest
      /\ next' = next + 1 /\ next \in Nat /\ ring' = Keep(next + 1)
      /\ UNCHANGED <<at, snapshot, sent, since, seam>>
      /\ DOMAIN subs' = DOMAIN subs
      /\ \A r \in DOMAIN subs : subs'[r] = Offer(subs[r], next + 1)
      /\ lost' = [r \in Readers |->
                     IF r \in DOMAIN subs /\ Len(subs[r]) = Buffer
                     THEN lost[r] \cup {next + 1} ELSE lost[r]]
  BY DEF StreamInv, StreamTypeOK, Log, Publish
<1>2. ring' \in Seq(Nat) /\ RingHoldsLatest'
  BY <1>1, PublishKeepsRing DEF StreamTypeOK
<1>3. ASSUME NEW r \in Readers, at[r] # "closed"
      PROVE  /\ r \in DOMAIN subs /\ subs[r] \in Seq(Nat) /\ subs'[r] \in Seq(Nat)
             /\ Len(subs'[r]) <= Buffer
             /\ lost[r] \subseteq lost'[r]
             /\ \/ subs'[r] = subs[r] /\ next + 1 \in lost'[r]
                \/ /\ subs'[r] = Append(subs[r], next + 1)
                   /\ Elements(subs'[r]) = Elements(subs[r]) \cup {next + 1}
  <2>1. /\ r \in DOMAIN subs /\ subs[r] \in Seq(Nat) /\ Len(subs[r]) <= Buffer
        /\ Len(subs[r]) \in Nat /\ Buffer \in Nat
    BY <1>1, <1>3, LenProperties, RecorderAssumption DEF StreamTypeOK
  <2>2. lost[r] \subseteq lost'[r]
    BY <1>1
  <2>3. CASE Len(subs[r]) < Buffer
    <3>1. subs'[r] = Append(subs[r], next + 1)
      BY <1>1, <2>1, <2>3 DEF Offer
    <3>4. next + 1 \in Nat
      BY <1>1
    <3>2. /\ subs'[r] \in Seq(Nat) /\ Len(subs'[r]) = Len(subs[r]) + 1
          /\ Elements(subs'[r]) = Elements(subs[r]) \cup {next + 1}
      BY <2>1, <3>1, <3>4, AppendProperties, AppendNumber
    <3>3. Len(subs'[r]) <= Buffer
      BY <2>1, <2>3, <3>2
    <3> QED
      BY <2>1, <2>2, <3>1, <3>2, <3>3
  <2>4. CASE Len(subs[r]) = Buffer
    <3>1. subs'[r] = subs[r]
      BY <1>1, <2>1, <2>4 DEF Offer
    <3>2. next + 1 \in lost'[r]
      BY <1>1, <2>1, <2>4
    <3> QED
      BY <2>1, <2>2, <3>1, <3>2
  <2> QED
    BY <2>1, <2>3, <2>4
<1>4. lost' \in [Readers -> SUBSET Nat]
  BY <1>1 DEF StreamTypeOK
<1>5. StreamTypeOK'
  <2>1. DOMAIN subs' = {r \in Readers : at'[r] # "closed"}
    BY <1>1 DEF StreamTypeOK
  <2>2. \A r \in DOMAIN subs' : subs'[r] \in Seq(Nat) /\ Len(subs'[r]) <= Buffer
    BY <1>1, <1>3, <2>1
  <2> QED
    BY <1>1, <1>2, <1>4, <2>1, <2>2 DEF StreamTypeOK
<1>6. ASSUME NEW r \in Readers, at[r] # "closed" PROVE ChannelIsRight(r)'
  <2>1. ChannelIsRight(r) /\ since[r] \in Nat
    BY <1>1, <1>6 DEF StreamInv, StreamTypeOK
  <2>2. \A e \in Elements(subs[r]) : e \in Nat /\ e <= next /\ since[r] < e
    BY <1>3, <1>6, <2>1, ElementOfSeq DEF ChannelIsRight, Elements
  <2>7. /\ Elements(subs[r]) \subseteq Elements(subs'[r])
        /\ \A e \in Elements(subs'[r]) : e \in Elements(subs[r]) \/ e = next + 1
    <3>1. CASE subs'[r] = subs[r]
      BY <3>1
    <3>2. CASE Elements(subs'[r]) = Elements(subs[r]) \cup {next + 1}
      BY <3>2
    <3> QED
      BY <1>3, <1>6, <3>1, <3>2
  <2>3. \A e \in Elements(subs'[r]) : since[r] < e /\ e <= next + 1
    <3>1. since[r] <= next
      BY <2>1 DEF ChannelIsRight
    <3> QED
      BY <1>1, <2>1, <2>2, <2>7, <3>1
  <2>4. Ascends(subs'[r])
    <3>1. CASE subs'[r] = Append(subs[r], next + 1)
      <4>1. \A i \in 1..Len(subs'[r]) :
               \/ i \in 1..Len(subs[r]) /\ subs'[r][i] = subs[r][i]
               \/ i = Len(subs[r]) + 1 /\ subs'[r][i] = next + 1
        BY <1>1, <1>3, <1>6, <3>1, AppendNumber
      <4>2. \A i \in 1..Len(subs[r]) : subs[r][i] \in Nat /\ subs[r][i] <= next
        BY <2>2 DEF Elements
      <4>3. Len(subs[r]) \in Nat
        BY <1>3, <1>6, LenProperties
      <4> QED
        BY <1>1, <2>1, <4>1, <4>2, <4>3 DEF Ascends, ChannelIsRight
    <3> QED
      BY <1>3, <1>6, <2>1, <3>1 DEF ChannelIsRight
  <2>5. next + 1 \in Elements(subs'[r]) \/ next + 1 \in lost'[r]
    BY <1>3, <1>6
  <2>6. \A e \in Nat : since[r] < e /\ e <= next + 1 =>
           e \in Elements(sent[r]) \cup Elements(subs'[r]) \cup lost'[r]
    <3>1. \A e \in Nat : e <= next + 1 => e <= next \/ e = next + 1
      BY <1>1
    <3> QED
      BY <1>3, <1>6, <2>1, <2>5, <2>7, <3>1 DEF ChannelIsRight
  <2> QED
    BY <1>1, <2>1, <2>3, <2>4, <2>6 DEF ChannelIsRight
<1>7. ASSUME NEW r \in Readers, at[r] = "copied" PROVE CopyIsRight(r)'
  <2>1. CopyIsRight(r) /\ seam[r] \in Nat
    BY <1>1, <1>7 DEF StreamInv, StreamTypeOK
  <2> QED
    BY <1>1, <2>1 DEF CopyIsRight
<1>8. ASSUME NEW r \in Readers, at[r] = "live" PROVE SentIsRight(r)'
  <2>1. SentIsRight(r) /\ seam[r] \in Nat /\ sent[r] \in Seq(Nat)
    BY <1>1, <1>8 DEF StreamInv, StreamTypeOK
  <2>2. \A s \in Elements(sent[r]) : s \in Nat /\ s <= next
    BY <2>1, ElementOfSeq DEF SentIsRight, Elements
  <2>3. \A e \in Elements(subs'[r]) : e \in Elements(subs[r]) \/ e = next + 1
    BY <1>3, <1>8
  <2>4. \A s \in Elements(sent[r]), e \in Elements(subs'[r]) : s < e \/ s <= seam[r]
    BY <1>1, <2>1, <2>2, <2>3 DEF SentIsRight
  <2> QED
    BY <1>1, <2>1, <2>2, <2>4 DEF SentIsRight
<1> QED
  <2>1. \A r \in Readers : at[r] = "closed" => lost'[r] = {} /\ sent[r] = <<>>
    BY <1>1 DEF StreamInv, StreamTypeOK
  <2> QED
    BY <1>1, <1>2, <1>5, <1>6, <1>7, <1>8, <2>1 DEF StreamInv

-----------------------------------------------------------------------------
(* A page's handler goes on                                                *)

\* What has to hold of one reader.
ReaderIsRight(r) ==
    /\ at[r] # "closed" => ChannelIsRight(r)
    /\ at[r] \in {"subscribed", "copied"} => sent[r] = <<>>
    /\ at[r] = "closed" => lost[r] = {} /\ sent[r] = <<>>
    /\ at[r] = "copied" => CopyIsRight(r)
    /\ at[r] = "live" => SentIsRight(r)

\* A handler does nothing to the pages of others.
LEMMA OneReaderMoves ==
    ASSUME StreamInv, NEW r \in Readers, UNCHANGED <<ring, next>>, StreamTypeOK',
           \A q \in Readers : q # r =>
              /\ at'[q] = at[q] /\ snapshot'[q] = snapshot[q] /\ sent'[q] = sent[q]
              /\ since'[q] = since[q] /\ seam'[q] = seam[q] /\ lost'[q] = lost[q]
              /\ at[q] # "closed" => subs'[q] = subs[q],
           ReaderIsRight(r)'
    PROVE  StreamInv'
<1>1. ASSUME NEW q \in Readers, q # r PROVE ReaderIsRight(q)'
  <2>1. ReaderIsRight(q)
    BY DEF StreamInv, ReaderIsRight
  <2> QED
    BY <1>1, <2>1 DEF ReaderIsRight, ChannelIsRight, CopyIsRight, SentIsRight
<1>2. \A q \in Readers : ReaderIsRight(q)'
  BY <1>1
<1>3. RingHoldsLatest'
  BY DEF StreamInv, RingHoldsLatest
<1> QED
  BY <1>2, <1>3 DEF StreamInv, ReaderIsRight

LEMMA OpenKeepsInv ==
    ASSUME StreamInv, NEW r \in Readers, Open(r)
    PROVE  StreamInv'
<1>1. /\ StreamTypeOK /\ at[r] = "closed" /\ sent[r] = <<>>
      /\ UNCHANGED <<ring, next, snapshot, sent, seam, lost>>
      /\ at' = [at EXCEPT ![r] = "subscribed"]
      /\ since' = [since EXCEPT ![r] = next]
      /\ subs' = [x \in DOMAIN subs \cup {r} |-> IF x = r THEN <<>> ELSE subs[x]]
  BY DEF StreamInv, Open, Subscribe
<1>2. /\ <<>> \in Seq(Nat) /\ Len(<<>>) = 0 /\ Elements(<<>>) = {} /\ Ascends(<<>>)
      /\ 0 <= Buffer
  BY EmptySeq, RecorderAssumption DEF Elements, Ascends
<1>3. /\ DOMAIN subs' = DOMAIN subs \cup {r} /\ subs'[r] = <<>>
      /\ \A x \in DOMAIN subs : x # r => subs'[x] = subs[x]
  BY <1>1
<1>4. StreamTypeOK'
  <2>1. DOMAIN subs' = {x \in Readers : at'[x] # "closed"}
    BY <1>1, <1>3 DEF StreamTypeOK
  <2>2. \A x \in DOMAIN subs' : subs'[x] \in Seq(Nat) /\ Len(subs'[x]) <= Buffer
    BY <1>1, <1>2, <1>3 DEF StreamTypeOK
  <2>3. /\ at' \in [Readers -> {"closed", "subscribed", "copied", "live"}]
        /\ since' \in [Readers -> Nat]
    BY <1>1 DEF StreamTypeOK
  <2> QED
    BY <1>1, <2>1, <2>2, <2>3 DEF StreamTypeOK
<1>5. at'[r] = "subscribed" /\ since'[r] = next /\ next \in Nat
  BY <1>1 DEF StreamTypeOK
<1>6. ChannelIsRight(r)'
  BY <1>1, <1>2, <1>3, <1>5 DEF ChannelIsRight
<1>7. ReaderIsRight(r)'
  BY <1>1, <1>5, <1>6 DEF ReaderIsRight
<1>8. \A q \in Readers : q # r => at'[q] = at[q] /\ since'[q] = since[q]
  BY <1>1 DEF StreamTypeOK
<1>9. \A q \in Readers : q # r /\ at[q] # "closed" => subs'[q] = subs[q]
  BY <1>1, <1>3 DEF StreamTypeOK
<1> QED
  BY <1>1, <1>4, <1>7, <1>8, <1>9, OneReaderMoves

LEMMA CopyKeepsInv ==
    ASSUME StreamInv, NEW r \in Readers, CopyRing(r)
    PROVE  StreamInv'
<1>1. /\ StreamTypeOK /\ RingHoldsLatest /\ ReaderIsRight(r)
      /\ at[r] = "subscribed"
      /\ UNCHANGED <<ring, next, subs, sent, since, lost>>
      /\ at' = [at EXCEPT ![r] = "copied"]
      /\ snapshot' = [snapshot EXCEPT ![r] = ring]
      /\ seam' = [seam EXCEPT ![r] = next]
  BY DEF StreamInv, CopyRing, recorderVars, ReaderIsRight
<1>2. /\ at'[r] = "copied" /\ snapshot'[r] = ring /\ seam'[r] = next /\ next \in Nat
      /\ \A q \in Readers : q # r =>
            at'[q] = at[q] /\ snapshot'[q] = snapshot[q] /\ seam'[q] = seam[q]
  BY <1>1 DEF StreamTypeOK
<1>3. StreamTypeOK'
  <2>1. DOMAIN subs' = {x \in Readers : at'[x] # "closed"}
    BY <1>1, <1>2 DEF StreamTypeOK
  <2>2. at' \in [Readers -> {"closed", "subscribed", "copied", "live"}]
    BY <1>1 DEF StreamTypeOK
  <2>3. snapshot' \in [Readers -> Seq(Nat)] /\ seam' \in [Readers -> Nat]
    BY <1>1 DEF StreamTypeOK
  <2> QED
    BY <1>1, <2>1, <2>2, <2>3 DEF StreamTypeOK
<1>4. ChannelIsRight(r) /\ since[r] <= next
  BY <1>1 DEF ReaderIsRight, ChannelIsRight
<1>5. ChannelIsRight(r)'
  BY <1>1, <1>4 DEF ChannelIsRight
<1>6. CopyIsRight(r)'
  BY <1>1, <1>2, <1>4, RingIsEndOfLog DEF CopyIsRight, StreamTypeOK
<1>7. ReaderIsRight(r)'
  BY <1>1, <1>2, <1>5, <1>6 DEF ReaderIsRight
<1> QED
  BY <1>1, <1>2, <1>3, <1>7, OneReaderMoves

LEMMA SnapshotKeepsInv ==
    ASSUME StreamInv, NEW r \in Readers, SendSnapshot(r)
    PROVE  StreamInv'
<1>1. /\ StreamTypeOK /\ ReaderIsRight(r)
      /\ at[r] = "copied"
      /\ UNCHANGED <<ring, next, subs, snapshot, since, seam, lost>>
      /\ at' = [at EXCEPT ![r] = "live"]
      /\ sent' = [sent EXCEPT ![r] = snapshot[r]]
  BY DEF StreamInv, SendSnapshot, recorderVars, ReaderIsRight
<1>2. /\ at'[r] = "live" /\ sent'[r] = snapshot[r] /\ snapshot[r] \in Seq(Nat)
      /\ \A q \in Readers : q # r => at'[q] = at[q] /\ sent'[q] = sent[q]
      /\ next \in Nat /\ seam[r] \in Nat /\ since[r] \in Nat
  BY <1>1 DEF StreamTypeOK
<1>3. StreamTypeOK'
  <2>1. DOMAIN subs' = {x \in Readers : at'[x] # "closed"}
    BY <1>1, <1>2 DEF StreamTypeOK
  <2>2. at' \in [Readers -> {"closed", "subscribed", "copied", "live"}]
    BY <1>1 DEF StreamTypeOK
  <2>3. sent' \in [Readers -> Seq(Nat)]
    BY <1>1 DEF StreamTypeOK
  <2> QED
    BY <1>1, <2>1, <2>2, <2>3 DEF StreamTypeOK
<1>4. ChannelIsRight(r) /\ CopyIsRight(r) /\ Elements(sent[r]) = {}
  BY <1>1, EmptySeq DEF ReaderIsRight, Elements
<1>5. ChannelIsRight(r)'
  BY <1>1, <1>4 DEF ChannelIsRight
<1>6. SentIsRight(r)'
  <2>1. \A i \in 1..Len(snapshot[r]) : snapshot[r][i] \in Nat
    BY <1>2, ElementOfSeq
  <2>2. \A s \in Elements(snapshot[r]) : s \in Nat /\ s <= seam[r]
    BY <1>4, <2>1 DEF CopyIsRight, Elements
  <2>3. \A s \in Elements(snapshot[r]) : s <= next
    BY <1>2, <1>4, <2>2 DEF CopyIsRight
  <2>4. \A e \in Nat : e <= since[r] =>
           e \in Elements(snapshot[r]) \/ \A s \in Elements(snapshot[r]) : e < s
    <3>1. \A e \in Nat : e <= since[r] => e <= seam[r]
      BY <1>2, <1>4 DEF CopyIsRight
    <3> QED
      BY <1>4, <3>1 DEF CopyIsRight
  <2>5. \A i, j \in 1..Len(snapshot[r]) : i < j => ~(snapshot[r][j] <= snapshot[r][i])
    BY <1>4, <2>1 DEF CopyIsRight, Ascends
  <2>6. seam[r] <= next
    BY <1>4 DEF CopyIsRight
  <2> QED
    BY <1>1, <1>2, <2>2, <2>3, <2>4, <2>5, <2>6 DEF SentIsRight
<1>7. ReaderIsRight(r)'
  BY <1>2, <1>5, <1>6 DEF ReaderIsRight
<1> QED
  BY <1>1, <1>2, <1>3, <1>7, OneReaderMoves

LEMMA SendNextKeepsInv ==
    ASSUME StreamInv, NEW r \in Readers, SendNext(r)
    PROVE  StreamInv'
<1> DEFINE h == Head(subs[r])
<1>1. /\ StreamTypeOK /\ ReaderIsRight(r)
      /\ at[r] = "live" /\ r \in DOMAIN subs /\ subs[r] # <<>> /\ subs[r] \in Seq(Nat)
      /\ UNCHANGED <<ring, next, at, snapshot, since, seam, lost>>
      /\ subs' = [subs EXCEPT ![r] = Tail(@)]
      /\ sent' = [sent EXCEPT ![r] = Append(@, h)]
  BY DEF StreamInv, StreamTypeOK, SendNext, Receive, ReaderIsRight
<1>2. /\ ChannelIsRight(r) /\ SentIsRight(r) /\ sent[r] \in Seq(Nat)
      /\ since[r] \in Nat /\ seam[r] \in Nat /\ next \in Nat
  BY <1>1 DEF ReaderIsRight, StreamTypeOK
<1>3. /\ DOMAIN subs' = DOMAIN subs
      /\ subs'[r] = Tail(subs[r]) /\ sent'[r] = Append(sent[r], h)
      /\ \A q \in Readers : q # r => subs'[q] = subs[q] /\ sent'[q] = sent[q]
  BY <1>1 DEF StreamTypeOK
<1>4. /\ subs'[r] \in Seq(Nat) /\ h \in Nat /\ h = subs[r][1] /\ 1 \in 1..Len(subs[r])
      /\ Len(subs'[r]) = Len(subs[r]) - 1 /\ Len(subs[r]) \in Nat
      /\ \A i \in 1..Len(subs'[r]) : i + 1 \in 1..Len(subs[r]) /\ subs'[r][i] = subs[r][i + 1]
      /\ Elements(subs[r]) \subseteq {h} \cup Elements(subs'[r])
  BY <1>1, <1>3, TailOfNumbers
<1> HIDE DEF h
<1>5. /\ sent'[r] \in Seq(Nat)
      /\ Elements(sent'[r]) = Elements(sent[r]) \cup {h}
      /\ \A i \in 1..Len(sent'[r]) :
            \/ i \in 1..Len(sent[r]) /\ sent'[r][i] = sent[r][i]
            \/ i = Len(sent[r]) + 1 /\ sent'[r][i] = h
  BY <1>2, <1>3, <1>4, AppendNumber
<1>6. StreamTypeOK'
  <2>1. sent' \in [Readers -> Seq(Nat)]
    BY <1>1, <1>3, <1>5 DEF StreamTypeOK
  <2>2. \A q \in DOMAIN subs' : subs'[q] \in Seq(Nat) /\ Len(subs'[q]) <= Buffer
    <3>1. Len(subs'[r]) <= Buffer
      <4>1. Len(subs[r]) <= Buffer
        BY <1>1 DEF StreamTypeOK
      <4> QED
        BY <1>4, <4>1, RecorderAssumption
    <3> QED
      BY <1>1, <1>3, <1>4, <3>1 DEF StreamTypeOK
  <2> QED
    BY <1>1, <1>3, <2>1, <2>2 DEF StreamTypeOK
<1>7. h \in Elements(subs[r]) /\ since[r] < h /\ h <= next
  BY <1>2, <1>4 DEF ChannelIsRight, Elements
<1>8. /\ Elements(subs'[r]) \subseteq Elements(subs[r])
      /\ \A e \in Elements(subs'[r]) : h < e
  <2>1. ASSUME NEW i \in 1..Len(subs'[r])
        PROVE  subs'[r][i] \in Elements(subs[r]) /\ h < subs'[r][i]
    <3>0. 1 < i + 1
      <4>1. \A k \in Nat : \A j \in 1..k : 1 < j + 1
        OBVIOUS
      <4>2. Len(subs'[r]) \in Nat
        BY <1>4, LenProperties
      <4> QED
        BY <4>1, <4>2
    <3>1. i + 1 \in 1..Len(subs[r]) /\ subs'[r][i] = subs[r][i + 1] /\ 1 < i + 1
      <4>1. i + 1 \in 1..Len(subs[r]) /\ subs'[r][i] = subs[r][i + 1]
        BY <1>4, Zenon
      <4> QED
        BY <3>0, <4>1
    <3>2. subs[r][1] < subs[r][i + 1]
      BY <1>2, <1>4, <3>1 DEF ChannelIsRight, Ascends
    <3> QED
      BY <1>4, <3>1, <3>2 DEF Elements
  <2> QED
    BY <2>1 DEF Elements
<1>9. ChannelIsRight(r)'
  <2>1. Ascends(subs'[r])
    <3>1. \A i, j \in 1..Len(subs'[r]) : i < j => i + 1 < j + 1
      BY <1>4
    <3> QED
      BY <1>2, <1>4, <3>1 DEF ChannelIsRight, Ascends
  <2> QED
    BY <1>1, <1>2, <1>4, <1>5, <1>8, <2>1 DEF ChannelIsRight
<1>10. SentIsRight(r)'
  <2>1. \A i \in 1..Len(sent[r]) : sent[r][i] \in Nat /\ sent[r][i] \in Elements(sent[r])
    BY <1>2, ElementOfSeq DEF Elements
  <2>2. \A s \in Elements(sent'[r]) : s <= next
    BY <1>2, <1>5, <1>7 DEF SentIsRight
  <2>3. \A s \in Elements(sent'[r]), e \in Elements(subs'[r]) : s < e \/ s <= seam[r]
    BY <1>2, <1>5, <1>8 DEF SentIsRight
  <2>4. \A e \in Nat : e <= since[r] =>
           e \in Elements(sent'[r]) \/ \A s \in Elements(sent'[r]) : e < s
    <3>1. \A e \in Nat : e <= since[r] => e < h
      BY <1>2, <1>4, <1>7
    <3> QED
      BY <1>2, <1>5, <3>1 DEF SentIsRight
  <2>5. ASSUME NEW i \in 1..Len(sent'[r]), NEW j \in 1..Len(sent'[r]),
               i < j, sent'[r][j] <= sent'[r][i]
        PROVE  since[r] < sent'[r][j] /\ sent'[r][j] <= seam[r]
    <3>1. Len(sent[r]) \in Nat
      BY <1>2, LenProperties
    <3>2. i \in 1..Len(sent[r]) /\ sent'[r][i] = sent[r][i]
      <4>1. i # Len(sent[r]) + 1
        BY <1>5, <2>5, <3>1
      <4> QED
        BY <1>5, <4>1
    <3>3. CASE j \in 1..Len(sent[r]) /\ sent'[r][j] = sent[r][j]
      BY <1>2, <2>5, <3>2, <3>3 DEF SentIsRight
    <3>4. CASE sent'[r][j] = h
      <4>1. sent[r][i] < h \/ sent[r][i] <= seam[r]
        BY <1>2, <1>7, <2>1, <3>2 DEF SentIsRight
      <4>2. h <= sent[r][i]
        BY <2>5, <3>2, <3>4
      <4> QED
        BY <1>2, <1>4, <1>7, <2>1, <3>2, <3>4, <4>1, <4>2
    <3> QED
      BY <1>5, <3>3, <3>4
  <2>6. seam[r] <= next
    BY <1>2 DEF SentIsRight
  <2> QED
    BY <1>1, <2>2, <2>3, <2>4, <2>5, <2>6 DEF SentIsRight
<1>11. ReaderIsRight(r)'
  BY <1>1, <1>9, <1>10 DEF ReaderIsRight
<1> QED
  BY <1>1, <1>3, <1>6, <1>11, OneReaderMoves

LEMMA CloseKeepsInv ==
    ASSUME StreamInv, NEW r \in Readers, Close(r)
    PROVE  StreamInv'
<1>1. /\ StreamTypeOK /\ UNCHANGED <<ring, next>>
      /\ at' = [at EXCEPT ![r] = "closed"]
      /\ subs' = [x \in DOMAIN subs \ {r} |-> subs[x]]
      /\ snapshot' = [snapshot EXCEPT ![r] = <<>>]
      /\ sent' = [sent EXCEPT ![r] = <<>>]
      /\ since' = [since EXCEPT ![r] = 0]
      /\ seam' = [seam EXCEPT ![r] = 0]
      /\ lost' = [lost EXCEPT ![r] = {}]
  BY DEF StreamInv, Close, Unsubscribe
<1>2. <<>> \in Seq(Nat)
  BY EmptySeq
<1>3. StreamTypeOK'
  <2>1. /\ DOMAIN subs' = {x \in Readers : at'[x] # "closed"}
        /\ \A x \in DOMAIN subs' : x \in DOMAIN subs /\ subs'[x] = subs[x]
    BY <1>1 DEF StreamTypeOK
  <2>2. /\ at' \in [Readers -> {"closed", "subscribed", "copied", "live"}]
        /\ since' \in [Readers -> Nat] /\ seam' \in [Readers -> Nat]
    BY <1>1 DEF StreamTypeOK
  <2>3. snapshot' \in [Readers -> Seq(Nat)] /\ sent' \in [Readers -> Seq(Nat)]
    BY <1>1, <1>2 DEF StreamTypeOK
  <2>4. lost' \in [Readers -> SUBSET Nat]
    BY <1>1 DEF StreamTypeOK
  <2> QED
    BY <1>1, <2>1, <2>2, <2>3, <2>4 DEF StreamTypeOK
<1>4. at'[r] = "closed" /\ lost'[r] = {} /\ sent'[r] = <<>>
  BY <1>1 DEF StreamTypeOK
<1>5. \A q \in Readers : q # r =>
         /\ at'[q] = at[q] /\ snapshot'[q] = snapshot[q] /\ sent'[q] = sent[q]
         /\ since'[q] = since[q] /\ seam'[q] = seam[q] /\ lost'[q] = lost[q]
         /\ at[q] # "closed" => subs'[q] = subs[q]
  BY <1>1 DEF StreamTypeOK
<1>6. ReaderIsRight(r)'
  BY <1>4 DEF ReaderIsRight
<1> QED
  BY <1>1, <1>3, <1>5, <1>6, OneReaderMoves

-----------------------------------------------------------------------------
(* The theorem                                                             *)

LEMMA StreamInvSuffices == StreamInv => RingHoldsLatest /\ NothingMissed /\ RepeatsOnlyAtSeam
<1> SUFFICES ASSUME StreamInv
             PROVE  RingHoldsLatest /\ NothingMissed /\ RepeatsOnlyAtSeam
  OBVIOUS
<1>1. ASSUME NEW r \in Readers, at[r] = "live"
      PROVE  ChannelIsRight(r) /\ SentIsRight(r) /\ since[r] \in Nat /\ seam[r] \in Nat
             /\ next \in Nat /\ sent[r] \in Seq(Nat)
  BY <1>1 DEF StreamInv, StreamTypeOK
<1>2. NothingMissed
  <2>1. ASSUME NEW r \in Readers, at[r] = "live", NEW e \in 1..next
        PROVE  \/ e \in Elements(sent[r]) \cup Elements(subs[r]) \cup lost[r]
               \/ e <= since[r] /\ \A s \in Elements(sent[r]) : e < s
    <3>1. e \in Nat /\ e <= next
      BY <1>1, <2>1
    <3>2. CASE e <= since[r]
      BY <1>1, <2>1, <3>1, <3>2 DEF SentIsRight
    <3>3. CASE since[r] < e
      BY <1>1, <2>1, <3>1, <3>3 DEF ChannelIsRight
    <3> QED
      BY <1>1, <2>1, <3>1, <3>2, <3>3
  <2> QED
    BY <2>1 DEF NothingMissed
<1>3. RepeatsOnlyAtSeam
  <2>1. ASSUME NEW r \in Readers, NEW i \in 1..Len(sent[r]), NEW j \in 1..Len(sent[r]),
               i < j, sent[r][j] <= sent[r][i]
        PROVE  sent[r][j] \in (since[r] + 1)..seam[r]
    <3>1. at[r] = "live"
      <4>1. at[r] # "live" => sent[r] = <<>>
        BY DEF StreamInv, StreamTypeOK
      <4> QED
        BY <2>1, <4>1, EmptySeq
    <3>2. since[r] < sent[r][j] /\ sent[r][j] <= seam[r] /\ sent[r][j] \in Nat
      BY <1>1, <2>1, <3>1, ElementOfSeq DEF SentIsRight
    <3> QED
      BY <1>1, <3>1, <3>2
  <2> QED
    BY <2>1 DEF RepeatsOnlyAtSeam
<1> QED
  BY <1>2, <1>3 DEF StreamInv

\* A page that is open on a node misses no event from the oldest it was sent on but
\* what its channel has no room for, and gets none twice but those logged while it
\* was opened, since the ring holds the end of the log at any time.
THEOREM StreamIsRight ==
    StreamSpec => [](RingHoldsLatest /\ NothingMissed /\ RepeatsOnlyAtSeam)
<1>1. StreamInv /\ [StreamNext]_streamVars => StreamInv'
  <2> SUFFICES ASSUME StreamInv, [StreamNext]_streamVars PROVE StreamInv'
    OBVIOUS
  <2>1. CASE UNCHANGED streamVars
    BY <2>1 DEF streamVars, recorderVars, StreamInv, StreamTypeOK, RingHoldsLatest,
                ChannelIsRight, CopyIsRight, SentIsRight
  <2> QED
    BY <2>1, LogKeepsInv, OpenKeepsInv, CopyKeepsInv, SnapshotKeepsInv, SendNextKeepsInv,
       CloseKeepsInv DEF StreamNext
<1> QED
  BY StreamInvInit, <1>1, StreamInvSuffices, PTL DEF StreamSpec

-----------------------------------------------------------------------------
(* What Since returns                                                      *)

\* A set of natural numbers has a least one.
LEMMA LeastNatural ==
    ASSUME NEW I, I \subseteq Nat, I # {}
    PROVE  \E x \in I : \A y \in I : x <= y
<1> DEFINE R == OpToRel(<, Nat)
<1>1. IsWellFoundedOn(R, Nat)
  BY NatLessThanWellFounded
<1>2. PICK x \in I : \A y \in I : ~(<<y, x>> \in R)
  <2> HIDE DEF R
  <2> QED
    BY <1>1, WFMin
<1>3. \A y \in I : ~(y < x)
  BY <1>2 DEF OpToRel
<1> QED
  BY <1>3

\* A set of counts that has zero, and with each the next, has them all.
LEMMA CountsByInduction ==
    ASSUME NEW n \in Nat, NEW I, 0 \in I, \A i \in 0..n - 1 : i \in I => i + 1 \in I
    PROVE  0..n \subseteq I
<1> SUFFICES ASSUME (0..n) \ I # {}
             PROVE  FALSE
  OBVIOUS
<1>1. (0..n) \ I \subseteq Nat
  OBVIOUS
<1>2. PICK x \in (0..n) \ I : \A y \in (0..n) \ I : x <= y
  BY <1>1, LeastNatural
<1>3. x # 0 /\ x - 1 \in 0..n - 1 /\ x - 1 \notin (0..n) \ I
  BY <1>2
<1>4. x - 1 \in I /\ x - 1 + 1 = x
  BY <1>3
<1> QED
  BY <1>2, <1>3, <1>4

\* The recursive function in Since, for the first n events.
Collects(g, seq, n) ==
    g = [i \in 0..n |->
            IF i = 0 THEN <<>>
            ELSE IF ring[i] > seq THEN Append(g[i - 1], ring[i]) ELSE g[i - 1]]

LEMMA CollectingExists ==
    ASSUME NEW seq, NEW n \in Nat
    PROVE  \E g : Collects(g, seq, n)
<1> DEFINE I == {i \in 0..n : \E g : Collects(g, seq, i)}
<1>1. 0 \in I
  <2> DEFINE g == [i \in 0..0 |-> <<>>]
  <2>1. Collects(g, seq, 0)
    BY DEF Collects
  <2> QED
    BY <2>1
<1>2. ASSUME NEW i \in 0..n - 1, i \in I
      PROVE  i + 1 \in I
  <2>1. PICK g : Collects(g, seq, i)
    BY <1>2
  <2> DEFINE h == [j \in 0..i + 1 |->
                     IF j = 0 THEN <<>>
                     ELSE IF ring[j] > seq THEN Append(g[j - 1], ring[j]) ELSE g[j - 1]]
  <2>2. i \in Nat /\ i + 1 \in 0..n
    OBVIOUS
  <2>3. \A j \in 0..i : j \in 0..i + 1 /\ h[j] = g[j]
    <3>1. \A j \in 0..i : g[j] = IF j = 0 THEN <<>>
                                 ELSE IF ring[j] > seq THEN Append(g[j - 1], ring[j]) ELSE g[j - 1]
      <4>1. g = [j \in 0..i |->
                   IF j = 0 THEN <<>>
                   ELSE IF ring[j] > seq THEN Append(g[j - 1], ring[j]) ELSE g[j - 1]]
        BY <2>1 DEF Collects
      <4>2. \A j \in 0..i : g[j] = [k \in 0..i |->
                   IF k = 0 THEN <<>>
                   ELSE IF ring[k] > seq THEN Append(g[k - 1], ring[k]) ELSE g[k - 1]][j]
        BY <4>1, Zenon
      <4> QED
        BY <4>2, Zenon
    <3>2. \A j \in 0..i : j \in 0..i + 1
      BY <2>2
    <3> QED
      BY <3>1, <3>2
  <2>4. \A j \in 0..i + 1 : j = 0 \/ j - 1 \in 0..i
    BY <2>2
  <2>5. h = [j \in 0..i + 1 |->
               IF j = 0 THEN <<>>
               ELSE IF ring[j] > seq THEN Append(h[j - 1], ring[j]) ELSE h[j - 1]]
    <3>1. \A j \in 0..i + 1 : j = 0 \/ g[j - 1] = h[j - 1]
      BY <2>3, <2>4
    <3>2. \A j \in 0..i + 1 :
            (IF j = 0 THEN <<>>
             ELSE IF ring[j] > seq THEN Append(g[j - 1], ring[j]) ELSE g[j - 1])
            = (IF j = 0 THEN <<>>
               ELSE IF ring[j] > seq THEN Append(h[j - 1], ring[j]) ELSE h[j - 1])
      <4> HIDE DEF h
      <4> QED
        BY <3>1
    <3> QED
      BY <3>2
  <2>6. Collects(h, seq, i + 1)
    <3> HIDE DEF h
    <3> QED
      BY <2>5 DEF Collects
  <2> QED
    BY <2>2, <2>6
<1>3. 0..n \subseteq I
  <2> HIDE DEF I
  <2> QED
    BY <1>1, <1>2, CountsByInduction
<1> QED
  BY <1>3

\* Of a ring in order, Since returns just what is above the number, in order.
LEMMA SinceIsRight ==
    ASSUME ring \in Seq(Nat), Ascends(ring), NEW seq \in Nat
    PROVE  /\ Since(seq) \in Seq(Nat)
           /\ Ascends(Since(seq))
           /\ \A e : e \in Elements(Since(seq)) <=> e \in Elements(ring) /\ e > seq
<1> DEFINE n == Len(ring)
<1>1. n \in Nat /\ \A i \in 1..n : ring[i] \in Nat
  BY LenProperties, ElementOfSeq
<1>2. PICK g : Collects(g, seq, n) /\ Since(seq) = g[n]
  <2> DEFINE c == CHOOSE g : Collects(g, seq, n)
  <2>1. Collects(c, seq, n)
    BY <1>1, CollectingExists
  <2>2. Since(seq) = c[n]
    BY DEF Since, Collects
  <2> QED
    BY <2>1, <2>2
<1>3. /\ g[0] = <<>>
      /\ \A i \in 1..n : g[i] = IF ring[i] > seq THEN Append(g[i - 1], ring[i]) ELSE g[i - 1]
  <2>1. g = [j \in 0..n |->
               IF j = 0 THEN <<>>
               ELSE IF ring[j] > seq THEN Append(g[j - 1], ring[j]) ELSE g[j - 1]]
    BY <1>2 DEF Collects
  <2>2. \A j \in 0..n : g[j] = [k \in 0..n |->
               IF k = 0 THEN <<>>
               ELSE IF ring[k] > seq THEN Append(g[k - 1], ring[k]) ELSE g[k - 1]][j]
    BY <2>1, Zenon
  <2>3. \A j \in 0..n : g[j] = IF j = 0 THEN <<>>
                               ELSE IF ring[j] > seq THEN Append(g[j - 1], ring[j]) ELSE g[j - 1]
    BY <2>2, Zenon
  <2>4. 0 \in 0..n /\ \A j \in 1..n : j \in 0..n /\ j # 0
    BY <1>1
  <2> QED
    BY <2>3, <2>4
<1> DEFINE RightUpTo(i) ==
              /\ g[i] \in Seq(Nat)
              /\ Ascends(g[i])
              /\ \A e : e \in Elements(g[i]) <=> \E j \in 1..i : e = ring[j] /\ e > seq
<1> DEFINE I == {i \in 0..n : RightUpTo(i)}
<1>4. 0 \in I
  <2>1. <<>> \in Seq(Nat) /\ Len(<<>>) = 0
    BY EmptySeq
  <2>2. Ascends(<<>>) /\ Elements(<<>>) = {}
    BY <2>1 DEF Ascends, Elements
  <2>3. 0 \in 0..n /\ ~\E j \in 1..0 : TRUE
    BY <1>1
  <2>4. RightUpTo(0)
    BY <1>3, <2>1, <2>2, <2>3
  <2> QED
    BY <2>3, <2>4
<1>5. ASSUME NEW i \in 0..n - 1, i \in I
      PROVE  i + 1 \in I
  <2>1. i \in Nat /\ i + 1 \in 1..n /\ i + 1 \in 0..n /\ (i + 1) - 1 = i
    BY <1>1
  <2>2. /\ g[i] \in Seq(Nat) /\ Ascends(g[i])
        /\ \A e : e \in Elements(g[i]) <=> \E j \in 1..i : e = ring[j] /\ e > seq
    BY <1>5
  <2>3. g[i + 1] = IF ring[i + 1] > seq THEN Append(g[i], ring[i + 1]) ELSE g[i]
    BY <1>3, <2>1
  <2>4. \A j \in 1..i + 1 : j \in 1..i \/ j = i + 1
    BY <2>1
  <2>5. \A j \in 1..i : j \in 1..i + 1 /\ j \in 1..n /\ j < i + 1
    BY <1>1, <2>1
  <2>6. ring[i + 1] \in Nat
    BY <1>1, <2>1
  <2>7. CASE ~(ring[i + 1] > seq)
    <3>1. g[i + 1] = g[i]
      BY <2>3, <2>7
    <3>2. \A e : (\E j \in 1..i : e = ring[j] /\ e > seq)
                 <=> (\E j \in 1..i + 1 : e = ring[j] /\ e > seq)
      BY <2>4, <2>5, <2>7
    <3> QED
      BY <2>1, <2>2, <3>1, <3>2
  <2>8. CASE ring[i + 1] > seq
    <3>1. g[i + 1] = Append(g[i], ring[i + 1])
      BY <2>3, <2>8
    <3>2. /\ g[i + 1] \in Seq(Nat)
          /\ Elements(g[i + 1]) = Elements(g[i]) \cup {ring[i + 1]}
          /\ \A k \in 1..Len(g[i + 1]) :
                \/ k \in 1..Len(g[i]) /\ g[i + 1][k] = g[i][k]
                \/ k = Len(g[i]) + 1 /\ g[i + 1][k] = ring[i + 1]
      BY <2>2, <2>6, <3>1, AppendNumber
    <3>3. \A e : e \in Elements(g[i + 1]) <=> \E j \in 1..i + 1 : e = ring[j] /\ e > seq
      <4>1. \A e : (\E j \in 1..i + 1 : e = ring[j] /\ e > seq)
                   <=> (\E j \in 1..i : e = ring[j] /\ e > seq) \/ e = ring[i + 1]
        BY <2>1, <2>4, <2>5, <2>8
      <4> QED
        BY <2>2, <3>2, <4>1
    <3>4. \A k \in 1..Len(g[i]) : g[i][k] \in Nat /\ g[i][k] < ring[i + 1]
      <4>1. \A j \in 1..i : ring[j] < ring[i + 1]
        BY <2>1, <2>5 DEF Ascends
      <4>2. \A k \in 1..Len(g[i]) : g[i][k] \in Elements(g[i])
        BY DEF Elements
      <4> QED
        BY <2>2, <4>1, <4>2, ElementOfSeq
    <3>5. Ascends(g[i + 1])
      <4>1. Len(g[i]) \in Nat /\ Len(g[i + 1]) \in Nat
        BY <2>2, <3>2, LenProperties
      <4>2. ASSUME NEW k \in 1..Len(g[i + 1]), NEW m \in 1..Len(g[i + 1]), k < m
            PROVE  g[i + 1][k] < g[i + 1][m]
        <5>1. k \in 1..Len(g[i]) /\ g[i + 1][k] = g[i][k]
          <6>1. k # Len(g[i]) + 1
            <7>1. m \in 1..Len(g[i]) \/ m = Len(g[i]) + 1
              BY <3>2
            <7> QED
              BY <4>1, <4>2, <7>1
          <6> QED
            BY <3>2, <6>1
        <5>2. CASE m \in 1..Len(g[i]) /\ g[i + 1][m] = g[i][m]
          BY <2>2, <4>2, <5>1, <5>2 DEF Ascends
        <5>3. CASE g[i + 1][m] = ring[i + 1]
          BY <3>4, <5>1, <5>3
        <5> QED
          BY <3>2, <5>2, <5>3
      <4> QED
        BY <4>2 DEF Ascends
    <3> QED
      BY <2>1, <3>2, <3>3, <3>5
  <2> QED
    BY <2>7, <2>8
<1>6. n \in I
  <2>1. 0..n \subseteq I
    <3> HIDE DEF I, n
    <3> QED
      BY <1>1, <1>4, <1>5, CountsByInduction
  <2>2. n \in 0..n
    BY <1>1
  <2> QED
    BY <2>1, <2>2
<1>7. RightUpTo(n)
  BY <1>6
<1>8. \A e : e \in Elements(ring) <=> \E j \in 1..n : e = ring[j]
  BY DEF Elements
<1> QED
  BY <1>2, <1>7, <1>8

-----------------------------------------------------------------------------
(* The invariant of the tailer                                             *)

TailTypeOK ==
    /\ life \in Nat \ {0}
    /\ published \in Seq(Nat) /\ Len(published) = life
    /\ poll \in {"waiting", "asked", "counted", "answered", "emitting"}
    /\ seen \in Nat /\ asked \in Nat /\ latest \in Nat /\ base \in Nat
    /\ batch \in Seq(Nat)
    /\ from \in 0..life
    /\ told \in Nat \X Nat
    /\ shown \in SUBSET Nat

\* What was told last was logged, in a life that has answered.
ToldIsLogged ==
    /\ told[1] <= from
    /\ told[1] = 0 => told[2] = 0
    /\ told[1] # 0 => told[2] \in 1..published[told[1]]

\* The tailer asks for what follows what it has told, but begins from zero after it
\* has noticed a restart; then the life that has answered is a later one.
AsksForTheRest ==
    /\ poll # "emitting" => seen = told[2] \/ (seen = 0 /\ told[1] < from)
    /\ poll \in {"asked", "counted", "answered"} => asked = seen

\* A life that has told something counts at least that.
AnswerCountsTold ==
    poll \in {"counted", "answered"} => from # 0 /\ (told[1] = from => told[2] <= latest)

\* A batch is what one life had in its ring above the number that was asked with.
BatchIsRight ==
    poll \in {"answered", "emitting"} =>
        /\ from # 0
        /\ Ascends(batch)
        /\ \A e \in Elements(batch) : asked < e /\ e <= published[from]

\* While that life goes on, what its ring holds was told, or is in the batch, or lies
\* below what was asked for, or was logged since.
BatchHasNoGap ==
    poll \in {"answered", "emitting"} /\ from = life =>
        \A e \in Elements(ring) :
            \/ e <= asked \/ (told[1] = from /\ e <= told[2])
            \/ e \in Elements(batch)
            \/ \A b \in Elements(batch) : b < e

\* An emission goes on where it stands.
EmissionGoesOn ==
    poll = "emitting" =>
        /\ batch # <<>>
        /\ told[1] = from => asked <= told[2] /\ \A b \in Elements(batch) : told[2] < b

\* RingIsTold, in terms of Elements.
RingElementsTold ==
    told[1] = life =>
        \A e \in Elements(ring) : e <= told[2] => e \in shown \/ e <= base

TailInv ==
    /\ TailTypeOK
    /\ published[life] = next
    /\ ToldIsLogged
    /\ AsksForTheRest
    /\ AnswerCountsTold
    /\ BatchIsRight
    /\ BatchHasNoGap
    /\ EmissionGoesOn
    /\ RingElementsTold

EventsInv == StreamInv /\ TailInv

LEMMA EventsInvInit == EventsInit => EventsInv
<1> SUFFICES ASSUME EventsInit
             PROVE  EventsInv
  OBVIOUS
<1>1. StreamInv
  BY StreamInvInit DEF EventsInit
<1>2. /\ life = 1 /\ published = <<0>> /\ seen = 0 /\ poll = "waiting" /\ asked = 0
      /\ latest = 0 /\ batch = <<>> /\ from = 0 /\ told = <<0, 0>> /\ shown = {} /\ base = 0
      /\ ring = <<>> /\ next = 0
  BY DEF EventsInit, T!TailInit, T!RecorderInit
<1>3. /\ <<0>> \in Seq(Nat) /\ Len(<<0>>) = 1 /\ <<0>>[1] = 0
      /\ <<>> \in Seq(Nat) /\ Elements(<<>>) = {}
  BY EmptySeq DEF Elements
<1>4. told[1] = 0 /\ told[2] = 0 /\ told \in Nat \X Nat
  BY <1>2
<1>5. TailTypeOK
  BY <1>2, <1>3, <1>4 DEF TailTypeOK
<1>6. /\ ToldIsLogged /\ AsksForTheRest /\ AnswerCountsTold /\ BatchIsRight /\ BatchHasNoGap
      /\ EmissionGoesOn /\ RingElementsTold
  BY <1>2, <1>3, <1>4
     DEF ToldIsLogged, AsksForTheRest, AnswerCountsTold, BatchIsRight, BatchHasNoGap,
         EmissionGoesOn, RingElementsTold
<1> QED
  BY <1>1, <1>2, <1>3, <1>5, <1>6 DEF EventsInv, TailInv

-----------------------------------------------------------------------------
(* The node logs, and restarts                                             *)

LEMMA LogKeepsTail ==
    ASSUME EventsInv, LogsEvent
    PROVE  TailInv'
<1>1. /\ TailTypeOK /\ published[life] = next /\ next \in Nat /\ ring \in Seq(Nat)
      /\ RingHoldsLatest
  BY DEF EventsInv, StreamInv, StreamTypeOK, TailInv
<1>2. /\ next' = next + 1 /\ ring' = Keep(next + 1)
      /\ published' = [published EXCEPT ![life] = @ + 1]
      /\ UNCHANGED <<life, seen, poll, asked, latest, batch, from, told, shown, base>>
  BY DEF LogsEvent, Log, Publish, T!Log, T!pollVars
<1>3. /\ published \in Seq(Nat) /\ Len(published) = life /\ life \in 1..Len(published)
      /\ \A l \in 1..life : published[l] \in Nat
  <2>1. published \in Seq(Nat) /\ Len(published) = life /\ life \in 1..Len(published)
    BY <1>1 DEF TailTypeOK
  <2>2. \A l \in 1..Len(published) : published[l] \in Nat
    BY <2>1, ElementOfSeq
  <2> QED
    BY <2>1, <2>2
<1>4. /\ published' \in Seq(Nat) /\ Len(published') = life
      /\ published'[life] = next + 1
      /\ \A l \in 1..life : published[l] <= published'[l] /\ published'[l] \in Nat
  <2>1. published' \in Seq(Nat) /\ Len(published') = life
    BY <1>1, <1>2, <1>3, ExceptSeq
  <2>2. published'[life] = next + 1
    BY <1>1, <1>2, <1>3
  <2>3. \A l \in 1..life : l # life => published'[l] = published[l]
    BY <1>2, <1>3
  <2> QED
    BY <1>1, <1>3, <2>1, <2>2, <2>3
<1>5. \A e \in Elements(ring') : e \in Elements(ring) \/ e = next + 1
  <2>1. Elements(Append(ring, next + 1)) = Elements(ring) \cup {next + 1}
    BY <1>1, AppendNumber
  <2>2. CASE ring' = Append(ring, next + 1)
    BY <2>1, <2>2
  <2>3. CASE Len(ring) = Limit /\ ring' = Append(Tail(ring), next + 1)
    <3>1. ring # <<>>
      BY <1>1, <2>3, EmptySeq, RecorderAssumption
    <3>2. /\ Tail(ring) \in Seq(Nat)
          /\ \A i \in 1..Len(Tail(ring)) : i + 1 \in 1..Len(ring) /\ Tail(ring)[i] = ring[i + 1]
      BY <1>1, <3>1, TailOfNumbers
    <3>3. Elements(Tail(ring)) \subseteq Elements(ring)
      BY <3>2 DEF Elements
    <3>4. Elements(ring') = Elements(Tail(ring)) \cup {next + 1}
      <4>1. next + 1 \in Nat
        BY <1>1
      <4> QED
        BY <2>3, <3>2, <4>1, AppendNumber
    <3> QED
      BY <3>3, <3>4
  <2> QED
    BY <1>2, <2>2, <2>3 DEF Keep
<1>6. TailTypeOK'
  BY <1>1, <1>2, <1>4 DEF TailTypeOK
<1>7. /\ told[1] \in Nat /\ told[2] \in Nat /\ from \in Nat /\ from <= life /\ life \in Nat
      /\ \A e \in Elements(batch) : e \in Nat
  <2>1. \A i \in 1..Len(batch) : batch[i] \in Nat
    BY <1>1, ElementOfSeq DEF TailTypeOK
  <2> QED
    BY <1>1, <2>1 DEF TailTypeOK, Elements
<1>8. ToldIsLogged /\ told[1] <= life
  BY <1>7 DEF EventsInv, TailInv, ToldIsLogged
<1>9. ToldIsLogged'
  BY <1>2, <1>3, <1>4, <1>7, <1>8 DEF ToldIsLogged
<1>10. (AsksForTheRest /\ AnswerCountsTold /\ EmissionGoesOn)'
  BY <1>2 DEF EventsInv, TailInv, AsksForTheRest, AnswerCountsTold, EmissionGoesOn
<1>11. BatchIsRight'
  <2> SUFFICES ASSUME poll \in {"answered", "emitting"}
               PROVE  /\ from # 0 /\ Ascends(batch)
                      /\ \A e \in Elements(batch) : asked < e /\ e <= published'[from]
    BY <1>2 DEF BatchIsRight
  <2>1. /\ from # 0 /\ Ascends(batch)
        /\ \A e \in Elements(batch) : asked < e /\ e <= published[from]
    BY DEF EventsInv, TailInv, BatchIsRight
  <2>2. from \in 1..life
    BY <1>7, <2>1
  <2> QED
    BY <1>3, <1>4, <1>7, <2>1, <2>2
<1>12. BatchHasNoGap'
  <2> SUFFICES ASSUME poll \in {"answered", "emitting"}, from = life, NEW e \in Elements(ring')
               PROVE  \/ e <= asked \/ (told[1] = from /\ e <= told[2])
                      \/ e \in Elements(batch)
                      \/ \A b \in Elements(batch) : b < e
    BY <1>2 DEF BatchHasNoGap
  <2>1. CASE e \in Elements(ring)
    BY <2>1 DEF EventsInv, TailInv, BatchHasNoGap
  <2>2. CASE e = next + 1
    <3>1. \A b \in Elements(batch) : b <= next
      BY <1>1 DEF EventsInv, TailInv, BatchIsRight
    <3> QED
      BY <1>1, <1>7, <2>2, <3>1
  <2> QED
    BY <1>5, <2>1, <2>2
<1>13. RingElementsTold'
  <2> SUFFICES ASSUME told[1] = life, NEW e \in Elements(ring'), e <= told[2]
               PROVE  e \in shown \/ e <= base
    BY <1>2 DEF RingElementsTold
  <2>1. told[2] <= next
    BY <1>1, <1>7, <1>8 DEF ToldIsLogged, TailTypeOK
  <2>2. e # next + 1
    BY <1>1, <1>7, <2>1
  <2>3. e \in Elements(ring)
    BY <1>5, <2>2
  <2> QED
    BY <2>3 DEF EventsInv, TailInv, RingElementsTold
<1> QED
  BY <1>2, <1>4, <1>6, <1>9, <1>10, <1>11, <1>12, <1>13 DEF TailInv

LEMMA RestartKeepsTail ==
    ASSUME EventsInv, Restarts
    PROVE  TailInv'
<1>1. /\ TailTypeOK /\ ToldIsLogged
      /\ life' = life + 1 /\ published' = Append(published, 0)
      /\ ring' = <<>> /\ next' = 0
      /\ UNCHANGED <<seen, poll, asked, latest, batch, from, told, shown, base>>
  BY DEF EventsInv, TailInv, Restarts, T!Restart, T!pollVars
<1>2. /\ published \in Seq(Nat) /\ Len(published) = life /\ life \in Nat
      /\ told[1] \in Nat /\ told[2] \in Nat /\ from \in Nat /\ from <= life
  BY <1>1 DEF TailTypeOK
<1>3. /\ published' \in Seq(Nat) /\ Len(published') = life + 1
      /\ published'[life + 1] = 0
      /\ \A l \in 1..life : published'[l] = published[l]
  BY <1>1, <1>2, AppendProperties
<1>4. Elements(ring') = {}
  BY <1>1, EmptySeq DEF Elements
<1>5. TailTypeOK'
  BY <1>1, <1>2, <1>3 DEF TailTypeOK
<1>6. ToldIsLogged'
  <2>1. told[1] # 0 => told[1] \in 1..life
    BY <1>1, <1>2 DEF ToldIsLogged
  <2> QED
    BY <1>1, <1>3, <2>1 DEF ToldIsLogged
<1>7. BatchIsRight'
  <2>1. from # 0 => from \in 1..life
    BY <1>2
  <2> QED
    BY <1>1, <1>3, <2>1 DEF EventsInv, TailInv, BatchIsRight
<1>8. (AsksForTheRest /\ AnswerCountsTold /\ EmissionGoesOn)'
  BY <1>1 DEF EventsInv, TailInv, AsksForTheRest, AnswerCountsTold, EmissionGoesOn
<1>9. BatchHasNoGap' /\ RingElementsTold'
  BY <1>4 DEF BatchHasNoGap, RingElementsTold
<1> QED
  BY <1>1, <1>3, <1>5, <1>6, <1>7, <1>8, <1>9 DEF TailInv

\* With the process the handlers of its pages end.
LEMMA RestartKeepsStream ==
    ASSUME EventsInv, Restarts
    PROVE  StreamInv'
<1>1. /\ ring' = <<>> /\ next' = 0 /\ subs' = [r \in {} |-> <<>>]
      /\ at' = [r \in Readers |-> "closed"]
      /\ snapshot' = [r \in Readers |-> <<>>]
      /\ sent' = [r \in Readers |-> <<>>]
      /\ since' = [r \in Readers |-> 0]
      /\ seam' = [r \in Readers |-> 0]
      /\ lost' = [r \in Readers |-> {}]
  BY DEF Restarts, T!Restart
<1>2. <<>> \in Seq(Nat) /\ Len(<<>>) = 0
  BY EmptySeq
<1>3. \A r \in Readers : at'[r] = "closed" /\ sent'[r] = <<>> /\ lost'[r] = {}
  BY <1>1
<1>4. StreamTypeOK'
  <2>1. at' \in [Readers -> {"closed", "subscribed", "copied", "live"}]
    BY <1>1
  <2>2. DOMAIN subs' = {r \in Readers : at'[r] # "closed"} /\ DOMAIN subs' = {}
    BY <1>1
  <2>3. snapshot' \in [Readers -> Seq(Nat)] /\ sent' \in [Readers -> Seq(Nat)]
    BY <1>1, <1>2
  <2>4. since' \in [Readers -> Nat] /\ seam' \in [Readers -> Nat]
    BY <1>1
  <2>5. lost' \in [Readers -> SUBSET Nat]
    BY <1>1
  <2> QED
    BY <1>1, <1>2, <2>1, <2>2, <2>3, <2>4, <2>5 DEF StreamTypeOK
<1>5. RingHoldsLatest'
  BY <1>1, <1>2, RecorderAssumption DEF RingHoldsLatest
<1> QED
  BY <1>3, <1>4, <1>5 DEF StreamInv

-----------------------------------------------------------------------------
(* The tailer polls                                                        *)

LEMMA AskKeepsTail ==
    ASSUME EventsInv, T!Ask
    PROVE  TailInv'
<1>1. /\ poll = "waiting" /\ poll' = "asked" /\ asked' = seen
      /\ UNCHANGED <<ring, next, life, published, seen, latest, batch, from, told, shown, base>>
  BY DEF T!Ask, T!recorderVars
<1>2. TailTypeOK'
  BY <1>1 DEF EventsInv, TailInv, TailTypeOK
<1>3. (AsksForTheRest /\ AnswerCountsTold /\ BatchIsRight /\ BatchHasNoGap /\ EmissionGoesOn)'
  BY <1>1 DEF EventsInv, TailInv, AsksForTheRest, AnswerCountsTold, BatchIsRight,
              BatchHasNoGap, EmissionGoesOn
<1>4. ToldIsLogged' /\ RingElementsTold' /\ published'[life'] = next'
  BY <1>1 DEF EventsInv, TailInv, ToldIsLogged, RingElementsTold
<1> QED
  BY <1>2, <1>3, <1>4 DEF TailInv

LEMMA ReadLatestKeepsTail ==
    ASSUME EventsInv, T!ReadLatest
    PROVE  TailInv'
<1>1. /\ poll = "asked" /\ poll' = "counted" /\ latest' = next /\ from' = life
      /\ UNCHANGED <<ring, next, life, published, seen, asked, batch, told, shown, base>>
  BY DEF T!ReadLatest, T!Latest, T!recorderVars
<1>2. /\ TailTypeOK /\ next \in Nat /\ published[life] = next /\ ToldIsLogged
      /\ life \in Nat \ {0} /\ from \in 0..life /\ told[1] \in Nat /\ told[2] \in Nat
  BY DEF EventsInv, TailInv, TailTypeOK, StreamInv, StreamTypeOK
<1>3. TailTypeOK'
  BY <1>1, <1>2 DEF TailTypeOK
<1>4. told[1] <= life
  BY <1>2 DEF ToldIsLogged
<1>5. ToldIsLogged'
  BY <1>1, <1>2, <1>4 DEF ToldIsLogged
<1>6. AsksForTheRest'
  BY <1>1, <1>2 DEF EventsInv, TailInv, AsksForTheRest
<1>7. AnswerCountsTold'
  BY <1>1, <1>2 DEF AnswerCountsTold, ToldIsLogged
<1>8. (BatchIsRight /\ BatchHasNoGap /\ EmissionGoesOn)'
  BY <1>1 DEF BatchIsRight, BatchHasNoGap, EmissionGoesOn
<1>9. RingElementsTold' /\ published'[life'] = next'
  BY <1>1, <1>2 DEF EventsInv, TailInv, RingElementsTold
<1> QED
  BY <1>3, <1>5, <1>6, <1>7, <1>8, <1>9 DEF TailInv

LEMMA ReadEventsKeepsTail ==
    ASSUME EventsInv, T!ReadEvents
    PROVE  TailInv'
<1>1. /\ poll = "counted" /\ from = life /\ poll' = "answered" /\ batch' = Since(asked)
      /\ UNCHANGED <<ring, next, life, published, seen, asked, latest, from, told, shown, base>>
  BY DEF T!ReadEvents, T!Since, Since, T!recorderVars
<1>2. /\ TailTypeOK /\ next \in Nat /\ published[life] = next /\ ring \in Seq(Nat)
      /\ RingHoldsLatest /\ asked \in Nat /\ from # 0
  BY <1>1 DEF EventsInv, TailInv, TailTypeOK, StreamInv, StreamTypeOK, AnswerCountsTold
<1>3. /\ Ascends(ring) /\ \A e \in Elements(ring) : e <= next
      /\ \A e \in Elements(ring) : e \in Nat
  <2>1. \A i \in 1..Len(ring) : ring[i] \in Nat
    BY <1>2, ElementOfSeq
  <2> QED
    BY <1>2, <2>1, RingIsEndOfLog DEF Elements
<1>4. /\ batch' \in Seq(Nat) /\ Ascends(batch')
      /\ \A e : e \in Elements(batch') <=> e \in Elements(ring) /\ e > asked
  BY <1>1, <1>2, <1>3, SinceIsRight
<1>5. TailTypeOK'
  BY <1>1, <1>2, <1>4 DEF TailTypeOK
<1>6. BatchIsRight'
  <2>1. \A e \in Elements(batch') : asked < e /\ e <= published[from]
    BY <1>1, <1>2, <1>3, <1>4
  <2> QED
    BY <1>1, <1>2, <1>4, <2>1 DEF BatchIsRight
<1>7. BatchHasNoGap'
  <2>1. \A e \in Elements(ring) : e <= asked \/ e \in Elements(batch')
    BY <1>2, <1>3, <1>4
  <2> QED
    BY <1>1, <2>1 DEF BatchHasNoGap
<1>8. (ToldIsLogged /\ AsksForTheRest /\ AnswerCountsTold /\ EmissionGoesOn)'
  BY <1>1 DEF EventsInv, TailInv, ToldIsLogged, AsksForTheRest, AnswerCountsTold,
              EmissionGoesOn
<1>9. RingElementsTold' /\ published'[life'] = next'
  BY <1>1 DEF EventsInv, TailInv, RingElementsTold
<1> QED
  BY <1>5, <1>6, <1>7, <1>8, <1>9 DEF TailInv

LEMMA PollFailsKeepsTail ==
    ASSUME EventsInv, T!PollFails
    PROVE  TailInv'
<1>1. /\ poll \in {"asked", "counted", "answered"} /\ poll' = "waiting" /\ batch' = <<>>
      /\ UNCHANGED <<ring, next, life, published, seen, asked, latest, from, told, shown, base>>
  BY DEF T!PollFails, T!recorderVars
<1>2. <<>> \in Seq(Nat)
  BY EmptySeq
<1>3. TailTypeOK'
  BY <1>1, <1>2 DEF EventsInv, TailInv, TailTypeOK
<1>4. (AsksForTheRest /\ AnswerCountsTold /\ BatchIsRight /\ BatchHasNoGap /\ EmissionGoesOn)'
  BY <1>1 DEF EventsInv, TailInv, AsksForTheRest, AnswerCountsTold, BatchIsRight,
              BatchHasNoGap, EmissionGoesOn
<1>5. ToldIsLogged' /\ RingElementsTold' /\ published'[life'] = next'
  BY <1>1 DEF EventsInv, TailInv, ToldIsLogged, RingElementsTold
<1> QED
  BY <1>3, <1>4, <1>5 DEF TailInv

\* A life that counts less than was seen is not the one that was told of last.
LEMMA NoticeRestartKeepsTail ==
    ASSUME EventsInv, T!NoticeRestart
    PROVE  TailInv'
<1>1. /\ poll = "answered" /\ latest < asked /\ seen' = 0 /\ poll' = "waiting"
      /\ batch' = <<>>
      /\ UNCHANGED <<ring, next, life, published, asked, latest, from, told, shown, base>>
  BY DEF T!NoticeRestart, T!recorderVars
<1>2. /\ <<>> \in Seq(Nat) /\ TailTypeOK /\ told[1] \in Nat /\ told[2] \in Nat
      /\ from \in Nat /\ latest \in Nat /\ asked \in Nat
  BY EmptySeq DEF EventsInv, TailInv, TailTypeOK
<1>3. TailTypeOK'
  BY <1>1, <1>2 DEF TailTypeOK
<1>4. told[1] < from
  <2>1. asked = seen /\ (seen = told[2] \/ (seen = 0 /\ told[1] < from))
    BY <1>1 DEF EventsInv, TailInv, AsksForTheRest
  <2>2. told[1] <= from
    BY DEF EventsInv, TailInv, ToldIsLogged
  <2>3. told[1] = from => told[2] <= latest
    BY <1>1 DEF EventsInv, TailInv, AnswerCountsTold
  <2> QED
    BY <1>1, <1>2, <2>1, <2>2, <2>3
<1>5. AsksForTheRest'
  BY <1>1, <1>4 DEF AsksForTheRest
<1>6. (AnswerCountsTold /\ BatchIsRight /\ BatchHasNoGap /\ EmissionGoesOn)'
  BY <1>1 DEF AnswerCountsTold, BatchIsRight, BatchHasNoGap, EmissionGoesOn
<1>7. ToldIsLogged' /\ RingElementsTold' /\ published'[life'] = next'
  BY <1>1 DEF EventsInv, TailInv, ToldIsLogged, RingElementsTold
<1> QED
  BY <1>3, <1>5, <1>6, <1>7 DEF TailInv

LEMMA AcceptKeepsTail ==
    ASSUME EventsInv, T!Accept
    PROVE  TailInv'
<1>1. /\ poll = "answered" /\ latest >= asked
      /\ poll' = IF batch = <<>> THEN "waiting" ELSE "emitting"
      /\ UNCHANGED <<ring, next, life, published, seen, asked, latest, batch, from, told,
                     shown, base>>
  BY DEF T!Accept, T!recorderVars
<1>2. /\ TailTypeOK /\ told[1] \in Nat /\ told[2] \in Nat /\ from \in Nat /\ asked \in Nat
      /\ asked = seen /\ (seen = told[2] \/ (seen = 0 /\ told[1] < from))
  BY <1>1 DEF EventsInv, TailInv, TailTypeOK, AsksForTheRest
<1>3. TailTypeOK'
  BY <1>1, <1>2 DEF TailTypeOK
<1>4. EmissionGoesOn'
  <2>1. told[1] = from => asked = told[2]
    BY <1>2
  <2>2. \A b \in Elements(batch) : asked < b
    BY <1>1 DEF EventsInv, TailInv, BatchIsRight
  <2> QED
    BY <1>1, <1>2, <2>1, <2>2 DEF EmissionGoesOn
<1>5. (AsksForTheRest /\ AnswerCountsTold /\ BatchIsRight /\ BatchHasNoGap)'
  BY <1>1, <1>2 DEF EventsInv, TailInv, AsksForTheRest, AnswerCountsTold, BatchIsRight,
              BatchHasNoGap
<1>6. ToldIsLogged' /\ RingElementsTold' /\ published'[life'] = next'
  BY <1>1 DEF EventsInv, TailInv, ToldIsLogged, RingElementsTold
<1> QED
  BY <1>3, <1>4, <1>5, <1>6 DEF TailInv

LEMMA EmitKeepsTail ==
    ASSUME EventsInv, T!Emit
    PROVE  TailInv'
<1> DEFINE h == Head(batch)
<1>1. /\ poll = "emitting" /\ told' = <<from, h>>
      /\ shown' = (IF told[1] = from THEN shown ELSE {}) \cup {h}
      /\ base' = IF told[1] = from THEN base ELSE asked
      /\ batch' = Tail(batch)
      /\ Len(batch) = 1 => seen' = h /\ poll' = "waiting"
      /\ Len(batch) # 1 => UNCHANGED <<seen, poll>>
      /\ UNCHANGED <<ring, next, life, published, asked, latest, from>>
  BY DEF T!Emit, T!recorderVars
<1>2. /\ TailTypeOK /\ batch \in Seq(Nat) /\ batch # <<>>
      /\ told[1] \in Nat /\ told[2] \in Nat /\ from \in Nat /\ asked \in Nat
      /\ told[1] = from => asked <= told[2] /\ \A b \in Elements(batch) : told[2] < b
      /\ from # 0 /\ Ascends(batch)
      /\ \A e \in Elements(batch) : asked < e /\ e <= published[from]
  BY <1>1 DEF EventsInv, TailInv, TailTypeOK, EmissionGoesOn, BatchIsRight
<1>3. /\ batch' \in Seq(Nat) /\ Len(batch) \in Nat /\ Len(batch) >= 1
      /\ h \in Nat /\ h = batch[1] /\ 1 \in 1..Len(batch)
      /\ Len(batch') = Len(batch) - 1
      /\ \A i \in 1..Len(batch') : i + 1 \in 1..Len(batch) /\ batch'[i] = batch[i + 1]
      /\ Elements(batch) \subseteq {h} \cup Elements(batch')
  BY <1>1, <1>2, TailOfNumbers
<1> HIDE DEF h
<1>4. /\ h \in Elements(batch) /\ asked < h /\ h <= published[from]
      /\ \A e \in Elements(batch') : e \in Elements(batch) /\ h < e
  <2>1. h \in Elements(batch)
    BY <1>3 DEF Elements
  <2>2. ASSUME NEW i \in 1..Len(batch')
        PROVE  batch'[i] \in Elements(batch) /\ h < batch'[i]
    <3>1. i + 1 \in 1..Len(batch) /\ batch'[i] = batch[i + 1] /\ 1 < i + 1
      BY <1>3
    <3>2. batch[1] < batch[i + 1]
      BY <1>2, <1>3, <3>1 DEF Ascends
    <3> QED
      BY <1>3, <3>1, <3>2 DEF Elements
  <2>3. \A e \in Elements(batch') : e \in Elements(batch) /\ h < e
    BY <2>2 DEF Elements
  <2> QED
    BY <1>2, <2>1, <2>3
<1>5. Ascends(batch')
  <2>1. \A i, j \in 1..Len(batch') : i < j => i + 1 < j + 1
    BY <1>3
  <2> QED
    BY <1>2, <1>3, <2>1 DEF Ascends
<1>6. told'[1] = from /\ told'[2] = h
  BY <1>1
<1>7. TailTypeOK'
  <2>1. seen' \in Nat /\ poll' \in {"waiting", "asked", "counted", "answered", "emitting"}
    BY <1>1, <1>2, <1>3 DEF TailTypeOK
  <2>2. shown' \in SUBSET Nat /\ base' \in Nat /\ told' \in Nat \X Nat
    BY <1>1, <1>2, <1>3 DEF TailTypeOK
  <2> QED
    BY <1>1, <1>2, <1>3, <2>1, <2>2 DEF TailTypeOK
<1>8. ToldIsLogged'
  <2>1. published[from] \in Nat
    <3>1. from \in 1..Len(published) /\ published \in Seq(Nat)
      BY <1>2 DEF TailTypeOK
    <3> QED
      BY <3>1, ElementOfSeq
  <2>2. h \in 1..published[from]
    BY <1>2, <1>3, <1>4, <2>1
  <2> QED
    BY <1>1, <1>2, <1>6, <2>2 DEF ToldIsLogged
<1>9. AsksForTheRest'
  BY <1>1, <1>6 DEF AsksForTheRest
<1>10. AnswerCountsTold'
  BY <1>1 DEF AnswerCountsTold
<1>11. BatchIsRight'
  BY <1>1, <1>2, <1>4, <1>5 DEF BatchIsRight
<1>12. EmissionGoesOn'
  <2>1. Len(batch) # 1 => batch' # <<>>
    BY <1>3, EmptySeq
  <2>2. asked <= h /\ \A b \in Elements(batch') : h < b
    BY <1>2, <1>3, <1>4
  <2>3. poll' = "emitting" => Len(batch) # 1
    BY <1>1
  <2> QED
    BY <1>6, <2>1, <2>2, <2>3, <1>1 DEF EmissionGoesOn
<1>13. \A e \in Elements(ring) : e \in Nat
  <2>1. ring \in Seq(Nat)
    BY DEF EventsInv, StreamInv, StreamTypeOK
  <2> QED
    BY <2>1, ElementOfSeq DEF Elements
<1>14. from = life => \A e \in Elements(ring) :
          \/ e <= asked \/ (told[1] = from /\ e <= told[2])
          \/ e \in Elements(batch)
          \/ \A b \in Elements(batch) : b < e
  BY <1>1 DEF EventsInv, TailInv, BatchHasNoGap
<1>15. BatchHasNoGap'
  <2> SUFFICES ASSUME from = life, NEW e \in Elements(ring)
               PROVE  \/ e <= asked \/ e <= h
                      \/ e \in Elements(batch')
                      \/ \A b \in Elements(batch') : b < e
    BY <1>1, <1>6 DEF BatchHasNoGap
  <2>1. CASE told[1] = from /\ e <= told[2]
    <3>1. told[2] < h
      BY <1>2, <1>4, <2>1
    <3> QED
      BY <1>2, <1>3, <1>13, <2>1, <3>1
  <2>2. CASE e \in Elements(batch)
    <3>1. e = h \/ e \in Elements(batch')
      BY <1>3, <2>2
    <3> QED
      BY <1>3, <3>1
  <2>3. CASE \A b \in Elements(batch) : b < e
    BY <1>4, <2>3
  <2> QED
    BY <1>14, <2>1, <2>2, <2>3
<1>16. RingElementsTold'
  <2> SUFFICES ASSUME from = life, NEW e \in Elements(ring), e <= h
               PROVE  e \in shown' \/ e <= base'
    BY <1>1, <1>6 DEF RingElementsTold
  <2>1. e \in Nat
    BY <1>13
  <2>2. CASE e <= asked
    <3>1. CASE told[1] = from
      <4>1. e <= told[2]
        BY <1>2, <2>1, <2>2, <3>1
      <4>2. e \in shown \/ e <= base
        BY <3>1, <4>1 DEF EventsInv, TailInv, RingElementsTold
      <4> QED
        BY <1>1, <3>1, <4>2
    <3>2. CASE told[1] # from
      BY <1>1, <2>2, <3>2
    <3> QED
      BY <3>1, <3>2
  <2>3. CASE told[1] = from /\ e <= told[2]
    <3>1. e \in shown \/ e <= base
      BY <2>3 DEF EventsInv, TailInv, RingElementsTold
    <3> QED
      BY <1>1, <2>3, <3>1
  <2>4. CASE e \in Elements(batch)
    <3>1. e = h
      <4>1. e \notin Elements(batch')
        BY <1>3, <1>4, <2>1
      <4> QED
        BY <1>3, <2>4, <4>1
    <3> QED
      BY <1>1, <3>1
  <2>5. CASE \A b \in Elements(batch) : b < e
    <3>1. h < e
      BY <1>4, <2>5
    <3> QED
      BY <1>3, <2>1, <3>1
  <2> QED
    BY <1>14, <2>2, <2>3, <2>4, <2>5
<1>17. published'[life'] = next'
  BY <1>1 DEF EventsInv, TailInv
<1> QED
  BY <1>7, <1>8, <1>9, <1>10, <1>11, <1>12, <1>15, <1>16, <1>17 DEF TailInv

-----------------------------------------------------------------------------
(* The theorems about everything at once                                   *)

LEMMA EventsInvStep == EventsInv /\ [EventsNext]_eventsVars => EventsInv'
<1> SUFFICES ASSUME EventsInv, [EventsNext]_eventsVars
             PROVE  EventsInv'
  OBVIOUS
<1>1. StreamInv /\ TailInv
  BY DEF EventsInv
<1>2. CASE LogsEvent
  BY <1>1, <1>2, LogKeepsInv, LogKeepsTail DEF EventsInv, LogsEvent
<1>3. CASE Restarts
  BY <1>3, RestartKeepsStream, RestartKeepsTail DEF EventsInv
<1>4. ASSUME NEW r \in Readers, PageStep(r)
      PROVE  EventsInv'
  <2>1. /\ Open(r) \/ CopyRing(r) \/ SendSnapshot(r) \/ SendNext(r) \/ Close(r)
        /\ UNCHANGED <<life, published, seen, poll, asked, latest, batch, from, told, shown,
                       base>>
    BY <1>4 DEF PageStep, tailerVars
  <2>2. StreamInv'
    BY <1>1, <2>1, OpenKeepsInv, CopyKeepsInv, SnapshotKeepsInv, SendNextKeepsInv, CloseKeepsInv
  <2>3. UNCHANGED <<ring, next>>
    BY <2>1 DEF Open, Subscribe, CopyRing, SendSnapshot, SendNext, Receive, Close, Unsubscribe,
                recorderVars
  <2>4. TailInv'
    BY <1>1, <2>1, <2>3
       DEF TailInv, TailTypeOK, ToldIsLogged, AsksForTheRest, AnswerCountsTold, BatchIsRight,
           BatchHasNoGap, EmissionGoesOn, RingElementsTold
  <2> QED
    BY <2>2, <2>4 DEF EventsInv
<1>5. CASE Polls(T!PollStep)
  <2>1. T!PollStep /\ UNCHANGED pageVars
    BY <1>5 DEF Polls
  <2>2. TailInv'
    BY <2>1, AskKeepsTail, ReadLatestKeepsTail, ReadEventsKeepsTail, PollFailsKeepsTail,
       NoticeRestartKeepsTail, AcceptKeepsTail, EmitKeepsTail DEF T!PollStep, T!Answer
  <2>3. UNCHANGED <<ring, next, subs>>
    BY <2>1 DEF T!PollStep, T!Answer, T!Ask, T!ReadLatest, T!ReadEvents, T!PollFails,
                T!NoticeRestart, T!Accept, T!Emit, T!recorderVars
  <2>4. StreamInv'
    BY <1>1, <2>1, <2>3
       DEF pageVars, StreamInv, StreamTypeOK, RingHoldsLatest, ChannelIsRight, CopyIsRight,
           SentIsRight
  <2> QED
    BY <2>2, <2>4 DEF EventsInv
<1>6. CASE UNCHANGED eventsVars
  <2>1. UNCHANGED <<ring, next, subs, at, snapshot, sent, since, seam, lost>>
    BY <1>6 DEF eventsVars, recorderVars, pageVars
  <2>2. UNCHANGED <<ring, next, life, published, seen, poll, asked, latest, batch, from, told,
                    shown, base>>
    BY <1>6 DEF eventsVars, recorderVars, tailerVars
  <2>3. StreamInv'
    BY <1>1, <2>1
       DEF StreamInv, StreamTypeOK, RingHoldsLatest, ChannelIsRight, CopyIsRight, SentIsRight
  <2>4. TailInv'
    BY <1>1, <2>2
       DEF TailInv, TailTypeOK, ToldIsLogged, AsksForTheRest, AnswerCountsTold, BatchIsRight,
           BatchHasNoGap, EmissionGoesOn, RingElementsTold
  <2> QED
    BY <2>3, <2>4 DEF EventsInv
<1> QED
  BY <1>2, <1>3, <1>4, <1>5, <1>6 DEF EventsNext

LEMMA EventsInvHolds == EventsSpec => []EventsInv
BY EventsInvInit, EventsInvStep, PTL DEF EventsSpec

\* Pages that come and go on a node that restarts, while the tailer polls it, still miss
\* only what their channel has no room for, and get twice only what was logged while
\* they were opened.
THEOREM PagesAreRight == EventsSpec => [](NothingMissed /\ RepeatsOnlyAtSeam)
<1>1. EventsInv => NothingMissed /\ RepeatsOnlyAtSeam
  BY StreamInvSuffices DEF EventsInv
<1> QED
  BY EventsInvHolds, <1>1, PTL

\* However often the node restarts and polls fail, the tailer passes over nothing that
\* the ring still holds, above where a restart made it begin.
THEOREM TailerTellsRing == EventsSpec => []RingIsTold
<1>1. EventsInv => RingIsTold
  BY DEF EventsInv, TailInv, RingElementsTold, RingIsTold, T!RingIsTold, Elements
<1> QED
  BY EventsInvHolds, <1>1, PTL

\* The tailer implements Feed: it shows what the node did log, in the order of logging,
\* nothing twice, although it learns of a restart only from a number that is too low.
THEOREM TailerImplementsFeed == EventsSpec => ImplementsFeed
<1>1. EventsInit => T!F!FeedInit
  BY DEF EventsInit, T!TailInit, T!F!FeedInit
<1>2. ASSUME EventsInv, [EventsNext]_eventsVars
      PROVE  [T!F!FeedNext]_(T!F!feedVars)
  <2>1. TailTypeOK /\ Len(published) = life
    BY <1>2 DEF EventsInv, TailInv, TailTypeOK
  <2>2. CASE LogsEvent
    <3>1. published' = [published EXCEPT ![Len(published)] = @ + 1] /\ UNCHANGED told
      BY <2>1, <2>2 DEF LogsEvent, T!Log, T!pollVars
    <3> QED
      BY <3>1 DEF T!F!FeedNext, T!F!LogEvent
  <2>3. CASE Restarts
    BY <2>3 DEF Restarts, T!Restart, T!pollVars, T!F!FeedNext, T!F!NewLife
  <2>4. ASSUME NEW r \in Readers, PageStep(r)
        PROVE  UNCHANGED T!F!feedVars
    BY <2>4 DEF PageStep, tailerVars, T!F!feedVars
  <2>5. CASE T!Ask \/ T!ReadLatest \/ T!Answer \/ T!PollFails
    BY <2>5 DEF T!Ask, T!ReadLatest, T!Answer, T!ReadEvents, T!Accept, T!NoticeRestart,
                T!PollFails, T!F!feedVars
  <2>6. CASE T!Emit
    <3>1. /\ poll = "emitting" /\ told' = <<from, Head(batch)>> /\ UNCHANGED published
          /\ batch \in Seq(Nat) /\ batch # <<>> /\ from \in Nat /\ from <= life /\ life \in Nat
          /\ told[1] \in Nat /\ told[2] \in Nat /\ asked \in Nat
      BY <1>2, <2>6 DEF T!Emit, EventsInv, TailInv, TailTypeOK, EmissionGoesOn
    <3>2. Head(batch) \in Nat /\ Head(batch) \in Elements(batch)
      BY <3>1, TailOfNumbers DEF Elements
    <3>3. /\ from # 0 /\ asked < Head(batch) /\ Head(batch) <= published[from]
          /\ told[1] <= from
          /\ told[1] = from => told[2] < Head(batch)
      BY <1>2, <3>1, <3>2 DEF EventsInv, TailInv, BatchIsRight, EmissionGoesOn, ToldIsLogged
    <3>4. from \in 1..Len(published) /\ published[from] \in Nat
      <4>1. from \in 1..Len(published) /\ published \in Seq(Nat)
        BY <2>1, <3>1, <3>3 DEF TailTypeOK
      <4> QED
        BY <4>1, ElementOfSeq
    <3>5. Head(batch) \in 1..published[from]
      BY <3>1, <3>2, <3>3, <3>4
    <3>6. <<from, Head(batch)>> \in T!F!Events
      BY <3>4, <3>5 DEF T!F!Events
    <3>7. T!F!Follows(<<from, Head(batch)>>, told)
      BY <3>1, <3>2, <3>3 DEF T!F!Follows
    <3> QED
      BY <3>1, <3>6, <3>7 DEF T!F!FeedNext, T!F!Tell
  <2>7. CASE UNCHANGED eventsVars
    BY <2>7 DEF eventsVars, tailerVars, T!F!feedVars
  <2> QED
    BY <1>2, <2>2, <2>3, <2>4, <2>5, <2>6, <2>7 DEF EventsNext, Polls, T!PollStep
<1> QED
  BY EventsInvHolds, <1>1, <1>2, PTL DEF EventsSpec, ImplementsFeed, T!F!FeedSpec
=============================================================================
