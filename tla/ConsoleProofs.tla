--------------------------- MODULE ConsoleProofs ---------------------------
(***************************************************************************)
(* The console's guard, its log and its stop requests are right, and a     *)
(* page misses nothing that its channel has room for: for any number of    *)
(* runs, requests, tailers and pages, and any capacity.                    *)
(***************************************************************************)
EXTENDS Console, SequenceTheorems, FiniteSetTheorems, TLAPS

-----------------------------------------------------------------------------
(* The invariant                                                           *)

\* What the guard is up for is the current run, and nothing else is underway.
Guarded == \A r \in Underway : r = current /\ running

\* A context is cancelled by a stopper that holds its cancel function for good.
StopsAreAimed ==
    /\ \A s \in Stoppers : at[s] = "idle" => aim[s] = 0
    /\ 0 \notin cancelled
    /\ \A r \in cancelled : \E s \in Stoppers : aim[s] = r
    /\ \A r \in Runs : ending[r] = "stopped" => \E s \in Stoppers : aim[s] = r

\* A page that looks at the log, or is about to, is subscribed to it.
FollowersAreOpen ==
    \A p \in Pages :
        at[p] \in {"subscribed", "following", "live", "leaving"} => <<"steps", p>> \in open

ConsoleInv ==
    /\ ConsoleTypeOK
    /\ Guarded
    /\ LogIsOfLatestRun
    /\ StopsAreAimed
    /\ FollowersAreOpen
    /\ PageMissesNothing

LEMMA ConsoleInvInit == ConsoleInit => ConsoleInv
<1> SUFFICES ASSUME ConsoleInit PROVE ConsoleInv
  OBVIOUS
<1> USE DEF ConsoleInit
<1>1. ConsoleTypeOK
  <2>1. <<>> \in Seq((Runs \cup Operators) \X Nat) /\ <<>> \in Seq(Emitters \X Nat)
    BY EmptySeq
  <2>2. /\ steps \in Seq((Runs \cup Operators) \X Nat)
        /\ channel \in [Kinds \X Pages -> Seq(Emitters \X Nat)]
    BY <2>1
  <2>3. at \in [Emitters \cup Stoppers \cup Pages -> Places]
    BY DEF Places
  <2>7. said \in [Emitters -> Nat]
    OBVIOUS
  <2>6. sends \in [Emitters -> SUBSET (Kinds \X Pages)]
    OBVIOUS
  <2>4. /\ running \in BOOLEAN /\ current \in Nat /\ open \subseteq Kinds \X Pages
        /\ aim \in [Stoppers -> Nat]
        /\ ending \in [Runs -> Endings \cup {"none"}]
    OBVIOUS
  <2>5. /\ shown \in [Pages -> SUBSET (Emitters \X Nat)]
        /\ lost \in [Pages -> SUBSET (Emitters \X Nat)]
    OBVIOUS
  <2> QED
    BY <2>2, <2>3, <2>4, <2>5, <2>6, <2>7 DEF ConsoleTypeOK
<1>2. \A g \in Emitters \cup Stoppers \cup Pages : at[g] = "idle"
  OBVIOUS
<1>3. Guarded /\ FollowersAreOpen /\ PageMissesNothing
  BY <1>2 DEF Guarded, Underway, FollowersAreOpen, PageMissesNothing, Emitters
<1>4. LogIsOfLatestRun /\ StopsAreAimed
  BY <1>2 DEF LogIsOfLatestRun, StopsAreAimed
<1> QED
  BY <1>1, <1>3, <1>4 DEF ConsoleInv

-----------------------------------------------------------------------------
(* The log and the channels                                                *)

\* Cutting a log to its last steps adds none.
LEMMA KeepLastProperties ==
    ASSUME NEW S, NEW log \in Seq(S)
    PROVE  /\ KeepLast(log) \in Seq(S)
           /\ \A i \in 1..Len(KeepLast(log)) : \E j \in 1..Len(log) : KeepLast(log)[i] = log[j]
<1> DEFINE m == (IF Len(log) > LogCap THEN Len(log) - LogCap ELSE 0) + 1
<1>1. m \in Nat /\ m >= 1 /\ Len(log) \in Nat
  BY LenProperties, ConsoleAssumption
<1>2. \A i \in m..Len(log) : log[i] \in S
  BY <1>1, ElementOfSeq
<1>3. KeepLast(log) = SubSeq(log, m, Len(log))
  BY DEF KeepLast
<1> HIDE DEF m
<1>4. /\ SubSeq(log, m, Len(log)) \in Seq(S)
      /\ Len(SubSeq(log, m, Len(log))) = IF m <= Len(log) THEN Len(log) - m + 1 ELSE 0
      /\ \A i \in 1..(Len(log) - m + 1) : SubSeq(log, m, Len(log))[i] = log[m + i - 1]
  BY <1>1, <1>2, SubSeqProperties
<1>5. ASSUME NEW i \in 1..Len(KeepLast(log))
      PROVE  \E j \in 1..Len(log) : KeepLast(log)[i] = log[j]
  <2>1. i \in 1..(Len(log) - m + 1) /\ m + i - 1 \in 1..Len(log)
    BY <1>1, <1>3, <1>4
  <2> QED
    BY <1>3, <1>4, <2>1
<1> QED
  BY <1>3, <1>4, <1>5

\* What the log holds after an emit: what it held, and what is said.
LEMMA EmitProperties ==
    ASSUME ConsoleInv, NEW e \in Runs \cup Operators, Emit(e)
    PROVE  /\ steps' \in Seq((Runs \cup Operators) \X Nat)
           /\ said' \in [Emitters -> Nat]
           /\ sends' \in [Emitters -> SUBSET (Kinds \X Pages)]
           /\ said'[e] = said[e] + 1
           /\ \A x \in Emitters : x # e => said'[x] = said[x] /\ sends'[x] = sends[x]
           /\ sends[e] = {} /\ sends'[e] = Channels("steps")
           /\ \A i \in 1..Len(steps') :
                 \/ steps'[i] = <<e, said[e] + 1>>
                 \/ \E j \in 1..Len(steps) : steps'[i] = steps[j]
<1> DEFINE S == (Runs \cup Operators) \X Nat
           log == Append(steps, <<e, said[e] + 1>>)
<1>1. e \in Emitters /\ said[e] \in Nat
  BY DEF ConsoleInv, ConsoleTypeOK, Emitters
<1>2. steps \in Seq(S) /\ <<e, said[e] + 1>> \in S
  BY <1>1 DEF ConsoleInv, ConsoleTypeOK
<1>3. /\ log \in Seq(S)
      /\ Len(log) = Len(steps) + 1
      /\ \A j \in 1..Len(steps) : log[j] = steps[j]
      /\ log[Len(steps) + 1] = <<e, said[e] + 1>>
  BY <1>2, AppendProperties
<1>4. steps' = KeepLast(log)
  BY DEF Emit
<1> HIDE DEF S, log
<1>5. /\ steps' \in Seq(S)
      /\ \A i \in 1..Len(steps') : \E j \in 1..Len(log) : steps'[i] = log[j]
  BY <1>3, <1>4, KeepLastProperties
<1>6. ASSUME NEW i \in 1..Len(steps')
      PROVE  \/ steps'[i] = <<e, said[e] + 1>>
             \/ \E j \in 1..Len(steps) : steps'[i] = steps[j]
  <2>1. PICK j \in 1..Len(log) : steps'[i] = log[j]
    BY <1>5
  <2>2. Len(steps) \in Nat
    BY <1>2, LenProperties
  <2>3. j = Len(steps) + 1 \/ j \in 1..Len(steps)
    BY <1>3, <2>1, <2>2
  <2> QED
    BY <1>3, <2>1, <2>3
<1>7. /\ said' = [said EXCEPT ![e] = @ + 1]
      /\ sends' = [sends EXCEPT ![e] = Channels("steps")]
      /\ sends[e] = {}
  BY DEF Emit
<1>8. Channels("steps") \in SUBSET (Kinds \X Pages)
  BY DEF Channels, ConsoleInv, ConsoleTypeOK
<1>9. said \in [Emitters -> Nat] /\ sends \in [Emitters -> SUBSET (Kinds \X Pages)]
  BY DEF ConsoleInv, ConsoleTypeOK
<1>10. /\ said' \in [Emitters -> Nat]
       /\ sends' \in [Emitters -> SUBSET (Kinds \X Pages)]
       /\ said'[e] = said[e] + 1
       /\ \A x \in Emitters : x # e => said'[x] = said[x] /\ sends'[x] = sends[x]
       /\ sends'[e] = Channels("steps")
  BY <1>1, <1>7, <1>8, <1>9
<1> QED
  BY <1>5, <1>6, <1>7, <1>10 DEF S

\* What is in a sequence: that is what it has been extended by, or its head and the rest.
LEMMA ToSetProperties ==
    ASSUME NEW S, NEW s \in Seq(S)
    PROVE  /\ \A x \in S : ToSet(Append(s, x)) = ToSet(s) \cup {x}
           /\ s # <<>> => ToSet(s) = {Head(s)} \cup ToSet(Tail(s))
<1>1. ASSUME NEW x \in S PROVE ToSet(Append(s, x)) = ToSet(s) \cup {x}
  <2>1. /\ DOMAIN s = 1..Len(s) /\ Len(s) \in Nat
        /\ Append(s, x) \in Seq(S) /\ Len(Append(s, x)) = Len(s) + 1
        /\ \A i \in 1..Len(s) : Append(s, x)[i] = s[i]
        /\ Append(s, x)[Len(s) + 1] = x
    BY LenProperties, AppendProperties
  <2>2. DOMAIN Append(s, x) = 1..(Len(s) + 1)
    BY <2>1, LenProperties
  <2>3. \A i \in 1..(Len(s) + 1) : i \in 1..Len(s) \/ i = Len(s) + 1
    BY <2>1
  <2>4. 1..Len(s) \subseteq 1..(Len(s) + 1) /\ Len(s) + 1 \in 1..(Len(s) + 1)
    BY <2>1
  <2> QED
    BY <2>1, <2>2, <2>3, <2>4 DEF ToSet
<1>2. ASSUME s # <<>> PROVE ToSet(s) = {Head(s)} \cup ToSet(Tail(s))
  <2>1. /\ Len(s) \in Nat /\ DOMAIN s = 1..Len(s)
        /\ Tail(s) \in Seq(S) /\ Len(Tail(s)) = Len(s) - 1
        /\ \A i \in 1..Len(Tail(s)) : Tail(s)[i] = s[i + 1]
    BY <1>2, LenProperties, HeadTailProperties
  <2>2. Len(s) # 0 /\ Head(s) = s[1]
    BY <1>2, EmptySeq
  <2>3. DOMAIN Tail(s) = 1..(Len(s) - 1)
    BY <2>1, LenProperties
  <2>4. \A i \in 1..Len(s) : i = 1 \/ (i - 1 \in 1..(Len(s) - 1) /\ s[i] = Tail(s)[i - 1])
    BY <2>1
  <2>5. \A i \in 1..(Len(s) - 1) : i + 1 \in 1..Len(s) /\ Tail(s)[i] = s[i + 1]
    BY <2>1
  <2>6. 1 \in 1..Len(s)
    BY <2>1, <2>2
  <2>7. ToSet(s) \subseteq {Head(s)} \cup ToSet(Tail(s))
    <3>1. ASSUME NEW i \in 1..Len(s) PROVE s[i] \in {Head(s)} \cup ToSet(Tail(s))
      BY <2>2, <2>3, <2>4 DEF ToSet
    <3> QED
      BY <2>1, <3>1 DEF ToSet
  <2>8. {Head(s)} \cup ToSet(Tail(s)) \subseteq ToSet(s)
    BY <2>1, <2>2, <2>3, <2>5, <2>6 DEF ToSet
  <2> QED
    BY <2>7, <2>8
<1> QED
  BY <1>1, <1>2

-----------------------------------------------------------------------------
(* Every step keeps the invariant                                          *)

\* The steps that emit, and what else they change.
LEMMA Emissions ==
    /\ \A r \in Runs : Announce(r) \/ Tell(r) \/ LastWord(r) =>
          Emit(r) /\ UNCHANGED <<running, current, pageVars, ending, aim, cancelled, down>>
    /\ \A o \in Operators : Act(o) \/ ActFailed(o) =>
          Emit(o) /\ UNCHANGED <<running, current, pageVars, ending, aim, cancelled, down>>
BY DEF Announce, Tell, LastWord, Act, ActFailed

LEMMA GoesKeepsPlaces ==
    ASSUME ConsoleTypeOK, NEW g \in Emitters \cup Stoppers \cup Pages,
           NEW from, NEW to \in Places, Goes(g, from, to)
    PROVE  /\ at' \in [Emitters \cup Stoppers \cup Pages -> Places]
           /\ at[g] = from /\ at'[g] = to
           /\ \A h \in Emitters \cup Stoppers \cup Pages : h # g => at'[h] = at[h]
BY DEF ConsoleTypeOK, Goes

LEMMA RunKeepsType ==
    ASSUME ConsoleInv, NEW r \in Runs, RunStep(r)
    PROVE  ConsoleTypeOK'
<1> USE DEF pageVars, stateVars
<1>1. ConsoleTypeOK /\ r \in Emitters /\ r \in Nat
  BY DEF ConsoleInv, Runs, Emitters
<1>2. CASE Announce(r) \/ Tell(r) \/ LastWord(r)
  <2>1. Emit(r) /\ UNCHANGED <<running, current, pageVars, ending, aim>>
    BY <1>2, Emissions
  <2>2. at' \in [Emitters \cup Stoppers \cup Pages -> Places]
    BY <1>1, <1>2 DEF Announce, Tell, LastWord, Goes, ConsoleTypeOK, Places
  <2> QED
    BY <1>1, <2>1, <2>2, EmitProperties DEF ConsoleTypeOK
<1>3. CASE Start(r)
  <2>1. at' \in [Emitters \cup Stoppers \cup Pages -> Places]
    BY <1>1, <1>3 DEF Start, Goes, ConsoleTypeOK, Places
  <2>2. steps' \in Seq((Runs \cup Operators) \X Nat)
    BY <1>3, EmptySeq DEF Start
  <2> QED
    BY <1>1, <1>3, <2>1, <2>2 DEF Start, ConsoleTypeOK
<1>4. CASE Go(r) \/ Clear(r)
  <2>1. at' \in [Emitters \cup Stoppers \cup Pages -> Places]
    BY <1>1, <1>4 DEF Go, Clear, Goes, ConsoleTypeOK, Places
  <2> QED
    BY <1>1, <1>4, <2>1 DEF Go, Clear, ConsoleTypeOK
<1>5. CASE Return(r)
  <2>1. at' \in [Emitters \cup Stoppers \cup Pages -> Places]
    BY <1>1, <1>5 DEF Return, Goes, ConsoleTypeOK, Places
  <2>2. ending' \in [Runs -> Endings \cup {"none"}]
    BY <1>1, <1>5 DEF Return, ConsoleTypeOK
  <2> QED
    BY <1>1, <1>5, <2>1, <2>2 DEF Return, ConsoleTypeOK
<1> QED
  BY <1>2, <1>3, <1>4, <1>5 DEF RunStep

LEMMA SendKeepsType ==
    ASSUME ConsoleInv, NEW e \in Emitters, Send(e) \/ SendToClosed(e)
    PROVE  ConsoleTypeOK'
<1> USE DEF pageVars, stateVars
<1>1. ConsoleTypeOK
  BY DEF ConsoleInv
<1>2. CASE Send(e)
  <2>1. PICK c \in sends[e] \ closed :
          /\ sends' = [sends EXCEPT ![e] = @ \ {c}]
          /\ \/ channel' = [channel EXCEPT ![c] = Append(@, Word(e))] /\ UNCHANGED lost
             \/ lost' = [lost EXCEPT ![c[2]] = @ \cup {Word(e)}] /\ UNCHANGED channel
          /\ UNCHANGED <<stateVars, open, closed, shown, at, said, ending, aim>>
    BY <1>2 DEF Send
  <2>2. c \in Kinds \X Pages /\ c[2] \in Pages /\ Word(e) \in Emitters \X Nat
    BY <1>1, <2>1 DEF ConsoleTypeOK, Word
  <2>3. Append(channel[c], Word(e)) \in Seq(Emitters \X Nat)
    BY <1>1, <2>2, AppendProperties DEF ConsoleTypeOK
  <2>4. channel' \in [Kinds \X Pages -> Seq(Emitters \X Nat)]
    BY <1>1, <2>1, <2>2, <2>3 DEF ConsoleTypeOK
  <2>5. sends' \in [Emitters -> SUBSET (Kinds \X Pages)]
    BY <1>1, <2>1 DEF ConsoleTypeOK
  <2>6. lost' \in [Pages -> SUBSET (Emitters \X Nat)]
    <3>1. lost \in [Pages -> SUBSET (Emitters \X Nat)]
      BY <1>1 DEF ConsoleTypeOK
    <3>2. lost[c[2]] \cup {Word(e)} \in SUBSET (Emitters \X Nat)
      BY <2>2, <3>1
    <3> QED
      BY <2>1, <3>1, <3>2
  <2> QED
    BY <1>1, <2>1, <2>4, <2>5, <2>6 DEF ConsoleTypeOK
<1>3. CASE SendToClosed(e)
  <2>1. at' \in [Emitters \cup Stoppers \cup Pages -> Places]
    BY <1>1, <1>3 DEF SendToClosed, ConsoleTypeOK, Places
  <2>2. sends' \in [Emitters -> SUBSET (Kinds \X Pages)]
    BY <1>1, <1>3 DEF SendToClosed, ConsoleTypeOK
  <2> QED
    BY <1>1, <1>3, <2>1, <2>2 DEF SendToClosed, ConsoleTypeOK
<1> QED
  BY <1>2, <1>3

LEMMA PageKeepsType ==
    ASSUME ConsoleInv, NEW p \in Pages, PageStep(p)
    PROVE  ConsoleTypeOK'
<1> USE DEF pageVars, stateVars
<1>1. ConsoleTypeOK
  BY DEF ConsoleInv
<1>2. ASSUME SubscribeSteps(p) \/ SubscribeLogs(p) \/ LeaveLogs(p) \/ LeaveSteps(p)
      PROVE  ConsoleTypeOK'
  <2>1. at' \in [Emitters \cup Stoppers \cup Pages -> Places]
    BY <1>1, <1>2 DEF SubscribeSteps, SubscribeLogs, LeaveLogs, LeaveSteps, Goes,
                      ConsoleTypeOK, Places
  <2>2. open' \subseteq Kinds \X Pages
    BY <1>1, <1>2 DEF SubscribeSteps, SubscribeLogs, LeaveLogs, LeaveSteps, Subscribe,
                      Unsubscribe, ConsoleTypeOK, Kinds
  <2>3. channel' \in [Kinds \X Pages -> Seq(Emitters \X Nat)]
    <3>1. PICK kind \in Kinds : Subscribe(p, kind) \/ Unsubscribe(p, kind)
      BY <1>2 DEF SubscribeSteps, SubscribeLogs, LeaveLogs, LeaveSteps, Kinds
    <3>2. <<>> \in Seq(Emitters \X Nat)
      BY EmptySeq
    <3>3. channel' = channel \/ channel' = [channel EXCEPT ![<<kind, p>>] = <<>>]
      BY <3>1 DEF Subscribe, Unsubscribe
    <3> QED
      BY <1>1, <3>2, <3>3 DEF ConsoleTypeOK
  <2>4. /\ shown' \in [Pages -> SUBSET (Emitters \X Nat)]
        /\ lost' \in [Pages -> SUBSET (Emitters \X Nat)]
    BY <1>1, <1>2 DEF SubscribeSteps, SubscribeLogs, LeaveLogs, LeaveSteps, Subscribe,
                      Unsubscribe, ConsoleTypeOK
  <2>5. UNCHANGED <<stateVars, said, sends, ending, aim, cancelled, down>>
    BY <1>2 DEF SubscribeSteps, SubscribeLogs, LeaveLogs, LeaveSteps, Subscribe, Unsubscribe
  <2> QED
    BY <1>1, <2>1, <2>2, <2>3, <2>4, <2>5 DEF ConsoleTypeOK
<1>3. CASE SnapshotSteps(p)
  <2>1. at' \in [Emitters \cup Stoppers \cup Pages -> Places]
    BY <1>1, <1>3 DEF SnapshotSteps, Goes, ConsoleTypeOK, Places
  <2>2. ToSet(steps) \in SUBSET (Emitters \X Nat)
    <3>1. steps \in Seq((Runs \cup Operators) \X Nat)
      BY <1>1 DEF ConsoleTypeOK
    <3>2. \A i \in DOMAIN steps : steps[i] \in (Runs \cup Operators) \X Nat
      BY <3>1, LenProperties, ElementOfSeq
    <3> QED
      BY <3>2 DEF ToSet, Emitters
  <2>3. shown' \in [Pages -> SUBSET (Emitters \X Nat)]
    BY <1>1, <1>3, <2>2 DEF SnapshotSteps, ConsoleTypeOK
  <2> QED
    BY <1>1, <1>3, <2>1, <2>3 DEF SnapshotSteps, ConsoleTypeOK
<1>4. CASE Show(p)
  <2>1. PICK c \in open :
          /\ channel[c] # <<>>
          /\ channel' = [channel EXCEPT ![c] = Tail(@)]
          /\ shown' = IF c[1] = "steps" THEN [shown EXCEPT ![p] = @ \cup {Head(channel[c])}]
                                        ELSE shown
    BY <1>4 DEF Show
  <2>2. channel[c] \in Seq(Emitters \X Nat)
    BY <1>1, <2>1 DEF ConsoleTypeOK
  <2>3. Head(channel[c]) \in Emitters \X Nat /\ Tail(channel[c]) \in Seq(Emitters \X Nat)
    BY <2>1, <2>2, HeadTailProperties
  <2>4. channel' \in [Kinds \X Pages -> Seq(Emitters \X Nat)]
    BY <1>1, <2>1, <2>3 DEF ConsoleTypeOK
  <2>5. shown' \in [Pages -> SUBSET (Emitters \X Nat)]
    BY <1>1, <2>1, <2>3 DEF ConsoleTypeOK
  <2> QED
    BY <1>1, <1>4, <2>4, <2>5 DEF Show, ConsoleTypeOK
<1> QED
  BY <1>2, <1>3, <1>4 DEF PageStep

LEMMA ConsoleKeepsType ==
    ASSUME ConsoleInv, [ConsoleNext]_consoleVars
    PROVE  ConsoleTypeOK'
<1> USE DEF pageVars, stateVars
<1>1. ConsoleTypeOK
  BY DEF ConsoleInv
<1>2. CASE UNCHANGED consoleVars
  BY <1>1, <1>2 DEF consoleVars, ConsoleTypeOK
<1>3. ASSUME NEW t \in Tails, EmitNodeLog(t) PROVE ConsoleTypeOK'
  <2>1. t \in Emitters /\ Channels("logs") \in SUBSET (Kinds \X Pages)
    BY <1>1 DEF Emitters, Channels, ConsoleTypeOK
  <2>2. said' \in [Emitters -> Nat] /\ sends' \in [Emitters -> SUBSET (Kinds \X Pages)]
    BY <1>1, <1>3, <2>1 DEF EmitNodeLog, ConsoleTypeOK
  <2> QED
    BY <1>1, <1>3, <2>2 DEF EmitNodeLog, ConsoleTypeOK
<1>4. ASSUME NEW s \in Stoppers, StopReads(s) \/ StopCancels(s) PROVE ConsoleTypeOK'
  <2>1. at' \in [Emitters \cup Stoppers \cup Pages -> Places]
    BY <1>1, <1>4 DEF StopReads, StopCancels, Goes, ConsoleTypeOK, Places
  <2>2. aim' \in [Stoppers -> Nat]
    BY <1>1, <1>4 DEF StopReads, StopCancels, ConsoleTypeOK
  <2> QED
    BY <1>1, <1>4, <2>1, <2>2 DEF StopReads, StopCancels, ConsoleTypeOK
<1>5. ASSUME NEW o \in Operators, Act(o) \/ ActFailed(o) PROVE ConsoleTypeOK'
  <2>1. at' \in [Emitters \cup Stoppers \cup Pages -> Places]
    BY <1>1, <1>5 DEF Act, ActFailed, Goes, ConsoleTypeOK, Places
  <2> QED
    BY <1>1, <1>5, <2>1, Emissions, EmitProperties DEF ConsoleTypeOK
<1> QED
  BY <1>2, <1>3, <1>4, <1>5, RunKeepsType, SendKeepsType, PageKeepsType DEF ConsoleNext

\* A goroutine that moves moves alone, and nobody but a run gets to where runs are.
LEMMA ConsoleKeepsGuard ==
    ASSUME ConsoleInv, [ConsoleNext]_consoleVars
    PROVE  Guarded'
<1> USE DEF pageVars, stateVars
<1>1. /\ ConsoleTypeOK /\ at \in [Emitters \cup Stoppers \cup Pages -> Places]
      /\ Runs \subseteq Emitters
      /\ \A r \in Runs : r \in Underway => r = current /\ running
  BY DEF ConsoleInv, ConsoleTypeOK, Guarded, Emitters
<1>2. ASSUME running' = running, current' = current,
             \A r \in Runs : r \in Underway' => r \in Underway
      PROVE  Guarded'
  BY <1>1, <1>2 DEF Guarded, Underway
<1>3. CASE UNCHANGED consoleVars
  BY <1>2, <1>3 DEF consoleVars, Underway
<1>4. ASSUME NEW r \in Runs, RunStep(r) PROVE Guarded'
  <2>1. CASE Start(r)
    <3>1. \A x \in Runs : x # r => at'[x] = at[x]
      BY <1>1, <2>1 DEF Start, Goes
    <3>2. Underway' \subseteq {r} /\ running' /\ current' = r
      BY <1>1, <2>1, <3>1 DEF Start, Underway
    <3> QED
      BY <3>2 DEF Guarded
  <2>2. CASE Clear(r)
    <3>1. r \in Underway /\ at'[r] = "cleared" /\ \A x \in Runs : x # r => at'[x] = at[x]
      BY <1>1, <2>2 DEF Clear, Goes, Underway
    <3>2. \A x \in Runs : x \notin Underway'
      BY <1>1, <3>1 DEF Underway
    <3> QED
      BY <3>2 DEF Guarded, Underway
  <2>3. CASE Announce(r) \/ Go(r) \/ Tell(r) \/ Return(r) \/ LastWord(r)
    <3>1. running' = running /\ current' = current
      BY <2>3 DEF Announce, Go, Tell, Return, LastWord
    <3>2. /\ \A x \in Runs : x # r => at'[x] = at[x]
          /\ at'[r] \in {"announced", "running", "returned"} => r \in Underway
          /\ at'[r] # "started"
      BY <1>1, <2>3 DEF Announce, Go, Tell, Return, LastWord, Goes, Underway
    <3> QED
      BY <1>2, <3>1, <3>2 DEF Underway
  <2> QED
    BY <1>4, <2>1, <2>2, <2>3 DEF RunStep
<1>5. ASSUME NEW e \in Emitters, Send(e) \/ SendToClosed(e) PROVE Guarded'
  <2>1. running' = running /\ current' = current
    BY <1>5 DEF Send, SendToClosed
  <2>2. \A r \in Runs : at'[r] = at[r] \/ at'[r] = "aborted"
    BY <1>1, <1>5 DEF Send, SendToClosed
  <2> QED
    BY <1>2, <2>1, <2>2 DEF Underway
<1>6. ASSUME NEW t \in Tails, EmitNodeLog(t) PROVE Guarded'
  BY <1>2, <1>6 DEF EmitNodeLog, Underway
<1>7. ASSUME NEW s \in Stoppers, StopReads(s) \/ StopCancels(s) PROVE Guarded'
  <2>1. running' = running /\ current' = current
    BY <1>7 DEF StopReads, StopCancels
  <2>2. \A r \in Runs : at'[r] = at[r] \/ at'[r] \in {"aimed", "done"}
    BY <1>1, <1>7 DEF StopReads, StopCancels, Goes
  <2> QED
    BY <1>2, <2>1, <2>2 DEF Underway
<1>8. ASSUME NEW o \in Operators, Act(o) \/ ActFailed(o) PROVE Guarded'
  <2>1. running' = running /\ current' = current
    BY <1>8 DEF Act, ActFailed
  <2>2. \A r \in Runs : at'[r] = at[r] \/ at'[r] \in {"acted", "warned"}
    BY <1>1, <1>8 DEF Act, ActFailed, Goes
  <2> QED
    BY <1>2, <2>1, <2>2 DEF Underway
<1>9. ASSUME NEW p \in Pages, PageStep(p) PROVE Guarded'
  <2>1. running' = running /\ current' = current
    BY <1>9 DEF PageStep, SubscribeSteps, SubscribeLogs, SnapshotSteps, Show, LeaveLogs,
                LeaveSteps, Subscribe, Unsubscribe
  <2>2. \A r \in Runs :
           at'[r] = at[r] \/ at'[r] \in {"subscribed", "following", "live", "leaving", "gone"}
    BY <1>1, <1>9 DEF PageStep, SubscribeSteps, SubscribeLogs, SnapshotSteps, Show, LeaveLogs,
                      LeaveSteps, Goes
  <2> QED
    BY <1>2, <2>1, <2>2 DEF Underway
<1> QED
  BY <1>3, <1>4, <1>5, <1>6, <1>7, <1>8, <1>9 DEF ConsoleNext

\* A run that has had its last word neither moves nor speaks again.
LEMMA DoneIsDone ==
    ASSUME ConsoleInv, [ConsoleNext]_consoleVars, NEW x \in Runs, at[x] = "done"
    PROVE  at'[x] = "done" /\ said'[x] = said[x]
<1> USE DEF pageVars, stateVars
<1>1. /\ at \in [Emitters \cup Stoppers \cup Pages -> Places]
      /\ said \in [Emitters -> Nat]
      /\ x \in Emitters /\ x \notin Operators /\ x \notin Tails
  BY ConsoleAssumption DEF ConsoleInv, ConsoleTypeOK, Emitters, Runs
<1>2. CASE UNCHANGED consoleVars
  BY <1>2 DEF consoleVars
<1>3. ASSUME NEW r \in Runs, RunStep(r) PROVE at'[x] = "done" /\ said'[x] = said[x]
  BY <1>1, <1>3 DEF RunStep, Start, Announce, Go, Tell, Return, Clear, LastWord, Goes, Emit
<1>4. ASSUME NEW e \in Emitters, Send(e) \/ SendToClosed(e)
      PROVE  at'[x] = "done" /\ said'[x] = said[x]
  BY <1>1, <1>4 DEF Send, SendToClosed, InHandler
<1>5. ASSUME NEW t \in Tails, EmitNodeLog(t) PROVE at'[x] = "done" /\ said'[x] = said[x]
  BY <1>1, <1>5 DEF EmitNodeLog
<1>6. ASSUME NEW s \in Stoppers, StopReads(s) \/ StopCancels(s)
      PROVE  at'[x] = "done" /\ said'[x] = said[x]
  BY <1>1, <1>6 DEF StopReads, StopCancels, Goes
<1>7. ASSUME NEW o \in Operators, Act(o) \/ ActFailed(o)
      PROVE  at'[x] = "done" /\ said'[x] = said[x]
  BY <1>1, <1>7 DEF Act, ActFailed, Goes, Emit
<1>8. ASSUME NEW p \in Pages, PageStep(p) PROVE at'[x] = "done" /\ said'[x] = said[x]
  BY <1>1, <1>8 DEF PageStep, SubscribeSteps, SubscribeLogs, SnapshotSteps, Show, LeaveLogs,
                    LeaveSteps, Subscribe, Unsubscribe, Goes
<1> QED
  BY <1>2, <1>3, <1>4, <1>5, <1>6, <1>7, <1>8 DEF ConsoleNext

LEMMA ConsoleKeepsLog ==
    ASSUME ConsoleInv, [ConsoleNext]_consoleVars
    PROVE  LogIsOfLatestRun'
<1> USE DEF pageVars, stateVars
<1>1. /\ LogIsOfLatestRun /\ Guarded
      /\ at \in [Emitters \cup Stoppers \cup Pages -> Places]
      /\ Runs \subseteq Emitters /\ Runs \cap Operators = {}
  BY ConsoleAssumption DEF ConsoleInv, ConsoleTypeOK, Emitters, Runs
<1>2. ASSUME UNCHANGED <<steps, current>> PROVE LogIsOfLatestRun'
  BY <1>1, <1>2, DoneIsDone DEF LogIsOfLatestRun
<1>3. ASSUME NEW e \in Runs \cup Operators, Emit(e), current' = current,
             e \in Runs \ {current} => at'[e] = "done"
      PROVE  LogIsOfLatestRun'
  <2>1. ASSUME NEW i \in 1..Len(steps'), steps'[i][1] \in Runs \ {current}
        PROVE  at'[steps'[i][1]] = "done" /\ steps'[i][2] = said'[steps'[i][1]]
    <3>1. CASE steps'[i] = <<e, said[e] + 1>>
      BY <1>3, <2>1, <3>1, EmitProperties
    <3>2. ASSUME NEW j \in 1..Len(steps), steps'[i] = steps[j]
          PROVE  at'[steps'[i][1]] = "done" /\ steps'[i][2] = said'[steps'[i][1]]
      BY <1>1, <2>1, <3>2, DoneIsDone DEF LogIsOfLatestRun
    <3> QED
      BY <1>3, <3>1, <3>2, EmitProperties
  <2> QED
    BY <1>3, <2>1 DEF LogIsOfLatestRun
<1>4. ASSUME NEW r \in Runs, RunStep(r) PROVE LogIsOfLatestRun'
  <2>1. CASE Start(r)
    <3>1. Len(steps') = 0
      BY <2>1, EmptySeq DEF Start
    <3> QED
      BY <3>1 DEF LogIsOfLatestRun
  <2>2. CASE Announce(r) \/ Tell(r)
    <3>1. r = current
      BY <1>1, <2>2 DEF Guarded, Underway, Announce, Tell, Goes
    <3> QED
      BY <1>3, <2>2, <3>1, Emissions
  <2>3. CASE LastWord(r)
    <3>1. at'[r] = "done"
      BY <1>1, <2>3 DEF LastWord, Goes
    <3> QED
      BY <1>3, <2>3, <3>1, Emissions
  <2>4. CASE Go(r) \/ Return(r) \/ Clear(r)
    BY <1>2, <2>4 DEF Go, Return, Clear
  <2> QED
    BY <1>4, <2>1, <2>2, <2>3, <2>4 DEF RunStep
<1>5. ASSUME NEW o \in Operators, Act(o) \/ ActFailed(o) PROVE LogIsOfLatestRun'
  BY <1>1, <1>3, <1>5, Emissions
<1>6. CASE UNCHANGED consoleVars
  BY <1>2, <1>6 DEF consoleVars
<1>7. CASE \/ \E e \in Emitters : Send(e) \/ SendToClosed(e)
           \/ \E t \in Tails : EmitNodeLog(t)
           \/ \E s \in Stoppers : StopReads(s) \/ StopCancels(s)
  BY <1>2, <1>7 DEF Send, SendToClosed, EmitNodeLog, StopReads, StopCancels
<1>8. CASE \E p \in Pages : PageStep(p)
  BY <1>2, <1>8 DEF PageStep, SubscribeSteps, SubscribeLogs, SnapshotSteps, Show, LeaveLogs,
                    LeaveSteps, Subscribe, Unsubscribe
<1> QED
  BY <1>4, <1>5, <1>6, <1>7, <1>8 DEF ConsoleNext

\* A stopper takes the current run's cancel function, and keeps it.
LEMMA ConsoleKeepsAims ==
    ASSUME ConsoleInv, [ConsoleNext]_consoleVars
    PROVE  StopsAreAimed'
<1> USE DEF pageVars, stateVars
<1>1. /\ StopsAreAimed
      /\ at \in [Emitters \cup Stoppers \cup Pages -> Places]
      /\ aim \in [Stoppers -> Nat] /\ ending \in [Runs -> Endings \cup {"none"}]
      /\ current \in Nat
  BY DEF ConsoleInv, ConsoleTypeOK
<1>2. \A s \in Stoppers : at'[s] = "idle" => at[s] = "idle"
  <2> USE DEF Goes
  <2>1. CASE UNCHANGED consoleVars
    BY <2>1 DEF consoleVars
  <2>2. CASE \E r \in Runs : RunStep(r)
    BY <1>1, <2>2 DEF RunStep, Start, Announce, Go, Tell, Return, Clear, LastWord
  <2>3. CASE \/ \E e \in Emitters : Send(e) \/ SendToClosed(e)
             \/ \E t \in Tails : EmitNodeLog(t)
             \/ \E s \in Stoppers : StopReads(s) \/ StopCancels(s)
             \/ \E o \in Operators : Act(o) \/ ActFailed(o)
    BY <1>1, <2>3 DEF Send, SendToClosed, EmitNodeLog, StopReads, StopCancels, Act, ActFailed
  <2>4. CASE \E p \in Pages : PageStep(p)
    BY <1>1, <2>4 DEF PageStep, SubscribeSteps, SubscribeLogs, SnapshotSteps, Show, LeaveLogs,
                      LeaveSteps
  <2> QED
    BY <2>1, <2>2, <2>3, <2>4 DEF ConsoleNext
<1>3. ASSUME UNCHANGED <<aim, cancelled, ending>> PROVE StopsAreAimed'
  BY <1>1, <1>2, <1>3 DEF StopsAreAimed
<1>4. ASSUME NEW r \in Runs, Return(r) PROVE StopsAreAimed'
  <2>1. UNCHANGED <<aim, cancelled>>
    BY <1>4 DEF Return
  <2>2. \A x \in Runs : ending'[x] = "stopped" => ending[x] = "stopped" \/ x \in cancelled
    BY <1>1, <1>4 DEF Return
  <2> QED
    BY <1>1, <1>2, <2>1, <2>2 DEF StopsAreAimed
<1>5. ASSUME NEW s \in Stoppers, StopReads(s) PROVE StopsAreAimed'
  <2>1. UNCHANGED <<cancelled, ending>> /\ at[s] = "idle" /\ at'[s] = "aimed"
    BY <1>1, <1>5 DEF StopReads, Goes
  <2>2. \A z \in Stoppers : z # s => aim'[z] = aim[z]
    BY <1>1, <1>5 DEF StopReads
  <2>3. aim[s] = 0
    BY <1>1, <2>1 DEF StopsAreAimed
  <2>4. \A r \in Runs \cup cancelled :
           r # 0 /\ (\E z \in Stoppers : aim[z] = r) => \E z \in Stoppers : aim'[z] = r
    BY <2>2, <2>3
  <2>5. 0 \notin cancelled /\ 0 \notin Runs
    BY <1>1 DEF StopsAreAimed, Runs
  <2> QED
    BY <1>1, <1>2, <2>1, <2>2, <2>4, <2>5 DEF StopsAreAimed
<1>6. ASSUME NEW s \in Stoppers, StopCancels(s) PROVE StopsAreAimed'
  <2>1. UNCHANGED <<aim, ending>> /\ cancelled' = cancelled \cup ({aim[s]} \ {0})
    BY <1>6 DEF StopCancels
  <2> QED
    BY <1>1, <1>2, <2>1 DEF StopsAreAimed
<1>7. CASE UNCHANGED consoleVars
  BY <1>3, <1>7 DEF consoleVars
<1>8. ASSUME NEW r \in Runs, RunStep(r), ~Return(r) PROVE StopsAreAimed'
  BY <1>3, <1>8 DEF RunStep, Start, Announce, Go, Tell, Clear, LastWord
<1>9. CASE \/ \E e \in Emitters : Send(e) \/ SendToClosed(e)
           \/ \E t \in Tails : EmitNodeLog(t)
           \/ \E o \in Operators : Act(o) \/ ActFailed(o)
  BY <1>3, <1>9 DEF Send, SendToClosed, EmitNodeLog, Act, ActFailed
<1>10. CASE \E p \in Pages : PageStep(p)
  BY <1>3, <1>10 DEF PageStep, SubscribeSteps, SubscribeLogs, SnapshotSteps, Show, LeaveLogs,
                     LeaveSteps, Subscribe, Unsubscribe
<1> QED
  BY <1>4, <1>5, <1>6, <1>7, <1>8, <1>9, <1>10 DEF ConsoleNext

LEMMA ConsoleKeepsFollowers ==
    ASSUME ConsoleInv, [ConsoleNext]_consoleVars
    PROVE  FollowersAreOpen'
<1> USE DEF pageVars, stateVars
<1> DEFINE Looking == {"subscribed", "following", "live", "leaving"}
<1>1. /\ FollowersAreOpen
      /\ at \in [Emitters \cup Stoppers \cup Pages -> Places]
      /\ Runs \subseteq Emitters /\ Operators \subseteq Emitters
  BY DEF ConsoleInv, ConsoleTypeOK, Emitters
<1>2. ASSUME open' = open, \A p \in Pages : at'[p] \in Looking => at[p] \in Looking
      PROVE  FollowersAreOpen'
  BY <1>1, <1>2 DEF FollowersAreOpen
<1>3. CASE UNCHANGED consoleVars
  BY <1>2, <1>3 DEF consoleVars
<1>4. CASE \E r \in Runs : RunStep(r)
  BY <1>1, <1>2, <1>4 DEF RunStep, Start, Announce, Go, Tell, Return, Clear, LastWord, Goes
<1>5. CASE \/ \E e \in Emitters : Send(e) \/ SendToClosed(e)
           \/ \E t \in Tails : EmitNodeLog(t)
           \/ \E s \in Stoppers : StopReads(s) \/ StopCancels(s)
           \/ \E o \in Operators : Act(o) \/ ActFailed(o)
  BY <1>1, <1>2, <1>5 DEF Send, SendToClosed, EmitNodeLog, StopReads, StopCancels, Act,
                          ActFailed, Goes
<1>6. ASSUME NEW q \in Pages, PageStep(q) PROVE FollowersAreOpen'
  <2>1. CASE SubscribeSteps(q)
    BY <1>1, <2>1 DEF SubscribeSteps, Subscribe, Goes, FollowersAreOpen
  <2>2. CASE SubscribeLogs(q) \/ LeaveLogs(q)
    BY <1>1, <2>2 DEF SubscribeLogs, LeaveLogs, Subscribe, Unsubscribe, Goes, FollowersAreOpen
  <2>3. CASE SnapshotSteps(q) \/ Show(q)
    BY <1>1, <1>2, <2>3 DEF SnapshotSteps, Show, Goes
  <2>4. CASE LeaveSteps(q)
    BY <1>1, <2>4 DEF LeaveSteps, Unsubscribe, Goes, FollowersAreOpen
  <2> QED
    BY <1>6, <2>1, <2>2, <2>3, <2>4 DEF PageStep
<1> QED
  BY <1>3, <1>4, <1>5, <1>6 DEF ConsoleNext

\* What a page has been sent, finds in its channel, or has lost ...
Covered(p) == shown[p] \cup ToSet(channel[<<"steps", p>>]) \cup lost[p]

\* ... and what is still to be sent to it, or was, by a handler that was aborted.
Pending(p, w) == w = Word(w[1]) /\ (<<"steps", p>> \in sends[w[1]] \/ at[w[1]] = "aborted")

LEMMA MissesNothing ==
    PageMissesNothing <=>
        \A p \in Pages : at[p] = "live" /\ ~down =>
            \A i \in 1..Len(steps) : steps[i] \in Covered(p) \/ Pending(p, steps[i])
BY DEF PageMissesNothing, Covered, Pending

\* A step that does not touch the log keeps what it holds covered if it keeps every
\* page's share of it.
LEMMA CoverKept ==
    ASSUME ConsoleInv, ~down, steps' = steps,
           \A p \in Pages : at'[p] = "live" => at[p] = "live",
           \A p \in Pages : at'[p] = "live" => Covered(p) \subseteq Covered(p)',
           \A p \in Pages : \A w \in (Runs \cup Operators) \X Nat :
              at[p] = "live" /\ ~down' /\ Pending(p, w) => w \in Covered(p)' \/ Pending(p, w)'
    PROVE  PageMissesNothing'
<1>1. /\ steps \in Seq((Runs \cup Operators) \X Nat) /\ PageMissesNothing
      /\ Len(steps') = Len(steps)
  BY DEF ConsoleInv, ConsoleTypeOK
<1>2. \A i \in 1..Len(steps) : steps[i] \in (Runs \cup Operators) \X Nat
  BY <1>1, ElementOfSeq
<1>3. ASSUME NEW p \in Pages, at'[p] = "live", ~down', NEW i \in 1..Len(steps)
      PROVE  steps[i] \in Covered(p)' \/ Pending(p, steps[i])'
  <2>1. steps[i] \in Covered(p) \/ Pending(p, steps[i])
    BY <1>1, <1>3, MissesNothing
  <2> QED
    BY <1>2, <1>3, <2>1
<1> QED
  BY <1>1, <1>3 DEF PageMissesNothing, Covered, Pending

LEMMA EmitMissesNothing ==
    ASSUME ConsoleInv, ~down, NEW e \in Runs \cup Operators, Emit(e),
           UNCHANGED <<open, channel, shown, lost, down>>,
           at[e] # "aborted", at'[e] # "live",
           \A x \in Emitters \cup Stoppers \cup Pages : x # e => at'[x] = at[x]
    PROVE  PageMissesNothing'
<1>1. /\ steps \in Seq((Runs \cup Operators) \X Nat) /\ PageMissesNothing
      /\ FollowersAreOpen
      /\ Runs \cup Operators \subseteq Emitters
  BY DEF ConsoleInv, ConsoleTypeOK, Emitters
<1>2. ASSUME NEW p \in Pages, at'[p] = "live", NEW i \in 1..Len(steps')
      PROVE  steps'[i] \in Covered(p)' \/ Pending(p, steps[i])'
  <2>1. at[p] = "live" /\ <<"steps", p>> \in open
    BY <1>1, <1>2 DEF FollowersAreOpen
  <2>2. CASE steps'[i] = <<e, said[e] + 1>>
    <3>1. <<"steps", p>> \in sends'[e] /\ said'[e] = said[e] + 1
      BY <2>1, EmitProperties DEF Channels
    <3> QED
      BY <2>2, <3>1 DEF Pending, Word
  <2>3. ASSUME NEW j \in 1..Len(steps), steps'[i] = steps[j]
        PROVE  steps'[i] \in Covered(p)' \/ Pending(p, steps[i])'
    <3>1. steps[j] \in (Runs \cup Operators) \X Nat
      BY <1>1, ElementOfSeq
    <3>2. CASE steps[j] \in Covered(p)
      BY <2>3, <3>2 DEF Covered
    <3>3. CASE Pending(p, steps[j])
      <4>1. steps[j][1] \in Emitters /\ steps[j][1] # e
        BY <1>1, <3>1, <3>3, EmitProperties DEF Pending
      <4>2. /\ said'[steps[j][1]] = said[steps[j][1]]
            /\ sends'[steps[j][1]] = sends[steps[j][1]]
            /\ at'[steps[j][1]] = at[steps[j][1]]
        BY <4>1, EmitProperties
      <4> QED
        BY <2>3, <3>3, <4>2 DEF Pending, Word
    <3> QED
      BY <1>1, <2>1, <3>2, <3>3, MissesNothing
  <2> QED
    BY <2>2, <2>3, EmitProperties
<1>3. \A p \in Pages : at'[p] = "live" /\ ~down' =>
         \A i \in 1..Len(steps') : steps'[i] \in Covered(p)' \/ Pending(p, steps[i])'
  BY <1>2
<1> QED
  BY <1>3 DEF PageMissesNothing, Covered, Pending

LEMMA SendMissesNothing ==
    ASSUME ConsoleInv, ~down, NEW e \in Emitters, Send(e) \/ SendToClosed(e)
    PROVE  PageMissesNothing'
<1> USE DEF pageVars, stateVars
<1>1. /\ ConsoleTypeOK /\ Runs \cup Operators \subseteq Emitters
  BY DEF ConsoleInv, Emitters
<1>2. CASE Send(e)
  <2>1. PICK c \in sends[e] \ closed :
          /\ sends' = [sends EXCEPT ![e] = @ \ {c}]
          /\ \/ channel' = [channel EXCEPT ![c] = Append(@, Word(e))] /\ UNCHANGED lost
             \/ lost' = [lost EXCEPT ![c[2]] = @ \cup {Word(e)}] /\ UNCHANGED channel
          /\ UNCHANGED <<stateVars, open, closed, shown, at, said>>
    BY <1>2 DEF Send
  <2>2. c \in Kinds \X Pages /\ c[2] \in Pages /\ Word(e) \in Emitters \X Nat
    BY <1>1, <2>1 DEF ConsoleTypeOK, Word
  <2>3. channel[c] \in Seq(Emitters \X Nat)
    BY <1>1, <2>2 DEF ConsoleTypeOK
  <2>4. ToSet(Append(channel[c], Word(e))) = ToSet(channel[c]) \cup {Word(e)}
    BY <2>2, <2>3, ToSetProperties
  <2>5. ASSUME NEW p \in Pages
        PROVE  /\ Covered(p) \subseteq Covered(p)'
               /\ c = <<"steps", p>> => Word(e) \in Covered(p)'
    <3>1. <<"steps", p>> \in Kinds \X Pages
      BY DEF Kinds
    <3>2. CASE channel' = [channel EXCEPT ![c] = Append(@, Word(e))] /\ UNCHANGED lost
      BY <1>1, <2>1, <2>2, <2>4, <3>1, <3>2 DEF Covered, ConsoleTypeOK
    <3>3. CASE lost' = [lost EXCEPT ![c[2]] = @ \cup {Word(e)}] /\ UNCHANGED channel
      BY <1>1, <2>1, <2>2, <3>1, <3>3 DEF Covered, ConsoleTypeOK
    <3> QED
      BY <2>1, <3>2, <3>3
  <2>6. ASSUME NEW p \in Pages, NEW w \in (Runs \cup Operators) \X Nat, Pending(p, w)
        PROVE  w \in Covered(p)' \/ Pending(p, w)'
    <3>1. w[1] \in Emitters /\ w = Word(w[1]) /\ Word(w[1])' = Word(w[1])
      BY <1>1, <2>1, <2>6 DEF Pending, Word
    <3>2. CASE at[w[1]] = "aborted"
      BY <2>1, <3>1, <3>2 DEF Pending
    <3>3. CASE <<"steps", p>> \in sends[w[1]] /\ (w[1] # e \/ c # <<"steps", p>>)
      <4>1. <<"steps", p>> \in sends'[w[1]]
        BY <1>1, <2>1, <3>1, <3>3 DEF ConsoleTypeOK
      <4> QED
        BY <3>1, <4>1 DEF Pending
    <3>4. CASE w[1] = e /\ c = <<"steps", p>>
      BY <2>5, <3>1, <3>4
    <3> QED
      BY <2>6, <3>2, <3>3, <3>4 DEF Pending
  <2> QED
    BY <2>1, <2>5, <2>6, CoverKept
<1>3. CASE SendToClosed(e)
  <2>1. /\ sends' = [sends EXCEPT ![e] = {}]
        /\ at' = [at EXCEPT ![e] = "aborted"] \/ (down' /\ at' = at)
        /\ UNCHANGED <<steps, shown, channel, lost, said>>
    BY <1>3 DEF SendToClosed
  <2>2. \A x \in Emitters \cup Stoppers \cup Pages : at'[x] = at[x] \/ at'[x] = "aborted"
    BY <1>1, <2>1 DEF ConsoleTypeOK
  <2>3. \A p \in Pages : Covered(p)' = Covered(p)
    BY <2>1 DEF Covered
  <2>4. ASSUME NEW p \in Pages, NEW w \in (Runs \cup Operators) \X Nat, ~down', Pending(p, w)
        PROVE  Pending(p, w)'
    BY <1>1, <2>1, <2>2, <2>4 DEF Pending, Word, ConsoleTypeOK
  <2> QED
    BY <2>1, <2>2, <2>3, <2>4, CoverKept
<1> QED
  BY <1>2, <1>3

LEMMA PageStepMissesNothing ==
    ASSUME ConsoleInv, ~down, NEW q \in Pages, PageStep(q)
    PROVE  PageMissesNothing'
<1> USE DEF pageVars, stateVars
<1>1. /\ ConsoleTypeOK /\ PageMissesNothing /\ Runs \cup Operators \subseteq Emitters
  BY DEF ConsoleInv, Emitters
<1>2. UNCHANGED <<steps, said, sends, down>>
  BY DEF PageStep, SubscribeSteps, SubscribeLogs, SnapshotSteps, Show, LeaveLogs, LeaveSteps,
         Subscribe, Unsubscribe
<1>3. /\ \A x \in Emitters \cup Stoppers \cup Pages : at[x] = "aborted" => at'[x] = "aborted"
      /\ \A p \in Pages : at'[p] = "live" => at[p] = "live" \/ (p = q /\ SnapshotSteps(q))
  BY <1>1 DEF PageStep, SubscribeSteps, SubscribeLogs, SnapshotSteps, Show, LeaveLogs,
              LeaveSteps, Goes, ConsoleTypeOK
<1>4. \A p \in Pages : \A w \in (Runs \cup Operators) \X Nat : Pending(p, w) => Pending(p, w)'
  BY <1>1, <1>2, <1>3 DEF Pending, Word
<1>5. CASE SubscribeSteps(q) \/ SubscribeLogs(q)
  <2>1. UNCHANGED <<shown, channel, lost>> /\ ~SnapshotSteps(q)
    BY <1>5 DEF SubscribeSteps, SubscribeLogs, SnapshotSteps, Subscribe, Goes
  <2>2. \A p \in Pages : Covered(p)' = Covered(p)
    BY <2>1 DEF Covered
  <2> QED
    BY <1>2, <1>3, <1>4, <2>1, <2>2, CoverKept
<1>6. CASE LeaveLogs(q) \/ LeaveSteps(q)
  <2>1. at'[q] # "live" /\ ~SnapshotSteps(q)
    BY <1>1, <1>6 DEF LeaveLogs, LeaveSteps, SnapshotSteps, Goes, ConsoleTypeOK
  <2>2. PICK kind \in Kinds : Unsubscribe(q, kind)
    BY <1>6 DEF LeaveLogs, LeaveSteps, Kinds
  <2>3. ASSUME NEW p \in Pages, p # q PROVE Covered(p)' = Covered(p)
    <3>1. <<"steps", p>> \in Kinds \X Pages /\ <<"steps", p>> # <<kind, q>>
      BY <2>3 DEF Kinds
    <3>2. channel'[<<"steps", p>>] = channel[<<"steps", p>>]
      BY <1>1, <2>2, <3>1 DEF Unsubscribe, ConsoleTypeOK
    <3>3. shown'[p] = shown[p] /\ lost'[p] = lost[p]
      BY <1>1, <2>2, <2>3 DEF Unsubscribe, ConsoleTypeOK
    <3> QED
      BY <3>2, <3>3 DEF Covered
  <2> QED
    BY <1>2, <1>3, <1>4, <2>1, <2>3, CoverKept
<1>7. Show(q) \/ SnapshotSteps(q) => UNCHANGED lost
  BY DEF Show, SnapshotSteps
<1>8. CASE Show(q)
  <2>1. PICK c \in open :
          /\ c[2] = q /\ channel[c] # <<>>
          /\ channel' = [channel EXCEPT ![c] = Tail(@)]
          /\ shown' = IF c[1] = "steps" THEN [shown EXCEPT ![q] = @ \cup {Head(channel[c])}]
                                        ELSE shown
    BY <1>8 DEF Show
  <2>2. c \in Kinds \X Pages /\ channel[c] \in Seq(Emitters \X Nat)
    BY <1>1, <2>1 DEF ConsoleTypeOK
  <2>3. ToSet(channel[c]) = {Head(channel[c])} \cup ToSet(Tail(channel[c]))
    BY <2>1, <2>2, ToSetProperties
  <2>4. ASSUME NEW p \in Pages PROVE Covered(p) \subseteq Covered(p)'
    <3>1. <<"steps", p>> \in Kinds \X Pages
      BY DEF Kinds
    <3>2. CASE c = <<"steps", p>>
      BY <1>1, <1>8, <1>7, <2>1, <2>2, <2>3, <3>1, <3>2 DEF Covered, ConsoleTypeOK
    <3>3. CASE c # <<"steps", p>>
      BY <1>1, <1>8, <1>7, <2>1, <2>2, <3>1, <3>3 DEF Covered, ConsoleTypeOK
    <3> QED
      BY <3>2, <3>3
  <2>5. \A p \in Pages : at'[p] = "live" => at[p] = "live"
    BY <1>8 DEF Show
  <2> QED
    BY <1>2, <1>4, <2>4, <2>5, CoverKept
<1>9. CASE SnapshotSteps(q)
  <2>1. /\ shown' = [shown EXCEPT ![q] = ToSet(steps)] /\ channel' = channel
        /\ steps \in Seq((Runs \cup Operators) \X Nat) /\ Len(steps') = Len(steps)
    BY <1>1, <1>2, <1>9 DEF SnapshotSteps, ConsoleTypeOK
  <2>2. ASSUME NEW p \in Pages, at'[p] = "live", NEW i \in 1..Len(steps)
        PROVE  steps[i] \in Covered(p)' \/ Pending(p, steps[i])'
    <3>1. CASE p = q
      <4>1. steps[i] \in ToSet(steps)
        BY <2>1, LenProperties DEF ToSet
      <4> QED
        BY <1>1, <2>1, <3>1, <4>1 DEF Covered, ConsoleTypeOK
    <3>2. CASE p # q
      <4>1. at[p] = "live" /\ Covered(p)' = Covered(p)
        BY <1>1, <1>3, <1>9, <1>7, <2>1, <2>2, <3>2 DEF Covered, ConsoleTypeOK
      <4>2. steps[i] \in (Runs \cup Operators) \X Nat
        BY <2>1, ElementOfSeq
      <4>3. steps[i] \in Covered(p) \/ Pending(p, steps[i])
        BY <1>1, <4>1, MissesNothing
      <4> QED
        BY <1>2, <1>4, <4>1, <4>2, <4>3
    <3> QED
      BY <3>1, <3>2
  <2> QED
    BY <1>2, <2>1, <2>2 DEF PageMissesNothing, Covered, Pending
<1> QED
  BY <1>5, <1>8, <1>9, <1>6 DEF PageStep

LEMMA ConsoleMissesNothing ==
    ASSUME ConsoleInv, [ConsoleNext]_consoleVars
    PROVE  PageMissesNothing'
<1> USE DEF pageVars, stateVars
<1>1. /\ ConsoleTypeOK /\ PageMissesNothing
      /\ Runs \cup Operators \subseteq Emitters /\ Tails \cap (Runs \cup Operators) = {}
  BY ConsoleAssumption DEF ConsoleInv, Emitters, Runs
<1>2. CASE UNCHANGED consoleVars
  BY <1>1, <1>2 DEF consoleVars, PageMissesNothing, Word
<1>3. ASSUME NEW e \in Runs \cup Operators, Emit(e), ~down,
             at[e] # "aborted", at'[e] # "live",
             \A x \in Emitters \cup Stoppers \cup Pages : x # e => at'[x] = at[x],
             UNCHANGED <<running, current, pageVars, ending, aim, cancelled, down>>
      PROVE  PageMissesNothing'
  BY <1>3, EmitMissesNothing
<1>4. ASSUME ~down, UNCHANGED <<steps, shown, channel, lost>>,
             \A x \in Runs \cup Operators : said'[x] = said[x] /\ sends'[x] = sends[x],
             \A x \in Emitters : at[x] = "aborted" => at'[x] = "aborted",
             \A p \in Pages : at'[p] = "live" => at[p] = "live"
      PROVE  PageMissesNothing'
  <2>1. \A p \in Pages : Covered(p)' = Covered(p)
    BY <1>4 DEF Covered
  <2>2. \A p \in Pages : \A w \in (Runs \cup Operators) \X Nat :
           Pending(p, w) => Pending(p, w)'
    BY <1>1, <1>4 DEF Pending, Word
  <2> QED
    BY <1>4, <2>1, <2>2, CoverKept
<1>5. ASSUME NEW r \in Runs, RunStep(r), ~down PROVE PageMissesNothing'
  <2>1. CASE Announce(r) \/ Tell(r) \/ LastWord(r)
    <3>1. /\ at[r] # "aborted" /\ at'[r] # "live"
          /\ \A x \in Emitters \cup Stoppers \cup Pages : x # r => at'[x] = at[x]
      BY <1>1, <2>1 DEF Announce, Tell, LastWord, Goes, ConsoleTypeOK
    <3> QED
      BY <1>3, <1>5, <2>1, <3>1, Emissions
  <2>2. CASE Start(r)
    <3>1. Len(steps') = 0
      BY <2>2, EmptySeq DEF Start
    <3> QED
      BY <3>1 DEF PageMissesNothing
  <2>3. CASE Go(r) \/ Return(r) \/ Clear(r)
    BY <1>1, <1>4, <1>5, <2>3 DEF Go, Return, Clear, Goes, ConsoleTypeOK
  <2> QED
    BY <1>5, <2>1, <2>2, <2>3 DEF RunStep
<1>6. ASSUME NEW t \in Tails, EmitNodeLog(t), ~down PROVE PageMissesNothing'
  BY <1>1, <1>4, <1>6 DEF EmitNodeLog, ConsoleTypeOK
<1>7. ASSUME NEW s \in Stoppers, StopReads(s) \/ StopCancels(s), ~down PROVE PageMissesNothing'
  BY <1>1, <1>4, <1>7 DEF StopReads, StopCancels, Goes, ConsoleTypeOK
<1>8. ASSUME NEW o \in Operators, Act(o) \/ ActFailed(o), ~down PROVE PageMissesNothing'
  <2>1. /\ at[o] # "aborted" /\ at'[o] # "live"
        /\ \A x \in Emitters \cup Stoppers \cup Pages : x # o => at'[x] = at[x]
    BY <1>1, <1>8 DEF Act, ActFailed, Goes, ConsoleTypeOK
  <2> QED
    BY <1>3, <1>8, <2>1, Emissions
<1> QED
  BY <1>2, <1>5, <1>6, <1>7, <1>8, SendMissesNothing, PageStepMissesNothing DEF ConsoleNext

-----------------------------------------------------------------------------
(* The theorems                                                            *)

LEMMA ConsoleIsInvariant == ConsoleSpec => []ConsoleInv
<1>1. ConsoleInv /\ [ConsoleNext]_consoleVars => ConsoleInv'
  BY ConsoleKeepsType, ConsoleKeepsGuard, ConsoleKeepsLog, ConsoleKeepsAims,
     ConsoleKeepsFollowers, ConsoleMissesNothing DEF ConsoleInv
<1> QED
  BY ConsoleInvInit, <1>1, PTL DEF ConsoleSpec

\* However starts, stops and endings overlap, no two scenarios are underway at once.
THEOREM ScenariosRunOneAtATime == ConsoleSpec => []OneRunAtATime
<1>1. ConsoleInv => OneRunAtATime
  <2> SUFFICES ASSUME ConsoleInv PROVE OneRunAtATime
    OBVIOUS
  <2>1. Underway \in SUBSET {current} /\ (Underway # {} => running)
    BY DEF ConsoleInv, Guarded
  <2>2. Cardinality(Underway) <= Cardinality({current}) /\ Cardinality({current}) = 1
    BY <2>1, FS_Singleton, FS_Subset
  <2> QED
    BY <2>1, <2>2 DEF OneRunAtATime
<1> QED
  BY <1>1, ConsoleIsInvariant, PTL

\* The log that the console shows is of the latest run: an earlier one adds its last
\* word to it at most.
THEOREM LogTellsLatestRun == ConsoleSpec => []LogIsOfLatestRun
<1>1. ConsoleInv => LogIsOfLatestRun
  BY DEF ConsoleInv
<1> QED
  BY <1>1, ConsoleIsInvariant, PTL

\* A request to stop a scenario never stops one that was started after it had looked.
THEOREM StopsAreRight == ConsoleSpec => []StopsWhatItSaw
<1>1. ConsoleInv => StopsWhatItSaw
  BY DEF ConsoleInv, StopsAreAimed, StopsWhatItSaw, Runs
<1> QED
  BY <1>1, ConsoleIsInvariant, PTL

\* A page that follows the log gets all of it that its channel has room for, whatever
\* is said while it subscribes.
THEOREM PagesAreTold == ConsoleSpec => []PageMissesNothing
<1>1. ConsoleInv => PageMissesNothing
  BY DEF ConsoleInv
<1> QED
  BY <1>1, ConsoleIsInvariant, PTL
=============================================================================
