-------------------------- MODULE ScenariosProofs --------------------------
(***************************************************************************)
(* Whatever scenario is run, over any number of nodes, with whichever of   *)
(* its calls failing, wherever it is stopped, and whatever the nodes learn *)
(* meanwhile: one that heals the cluster at its end and finishes leaves no *)
(* node disturbed; a quorum-loss that finishes leaves no node dead.        *)
(***************************************************************************)
EXTENDS Scenarios, FiniteSetTheorems, SequenceTheorems, WellFoundedInduction, TLAPS

-----------------------------------------------------------------------------
(* Least elements: induction, and the values of recursive functions        *)

LEMMA LeastNatural ==
    ASSUME NEW T, T \subseteq Nat, T # {}
    PROVE  \E x \in T : \A y \in T : x <= y
<1> DEFINE R == OpToRel(<, Nat)
<1>1. IsWellFoundedOn(R, Nat)
  BY NatLessThanWellFounded
<1>2. PICK x \in T : \A y \in T : ~(<<y, x>> \in R)
  <2> HIDE DEF R
  <2> QED
    BY <1>1, WFMin
<1>3. \A y \in T : ~(y < x)
  BY <1>2 DEF OpToRel
<1> QED
  BY <1>3

\* A set of indices that has the first, and with each the next, has them all.
LEMMA IndicesByInduction ==
    ASSUME NEW n \in Nat, NEW T, 1 \in T, \A i \in 1..n - 1 : i \in T => i + 1 \in T
    PROVE  1..n \subseteq T
<1> SUFFICES ASSUME (1..n) \ T # {}
             PROVE  FALSE
  OBVIOUS
<1>1. (1..n) \ T \subseteq Nat
  OBVIOUS
<1>2. PICK x \in (1..n) \ T : \A y \in (1..n) \ T : x <= y
  BY <1>1, LeastNatural
<1>3. x # 1 /\ x - 1 \in 1..n - 1 /\ x - 1 \notin (1..n) \ T
  BY <1>2
<1>4. x - 1 \in T /\ x - 1 + 1 = x
  BY <1>3
<1> QED
  BY <1>2, <1>3, <1>4

-----------------------------------------------------------------------------
(* Sequences                                                               *)

\* The recursive function of FlattenSeq, on the first n of its arguments.
Flattens(g, s, n) == g = [i \in 1..n |-> IF i = 1 THEN s[i] ELSE g[i - 1] \o s[i]]

LEMMA FlatteningExists ==
    ASSUME NEW S, NEW s \in Seq(Seq(S)), Len(s) # 0
    PROVE  \E g : Flattens(g, s, Len(s))
<1> DEFINE T == {n \in 1..Len(s) : \E g : Flattens(g, s, n)}
<1>0. Len(s) \in Nat /\ 1 \in 1..Len(s)
  BY LenProperties
<1>1. 1 \in T
  <2> DEFINE g == [i \in 1..1 |-> s[i]]
  <2>1. Flattens(g, s, 1)
    BY DEF Flattens
  <2> QED
    BY <1>0, <2>1
<1>2. ASSUME NEW n \in 1..Len(s) - 1, n \in T
      PROVE  n + 1 \in T
  <2>1. PICK g : Flattens(g, s, n)
    BY <1>2
  <2> DEFINE h == [i \in 1..n + 1 |-> IF i = 1 THEN s[i] ELSE g[i - 1] \o s[i]]
  <2>a. n \in Nat
    BY <1>0
  <2>b. \A i \in 1..n : g[i] = IF i = 1 THEN s[i] ELSE g[i - 1] \o s[i]
    BY <2>1 DEF Flattens
  <2>c. \A i \in 1..n : i \in 1..n + 1
    BY <2>a
  <2>2. \A i \in 1..n : h[i] = g[i]
    BY <2>b, <2>c
  <2>d. \A i \in 1..n + 1 : i # 1 => i - 1 \in 1..n
    BY <2>a
  <2>3. \A i \in 1..n + 1 : i # 1 => h[i - 1] = g[i - 1]
    <3> HIDE DEF h
    <3> QED
      BY <2>2, <2>d
  <2>4. h = [i \in 1..n + 1 |-> IF i = 1 THEN s[i] ELSE h[i - 1] \o s[i]]
    BY <2>3
  <2>5. Flattens(h, s, n + 1)
    BY <2>4 DEF Flattens
  <2> QED
    BY <2>5, <1>0
<1>3. 1..Len(s) \subseteq T
  <2> HIDE DEF T
  <2> QED
    BY <1>0, <1>1, <1>2, IndicesByInduction
<1> QED
  BY <1>0, <1>3

\* What is flattened has the elements of its parts.
LEMMA FlattenSeqType ==
    ASSUME NEW S, NEW s \in Seq(Seq(S))
    PROVE  FlattenSeq(s) \in Seq(S)
<1>1. CASE Len(s) = 0
  <2>1. s = <<>>
    BY <1>1, EmptySeq
  <2> QED
    BY <1>1, <2>1, EmptySeq DEF FlattenSeq
<1>2. CASE Len(s) # 0
  <2> DEFINE g == CHOOSE f : Flattens(f, s, Len(s))
             T == {i \in 1..Len(s) : g[i] \in Seq(S)}
  <2>0. Len(s) \in Nat /\ 1 \in 1..Len(s) /\ Len(s) \in 1..Len(s)
    BY <1>2, LenProperties
  <2>1. FlattenSeq(s) = g[Len(s)]
    BY <1>2 DEF FlattenSeq, Flattens
  <2>2. Flattens(g, s, Len(s))
    BY <1>2, FlatteningExists
  <2> HIDE DEF g
  <2>3. \A i \in 1..Len(s) : g[i] = IF i = 1 THEN s[i] ELSE g[i - 1] \o s[i]
    BY <2>2 DEF Flattens
  <2>4. \A i \in 1..Len(s) : s[i] \in Seq(S)
    BY ElementOfSeq
  <2>5. 1 \in T
    BY <2>0, <2>3, <2>4
  <2>6. ASSUME NEW i \in 1..Len(s) - 1, i \in T
        PROVE  i + 1 \in T
    <3>1. i + 1 \in 1..Len(s) /\ i + 1 # 1 /\ (i + 1) - 1 = i
      BY <2>0
    <3>2. g[i + 1] = g[i] \o s[i + 1]
      BY <2>3, <3>1
    <3>3. g[i] \in Seq(S) /\ s[i + 1] \in Seq(S)
      BY <2>6, <2>4, <3>1
    <3>4. g[i] \o s[i + 1] \in Seq(S)
      BY <3>3, ConcatProperties
    <3> QED
      BY <3>1, <3>2, <3>4
  <2>7. 1..Len(s) \subseteq T
    <3> HIDE DEF T
    <3> QED
      BY <2>0, <2>5, <2>6, IndicesByInduction
  <2> QED
    BY <2>0, <2>1, <2>7
<1> QED
  BY <1>1, <1>2

\* A finite set as a sequence.
LEMMA SetToSeqType ==
    ASSUME NEW S, IsFiniteSet(S)
    PROVE  SetToSeq(S) \in Seq(S)
<1>1. Cardinality(S) \in Nat /\ ExistsBijection(1..Cardinality(S), S)
  BY FS_CardinalityType
<1>2. PICK f \in Bijection(1..Cardinality(S), S) : TRUE
  BY <1>1 DEF ExistsBijection
<1>3. f \in [1..Cardinality(S) -> S] /\ IsInjective(f)
  BY <1>2 DEF Bijection, Injection, IsInjective
<1>4. SetToSeq(S) \in [1..Cardinality(S) -> S]
  BY <1>3 DEF SetToSeq
<1> QED
  BY <1>1, <1>4, SeqDef

\* The first index whose element passes, 0 if there is none.
FirstOf(do) == SelectInSeq(script, LAMBDA i : i.do = do)

LEMMA FirstIndex ==
    ASSUME NEW do, Len(script) \in Nat
    PROVE  /\ FirstOf(do) \in 0..Len(script)
           /\ FirstOf(do) # 0 => script[FirstOf(do)].do = do
           /\ (\E i \in 1..Len(script) : script[i].do = do) => FirstOf(do) # 0
<1> DEFINE J == {i \in 1..Len(script) : script[i].do = do}
<1>1. FirstOf(do) = IF J # {} THEN Min(J) ELSE 0
  BY DEF FirstOf, SelectInSeq
<1>2. J # {} => Min(J) \in J
  <2> HAVE J # {}
  <2>1. J \subseteq Nat
    OBVIOUS
  <2>2. \E x \in J : \A y \in J : x <= y
    <3> HIDE DEF J
    <3> QED
      BY <2>1, LeastNatural
  <2> QED
    BY <2>2 DEF Min
<1> QED
  BY <1>1, <1>2

-----------------------------------------------------------------------------
(* Scripts                                                                 *)

Acts == {"kill", "revive", "campaign", "reset", "heal", "latency", "drop", "block",
         "chaos", "calm"}

Kinds == {"sleep", "while", "again", "check", "before", "after", "settle", "panic"}

Calling(how, acts) == [do : how, act : acts, ids : SUBSET Nodes, peer : 0..N]

Plains(kinds) == [do : kinds, act : {"none"}, ids : {{}}, peer : {0}]

\* Instructions that insist on calls to some handlers and only try calls to others.
Allowed(each, try) == Calling({"each"}, each) \cup Calling({"try"}, try) \cup Plains(Kinds)

\* A loop that is closed was opened.
Closes(s) == \E i \in 1..Len(s) : s[i].do = "again"
Opens(s) == \E i \in 1..Len(s) : s[i].do = "while"

Scripts(each, try) == {s \in Seq(Allowed(each, try)) : Closes(s) => Opens(s)}

LEMMA JoinedScripts ==
    ASSUME NEW each, NEW try, NEW s \in Scripts(each, try), NEW t \in Scripts(each, try)
    PROVE  s \o t \in Scripts(each, try)
<1>1. /\ s \in Seq(Allowed(each, try)) /\ t \in Seq(Allowed(each, try))
      /\ Len(s) \in Nat /\ Len(t) \in Nat
  BY LenProperties DEF Scripts
<1>2. /\ s \o t \in Seq(Allowed(each, try)) /\ Len(s \o t) = Len(s) + Len(t)
      /\ \A i \in 1..Len(s) + Len(t) :
            (s \o t)[i] = IF i <= Len(s) THEN s[i] ELSE t[i - Len(s)]
  <2> HIDE DEF Allowed
  <2> QED
    BY <1>1, ConcatProperties
<1>3. \A i \in 1..Len(s) : i \in 1..Len(s \o t) /\ (s \o t)[i] = s[i]
  BY <1>1, <1>2
<1>4. \A i \in 1..Len(t) : Len(s) + i \in 1..Len(s \o t) /\ (s \o t)[Len(s) + i] = t[i]
  BY <1>1, <1>2
<1>5. ASSUME Closes(s \o t)
      PROVE  Closes(s) \/ Closes(t)
  <2>1. PICK i \in 1..Len(s \o t) : (s \o t)[i].do = "again"
    BY <1>5 DEF Closes
  <2>2. CASE i <= Len(s)
    BY <2>1, <2>2, <1>1, <1>2 DEF Closes
  <2>3. CASE ~(i <= Len(s))
    <3>1. i - Len(s) \in 1..Len(t) /\ (s \o t)[i] = t[i - Len(s)]
      BY <2>3, <1>1, <1>2
    <3> QED
      BY <2>1, <3>1 DEF Closes
  <2> QED
    BY <2>2, <2>3
<1>6. Opens(s) \/ Opens(t) => Opens(s \o t)
  BY <1>3, <1>4 DEF Opens
<1> QED
  BY <1>2, <1>5, <1>6 DEF Scripts

\* What has no loop in it.
LEMMA StraightScripts ==
    ASSUME NEW each, NEW try, NEW s \in Seq({i \in Allowed(each, try) : i.do # "again"})
    PROVE  s \in Scripts(each, try)
<1>1. s \in Seq(Allowed(each, try))
  BY SeqMonotonic
<1>2. \A i \in 1..Len(s) : s[i].do # "again"
  BY ElementOfSeq
<1> QED
  BY <1>1, <1>2 DEF Scripts, Closes

LEMMA Instructions ==
    ASSUME NEW each, NEW try, NEW ids \in SUBSET Nodes
    PROVE  /\ \A act \in each, peer \in 0..N :
                Instr("each", act, ids, peer) \in Seq({i \in Allowed(each, try) : i.do # "again"})
           /\ \A act \in try : Try(act, ids) \in Seq({i \in Allowed(each, try) : i.do # "again"})
           /\ \A do \in Kinds \ {"again"} :
                Plain(do) \in Seq({i \in Allowed(each, try) : i.do # "again"})
<1> DEFINE I == {i \in Allowed(each, try) : i.do # "again"}
<1>0. \A i \in I : <<i>> \in Seq(I)
  <2> HIDE DEF I
  <2> QED
    OBVIOUS
<1>1. \A act \in each, peer \in 0..N :
        [do |-> "each", act |-> act, ids |-> ids, peer |-> peer] \in I
  BY DEF Allowed, Calling
<1>2. \A act \in try : [do |-> "try", act |-> act, ids |-> ids, peer |-> 0] \in I
  <2>1. 0 \in 0..N
    BY ClusterAssumption
  <2> QED
    BY <2>1 DEF Allowed, Calling
<1>3. \A do \in Kinds \ {"again"} : [do |-> do, act |-> "none", ids |-> {}, peer |-> 0] \in I
  BY DEF Allowed, Plains
<1> QED
  <2> HIDE DEF I
  <2>1. /\ \A act \in each, peer \in 0..N : Instr("each", act, ids, peer) \in Seq(I)
        /\ \A act \in try : Try(act, ids) \in Seq(I)
        /\ \A do \in Kinds \ {"again"} : Plain(do) \in Seq(I)
    BY <1>0, <1>1, <1>2, <1>3 DEF Instr, Try, Plain
  <2> QED
    BY <2>1 DEF I

\* One instruction is a script.
LEMMA Pieces ==
    ASSUME NEW each, NEW try
    PROVE  /\ \A act \in each, ids \in SUBSET Nodes : Each(act, ids) \in Scripts(each, try)
           /\ \A act \in try, ids \in SUBSET Nodes : Try(act, ids) \in Scripts(each, try)
           /\ \A do \in Kinds \ {"again"} : Plain(do) \in Scripts(each, try)
           /\ <<>> \in Scripts(each, try)
<1> DEFINE I == {i \in Allowed(each, try) : i.do # "again"}
<1>1. \A s \in Seq(I) : s \in Scripts(each, try)
  BY StraightScripts
<1>2. 0 \in 0..N
  BY ClusterAssumption
<1>3. \A act \in each, ids \in SUBSET Nodes : Each(act, ids) \in Seq(I)
  BY <1>2, Instructions DEF Each
<1>4. \A act \in try, ids \in SUBSET Nodes : Try(act, ids) \in Seq(I)
  BY Instructions
<1>5. \A do \in Kinds \ {"again"} : Plain(do) \in Seq(I)
  BY Instructions
<1>6. <<>> \in Seq(I)
  BY EmptySeq
<1> HIDE DEF I
<1> QED
  BY <1>1, <1>3, <1>4, <1>5, <1>6

LEMMA Loops ==
    ASSUME NEW each, NEW try, NEW body \in Scripts(each, try)
    PROVE  While(body) \in Scripts(each, try)
<1>1. Plain("while") \o body \in Scripts(each, try)
  BY Pieces, JoinedScripts DEF Kinds
<1> DEFINE s == Plain("while") \o body
           e == [do |-> "again", act |-> "none", ids |-> {}, peer |-> 0]
           w == [do |-> "while", act |-> "none", ids |-> {}, peer |-> 0]
<1>2. e \in Allowed(each, try) /\ w \in Allowed(each, try)
  BY DEF Allowed, Plains, Kinds
<1>3. /\ s \in Seq(Allowed(each, try)) /\ body \in Seq(Allowed(each, try))
      /\ Len(s) \in Nat /\ Len(body) \in Nat
      /\ <<w>> \in Seq(Allowed(each, try)) /\ <<e>> \in Seq(Allowed(each, try))
      /\ Len(<<w>>) = 1 /\ Len(<<e>>) = 1 /\ <<w>>[1] = w
  <2> HIDE DEF e, w, s
  <2> QED
    BY <1>1, <1>2, LenProperties DEF Scripts, s
<1>4. While(body) = s \o <<e>> /\ s = <<w>> \o body
  BY DEF While, Plain, Instr
<1> HIDE DEF s, e
<1>5. 1 \in 1..Len(s) /\ s[1] = w
  <2> HIDE DEF w
  <2>1. Len(s) = 1 + Len(body) /\ s[1] = <<w>>[1]
    BY <1>3, <1>4, ConcatProperties
  <2> QED
    BY <1>3, <2>1
<1>6. /\ s \o <<e>> \in Seq(Allowed(each, try)) /\ 1 \in 1..Len(s \o <<e>>)
      /\ (s \o <<e>>)[1] = w
  <2> HIDE DEF w
  <2>1. /\ s \o <<e>> \in Seq(Allowed(each, try)) /\ Len(s \o <<e>>) = Len(s) + 1
        /\ (s \o <<e>>)[1] = s[1]
    BY <1>3, <1>5, ConcatProperties
  <2> QED
    BY <1>3, <1>5, <2>1
<1>7. Opens(s \o <<e>>)
  BY <1>6 DEF Opens
<1> QED
  BY <1>4, <1>6, <1>7 DEF Scripts

\* What is left out is a script too.
LEMMA Conditions ==
    ASSUME NEW each, NEW try, NEW c \in BOOLEAN, NEW s, c => s \in Scripts(each, try)
    PROVE  When(c, s) \in Scripts(each, try)
BY Pieces DEF When

-----------------------------------------------------------------------------
(* How scenarios end                                                       *)

Instruction == Allowed(Acts, {"kill", "revive"})

\* The instructions that disturb nothing.
Harmless == Calling({"each", "try"}, {"revive", "campaign"}) \cup Plains({"settle"})

Called(how, act, ids) == [do |-> how, act |-> act, ids |-> ids, peer |-> 0]

\* Script s heals every node at h and ends the chaos at h + 1, for good.
HealsAt(s, h) ==
    /\ h >= 1 /\ h + 1 <= Len(s)
    /\ s[h] = Called("each", "heal", {})
    /\ s[h + 1] = Called("each", "calm", {})
    /\ \A j \in h + 2..Len(s) : s[j] \in Harmless

\* One more instruction.
LEMMA OneMore ==
    ASSUME NEW S, NEW s \in Seq(S), NEW e \in S
    PROVE  /\ s \o <<e>> \in Seq(S) /\ Len(s) \in Nat /\ Len(s \o <<e>>) = Len(s) + 1
           /\ (s \o <<e>>)[Len(s) + 1] = e
           /\ \A i \in 1..Len(s) : (s \o <<e>>)[i] = s[i]
<1>1. <<e>> \in Seq(S) /\ Len(<<e>>) = 1 /\ <<e>>[1] = e /\ Len(s) \in Nat
  BY LenProperties
<1>2. /\ s \o <<e>> \in Seq(S) /\ Len(s \o <<e>>) = Len(s) + 1
      /\ \A i \in 1..Len(s) + 1 : (s \o <<e>>)[i] = IF i <= Len(s) THEN s[i] ELSE <<e>>[i - Len(s)]
  BY <1>1, ConcatProperties
<1>3. (s \o <<e>>)[Len(s) + 1] = <<e>>[1]
  BY <1>1, <1>2
<1> QED
  BY <1>1, <1>2, <1>3

LEMMA HealAllHeals ==
    ASSUME NEW s \in Seq(Instruction)
    PROVE  s \o HealAll \in Seq(Instruction) /\ HealsAt(s \o HealAll, Len(s) + 1)
<1> DEFINE a == Called("each", "heal", {})
           b == Called("each", "calm", {})
<1>1. a \in Instruction /\ b \in Instruction
  BY ClusterAssumption DEF Called, Instruction, Allowed, Calling, Acts
<1>2. HealAll = <<a>> \o <<b>>
  BY DEF HealAll, Each, Instr, Called
<1> HIDE DEF a, b
<1>3. s \o HealAll = (s \o <<a>>) \o <<b>>
  <2>1. <<a>> \in Seq(Instruction) /\ <<b>> \in Seq(Instruction)
    BY <1>1
  <2> QED
    BY <1>2, <2>1, ConcatAssociative
<1>4. /\ s \o <<a>> \in Seq(Instruction) /\ Len(s) \in Nat /\ Len(s \o <<a>>) = Len(s) + 1
      /\ (s \o <<a>>)[Len(s) + 1] = a
  BY <1>1, OneMore
<1>5. /\ s \o HealAll \in Seq(Instruction) /\ Len(s \o HealAll) = Len(s) + 2
      /\ (s \o HealAll)[Len(s) + 2] = b /\ (s \o HealAll)[Len(s) + 1] = a
  <2>1. /\ (s \o <<a>>) \o <<b>> \in Seq(Instruction)
        /\ Len((s \o <<a>>) \o <<b>>) = Len(s \o <<a>>) + 1
        /\ ((s \o <<a>>) \o <<b>>)[Len(s \o <<a>>) + 1] = b
        /\ \A i \in 1..Len(s \o <<a>>) : ((s \o <<a>>) \o <<b>>)[i] = (s \o <<a>>)[i]
    BY <1>1, <1>4, OneMore
  <2> QED
    BY <1>3, <1>4, <2>1
<1> QED
  BY <1>4, <1>5 DEF HealsAt, a, b

\* What disturbs nothing may follow.
LEMMA HealsStill ==
    ASSUME NEW s \in Seq(Instruction), NEW h \in Nat, HealsAt(s, h),
           NEW e \in Harmless \cap Instruction
    PROVE  s \o <<e>> \in Seq(Instruction) /\ HealsAt(s \o <<e>>, h)
<1>1. /\ s \o <<e>> \in Seq(Instruction) /\ Len(s) \in Nat /\ Len(s \o <<e>>) = Len(s) + 1
      /\ (s \o <<e>>)[Len(s) + 1] = e
      /\ \A i \in 1..Len(s) : (s \o <<e>>)[i] = s[i]
  <2> HIDE DEF Instruction
  <2> QED
    BY OneMore
<1>2. /\ h >= 1 /\ h + 1 <= Len(s)
      /\ s[h] = Called("each", "heal", {})
      /\ s[h + 1] = Called("each", "calm", {})
      /\ \A j \in h + 2..Len(s) : s[j] \in Harmless
  BY DEF HealsAt
<1>3. (s \o <<e>>)[h] = s[h] /\ (s \o <<e>>)[h + 1] = s[h + 1]
  BY <1>1, <1>2
<1>4. \A j \in h + 2..Len(s) + 1 : (s \o <<e>>)[j] \in Harmless
  <2> TAKE j \in h + 2..Len(s) + 1
  <2>1. CASE j = Len(s) + 1
    BY <1>1, <2>1
  <2>2. CASE j # Len(s) + 1
    BY <1>1, <1>2, <2>2
  <2> QED
    BY <2>1, <2>2
<1> QED
  BY <1>1, <1>2, <1>3, <1>4 DEF HealsAt

\* A script that heals may be put behind another.
LEMMA HealsBehind ==
    ASSUME NEW s \in Seq(Instruction), NEW t \in Seq(Instruction), NEW h \in Nat, HealsAt(t, h)
    PROVE  HealsAt(s \o t, Len(s) + h)
<1>1. /\ Len(s) \in Nat /\ Len(t) \in Nat /\ Len(s \o t) = Len(s) + Len(t)
      /\ \A i \in 1..Len(s) + Len(t) :
            (s \o t)[i] = IF i <= Len(s) THEN s[i] ELSE t[i - Len(s)]
  <2> HIDE DEF Instruction
  <2> QED
    BY ConcatProperties, LenProperties
<1>2. \A i \in 1..Len(t) : (s \o t)[Len(s) + i] = t[i]
  BY <1>1
<1>3. /\ h >= 1 /\ h + 1 <= Len(t)
      /\ t[h] = Called("each", "heal", {})
      /\ t[h + 1] = Called("each", "calm", {})
      /\ \A j \in h + 2..Len(t) : t[j] \in Harmless
  BY DEF HealsAt
<1>4. (s \o t)[Len(s) + h] = t[h] /\ (s \o t)[(Len(s) + h) + 1] = t[h + 1]
  BY <1>1, <1>2, <1>3
<1>5. \A j \in (Len(s) + h) + 2..Len(s) + Len(t) : (s \o t)[j] \in Harmless
  BY <1>1, <1>3
<1> QED
  BY <1>1, <1>3, <1>4, <1>5 DEF HealsAt

HealedScripts == {s \in Seq(Instruction) : \E h \in Nat : HealsAt(s, h)}

LEMMA Finale ==
    /\ \A s \in Seq(Instruction) : s \o HealAll \in HealedScripts
    /\ HealAll \in HealedScripts
    /\ \A s \in Seq(Instruction), t \in HealedScripts : s \o t \in HealedScripts
    /\ \A s \in HealedScripts :
          /\ \A ids \in SUBSET Nodes : s \o Each("campaign", ids) \in HealedScripts
          /\ s \o Plain("settle") \in HealedScripts
          /\ s \o Try("revive", {}) \in HealedScripts
<1>1. \A s \in Seq(Instruction) : s \o HealAll \in HealedScripts
  <2> TAKE s \in Seq(Instruction)
  <2>1. Len(s) + 1 \in Nat
    BY LenProperties
  <2> QED
    BY <2>1, HealAllHeals DEF HealedScripts
<1>2. \A s \in Seq(Instruction), t \in HealedScripts : s \o t \in HealedScripts
  <2> TAKE s \in Seq(Instruction), t \in HealedScripts
  <2>1. PICK h \in Nat : HealsAt(t, h)
    BY DEF HealedScripts
  <2>2. t \in Seq(Instruction) /\ Len(s) + h \in Nat
    BY LenProperties DEF HealedScripts
  <2>3. s \o t \in Seq(Instruction)
    BY <2>2, ConcatProperties
  <2> QED
    BY <2>1, <2>2, <2>3, HealsBehind DEF HealedScripts
<1>3. \A s \in HealedScripts, e \in Harmless \cap Instruction : s \o <<e>> \in HealedScripts
  BY HealsStill DEF HealedScripts
<1>4. \A ids \in SUBSET Nodes : Called("each", "campaign", ids) \in Harmless \cap Instruction
  BY ClusterAssumption DEF Called, Harmless, Instruction, Allowed, Calling, Acts
<1>5. Called("try", "revive", {}) \in Harmless \cap Instruction
  BY ClusterAssumption DEF Called, Harmless, Instruction, Allowed, Calling
<1>6. Called("settle", "none", {}) \in Harmless \cap Instruction
  BY DEF Called, Harmless, Instruction, Allowed, Plains, Kinds
<1>7. /\ \A ids \in SUBSET Nodes : Each("campaign", ids) = <<Called("each", "campaign", ids)>>
      /\ Plain("settle") = <<Called("settle", "none", {})>>
      /\ Try("revive", {}) = <<Called("try", "revive", {})>>
  BY DEF Each, Plain, Try, Instr, Called
<1>8. HealAll \in HealedScripts
  <2>1. HealAll \in Seq(Instruction)
    <3>1. Called("each", "heal", {}) \in Instruction /\ Called("each", "calm", {}) \in Instruction
      BY ClusterAssumption DEF Called, Instruction, Allowed, Calling, Acts
    <3>2. HealAll = <<Called("each", "heal", {})>> \o <<Called("each", "calm", {})>>
      BY DEF HealAll, Each, Instr, Called
    <3> QED
      BY <3>1, <3>2
  <2>2. <<>> \o HealAll = HealAll /\ <<>> \in Seq(Instruction)
    BY <2>1, ConcatEmptySeq, EmptySeq
  <2> QED
    BY <1>1, <2>2
<1>9. \A s \in HealedScripts :
          /\ \A ids \in SUBSET Nodes : s \o Each("campaign", ids) \in HealedScripts
          /\ s \o Plain("settle") \in HealedScripts
          /\ s \o Try("revive", {}) \in HealedScripts
  BY <1>3, <1>4, <1>5, <1>6, <1>7
<1> QED
  BY <1>1, <1>2, <1>8, <1>9

-----------------------------------------------------------------------------
(* The eight scenarios                                                     *)

\* The handlers that every scenario may insist on.
Common == Acts \ {"kill", "calm"}

Made(each) == Scripts(each, {"kill", "revive"})

LEMMA MadeIsScript ==
    ASSUME NEW each, each \subseteq Acts
    PROVE  Made(each) \subseteq Seq(Instruction)
<1>1. Allowed(each, {"kill", "revive"}) \subseteq Instruction
  BY DEF Allowed, Calling, Instruction
<1> QED
  BY <1>1, SeqMonotonic DEF Made, Scripts

LEMMA Joined ==
    ASSUME NEW each
    PROVE  \A s, t \in Made(each) : s \o t \in Made(each)
BY JoinedScripts DEF Made

LEMMA Materials ==
    ASSUME NEW each, Common \subseteq each
    PROVE  /\ \A act \in each, ids \in SUBSET Nodes : Each(act, ids) \in Made(each)
           /\ \A ids \in SUBSET Nodes : Each("campaign", ids) \in Made(each)
           /\ \A ids \in SUBSET Nodes :
                Try("kill", ids) \in Made(each) /\ Try("revive", ids) \in Made(each)
           /\ \A do \in Kinds \ {"again"} : Plain(do) \in Made(each)
           /\ \A c \in BOOLEAN : When(c, ResetAll) \in Made(each)
           /\ ResetAll \in Made(each)
           /\ "calm" \in each => HealAll \in Made(each)
<1>1. {} \in SUBSET Nodes
  OBVIOUS
<1>2. \A act \in each, ids \in SUBSET Nodes : Each(act, ids) \in Made(each)
  BY Pieces DEF Made
<1>3. "reset" \in each /\ "heal" \in each /\ "campaign" \in each
  BY DEF Common, Acts
<1>4. /\ \A ids \in SUBSET Nodes :
            Try("kill", ids) \in Made(each) /\ Try("revive", ids) \in Made(each)
      /\ \A do \in Kinds \ {"again"} : Plain(do) \in Made(each)
  BY Pieces DEF Made
<1>5. ResetAll \in Made(each)
  BY <1>1, <1>2, <1>3, Joined DEF ResetAll
<1>6. "calm" \in each => HealAll \in Made(each)
  BY <1>1, <1>2, <1>3, Joined DEF HealAll
<1>7. \A c \in BOOLEAN : When(c, ResetAll) \in Made(each)
  BY <1>5, Conditions DEF Made
<1> QED
  BY <1>2, <1>3, <1>4, <1>5, <1>6, <1>7

\* Something that follows is not nothing.
LEMMA NotEmpty ==
    /\ \A s \in Seq(Instruction) : \A do \in Kinds : s \o Plain(do) # <<>>
    /\ \A s, t \in Seq(Instruction) : s # <<>> => s \o t # <<>>
<1>1. \A do \in Kinds : Plain(do) \in Seq(Instruction) /\ Plain(do) # <<>>
  <2> TAKE do \in Kinds
  <2>1. Called(do, "none", {}) \in Instruction /\ Plain(do) = <<Called(do, "none", {})>>
    BY DEF Instruction, Allowed, Plains, Plain, Instr, Called
  <2> QED
    BY <2>1
<1>2. \A s, t \in Seq(Instruction) : s \o t = <<>> <=> s = <<>> /\ t = <<>>
  BY ConcatEqualIffEmpty
<1> QED
  BY <1>1, <1>2

LEMMA FreshElectionIsMade == FreshElection \in Made(Common) /\ FreshElection # <<>>
<1>1. ResetAll \in Made(Common) /\ Plain("settle") \in Made(Common)
  BY Materials DEF Kinds
<1>2. ResetAll \in Seq(Instruction)
  BY <1>1, MadeIsScript DEF Common
<1> QED
  BY <1>1, <1>2, Joined, NotEmpty DEF FreshElection, Kinds

LEMMA DuelingProposersIsMade ==
    ASSUME NEW count \in Int, NEW heal \in BOOLEAN
    PROVE  /\ DuelingProposers(count, heal) \in Made(IF heal THEN Common \cup {"calm"} ELSE Common)
           /\ DuelingProposers(count, heal) # <<>>
           /\ heal => DuelingProposers(count, heal) \in HealedScripts
<1> DEFINE E == IF heal THEN Common \cup {"calm"} ELSE Common
           C == PickNodes(count)
<1>0. Common \subseteq E /\ C \in SUBSET Nodes /\ (heal => "calm" \in E) /\ "latency" \in E
  BY DEF PickNodes, Lowest, Common, Acts
<1> HIDE DEF E, C
<1>1. /\ ResetAll \in Made(E) /\ Each("latency", {}) \in Made(E)
      /\ Each("campaign", C) \in Made(E) /\ Each("campaign", Nodes) \in Made(E)
      /\ Plain("sleep") \in Made(E) /\ Plain("check") \in Made(E) /\ Plain("settle") \in Made(E)
      /\ heal => HealAll \in Made(E)
  BY <1>0, Materials DEF Kinds
<1>2. While(Plain("sleep") \o Each("campaign", C)) \in Made(E)
  BY <1>1, Joined, Loops DEF Made
<1>3. heal => HealAll \o Each("campaign", Nodes) \o Plain("settle") \in Made(E)
  BY <1>1, Joined
<1>4. When(heal, HealAll \o Each("campaign", Nodes) \o Plain("settle")) \in Made(E)
  BY <1>3, Conditions DEF Made
<1>5. ResetAll \o Each("latency", {}) \o Each("campaign", C) \in Made(E)
  BY <1>1, Joined
<1> DEFINE D == ResetAll \o Each("latency", {}) \o Each("campaign", C)
                \o While(Plain("sleep") \o Each("campaign", C)) \o Plain("check")
<1>5a. ResetAll \o Each("latency", {}) \o Each("campaign", C)
         \o While(Plain("sleep") \o Each("campaign", C)) \in Made(E)
  BY <1>1, <1>2, <1>5, Joined
<1>6. D \in Made(E)
  BY <1>1, <1>5a, Joined
<1>6a. \A s \in Made(E) : s \in Seq(Instruction)
  BY MadeIsScript DEF E, Common, Acts
<1>6b. D # <<>>
  BY <1>5a, <1>6a, NotEmpty DEF Kinds
<1>7. DuelingProposers(count, heal)
        = D \o When(heal, HealAll \o Each("campaign", Nodes) \o Plain("settle"))
  BY DEF DuelingProposers, C
<1> HIDE DEF D
<1>7a. DuelingProposers(count, heal) # <<>>
  BY <1>4, <1>6, <1>6a, <1>6b, <1>7, NotEmpty
<1>8. D \o When(heal, HealAll \o Each("campaign", Nodes) \o Plain("settle")) \in Made(E)
  BY <1>4, <1>6, Joined
<1>9. heal => D \o When(heal, HealAll \o Each("campaign", Nodes) \o Plain("settle"))
                \in HealedScripts
  <2>1. D \in Seq(Instruction)
    BY <1>6, MadeIsScript DEF E, Common, Acts
  <2>2. HealAll \o Each("campaign", Nodes) \o Plain("settle") \in HealedScripts
    BY Finale
  <2> QED
    BY <2>1, <2>2, Finale DEF When
<1> QED
  BY <1>7, <1>7a, <1>8, <1>9 DEF E

LEMMA NodesAreFinite == IsFiniteSet(Nodes) /\ Cardinality(Nodes) = N
BY ClusterAssumption, FS_Interval DEF Nodes

LEMMA CutIsMade ==
    ASSUME NEW A \in SUBSET Nodes, NEW B \in SUBSET Nodes, NEW each, "block" \in each
    PROVE  Cut(A, B) \in Made(each)
<1> DEFINE links == SetToSeq(A \X B) \o SetToSeq(B \X A)
           I == {i \in Allowed(each, {"kill", "revive"}) : i.do # "again"}
           calls_ == [i \in DOMAIN links |-> Instr("each", "block", {links[i][1]}, links[i][2])]
<1>1. IsFiniteSet(A) /\ IsFiniteSet(B)
  BY NodesAreFinite, FS_Subset
<1>2. SetToSeq(A \X B) \in Seq(A \X B) /\ SetToSeq(B \X A) \in Seq(B \X A)
  BY <1>1, FS_Product, SetToSeqType
<1>3. SetToSeq(A \X B) \in Seq(Nodes \X Nodes) /\ SetToSeq(B \X A) \in Seq(Nodes \X Nodes)
  <2>1. A \X B \subseteq Nodes \X Nodes /\ B \X A \subseteq Nodes \X Nodes
    OBVIOUS
  <2> QED
    BY <1>2, <2>1, SeqMonotonic
<1>4. links \in Seq(Nodes \X Nodes)
  BY <1>3, ConcatProperties
<1> HIDE DEF links
<1>5. /\ Len(links) \in Nat /\ DOMAIN links = 1..Len(links)
      /\ \A i \in 1..Len(links) : links[i] \in Nodes \X Nodes
  BY <1>4, LenProperties, ElementOfSeq
<1>6. \A i \in 1..Len(links) : Instr("each", "block", {links[i][1]}, links[i][2]) \in Seq(I)
  <2> TAKE i \in 1..Len(links)
  <2>1. {links[i][1]} \in SUBSET Nodes /\ links[i][2] \in 0..N
    BY <1>5 DEF Nodes
  <2> HIDE DEF I
  <2> QED
    BY <2>1, Instructions DEF I
<1>7. calls_ \in Seq(Seq(I))
  <2> HIDE DEF I
  <2> DEFINE X == Seq(I)
  <2> HIDE DEF X
  <2>1. calls_ \in [1..Len(links) -> X]
    BY <1>5, <1>6 DEF X
  <2> HIDE DEF calls_
  <2>2. calls_ \in Seq(X)
    BY <2>1, <1>5, SeqDef
  <2> QED
    BY <2>2 DEF X
<1>8. FlattenSeq(calls_) \in Seq(I)
  <2> HIDE DEF I, calls_
  <2> QED
    BY <1>7, FlattenSeqType
<1>9. Cut(A, B) = FlattenSeq(calls_)
  BY DEF Cut, links
<1> QED
  BY <1>8, <1>9, StraightScripts DEF Made

LEMMA PartitionIsMade ==
    ASSUME NEW count \in Int, NEW reset \in BOOLEAN
    PROVE  Partition(count, reset) \in Made(Common \cup {"calm"}) \cap HealedScripts
<1> DEFINE E == Common \cup {"calm"}
           size == IF count >= N THEN N - 1 ELSE count
           minority == Highest(IF size < 1 THEN 1 ELSE size)
<1>0. Common \subseteq E /\ minority \in SUBSET Nodes /\ "calm" \in E /\ "block" \in E
  BY DEF Highest, Common, Acts
<1> HIDE DEF E, minority
<1>1. /\ When(reset, ResetAll) \in Made(E) /\ Each("campaign", Nodes) \in Made(E)
      /\ Plain("sleep") \in Made(E) /\ Plain("settle") \in Made(E) /\ HealAll \in Made(E)
  BY <1>0, Materials DEF Kinds
<1>2. Cut(Nodes \ minority, minority) \in Made(E)
  BY <1>0, CutIsMade
<1>3. When(reset, ResetAll) \o Cut(Nodes \ minority, minority)
        \o Each("campaign", Nodes) \o Plain("sleep") \in Made(E)
  BY <1>1, <1>2, Joined
<1>4. Partition(count, reset) \in Made(E)
  BY <1>1, <1>3, Joined DEF Partition, minority
<1>5. Partition(count, reset) \in HealedScripts
  <2>1. \A s \in Made(E) : s \in Seq(Instruction)
    BY MadeIsScript DEF E, Common, Acts
  <2> QED
    BY <1>3, <2>1, Finale DEF Partition, minority
<1> QED
  BY <1>4, <1>5 DEF E

LEMMA QuorumLossIsMade ==
    ASSUME NEW count \in Int, count >= 0, NEW reset \in BOOLEAN
    PROVE  QuorumLoss(count, reset) \in Made(Common \cup {"kill"})
<1> DEFINE E == Common \cup {"kill"}
           V == Highest(count)
<1>0. /\ Common \subseteq E /\ V \in SUBSET Nodes /\ Nodes \ V \in SUBSET Nodes
      /\ "kill" \in E /\ "revive" \in E
  BY DEF Highest, Common, Acts
<1> HIDE DEF E, V
<1>1. /\ When(reset, ResetAll) \in Made(E) /\ Each("campaign", Nodes) \in Made(E)
      /\ Each("campaign", Nodes \ V) \in Made(E)
      /\ Each("kill", V) \in Made(E) /\ Each("revive", V) \in Made(E)
      /\ Plain("sleep") \in Made(E) /\ Plain("settle") \in Made(E)
  BY <1>0, Materials DEF Kinds
<1>2. When(reset, ResetAll) \o Each("kill", V) \o Each("campaign", Nodes \ V)
        \o Plain("sleep") \in Made(E)
  BY <1>1, Joined
<1> QED
  BY <1>1, <1>2, Joined DEF QuorumLoss, E, V

\* A negative count has the run panic before it kills.
LEMMA QuorumLossPanics ==
    ASSUME NEW count \in Int, count < 0, NEW reset \in BOOLEAN
    PROVE  QuorumLoss(count, reset) \in Made(Common) /\ QuorumLoss(count, reset) # <<>>
<1>1. When(reset, ResetAll) \in Made(Common) /\ Plain("panic") \in Made(Common)
  BY Materials DEF Kinds
<1>2. When(reset, ResetAll) \in Seq(Instruction)
  BY <1>1, MadeIsScript DEF Common
<1>3. QuorumLoss(count, reset) = When(reset, ResetAll) \o Plain("panic")
  BY DEF QuorumLoss
<1> QED
  BY <1>1, <1>2, <1>3, Joined, NotEmpty DEF Kinds

LEMMA PacketLossIsMade ==
    ASSUME NEW reset \in BOOLEAN
    PROVE  PacketLoss(reset) \in Made(Common \cup {"calm"}) \cap HealedScripts
<1> DEFINE E == Common \cup {"calm"}
<1>0. Common \subseteq E /\ "calm" \in E /\ "drop" \in E
  BY DEF Common, Acts
<1> HIDE DEF E
<1>1. /\ When(reset, ResetAll) \in Made(E) /\ Each("campaign", Nodes) \in Made(E)
      /\ Each("drop", {}) \in Made(E) /\ HealAll \in Made(E)
      /\ Plain("sleep") \in Made(E) /\ Plain("settle") \in Made(E)
  BY <1>0, Materials DEF Kinds
<1>2. When(reset, ResetAll) \o Each("drop", {}) \o Each("campaign", Nodes)
        \o Plain("sleep") \in Made(E)
  BY <1>1, Joined
<1>3. PacketLoss(reset) \in Made(E)
  BY <1>1, <1>2, Joined DEF PacketLoss
<1>4. PacketLoss(reset) \in HealedScripts
  <2>1. \A s \in Made(E) : s \in Seq(Instruction)
    BY MadeIsScript DEF E, Common, Acts
  <2> QED
    BY <1>2, <2>1, Finale DEF PacketLoss
<1> QED
  BY <1>3, <1>4 DEF E

LEMMA SlowNetworkIsMade ==
    ASSUME NEW reset \in BOOLEAN
    PROVE  SlowNetwork(reset) \in Made(Common \cup {"calm"}) \cap HealedScripts
<1> DEFINE E == Common \cup {"calm"}
<1>0. Common \subseteq E /\ "calm" \in E /\ "latency" \in E
  BY DEF Common, Acts
<1> HIDE DEF E
<1>1. /\ When(reset, ResetAll) \in Made(E) /\ Each("campaign", Nodes) \in Made(E)
      /\ Each("latency", {}) \in Made(E) /\ HealAll \in Made(E)
      /\ Plain("sleep") \in Made(E) /\ Plain("settle") \in Made(E)
  BY <1>0, Materials DEF Kinds
<1>2. When(reset, ResetAll) \o Each("latency", {}) \o Each("campaign", Nodes)
        \o Plain("sleep") \in Made(E)
  BY <1>1, Joined
<1>3. SlowNetwork(reset) \in Made(E)
  BY <1>1, <1>2, Joined DEF SlowNetwork
<1>4. SlowNetwork(reset) \in HealedScripts
  <2>1. \A s \in Made(E) : s \in Seq(Instruction)
    BY MadeIsScript DEF E, Common, Acts
  <2> QED
    BY <1>2, <2>1, Finale DEF SlowNetwork
<1> QED
  BY <1>3, <1>4 DEF E

LEMMA RollingRestartIsMade ==
    ASSUME NEW reset \in BOOLEAN
    PROVE  RollingRestart(reset) \in Made(Common) /\ RollingRestart(reset) # <<>>
<1> DEFINE I == {i \in Allowed(Common, {"kill", "revive"}) : i.do # "again"}
           turns == [n \in Nodes |-> Try("kill", {n}) \o Plain("sleep")
                                     \o Try("revive", {n}) \o Plain("sleep")]
<1>1. \A n \in Nodes : turns[n] \in Seq(I)
  <2> TAKE n \in Nodes
  <2>1. /\ Try("kill", {n}) \in Seq(I) /\ Try("revive", {n}) \in Seq(I)
        /\ Plain("sleep") \in Seq(I)
    BY Instructions DEF Kinds
  <2> HIDE DEF I
  <2>2. \A s, t \in Seq(I) : s \o t \in Seq(I)
    BY ConcatProperties
  <2> QED
    BY <2>1, <2>2
<1>2. turns \in Seq(Seq(I))
  <2> HIDE DEF I
  <2> DEFINE X == Seq(I)
  <2> HIDE DEF X
  <2>1. turns \in [1..N -> X] /\ N \in Nat
    BY <1>1, ClusterAssumption DEF X, Nodes
  <2> HIDE DEF turns
  <2>2. turns \in Seq(X)
    BY <2>1, SeqDef
  <2> QED
    BY <2>2 DEF X
<1>3. FlattenSeq(turns) \in Made(Common)
  <2>1. FlattenSeq(turns) \in Seq(I)
    <3> HIDE DEF I, turns
    <3> QED
      BY <1>2, FlattenSeqType
  <2> QED
    BY <2>1, StraightScripts DEF Made
<1> HIDE DEF I
<1>4. /\ Plain("settle") \in Made(Common) /\ ResetAll \in Made(Common)
      /\ Plain("before") \in Made(Common) /\ Plain("after") \in Made(Common)
  BY Materials DEF Kinds
<1>5. When(reset, ResetAll \o Plain("settle")) \in Made(Common)
  BY <1>4, Joined, Conditions DEF Made
<1> HIDE DEF turns
<1>6. When(reset, ResetAll \o Plain("settle")) \o Plain("before") \o FlattenSeq(turns) \in Made(Common)
  BY <1>3, <1>4, <1>5, Joined
<1>7. When(reset, ResetAll \o Plain("settle")) \o Plain("before") \o FlattenSeq(turns)
        \o Plain("after") \in Made(Common)
  BY <1>4, <1>6, Joined
<1>8. When(reset, ResetAll \o Plain("settle")) \o Plain("before") \o FlattenSeq(turns)
        \o Plain("after") \in Seq(Instruction)
  BY <1>7, MadeIsScript DEF Common
<1> QED
  BY <1>4, <1>7, <1>8, Joined, NotEmpty DEF RollingRestart, turns, Kinds

LEMMA ChaosMonkeyIsMade ==
    ASSUME NEW count \in Int, NEW drop \in BOOLEAN, NEW reset \in BOOLEAN
    PROVE  ChaosMonkey(count, drop, reset) \in Made(Common \cup {"calm"}) \cap HealedScripts
<1> DEFINE E == Common \cup {"calm"}
           C == PickNodes(count)
<1>0. /\ Common \subseteq E /\ C \in SUBSET Nodes /\ "calm" \in E /\ "drop" \in E
      /\ "chaos" \in E
  BY DEF PickNodes, Lowest, Common, Acts
<1> HIDE DEF E, C
<1>1. /\ When(reset, ResetAll) \in Made(E) /\ Each("campaign", Nodes) \in Made(E)
      /\ Each("chaos", C) \in Made(E) /\ HealAll \in Made(E) /\ Try("revive", {}) \in Made(E)
      /\ Plain("sleep") \in Made(E) /\ Plain("check") \in Made(E) /\ Plain("settle") \in Made(E)
  BY <1>0, Materials DEF Kinds
<1>2. When(drop, Each("drop", {})) \in Made(E)
  BY <1>0, Materials, Conditions DEF Made
<1>3. While(Plain("sleep") \o Plain("check")) \in Made(E)
  BY <1>1, Joined, Loops DEF Made
<1>4. When(reset, ResetAll) \o When(drop, Each("drop", {})) \o Each("chaos", C)
        \o While(Plain("sleep") \o Plain("check")) \in Made(E)
  BY <1>1, <1>2, <1>3, Joined
<1>5. HealAll \in Made(E) /\ Try("revive", {}) \in Made(E)
  BY <1>1
<1>6. ChaosMonkey(count, drop, reset) \in Made(E)
  BY <1>1, <1>4, Joined DEF ChaosMonkey, C
<1>7. ChaosMonkey(count, drop, reset) \in HealedScripts
  <2>1. \A s \in Made(E) : s \in Seq(Instruction)
    BY MadeIsScript DEF E, Common, Acts
  <2> QED
    BY <1>4, <2>1, Finale DEF ChaosMonkey, C
<1> QED
  BY <1>6, <1>7 DEF E

\* Script s kills nodes at k, lets the others campaign, brings the same nodes back
\* at k + 3, and does little else.
KillsAt(s, k) ==
    /\ k >= 1 /\ Len(s) = k + 5
    /\ \A i \in 1..k - 1 : s[i] \in Calling({"each"}, {"reset", "heal"})
    /\ \E V, L \in SUBSET Nodes :
         /\ s[k] = Called("each", "kill", V)
         /\ s[k + 1] = Called("each", "campaign", L)
         /\ s[k + 2] = Called("sleep", "none", {})
         /\ s[k + 3] = Called("each", "revive", V)
    /\ \E L \in SUBSET Nodes : s[k + 4] = Called("each", "campaign", L)
    /\ s[k + 5] = Called("settle", "none", {})

LEMMA QuorumLossKills ==
    ASSUME NEW count \in Int, count >= 0, NEW reset \in BOOLEAN
    PROVE  \E k \in Nat : KillsAt(QuorumLoss(count, reset), k)
<1> DEFINE I == Calling({"each"}, {"reset", "heal"})
           R == When(reset, ResetAll)
           V == Highest(count)
           i0 == Called("each", "kill", V)
           i1 == Called("each", "campaign", Nodes \ V)
           i2 == Called("sleep", "none", {})
           i3 == Called("each", "revive", V)
           i4 == Called("each", "campaign", Nodes)
           i5 == Called("settle", "none", {})
<1>0. V \in SUBSET Nodes /\ Nodes \ V \in SUBSET Nodes
  BY DEF Highest
<1>1. R \in Seq(I)
  <2> DEFINE a == Called("each", "reset", {})
             b == Called("each", "heal", {})
  <2>1. a \in I /\ b \in I
    BY ClusterAssumption DEF Called, Calling
  <2>2. ResetAll = <<a>> \o <<b>>
    BY DEF ResetAll, Each, Instr, Called
  <2> HIDE DEF a, b, I
  <2>3. <<a>> \o <<b>> \in Seq(I)
    BY <2>1
  <2> QED
    BY <2>2, <2>3, EmptySeq DEF When
<1>2. QuorumLoss(count, reset)
        = R \o <<i0>> \o <<i1>> \o <<i2>> \o <<i3>> \o <<i4>> \o <<i5>>
  BY DEF QuorumLoss, Each, Plain, Instr, Called
<1>3. R \in Seq(Instruction)
  <2>1. I \subseteq Instruction
    BY DEF Calling, Instruction, Allowed, Acts
  <2> HIDE DEF I, R
  <2> QED
    BY <1>1, <2>1, SeqMonotonic
<1>4. Len(R) \in Nat /\ \A i \in 1..Len(R) : R[i] \in I
  <2> HIDE DEF I, R
  <2> QED
    BY <1>1, LenProperties, ElementOfSeq
<1>5. /\ i0 \in Instruction /\ i1 \in Instruction /\ i2 \in Instruction
      /\ i3 \in Instruction /\ i4 \in Instruction /\ i5 \in Instruction
  BY <1>0, ClusterAssumption DEF Called, Instruction, Allowed, Calling, Plains, Kinds, Acts
<1> DEFINE s0 == R \o <<i0>>
           s1 == s0 \o <<i1>>
           s2 == s1 \o <<i2>>
           s3 == s2 \o <<i3>>
           s4 == s3 \o <<i4>>
           s5 == s4 \o <<i5>>
           k == Len(R) + 1
<1>6. QuorumLoss(count, reset) = s5
  BY <1>2
<1> HIDE DEF I, R, i0, i1, i2, i3, i4, i5
<1>10. /\ s0 \in Seq(Instruction) /\ Len(s0) = k /\ s0[k] = i0
       /\ \A i \in 1..Len(R) : s0[i] = R[i]
  BY <1>3, <1>5, OneMore
<1> HIDE DEF s0
<1>11. /\ s1 \in Seq(Instruction) /\ Len(s1) = k + 1 /\ s1[k + 1] = i1
       /\ \A i \in 1..k : s1[i] = s0[i]
  BY <1>4, <1>5, <1>10, OneMore
<1> HIDE DEF s1
<1>12. /\ s2 \in Seq(Instruction) /\ Len(s2) = k + 2 /\ s2[k + 2] = i2
       /\ \A i \in 1..k + 1 : s2[i] = s1[i]
  <2>1. s2 \in Seq(Instruction) /\ Len(s2) = Len(s1) + 1 /\ s2[Len(s1) + 1] = i2
        /\ \A i \in 1..Len(s1) : s2[i] = s1[i]
    BY <1>5, <1>11, OneMore
  <2> QED
    BY <1>4, <1>11, <2>1
<1> HIDE DEF s2
<1>13. /\ s3 \in Seq(Instruction) /\ Len(s3) = k + 3 /\ s3[k + 3] = i3
       /\ \A i \in 1..k + 2 : s3[i] = s2[i]
  <2>1. s3 \in Seq(Instruction) /\ Len(s3) = Len(s2) + 1 /\ s3[Len(s2) + 1] = i3
        /\ \A i \in 1..Len(s2) : s3[i] = s2[i]
    BY <1>5, <1>12, OneMore
  <2> QED
    BY <1>4, <1>12, <2>1
<1> HIDE DEF s3
<1>14. /\ s4 \in Seq(Instruction) /\ Len(s4) = k + 4 /\ s4[k + 4] = i4
       /\ \A i \in 1..k + 3 : s4[i] = s3[i]
  <2>1. s4 \in Seq(Instruction) /\ Len(s4) = Len(s3) + 1 /\ s4[Len(s3) + 1] = i4
        /\ \A i \in 1..Len(s3) : s4[i] = s3[i]
    BY <1>5, <1>13, OneMore
  <2> QED
    BY <1>4, <1>13, <2>1
<1> HIDE DEF s4
<1>15. /\ Len(s5) = k + 5 /\ s5[k + 5] = i5
       /\ \A i \in 1..k + 4 : s5[i] = s4[i]
  <2>1. Len(s5) = Len(s4) + 1 /\ s5[Len(s4) + 1] = i5
        /\ \A i \in 1..Len(s4) : s5[i] = s4[i]
    BY <1>5, <1>14, OneMore
  <2> QED
    BY <1>4, <1>14, <2>1
<1> HIDE DEF s5
<1>16. k \in Nat /\ k >= 1 /\ Len(R) = k - 1
  BY <1>4
<1> HIDE DEF k
<1>17. /\ \A i \in 1..k + 3 : s5[i] = s3[i]
       /\ \A i \in 1..k + 2 : s5[i] = s2[i]
       /\ \A i \in 1..k + 1 : s5[i] = s1[i]
       /\ \A i \in 1..k : s5[i] = s0[i]
  <2>1. \A i \in 1..k + 3 : s5[i] = s3[i]
    BY <1>14, <1>15, <1>16
  <2>2. \A i \in 1..k + 2 : s5[i] = s2[i]
    BY <1>13, <1>16, <2>1
  <2>3. \A i \in 1..k + 1 : s5[i] = s1[i]
    BY <1>12, <1>16, <2>2
  <2>4. \A i \in 1..k : s5[i] = s0[i]
    BY <1>11, <1>16, <2>3
  <2> QED
    BY <2>1, <2>2, <2>3, <2>4
<1>18. s5[k] = i0 /\ s5[k + 1] = i1 /\ s5[k + 2] = i2
  BY <1>10, <1>11, <1>12, <1>16, <1>17
<1>19. s5[k + 3] = i3 /\ s5[k + 4] = i4 /\ s5[k + 5] = i5
  BY <1>13, <1>14, <1>15, <1>16, <1>17
<1>20. \A i \in 1..k - 1 : s5[i] \in I
  <2>1. \A i \in 1..k - 1 : i \in 1..k /\ i \in 1..Len(R)
    BY <1>16
  <2> QED
    BY <1>4, <1>10, <1>17, <2>1
<1>23. KillsAt(s5, k)
  BY <1>0, <1>15, <1>16, <1>18, <1>19, <1>20 DEF KillsAt, I, i0, i1, i2, i3, i4, i5
<1> QED
  BY <1>6, <1>16, <1>23

-----------------------------------------------------------------------------
(* What all scenarios have in common                                       *)

\* Somewhere in s there is such an instruction.
HasIn(s, do, act) == \E i \in 1..Len(s) : s[i].do = do /\ s[i].act = act

LEMMA ShapeOfScripts ==
    ASSUME NEW r \in Runs, NEW s, s = Script(r.name, r.count, r.ticked)
    PROVE  /\ s \in Seq(Instruction) /\ s # <<>>
           /\ Closes(s) => Opens(s)
           /\ HasIn(s, "each", "calm") => \E h \in Nat : HealsAt(s, h)
           /\ HasIn(s, "each", "kill") => \E k \in Nat : KillsAt(s, k)
<1> DEFINE reset == "reset" \in r.ticked
           heal == "heal" \in r.ticked
           drop == "drop" \in r.ticked
           count == r.count
<1>1. r.name \in Names /\ count \in Int /\ reset \in BOOLEAN /\ heal \in BOOLEAN /\ drop \in BOOLEAN
  BY ScenariosAssumption
<1>2. ASSUME NEW each, s \in Made(each), each \subseteq Acts
      PROVE  /\ s \in Seq(Instruction) /\ (Closes(s) => Opens(s))
             /\ "calm" \notin each => ~HasIn(s, "each", "calm")
             /\ "kill" \notin each => ~HasIn(s, "each", "kill")
  <2>1. s \in Seq(Allowed(each, {"kill", "revive"})) /\ (Closes(s) => Opens(s))
    BY <1>2 DEF Made, Scripts
  <2>2. \A i \in 1..Len(s) : s[i] \in Allowed(each, {"kill", "revive"})
    <3> HIDE DEF Allowed
    <3> QED
      BY <2>1, ElementOfSeq
  <2>3. \A i \in Allowed(each, {"kill", "revive"}) : i.do = "each" => i.act \in each
    BY DEF Allowed, Calling, Plains, Kinds
  <2>4. \A i \in 1..Len(s) : s[i].do = "each" => s[i].act \in each
    <3> HIDE DEF Allowed
    <3> QED
      BY <2>2, <2>3
  <2> QED
    BY <1>2, <2>1, <2>4, MadeIsScript DEF HasIn
<1>3. /\ Common \subseteq Acts /\ Common \cup {"calm"} \subseteq Acts /\ Common \cup {"kill"} \subseteq Acts
      /\ "calm" \notin Common /\ "kill" \notin Common
      /\ "kill" \notin Common \cup {"calm"} /\ "calm" \notin Common \cup {"kill"}
  BY DEF Common, Acts
<1> DEFINE Goal == /\ s \in Seq(Instruction) /\ s # <<>>
                   /\ Closes(s) => Opens(s)
                   /\ HasIn(s, "each", "calm") => \E h \in Nat : HealsAt(s, h)
                   /\ HasIn(s, "each", "kill") => \E k \in Nat : KillsAt(s, k)
<1>4. s \in Made(Common) /\ s # <<>> => Goal
  BY <1>2, <1>3
<1>5. s \in Made(Common \cup {"calm"}) /\ s \in HealedScripts => Goal
  <2> HAVE s \in Made(Common \cup {"calm"}) /\ s \in HealedScripts
  <2>1. PICK h \in Nat : HealsAt(s, h)
    BY DEF HealedScripts
  <2>2. s # <<>>
    BY <2>1 DEF HealsAt
  <2> QED
    BY <1>2, <1>3, <2>1, <2>2
<1>6. s \in Made(Common \cup {"kill"}) /\ (\E k \in Nat : KillsAt(s, k)) => Goal
  <2> HAVE s \in Made(Common \cup {"kill"}) /\ (\E k \in Nat : KillsAt(s, k))
  <2>1. s # <<>>
    BY DEF KillsAt
  <2> QED
    BY <1>2, <1>3, <2>1
<1> HIDE DEF Goal, reset, heal, drop, count
<1>7. Goal
  <2>1. CASE r.name = "fresh-election"
    <3>1. s = FreshElection
      BY <2>1 DEF Script
    <3> QED
      BY <1>4, <3>1, FreshElectionIsMade
  <2>2. CASE r.name = "dueling-proposers"
    <3>1. s = DuelingProposers(count, heal)
      BY <2>2 DEF Script, heal, count
    <3> QED
      BY <1>1, <1>4, <1>5, <3>1, DuelingProposersIsMade
  <2>3. CASE r.name = "partition"
    <3>1. s = Partition(count, reset)
      BY <2>3 DEF Script, reset, count
    <3> QED
      BY <1>1, <1>5, <3>1, PartitionIsMade
  <2>4. CASE r.name = "quorum-loss"
    <3>1. s = QuorumLoss(count, reset)
      BY <2>4 DEF Script, reset, count
    <3>2. CASE count < 0
      BY <1>1, <1>4, <3>1, <3>2, QuorumLossPanics
    <3>3. CASE count >= 0
      BY <1>1, <1>6, <3>1, <3>3, QuorumLossIsMade, QuorumLossKills
    <3> QED
      BY <1>1, <3>2, <3>3
  <2>5. CASE r.name = "packet-loss"
    <3>1. s = PacketLoss(reset)
      BY <2>5 DEF Script, reset
    <3> QED
      BY <1>1, <1>5, <3>1, PacketLossIsMade
  <2>6. CASE r.name = "slow-network"
    <3>1. s = SlowNetwork(reset)
      BY <2>6 DEF Script, reset
    <3> QED
      BY <1>1, <1>5, <3>1, SlowNetworkIsMade
  <2>7. CASE r.name = "rolling-restart"
    <3>1. s = RollingRestart(reset)
      BY <2>7 DEF Script, reset
    <3> QED
      BY <1>1, <1>4, <3>1, RollingRestartIsMade
  <2>8. CASE r.name = "chaos"
    <3>1. s = ChaosMonkey(count, drop, reset)
      BY <2>8 DEF Script, reset, drop, count
    <3> QED
      BY <1>1, <1>5, <3>1, ChaosMonkeyIsMade
  <2> QED
    BY <1>1, <2>1, <2>2, <2>3, <2>4, <2>5, <2>6, <2>7, <2>8 DEF Names
<1> QED
  BY <1>7 DEF Goal

-----------------------------------------------------------------------------
(* The state of nodes                                                      *)

Decisions == Values \cup {Nothing}

NodeState == [alive : BOOLEAN, campaigning : BOOLEAN, chaos : BOOLEAN,
              decision : Decisions, latency : BOOLEAN, drop : BOOLEAN,
              blocked : SUBSET (0..N)]

\* Nothing but chaos disturbs it.
Undisturbed(s) == ~s.latency /\ ~s.drop /\ s.blocked = {}

\* What the handlers do and leave alone.
LEMMA Handlers ==
    ASSUME NEW act \in Acts, NEW peer \in 0..N, NEW s \in NodeState, NEW t, t = Handler(act, peer, s)
    PROVE  /\ t \in NodeState
           /\ act \in {"revive", "campaign", "kill", "calm", "reset"} /\ Undisturbed(s) => Undisturbed(t)
           /\ act # "chaos" /\ ~s.chaos => ~t.chaos
           /\ act = "heal" => Undisturbed(t)
           /\ act = "calm" => ~t.chaos
           /\ act # "kill" /\ s.alive => t.alive
           /\ act \in {"revive", "reset"} => t.alive
<1>1. CASE act = "kill"
  BY <1>1 DEF Handler, Kill, NodeState, Undisturbed
<1>2. CASE act = "revive"
  BY <1>2 DEF Handler, Revive, TriggerCampaign, NodeState, Undisturbed
<1>3. CASE act = "campaign"
  BY <1>3 DEF Handler, TriggerCampaign, NodeState, Undisturbed
<1>4. CASE act = "reset"
  BY <1>4 DEF Handler, Reset, Wipe, Kill, TriggerCampaign, NodeState, Undisturbed, Decisions
<1>5. CASE act = "heal"
  BY <1>5 DEF Handler, Heal, NodeState, Undisturbed
<1>6. CASE act = "latency"
  BY <1>6 DEF Handler, NodeState, Undisturbed
<1>7. CASE act = "drop"
  BY <1>7 DEF Handler, NodeState, Undisturbed
<1>8. CASE act = "block"
  BY <1>8 DEF Handler, NodeState, Undisturbed
<1>9. CASE act = "chaos"
  BY <1>9 DEF Handler, SetChaos, NodeState, Undisturbed
<1>10. CASE act = "calm"
  BY <1>10 DEF Handler, SetChaos, NodeState, Undisturbed
<1> QED
  BY <1>1, <1>2, <1>3, <1>4, <1>5, <1>6, <1>7, <1>8, <1>9, <1>10 DEF Acts

\* A call that is cut short does all, nothing, or half of a Reset.
LEMMA PartlyHandled ==
    ASSUME NEW act \in Acts, NEW peer \in 0..N, NEW s \in NodeState,
           NEW t \in Partly(act, peer, s)
    PROVE  /\ t \in NodeState
           /\ t = s \/ t = Handler(act, peer, s) \/ act = "reset"
           /\ Undisturbed(s) /\ act = "reset" => Undisturbed(t)
           /\ act = "reset" /\ ~s.chaos => ~t.chaos
<1>1. Kill(s) \in NodeState /\ Wipe(s) \in NodeState
  BY DEF Kill, Wipe, NodeState, Decisions
<1>2. Undisturbed(s) => Undisturbed(Kill(s)) /\ Undisturbed(Wipe(s))
  BY DEF Undisturbed, Kill, Wipe, NodeState
<1>3. ~s.chaos => ~Kill(s).chaos /\ ~Wipe(s).chaos
  BY DEF Kill, Wipe, NodeState
<1>4. t = s \/ t = Handler(act, peer, s) \/ (act = "reset" /\ t \in {Kill(s), Wipe(s)})
  BY DEF Partly
<1>5. CASE t = s
  BY <1>5
<1>6. CASE t = Handler(act, peer, s)
  BY <1>6, Handlers
<1>7. CASE act = "reset" /\ t \in {Kill(s), Wipe(s)}
  BY <1>1, <1>2, <1>3, <1>7
<1> QED
  BY <1>4, <1>5, <1>6, <1>7

-----------------------------------------------------------------------------
(* The invariant                                                           *)

Snap == [reachable : BOOLEAN, alive : BOOLEAN, decision : Decisions]

Strikes == {"none", "awake", "kill", "revive"}

ScenarioTypeOK ==
    /\ node \in [Nodes -> NodeState]
    /\ strike \in [Nodes -> Strikes]
    /\ script \in Seq(Instruction)
    /\ ip \in Nat
    /\ calls \in SUBSET Nodes
    /\ waiting \in BOOLEAN
    /\ error \in {"none", "failed", "stopped"}
    /\ snaps \in [Nodes -> Snap]
    /\ before \in Decisions
    /\ outcome \in {"none", "running", "finished", "failed", "stopped", "panicked"}

\* What is run is a script of Runs, from its first instruction to its last.
RunOK ==
    /\ outcome = "none" => script = <<>> /\ ip = 1 /\ ~waiting
    /\ script = <<>> \/ \E r \in Runs : script = Script(r.name, r.count, r.ticked)
    /\ outcome = "running" => ip \in 1..Len(script)
    /\ outcome = "finished" => ip > Len(script)

\* Calls that have not returned are those of the instruction that the run is at.
CallsMade ==
    calls # {} =>
        /\ outcome = "running"
        /\ waiting
        /\ calls \subseteq Targets
        /\ script[ip].do \in {"each", "try"} \cup Looks

ControlOK == ScenarioTypeOK /\ RunOK /\ CallsMade

\* The steps that end an instruction, or try it again.
Passes ==
    /\ outcome = "running" /\ calls = {} /\ calls' = {} /\ waiting' = FALSE
    /\ node' = node /\ strike' = strike /\ script' = script /\ error' = error
    /\ \/ /\ ip' = ip + 1
          /\ outcome' = IF ip + 1 > Len(script) THEN "finished" ELSE "running"
          /\ script[ip].do = "each" => waiting /\ error = "none"
       \/ /\ script[ip].do \in {"while", "again"}
          /\ outcome' = IF ip' > Len(script) THEN "finished" ELSE "running"
          /\ \/ ip' \in 1..Len(script) /\ script[ip'].do = "while"
             \/ ip' = 1
             \/ \E j \in 1..Len(script) : script[j].do = "again" /\ ip' = j + 1
       \/ /\ ip' = ip
          /\ outcome' \in {"failed", "stopped", "panicked"} \/ (outcome' = "running" /\ script[ip].do = "settle")

LEMMA ScriptFacts ==
    ASSUME ControlOK
    PROVE  /\ Len(script) \in Nat
           /\ \A i \in 1..Len(script) : script[i] \in Instruction
           /\ Closes(script) => Opens(script)
           /\ HasIn(script, "each", "calm") => \E h \in Nat : HealsAt(script, h)
           /\ HasIn(script, "each", "kill") => \E k \in Nat : KillsAt(script, k)
<1>1. script \in Seq(Instruction)
  BY DEF ControlOK, ScenarioTypeOK
<1>2. Len(script) \in Nat /\ \A i \in 1..Len(script) : script[i] \in Instruction
  <2> HIDE DEF Instruction
  <2> QED
    BY <1>1, LenProperties, ElementOfSeq
<1>3. CASE script = <<>>
  <2>1. Len(script) = 0
    BY <1>3, EmptySeq
  <2> QED
    BY <1>2, <2>1 DEF Closes, HasIn
<1>4. CASE script # <<>>
  <2>1. PICK r \in Runs : script = Script(r.name, r.count, r.ticked)
    BY <1>4 DEF ControlOK, RunOK
  <2> QED
    BY <1>2, <2>1, ShapeOfScripts
<1> QED
  BY <1>3, <1>4

LEMMA HereFacts ==
    ASSUME ControlOK, outcome = "running"
    PROVE  /\ ip \in 1..Len(script) /\ script[ip] \in Instruction
           /\ script[ip].do \in {"each", "try"} =>
                 script[ip].act \in Acts /\ script[ip].peer \in 0..N
           /\ script[ip].do \in Kinds => script[ip].act = "none" /\ script[ip].ids = {}
           /\ Targets \subseteq Nodes
<1>1. ip \in 1..Len(script) /\ script[ip] \in Instruction
  BY ScriptFacts DEF ControlOK, RunOK
<1> QED
  BY <1>1 DEF Instruction, Allowed, Calling, Plains, Kinds, Targets, Acts

LEMMA PassingSteps ==
    ASSUME ControlOK,
           \/ Sleep \/ Panic \/ LoopBegins \/ LoopEnds \/ Return \/ Check \/ Before \/ After
           \/ Settle \/ KeepWaiting \/ GiveUp
    PROVE  Passes
<1>0. outcome = "running"
  BY DEF Sleep, Panic, LoopBegins, LoopEnds, Return, Check, Before, After, Settle, KeepWaiting,
         GiveUp, At
<1>1. /\ ip \in 1..Len(script) /\ Len(script) \in Nat /\ ip \in Nat
      /\ calls # {} => script[ip].do \in {"each", "try"} \cup Looks
      /\ error \in {"none", "failed", "stopped"}
  BY <1>0, HereFacts, ScriptFacts DEF ControlOK, CallsMade, ScenarioTypeOK
<1>2. CASE Sleep
  BY <1>0, <1>1, <1>2 DEF Sleep, At, Fail, Goto, Moves, Passes, clusterVars, Looks
<1>3. CASE LoopBegins
  <2>1. CASE At({"while"}) /\ Goto(ip + 1) /\ Moves
    BY <1>0, <1>1, <2>1 DEF At, Goto, Moves, Passes, clusterVars, Looks
  <2>2. CASE At({"again"}) /\ Goto(FirstOf("while")) /\ Moves
    <3>1. Closes(script)
      BY <1>1, <2>2 DEF At, Closes
    <3>2. \E i \in 1..Len(script) : script[i].do = "while"
      BY <3>1, ScriptFacts DEF Opens
    <3>3. FirstOf("while") \in 1..Len(script) /\ script[FirstOf("while")].do = "while"
      BY <1>1, <3>2, FirstIndex
    <3> QED
      BY <1>0, <1>1, <2>2, <3>3 DEF At, Goto, Moves, Passes, clusterVars, Looks
  <2> QED
    BY <1>3, <2>1, <2>2 DEF LoopBegins, FirstOf
<1>4. CASE LoopEnds
  <2>1. At({"while"}) /\ Goto(FirstOf("again") + 1) /\ Moves
    BY <1>4 DEF LoopEnds, FirstOf
  <2>2. /\ FirstOf("again") \in 0..Len(script)
        /\ FirstOf("again") # 0 => script[FirstOf("again")].do = "again"
    BY <1>1, FirstIndex
  <2>3. CASE FirstOf("again") = 0
    BY <1>0, <1>1, <2>1, <2>3 DEF At, Goto, Moves, Passes, clusterVars, Looks
  <2>4. CASE FirstOf("again") # 0
    <3>1. FirstOf("again") \in 1..Len(script)
      BY <1>1, <2>2, <2>4
    <3> QED
      BY <1>0, <1>1, <2>1, <2>2, <2>4, <3>1 DEF At, Goto, Moves, Passes, clusterVars, Looks
  <2> QED
    BY <2>3, <2>4
<1>5. CASE Return
  BY <1>0, <1>1, <1>5 DEF Return, At, Fail, Goto, Moves, Passes, clusterVars
<1>6. CASE Check
  BY <1>0, <1>1, <1>6 DEF Check, At, Fail, Goto, Alarm, LookVars, Looked, Passes, clusterVars
<1>7. CASE Before
  BY <1>0, <1>1, <1>7 DEF Before, At, Goto, LookVars, Looked, Passes, clusterVars
<1>8. CASE After
  BY <1>0, <1>1, <1>8 DEF After, At, Fail, Goto, Alarm, LookVars, Looked, Passes, clusterVars
<1>9. CASE Settle
  BY <1>0, <1>1, <1>9 DEF Settle, At, Goto, LookVars, Looked, Passes, clusterVars
<1>10. CASE KeepWaiting
  BY <1>0, <1>1, <1>10 DEF KeepWaiting, At, LookVars, Looked, Passes, clusterVars
<1>11. CASE GiveUp
  BY <1>0, <1>1, <1>11 DEF GiveUp, At, Fail, Goto, Alarm, LookVars, Looked, Passes, clusterVars
<1>12. CASE Panic
  BY <1>0, <1>1, <1>12 DEF Panic, At, Fail, Moves, Passes, clusterVars, Looks
<1> QED
  BY <1>2, <1>3, <1>4, <1>5, <1>6, <1>7, <1>8, <1>9, <1>10, <1>11, <1>12

\* What a look shows.
LEMMA Looking ==
    ASSUME ScenarioTypeOK
    PROVE  /\ Shown \subseteq Decisions
           /\ HasSettled => SettledValue \in Shown
<1>1. Shown \subseteq Decisions
  BY DEF Shown, Learned, ScenarioTypeOK, Snap
<1>2. HasSettled => SettledValue \in Shown
  <2> HAVE HasSettled
  <2>1. Shown # {}
    BY FS_EmptySet DEF HasSettled
  <2> QED
    BY <2>1 DEF SettledValue
<1> QED
  BY <1>1, <1>2

LEMMA ControlInit == ScenarioInit => ControlOK
<1> SUFFICES ASSUME ScenarioInit
             PROVE  ControlOK
  OBVIOUS
<1>1. node \in [Nodes -> NodeState] /\ strike \in [Nodes -> Strikes]
  BY DEF ScenarioInit, ClusterInit, NodeState, Decisions, Strikes
<1>2. snaps \in [Nodes -> Snap]
  BY DEF ScenarioInit, Unreachable, Snap, Decisions
<1>3. script \in Seq(Instruction)
  BY EmptySeq DEF ScenarioInit
<1>4. /\ ip \in Nat /\ calls = {} /\ waiting \in BOOLEAN /\ error = "none" /\ before \in Decisions
      /\ outcome = "none" /\ script = <<>> /\ ip = 1 /\ ~waiting
  <2>1. waiting = FALSE /\ ip = 1 /\ calls = {} /\ error = "none" /\ before = Nothing
        /\ outcome = "none" /\ script = <<>>
    BY DEF ScenarioInit
  <2>2. waiting \in BOOLEAN /\ ~waiting
    BY <2>1
  <2>3. ip \in Nat /\ before \in Decisions
    BY <2>1 DEF Decisions
  <2> QED
    BY <2>1, <2>2, <2>3
<1>5. ScenarioTypeOK
  <2> HIDE DEF NodeState, Snap, Instruction
  <2> QED
    BY <1>1, <1>2, <1>3, <1>4 DEF ScenarioTypeOK
<1> QED
  BY <1>4, <1>5 DEF ControlOK, RunOK, CallsMade

\* What the nodes do by themselves to one of them.
LEMMA NodeSteps ==
    ASSUME ControlOK, NodeStep
    PROVE  /\ node' \in [Nodes -> NodeState]
           /\ strike' \in [Nodes -> Strikes]
           /\ \A m \in Nodes :
                /\ Undisturbed(node[m]) => Undisturbed(node'[m])
                /\ ~node[m].chaos => ~node'[m].chaos
           /\ (\A m \in Nodes : ~node[m].chaos /\ strike[m] = "none") =>
                 /\ strike' = strike
                 /\ \A m \in Nodes : node'[m].alive = node[m].alive
<1>0. node \in [Nodes -> NodeState] /\ strike \in [Nodes -> Strikes]
  BY DEF ControlOK, ScenarioTypeOK
<1>1. PICK n \in Nodes : Learn(n) \/ ChaosWakes(n) \/ ChaosLooks(n) \/ ChaosStrikes(n)
  BY DEF NodeStep
<1>2. CASE Learn(n)
  <2>1. PICK v \in Values :
          node' = [node EXCEPT ![n].decision = v, ![n].campaigning = FALSE]
    BY <1>2 DEF Learn
  <2>2. v \in Decisions
    BY DEF Decisions
  <2>3. \A m \in Nodes :
          /\ node'[m] \in NodeState
          /\ Undisturbed(node[m]) => Undisturbed(node'[m])
          /\ node'[m].chaos = node[m].chaos
          /\ node'[m].alive = node[m].alive
    BY <1>0, <2>1, <2>2 DEF NodeState, Undisturbed
  <2>4. node' \in [Nodes -> NodeState]
    <3> HIDE DEF NodeState
    <3>1. DOMAIN node' = Nodes /\ node' = [m \in Nodes |-> node'[m]]
      BY <1>0, <2>1
    <3> QED
      BY <2>3, <3>1
  <2> QED
    BY <1>0, <1>2, <2>3, <2>4 DEF Learn
<1>3. CASE ChaosWakes(n)
  BY <1>0, <1>3 DEF ChaosWakes, Strikes
<1>4. CASE ChaosLooks(n)
  BY <1>0, <1>4 DEF ChaosLooks, Strikes
<1>5. CASE ChaosStrikes(n)
  <2>1. strike[n] \in {"kill", "revive"} /\ strike[n] \in Acts /\ n \in 0..N
    BY <1>0, <1>5 DEF ChaosStrikes, Acts, Nodes
  <2> DEFINE t == Handler(strike[n], n, node[n])
  <2>2. node' = node \/ node' = [node EXCEPT ![n] = t]
    BY <1>5 DEF ChaosStrikes
  <2>3. /\ t \in NodeState /\ (Undisturbed(node[n]) => Undisturbed(t))
        /\ ~node[n].chaos => ~t.chaos
    BY <1>0, <2>1, Handlers
  <2> HIDE DEF t, NodeState
  <2>4. /\ node' \in [Nodes -> NodeState]
        /\ \A m \in Nodes : node'[m] = node[m] \/ (m = n /\ node'[m] = t)
    BY <1>0, <2>2, <2>3
  <2>5. strike' \in [Nodes -> Strikes] /\ strike[n] # "none"
    BY <1>0, <1>5 DEF ChaosStrikes, Strikes
  <2>6. \A m \in Nodes :
                /\ Undisturbed(node[m]) => Undisturbed(node'[m])
                /\ ~node[m].chaos => ~node'[m].chaos
    BY <2>3, <2>4
  <2> QED
    BY <2>4, <2>5, <2>6
<1> QED
  BY <1>1, <1>2, <1>3, <1>4, <1>5

\* What a call does to its node.
LEMMA CallFacts ==
    ASSUME ControlOK, NEW n \in Nodes, Call(n)
    PROVE  LET act == script[ip].act
               t == Handler(act, script[ip].peer, node[n]) IN
           /\ outcome = "running" /\ script[ip].do \in {"each", "try"} /\ act \in Acts
           /\ script[ip].peer \in 0..N
           /\ n \in calls /\ calls' = calls \ {n}
           /\ node' = [node EXCEPT ![n] = node'[n]] /\ node'[n] \in NodeState
           /\ node'[n] = t \/ node'[n] = node[n] \/ act = "reset"
           /\ error' \in {"none", "failed", "stopped"}
           /\ error' = "none" => error = "none" /\ node'[n] = t
           /\ Undisturbed(node[n]) /\ act = "reset" => Undisturbed(node'[n])
           /\ act = "reset" /\ ~node[n].chaos => ~node'[n].chaos
           /\ UNCHANGED <<strike, script, ip, waiting, snaps, before, stopped, outcome, alarm, settled>>
<1> DEFINE i == script[ip]
           t == Handler(i.act, i.peer, node[n])
<1>1. outcome = "running" /\ i.do \in {"each", "try"} /\ i.act \in Acts /\ i.peer \in 0..N
  BY HereFacts DEF Call, At
<1>2. node \in [Nodes -> NodeState] /\ error \in {"none", "failed", "stopped"} /\ node[n] \in NodeState
  BY DEF ControlOK, ScenarioTypeOK
<1>3. /\ t \in NodeState
      /\ i.act = "reset" /\ Undisturbed(node[n]) => Undisturbed(t)
      /\ i.act = "reset" /\ ~node[n].chaos => ~t.chaos
  BY <1>1, <1>2, Handlers
<1>4. /\ n \in calls /\ calls' = calls \ {n}
      /\ UNCHANGED <<strike, script, ip, waiting, snaps, before, stopped, outcome, alarm, settled>>
  BY DEF Call
<1>5. \/ node' = [node EXCEPT ![n] = t] /\ error' = error
      \/ node' = node /\ error' = IF error = "none" THEN "failed" ELSE error
      \/ \E s \in Partly(i.act, i.peer, node[n]), how \in {"failed", "stopped"} :
            node' = [node EXCEPT ![n] = s] /\ error' = IF error = "none" THEN how ELSE error
  BY DEF Call, FirstError
<1>6. CASE node' = [node EXCEPT ![n] = t] /\ error' = error
  <2> HIDE DEF NodeState
  <2>1. node'[n] = t
    BY <1>2, <1>6
  <2> QED
    BY <1>1, <1>2, <1>3, <1>4, <1>6, <2>1
<1>7. CASE node' = node /\ error' = IF error = "none" THEN "failed" ELSE error
  <2> HIDE DEF NodeState
  <2>1. node' = [node EXCEPT ![n] = node'[n]] /\ error' \in {"failed", "stopped"}
    BY <1>2, <1>7
  <2> QED
    BY <1>1, <1>2, <1>4, <1>7, <2>1
<1>8. ASSUME NEW s \in Partly(i.act, i.peer, node[n]), NEW how \in {"failed", "stopped"},
             node' = [node EXCEPT ![n] = s], error' = IF error = "none" THEN how ELSE error
      PROVE  /\ node' = [node EXCEPT ![n] = node'[n]] /\ node'[n] \in NodeState
             /\ node'[n] = t \/ node'[n] = node[n] \/ i.act = "reset"
             /\ error' \in {"failed", "stopped"}
             /\ Undisturbed(node[n]) /\ i.act = "reset" => Undisturbed(node'[n])
             /\ i.act = "reset" /\ ~node[n].chaos => ~node'[n].chaos
  <2>1. /\ s \in NodeState /\ (s = node[n] \/ s = t \/ i.act = "reset")
        /\ Undisturbed(node[n]) /\ i.act = "reset" => Undisturbed(s)
        /\ i.act = "reset" /\ ~node[n].chaos => ~s.chaos
    BY <1>1, <1>2, PartlyHandled
  <2> HIDE DEF NodeState, t
  <2>2. node'[n] = s
    BY <1>2, <1>8
  <2> QED
    BY <1>2, <1>8, <2>1, <2>2
<1> QED
  <2> HIDE DEF t, i, NodeState
  <2>1. CASE \E s \in Partly(i.act, i.peer, node[n]), how \in {"failed", "stopped"} :
            node' = [node EXCEPT ![n] = s] /\ error' = IF error = "none" THEN how ELSE error
    BY <1>1, <1>4, <1>8, <2>1 DEF t, i
  <2> QED
    BY <1>5, <1>6, <1>7, <2>1 DEF t, i

LEMMA ControlStep ==
    ASSUME ControlOK, ScenarioNext
    PROVE  ControlOK'
<1>0. ScenarioTypeOK /\ RunOK /\ CallsMade
  BY DEF ControlOK
<1>1. ASSUME Passes, snaps' \in [Nodes -> Snap], before' \in Decisions
      PROVE  ControlOK'
  <2>1. ip \in 1..Len(script) /\ Len(script) \in Nat
    BY <1>1, HereFacts, ScriptFacts DEF Passes
  <2>2. ip' \in Nat /\ (ip' = ip \/ ip' >= 1)
    BY <1>1, <2>1 DEF Passes
  <2>3. ScenarioTypeOK'
    <3> HIDE DEF NodeState, Snap, Instruction
    <3> QED
      BY <1>0, <1>1, <2>2 DEF ScenarioTypeOK, Passes
  <2>4. RunOK'
    BY <1>0, <1>1, <2>1, <2>2 DEF RunOK, Passes
  <2>5. CallsMade'
    BY <1>1 DEF CallsMade, Passes
  <2> QED
    BY <2>3, <2>4, <2>5 DEF ControlOK
<1>2. [n \in Nodes |-> Unreachable] \in [Nodes -> Snap]
  BY DEF Unreachable, Snap, Decisions
<1>3. CASE Sleep \/ Panic \/ LoopBegins \/ LoopEnds \/ Return \/ Settle
  <2>1. snaps' = snaps /\ before' = before
    BY <1>3 DEF Sleep, Panic, LoopBegins, LoopEnds, Return, Settle, Moves, LookVars
  <2> QED
    BY <1>0, <1>1, <1>3, <2>1, PassingSteps DEF ScenarioTypeOK
<1>4. CASE Check \/ After \/ KeepWaiting \/ GiveUp
  <2>1. snaps' = [n \in Nodes |-> Unreachable] /\ before' = before
    BY <1>4 DEF Check, After, KeepWaiting, GiveUp, Forget
  <2> QED
    BY <1>0, <1>1, <1>2, <1>4, <2>1, PassingSteps DEF ScenarioTypeOK
<1>5. CASE Before
  <2>1. snaps' = [n \in Nodes |-> Unreachable] /\ before' \in Decisions
    BY <1>0, <1>5, Looking DEF Before, Forget, Decisions
  <2> QED
    BY <1>1, <1>2, <1>5, <2>1, PassingSteps
<1>6. CASE \E r \in Runs : Start(r)
  <2>1. PICK r \in Runs : Start(r)
    BY <1>6
  <2>2. script' \in Seq(Instruction) /\ script' # <<>>
    BY <2>1, ShapeOfScripts DEF Start
  <2>3. Len(script') \in Nat \ {0}
    BY <2>2, EmptySeq
  <2>4. outcome = "none" /\ outcome' = "running" /\ calls = {} /\ calls' = {} /\ ip' = ip
    BY <1>0, <2>1 DEF Start, CallsMade
  <2>5. ScenarioTypeOK'
    <3> HIDE DEF NodeState, Snap, Instruction
    <3> QED
      BY <1>0, <2>1, <2>2, <2>4 DEF ScenarioTypeOK, Start, clusterVars
  <2>6. outcome' = "running" /\ ip' = 1 /\ script' = Script(r.name, r.count, r.ticked)
    BY <1>0, <2>1, <2>4 DEF RunOK, Start
  <2>7. 1 \in 1..Len(script')
    BY <2>3
  <2>8. RunOK'
    BY <2>6, <2>7 DEF RunOK
  <2>9. CallsMade'
    BY <2>4 DEF CallsMade
  <2> QED
    BY <2>5, <2>8, <2>9 DEF ControlOK
<1>7. CASE Stop
  <2>1. ScenarioTypeOK'
    <3> HIDE DEF NodeState, Snap, Instruction
    <3> QED
      BY <1>0, <1>7 DEF ScenarioTypeOK, Stop, clusterVars
  <2> QED
    BY <1>0, <1>7, <2>1 DEF ControlOK, RunOK, CallsMade, Stop, clusterVars, Targets
<1>8. CASE Issue
  <2>1. outcome = "running" /\ Targets \subseteq Nodes
    BY <1>8, HereFacts DEF Issue, At
  <2>2. calls' \in SUBSET Nodes /\ waiting' = TRUE /\ error' \in {"none", "stopped"}
    BY <1>8, <2>1 DEF Issue
  <2>4. ScenarioTypeOK'
    <3>1. snaps' \in [Nodes -> Snap] /\ waiting' \in BOOLEAN
      BY <1>2, <1>8, <2>2 DEF Issue, Forget
    <3> HIDE DEF NodeState, Snap, Instruction
    <3> QED
      BY <1>0, <1>8, <2>2, <3>1 DEF ScenarioTypeOK, Issue, clusterVars
  <2>5. RunOK'
    <3>1. script' = script /\ ip' = ip /\ outcome' = "running"
      BY <1>8, <2>1 DEF Issue
    <3> QED
      BY <1>0, <2>1, <3>1 DEF RunOK
  <2>6. CallsMade'
    <3> SUFFICES ASSUME calls' # {}
                 PROVE  CallsMade'
      BY DEF CallsMade
    <3>1. ~stopped /\ calls' = Targets
      BY <1>8 DEF Issue
    <3>2. Targets' = Targets /\ script' = script /\ ip' = ip /\ outcome' = "running"
      BY <1>8, <2>1 DEF Issue, Targets
    <3>3. script[ip].do \in {"each", "try"} \cup Looks
      BY <1>8 DEF Issue, At
    <3> QED
      BY <2>2, <3>1, <3>2, <3>3 DEF CallsMade, Looks
  <2> QED
    BY <2>4, <2>5, <2>6 DEF ControlOK
<1>9. ASSUME NEW n \in Nodes, Call(n)
      PROVE  ControlOK'
  <2>1. /\ outcome = "running" /\ script[ip].do \in {"each", "try"}
        /\ n \in calls /\ calls' = calls \ {n}
        /\ node' = [node EXCEPT ![n] = node'[n]] /\ node'[n] \in NodeState
        /\ error' \in {"none", "failed", "stopped"}
        /\ UNCHANGED <<strike, script, ip, waiting, snaps, before, stopped, outcome, alarm, settled>>
    BY <1>9, CallFacts
  <2>2. node' \in [Nodes -> NodeState]
    <3> HIDE DEF NodeState
    <3> QED
      BY <1>0, <2>1 DEF ScenarioTypeOK
  <2>3. ScenarioTypeOK'
    <3> HIDE DEF NodeState, Snap, Instruction
    <3> QED
      BY <1>0, <2>1, <2>2 DEF ScenarioTypeOK
  <2>4. RunOK' /\ CallsMade'
    BY <1>0, <2>1 DEF RunOK, CallsMade, Targets, Looks
  <2> QED
    BY <2>3, <2>4 DEF ControlOK
<1>10. ASSUME NEW n \in Nodes, Snapshot(n)
       PROVE  ControlOK'
  <2>1. snaps' \in [Nodes -> Snap]
    <3>1. [reachable |-> TRUE, alive |-> node[n].alive, decision |-> node[n].decision] \in Snap
      BY <1>0 DEF ScenarioTypeOK, NodeState, Snap
    <3> HIDE DEF Snap
    <3> QED
      BY <1>0, <1>10, <3>1 DEF Snapshot, ScenarioTypeOK
  <2>2. ScenarioTypeOK'
    <3> HIDE DEF NodeState, Snap, Instruction
    <3> QED
      BY <1>0, <1>10, <2>1 DEF ScenarioTypeOK, Snapshot, clusterVars
  <2>3. RunOK' /\ CallsMade'
    BY <1>0, <1>10 DEF RunOK, CallsMade, Targets, Looks, Snapshot, clusterVars
  <2> QED
    BY <2>2, <2>3 DEF ControlOK
<1>11. CASE outcome \in {"none", "running"} /\ NodeStep /\ UNCHANGED runVars
  <2>1. /\ node' \in [Nodes -> NodeState]
        /\ strike' \in [Nodes -> Strikes]
    BY <1>11, NodeSteps
  <2>2. ScenarioTypeOK'
    <3> HIDE DEF NodeState, Snap, Instruction
    <3> QED
      BY <1>0, <1>11, <2>1 DEF ScenarioTypeOK, runVars
  <2> QED
    BY <1>0, <1>11, <2>1, <2>2 DEF ControlOK, RunOK, CallsMade, Targets, Looks, runVars
<1> QED
  BY <1>3, <1>4, <1>5, <1>6, <1>7, <1>8, <1>9, <1>10, <1>11 DEF ScenarioNext, ScriptStep

-----------------------------------------------------------------------------
(* What the end of a scenario has set right                                *)

\* Instruction i has succeeded at node n.
DoneAt(i, n) == ip > i \/ (ip = i /\ waiting /\ error = "none" /\ n \notin calls)

Healing ==
    \A h \in Nat :
        HealsAt(script, h) /\ outcome \in {"running", "finished"} =>
            \A n \in Nodes : /\ DoneAt(h, n) => Undisturbed(node[n])
                             /\ DoneAt(h + 1, n) => ~node[n].chaos

LEMMA HealingStep ==
    ASSUME ControlOK, Healing, ScenarioNext
    PROVE  Healing'
<1> SUFFICES ASSUME NEW h \in Nat, HealsAt(script', h), outcome' \in {"running", "finished"},
                    NEW n \in Nodes
             PROVE  /\ DoneAt(h, n)' => Undisturbed(node'[n])
                    /\ DoneAt(h + 1, n)' => ~node'[n].chaos
  BY DEF Healing
<1>0. ControlOK'
  BY ControlStep
<1>1. ip \in Nat /\ ip' \in Nat /\ Len(script) \in Nat /\ node \in [Nodes -> NodeState]
  BY <1>0, ScriptFacts DEF ControlOK, ScenarioTypeOK
<1>2. /\ h >= 1 /\ h + 1 <= Len(script')
      /\ script'[h].do = "each" /\ script'[h].act = "heal" /\ script'[h].ids = {}
      /\ script'[h + 1].do = "each" /\ script'[h + 1].act = "calm" /\ script'[h + 1].ids = {}
      /\ \A j \in h + 2..Len(script') :
            script'[j].do \in {"each", "try", "settle"} /\ script'[j].act \in {"revive", "campaign", "none"}
  <2>1. \A i \in Harmless : i.do \in {"each", "try", "settle"} /\ i.act \in {"revive", "campaign", "none"}
    BY DEF Harmless, Calling, Plains
  <2> HIDE DEF Harmless
  <2> QED
    BY <2>1 DEF HealsAt, Called
<1>3. CASE \E r \in Runs : Start(r)
  <2>1. ip' = 1 /\ ~waiting'
    BY <1>3 DEF Start, ControlOK, RunOK
  <2> QED
    BY <1>2, <2>1 DEF DoneAt
<1>4. ASSUME script' = script, outcome = "running"
      PROVE  /\ DoneAt(h, n) => Undisturbed(node[n])
             /\ DoneAt(h + 1, n) => ~node[n].chaos
             /\ ip \in 1..Len(script)
  BY <1>4, HereFacts DEF Healing
<1>5. CASE Stop
  <2>1. script' = script /\ outcome = "running"
    BY <1>5 DEF Stop
  <2> QED
    BY <1>4, <1>5, <2>1 DEF Stop, clusterVars, DoneAt
<1>6. CASE Passes
  <2>1. script' = script /\ outcome = "running" /\ node' = node /\ ~waiting' /\ calls = {}
    BY <1>6 DEF Passes
  <2>2. ip \in 1..Len(script) /\ (ip > h + 1 => script[ip].do \in {"each", "try", "settle"})
    BY <1>1, <1>2, <1>4, <2>1
  <2>3. CASE ip' = ip + 1 /\ (script[ip].do = "each" => waiting /\ error = "none")
    <3>1. DoneAt(h, n)' => DoneAt(h, n)
      BY <1>1, <1>2, <2>1, <2>3 DEF DoneAt
    <3>2. DoneAt(h + 1, n)' => DoneAt(h + 1, n)
      BY <1>1, <1>2, <2>1, <2>3 DEF DoneAt
    <3> QED
      BY <1>4, <2>1, <3>1, <3>2
  <2>4. CASE /\ script[ip].do \in {"while", "again"}
             /\ \/ ip' \in 1..Len(script) /\ script[ip'].do = "while"
                \/ ip' = 1
                \/ \E j \in 1..Len(script) : script[j].do = "again" /\ ip' = j + 1
    <3>1. \A j \in 1..Len(script) : script[j].do \in {"while", "again"} => j < h
      <4> TAKE j \in 1..Len(script)
      <4>1. j > h + 1 => script[j].do \in {"each", "try", "settle"}
        BY <1>1, <1>2, <2>1
      <4>2. j = h \/ j = h + 1 => script[j].do = "each"
        BY <1>2, <2>1
      <4> QED
        BY <4>1, <4>2
    <3>2. ip' <= h
      BY <1>1, <1>2, <2>4, <3>1
    <3> QED
      BY <1>1, <2>1, <3>2 DEF DoneAt
  <2>5. CASE ip' = ip
    BY <1>1, <1>4, <2>1, <2>5 DEF DoneAt
  <2> QED
    BY <1>6, <2>3, <2>4, <2>5 DEF Passes
<1>7. CASE Issue
  <2>1. /\ script' = script /\ outcome = "running" /\ node' = node /\ ip' = ip
        /\ error' = "none" => calls' = Targets
    BY <1>7 DEF Issue, At, clusterVars
  <2>2. ip \in {h, h + 1} => Targets = Nodes
    BY <1>2, <2>1 DEF Targets
  <2> QED
    BY <1>1, <1>4, <2>1, <2>2 DEF DoneAt
<1>8. ASSUME NEW m \in Nodes, Call(m)
      PROVE  /\ DoneAt(h, n)' => Undisturbed(node'[n])
             /\ DoneAt(h + 1, n)' => ~node'[n].chaos
  <2> DEFINE act == script[ip].act
             t == Handler(act, script[ip].peer, node[m])
  <2>1. /\ outcome = "running" /\ script[ip].do \in {"each", "try"} /\ act \in Acts
        /\ script[ip].peer \in 0..N
        /\ m \in calls /\ calls' = calls \ {m}
        /\ node' = [node EXCEPT ![m] = node'[m]]
        /\ node'[m] = t \/ node'[m] = node[m] \/ act = "reset"
        /\ error' = "none" => error = "none" /\ node'[m] = t
        /\ script' = script /\ ip' = ip /\ waiting' = waiting
    BY <1>8, CallFacts
  <2>2. node[m] \in NodeState
    BY <1>1
  <2>3. /\ act = "heal" => Undisturbed(t)
        /\ act = "calm" => ~t.chaos
        /\ act \in {"revive", "campaign", "calm"} /\ Undisturbed(node[m]) => Undisturbed(t)
        /\ act \in {"revive", "campaign"} /\ ~node[m].chaos => ~t.chaos
    BY <2>1, <2>2, Handlers
  <2>4. /\ ip = h => act = "heal"
        /\ ip = h + 1 => act = "calm"
        /\ ip > h + 1 => act \in {"revive", "campaign", "none"}
    BY <1>1, <1>2, <1>4, <2>1
  <2> HIDE DEF act, t, NodeState
  <2>5. n # m => node'[n] = node[n] /\ (DoneAt(h, n)' => DoneAt(h, n)) /\ (DoneAt(h + 1, n)' => DoneAt(h + 1, n))
    BY <1>1, <2>1 DEF DoneAt
  <2>6. CASE n = m
    <3>1. ASSUME DoneAt(h, n)'
          PROVE  Undisturbed(node'[n])
      <4>1. CASE ip = h
        BY <2>1, <2>3, <2>4, <2>6, <3>1, <4>1 DEF DoneAt
      <4>2. CASE ip # h
        <5>1. ip > h /\ DoneAt(h, n)
          BY <1>1, <2>1, <3>1, <4>2 DEF DoneAt
        <5>2. act \in {"revive", "campaign", "calm"}
          BY <1>1, <2>1, <2>4, <5>1 DEF Acts
        <5> QED
          BY <1>4, <2>1, <2>3, <2>6, <5>1, <5>2
      <4> QED
        BY <4>1, <4>2
    <3>2. ASSUME DoneAt(h + 1, n)'
          PROVE  ~node'[n].chaos
      <4>1. CASE ip = h + 1
        BY <2>1, <2>3, <2>4, <2>6, <3>2, <4>1 DEF DoneAt
      <4>2. CASE ip # h + 1
        <5>1. ip > h + 1 /\ DoneAt(h + 1, n)
          BY <1>1, <2>1, <3>2, <4>2 DEF DoneAt
        <5>2. act \in {"revive", "campaign"}
          BY <1>1, <2>1, <2>4, <5>1 DEF Acts
        <5> QED
          BY <1>4, <2>1, <2>3, <2>6, <5>1, <5>2
      <4> QED
        BY <4>1, <4>2
    <3> QED
      BY <3>1, <3>2
  <2> QED
    BY <1>4, <2>1, <2>5, <2>6
<1>9. ASSUME NEW m \in Nodes, Snapshot(m)
      PROVE  /\ DoneAt(h, n)' => Undisturbed(node'[n])
             /\ DoneAt(h + 1, n)' => ~node'[n].chaos
  <2>1. /\ script' = script /\ outcome = "running" /\ node' = node /\ ip' = ip
        /\ script[ip].do \in Looks
    BY <1>9 DEF Snapshot, At, clusterVars
  <2>2. ip # h /\ ip # h + 1
    BY <1>2, <2>1 DEF Looks
  <2> QED
    BY <1>1, <1>4, <2>1, <2>2 DEF DoneAt
<1>10. CASE outcome \in {"none", "running"} /\ NodeStep /\ UNCHANGED runVars
  <2>1. /\ script' = script /\ outcome = "running"
        /\ DoneAt(h, n)' => DoneAt(h, n)
        /\ DoneAt(h + 1, n)' => DoneAt(h + 1, n)
    BY <1>10 DEF runVars, DoneAt
  <2> QED
    BY <1>4, <1>10, <2>1, NodeSteps
<1> QED
  BY <1>3, <1>5, <1>6, <1>7, <1>8, <1>9, <1>10, PassingSteps DEF ScenarioNext, ScriptStep

-----------------------------------------------------------------------------
(* What a quorum-loss brings back                                          *)

NoChaos == \A n \in Nodes : ~node[n].chaos /\ strike[n] = "none"

Live(n) == node[n].alive

\* At n a quorum-loss that kills V at k has done nothing yet, or nothing at all, or
\* has undone it.
Spared(k, V, n) ==
    \/ ip < k /\ (waiting => error = "none")
    \/ ip >= k /\ V # {} /\ n \notin V
    \/ DoneAt(k + 3, n)

\* A quorum-loss kills only its victims, and revives them if it gets so far.
Reviving ==
    /\ outcome = "none" => NoChaos /\ \A n \in Nodes : Live(n)
    /\ \A k \in Nat : \A V \in SUBSET Nodes :
         KillsAt(script, k) /\ script[k].ids = V /\ outcome \in {"running", "finished"} =>
            /\ NoChaos
            /\ \A n \in Nodes : Spared(k, V, n) => Live(n)

LEMMA RevivingStep ==
    ASSUME ControlOK, Reviving, ScenarioNext
    PROVE  Reviving'
<1>0. ControlOK'
  BY ControlStep
<1>1. ip \in Nat /\ ip' \in Nat /\ Len(script) \in Nat /\ node \in [Nodes -> NodeState]
      /\ strike \in [Nodes -> Strikes]
  BY <1>0, ScriptFacts DEF ControlOK, ScenarioTypeOK
<1>2. ASSUME outcome' = "none"
      PROVE  outcome = "none" /\ NodeStep
  <2>1. CASE Passes
    BY <1>2, <2>1 DEF Passes
  <2>2. CASE Issue
    BY <1>2, <2>2 DEF Issue, At
  <2>3. CASE (\E r \in Runs : Start(r)) \/ Stop
    BY <1>2, <2>3 DEF Start, Stop
  <2>4. CASE \E n \in Nodes : Call(n) \/ Snapshot(n)
    BY <1>2, <2>4 DEF Call, Snapshot, At
  <2>5. CASE outcome \in {"none", "running"} /\ NodeStep /\ UNCHANGED runVars
    BY <1>2, <2>5 DEF runVars
  <2> QED
    BY <2>1, <2>2, <2>3, <2>4, <2>5, PassingSteps DEF ScenarioNext, ScriptStep
<1>3. outcome' = "none" => NoChaos' /\ \A n \in Nodes : Live(n)'
  <2> SUFFICES ASSUME outcome' = "none"
               PROVE  NoChaos' /\ \A n \in Nodes : Live(n)'
    OBVIOUS
  <2>1. NoChaos /\ \A n \in Nodes : Live(n)
    BY <1>2 DEF Reviving
  <2> QED
    BY <1>2, <2>1, NodeSteps DEF NoChaos, Live
<1> SUFFICES ASSUME NEW k \in Nat, NEW V \in SUBSET Nodes, KillsAt(script', k), script'[k].ids = V,
                    outcome' \in {"running", "finished"}
             PROVE  /\ NoChaos'
                    /\ \A n \in Nodes : Spared(k, V, n)' => Live(n)'
  BY <1>3 DEF Reviving
<1>4. /\ k >= 1 /\ Len(script') = k + 5
      /\ \A i \in 1..k - 1 : script'[i].do = "each" /\ script'[i].act \in {"reset", "heal"}
      /\ script'[k].do = "each" /\ script'[k].act = "kill" /\ script'[k].ids = V
      /\ script'[k + 1].do = "each" /\ script'[k + 1].act = "campaign"
      /\ script'[k + 2].do = "sleep" /\ script'[k + 2].act = "none"
      /\ script'[k + 3].do = "each" /\ script'[k + 3].act = "revive" /\ script'[k + 3].ids = V
      /\ script'[k + 4].do = "each" /\ script'[k + 4].act = "campaign"
      /\ script'[k + 5].do = "settle" /\ script'[k + 5].act = "none"
  <2>1. \A i \in Calling({"each"}, {"reset", "heal"}) : i.do = "each" /\ i.act \in {"reset", "heal"}
    BY DEF Calling
  <2> HIDE DEF Calling
  <2> QED
    BY <2>1 DEF KillsAt, Called
<1>5. CASE \E r \in Runs : Start(r)
  <2>1. outcome = "none" /\ node' = node /\ strike' = strike
    BY <1>5 DEF Start, clusterVars
  <2> QED
    BY <2>1 DEF Reviving, NoChaos, Live
<1>6. ASSUME script' = script, outcome = "running"
      PROVE  /\ NoChaos
             /\ \A n \in Nodes : Spared(k, V, n) => Live(n)
             /\ ip \in 1..k + 5
  <2>1. KillsAt(script, k) /\ script[k].ids = V /\ outcome \in {"running", "finished"}
    BY <1>6
  <2>2. ip \in 1..k + 5
    BY <1>4, <1>6, HereFacts
  <2> HIDE DEF KillsAt
  <2> QED
    BY <2>1, <2>2 DEF Reviving
<1>7. CASE Stop
  <2>1. script' = script /\ outcome = "running" /\ node' = node /\ strike' = strike
        /\ ip' = ip /\ waiting' = waiting /\ error' = error /\ calls' = calls
    BY <1>7 DEF Stop, clusterVars
  <2> QED
    BY <1>6, <2>1 DEF NoChaos, Live, DoneAt, Spared
<1>8. CASE Passes
  <2>1. script' = script /\ outcome = "running" /\ node' = node /\ strike' = strike /\ ~waiting' /\ calls = {}
    BY <1>8 DEF Passes
  <2>2. ip \in 1..k + 5 /\ script[ip].do \in {"each", "sleep", "settle"}
        /\ (ip < k \/ ip = k + 3 => script[ip].do = "each")
        /\ (script[ip].do = "settle" => ip >= k)
    <3>1. ip \in 1..k + 5
      BY <1>6, <2>1
    <3>2. ip \in 1..k - 1 \/ ip = k \/ ip = k + 1 \/ ip = k + 2 \/ ip = k + 3 \/ ip = k + 4 \/ ip = k + 5
      BY <3>1
    <3> QED
      BY <1>4, <2>1, <3>1, <3>2
  <2>3. NoChaos'
    BY <1>6, <2>1 DEF NoChaos
  <2>4. ASSUME NEW n \in Nodes, Spared(k, V, n)'
        PROVE  Spared(k, V, n)
    <3>1. CASE ip' = ip + 1 /\ (script[ip].do = "each" => waiting /\ error = "none")
      <4>1. CASE ip < k
        BY <2>2, <3>1, <4>1 DEF Spared
      <4>2. CASE ip >= k /\ V # {} /\ n \notin V
        BY <4>2 DEF Spared
      <4>3. CASE ip >= k /\ ~(V # {} /\ n \notin V)
        <5>1. ip' > k + 3
          BY <1>1, <2>1, <2>4, <3>1, <4>3 DEF Spared, DoneAt
        <5>2. DoneAt(k + 3, n)
          BY <1>1, <2>1, <2>2, <3>1, <5>1 DEF DoneAt
        <5> QED
          BY <5>2 DEF Spared
      <4> QED
        BY <1>1, <4>1, <4>2, <4>3
    <3>2. CASE ip' = ip /\ ip >= k
      <4>1. DoneAt(k + 3, n)' => DoneAt(k + 3, n)
        BY <1>1, <2>1, <3>2 DEF DoneAt
      <4> QED
        BY <1>1, <2>4, <3>2, <4>1 DEF Spared
    <3> QED
      BY <1>8, <2>2, <3>1, <3>2 DEF Passes
  <2>5. \A n \in Nodes : Live(n)' <=> Live(n)
    BY <2>1 DEF Live
  <2> QED
    BY <1>6, <2>1, <2>3, <2>4, <2>5
<1>9. CASE Issue
  <2>1. /\ script' = script /\ outcome = "running" /\ node' = node /\ strike' = strike /\ ip' = ip
        /\ ~waiting
        /\ error' = "none" => calls' = Targets
    BY <1>9 DEF Issue, At, clusterVars
  <2>2. ip = k + 3 => Targets = IF V = {} THEN Nodes ELSE V
    BY <1>4, <2>1 DEF Targets
  <2>3. \A n \in Nodes : DoneAt(k + 3, n)' => DoneAt(k + 3, n) \/ (ip >= k /\ V # {} /\ n \notin V)
    BY <1>1, <2>1, <2>2 DEF DoneAt
  <2>4. \A n \in Nodes : Spared(k, V, n)' => Spared(k, V, n)
    BY <2>1, <2>3 DEF Spared
  <2>5. NoChaos' /\ \A n \in Nodes : Live(n)' <=> Live(n)
    BY <1>6, <2>1 DEF NoChaos, Live
  <2> QED
    BY <1>6, <2>1, <2>4, <2>5
<1>10. ASSUME NEW m \in Nodes, Call(m)
       PROVE  /\ NoChaos'
              /\ \A n \in Nodes : Spared(k, V, n)' => Live(n)'
  <2> DEFINE act == script[ip].act
             t == Handler(act, script[ip].peer, node[m])
  <2>1. /\ outcome = "running" /\ act \in Acts /\ script[ip].peer \in 0..N
        /\ m \in calls /\ calls' = calls \ {m}
        /\ node' = [node EXCEPT ![m] = node'[m]] /\ strike' = strike
        /\ node'[m] = t \/ node'[m] = node[m] \/ act = "reset"
        /\ error' = "none" => error = "none" /\ node'[m] = t
        /\ act = "reset" /\ ~node[m].chaos => ~node'[m].chaos
        /\ script' = script /\ ip' = ip /\ waiting' = waiting
    BY <1>10, CallFacts
  <2>2. node[m] \in NodeState /\ waiting /\ m \in Targets
    BY <1>1, <2>1 DEF ControlOK, CallsMade
  <2>3. /\ act # "chaos" /\ ~node[m].chaos => ~t.chaos
        /\ act # "kill" /\ node[m].alive => t.alive
        /\ act \in {"revive", "reset"} => t.alive
    BY <2>1, <2>2, Handlers
  <2>4. ip \in 1..k - 1 \/ ip = k \/ ip = k + 1 \/ ip = k + 3 \/ ip = k + 4
    <3>1. ip \in 1..k + 5
      BY <1>6, <2>1
    <3>2. ip # k + 2 /\ ip # k + 5
      BY <1>4, <2>1 DEF Acts
    <3> QED
      BY <3>1, <3>2
  <2>5. /\ ip < k => act \in {"reset", "heal"}
        /\ ip = k => act = "kill" /\ (V # {} => Targets = V)
        /\ ip > k => act \in {"campaign", "revive"}
        /\ ip = k + 3 => act = "revive"
    BY <1>4, <2>1, <2>4 DEF Targets
  <2>6. act # "chaos" /\ (ip < k \/ ip = k \/ ip > k)
    BY <2>4, <2>5
  <2>7. NoChaos /\ ip \in 1..k + 5
        /\ \A n \in Nodes : Spared(k, V, n) => Live(n)
    BY <1>6, <2>1
  <2> HIDE DEF act, t, NodeState, NoChaos, Live
  <2>8. NoChaos'
    BY <1>1, <2>1, <2>3, <2>6, <2>7 DEF NoChaos
  <2>9. ASSUME NEW n \in Nodes, n # m, Spared(k, V, n)'
        PROVE  Live(n)'
    <3>1. node'[n] = node[n] /\ (DoneAt(k + 3, n)' => DoneAt(k + 3, n))
      BY <1>1, <2>1, <2>9 DEF DoneAt
    <3>2. Spared(k, V, n)
      BY <2>1, <2>9, <3>1 DEF Spared
    <3> QED
      BY <2>7, <3>1, <3>2 DEF Live
  <2>10. ASSUME ip' < k, error' = "none"
         PROVE  Live(m)'
    <3>1. act \in {"reset", "heal"} /\ node'[m] = t /\ error = "none" /\ ip < k
      BY <2>1, <2>5, <2>10
    <3>2. Live(m)
      BY <2>7, <3>1 DEF Spared
    <3> QED
      BY <2>3, <3>1, <3>2 DEF Live
  <2>11. ASSUME ip' >= k, V # {}, m \notin V
         PROVE  Live(m)'
    <3>1. ip >= k /\ ip # k /\ ip \in Nat
      BY <1>1, <2>1, <2>2, <2>5, <2>11
    <3>2. act \in {"campaign", "revive"}
      BY <2>5, <3>1
    <3>3. Live(m)
      BY <2>7, <2>11, <3>1 DEF Spared
    <3> QED
      BY <2>1, <2>3, <3>2, <3>3 DEF Live
  <2>12. ASSUME DoneAt(k + 3, m)'
         PROVE  Live(m)'
    <3>1. CASE ip = k + 3
      <4>1. node'[m] = t /\ act = "revive"
        BY <1>1, <2>1, <2>5, <2>12, <3>1 DEF DoneAt
      <4> QED
        BY <2>3, <4>1 DEF Live
    <3>2. CASE ip # k + 3
      <4>1. ip > k + 3 /\ DoneAt(k + 3, m)
        BY <1>1, <2>1, <2>12, <3>2 DEF DoneAt
      <4>2. act \in {"campaign", "revive"}
        BY <1>1, <2>5, <4>1
      <4>3. Live(m)
        BY <2>7, <4>1 DEF Spared
      <4> QED
        BY <2>1, <2>3, <4>2, <4>3 DEF Live
    <3> QED
      BY <3>1, <3>2
  <2>13. Spared(k, V, m)' => Live(m)'
    BY <2>1, <2>2, <2>10, <2>11, <2>12 DEF Spared
  <2> QED
    BY <2>8, <2>9, <2>13
<1>11. ASSUME NEW m \in Nodes, Snapshot(m)
       PROVE  /\ NoChaos'
              /\ \A n \in Nodes : Spared(k, V, n)' => Live(n)'
  <2>1. /\ script' = script /\ outcome = "running" /\ node' = node /\ strike' = strike /\ ip' = ip
        /\ waiting' = waiting /\ error' = error
        /\ script[ip].do \in Looks
    BY <1>11 DEF Snapshot, At, clusterVars
  <2>2. ip # k + 3
    BY <1>4, <2>1 DEF Looks
  <2>3. \A n \in Nodes : Spared(k, V, n)' => Spared(k, V, n)
    BY <1>1, <2>1, <2>2 DEF Spared, DoneAt
  <2>4. NoChaos' /\ \A n \in Nodes : Live(n)' <=> Live(n)
    BY <1>6, <2>1 DEF NoChaos, Live
  <2> QED
    BY <1>6, <2>1, <2>3, <2>4
<1>12. CASE outcome \in {"none", "running"} /\ NodeStep /\ UNCHANGED runVars
  <2>1. /\ script' = script /\ outcome = "running" /\ ip' = ip /\ waiting' = waiting /\ error' = error
        /\ calls' = calls
    BY <1>12 DEF runVars
  <2>2. strike' = strike /\ \A n \in Nodes : node'[n].alive = node[n].alive /\ ~node'[n].chaos
    BY <1>6, <1>12, <2>1, NodeSteps DEF NoChaos
  <2>3. \A n \in Nodes : Spared(k, V, n)' => Spared(k, V, n)
    BY <2>1 DEF Spared, DoneAt
  <2>4. NoChaos' /\ \A n \in Nodes : Live(n)' <=> Live(n)
    BY <1>6, <2>1, <2>2 DEF NoChaos, Live
  <2> QED
    BY <1>6, <2>1, <2>3, <2>4
<1> QED
  BY <1>5, <1>7, <1>8, <1>9, <1>10, <1>11, <1>12, PassingSteps DEF ScenarioNext, ScriptStep

-----------------------------------------------------------------------------
(* The theorems                                                            *)

ScenarioInv == ControlOK /\ Healing /\ Reviving

LEMMA ScenarioInvInit == ScenarioInit => ScenarioInv
<1> SUFFICES ASSUME ScenarioInit
             PROVE  ScenarioInv
  OBVIOUS
<1>1. ControlOK
  BY ControlInit
<1>2. outcome = "none"
  BY DEF ScenarioInit
<1>3. NoChaos /\ \A n \in Nodes : Live(n)
  BY DEF ScenarioInit, ClusterInit, NoChaos, Live
<1> QED
  BY <1>1, <1>2, <1>3 DEF ScenarioInv, Healing, Reviving

LEMMA ScenarioInvStep == ScenarioInv /\ [ScenarioNext]_scenarioVars => ScenarioInv'
<1> SUFFICES ASSUME ScenarioInv, [ScenarioNext]_scenarioVars
             PROVE  ScenarioInv'
  OBVIOUS
<1>1. CASE ScenarioNext
  BY <1>1, ControlStep, HealingStep, RevivingStep DEF ScenarioInv
<1>2. CASE UNCHANGED scenarioVars
  <2>1. UNCHANGED <<node, strike, script, ip, calls, waiting, error, snaps, before, stopped,
                    outcome, alarm, settled>>
    BY <1>2 DEF scenarioVars, clusterVars, runVars
  <2>2. ControlOK'
    BY <2>1 DEF ScenarioInv, ControlOK, ScenarioTypeOK, RunOK, CallsMade, Targets
  <2>3. Healing'
    BY <2>1 DEF ScenarioInv, Healing, DoneAt
  <2>4. Reviving'
    BY <2>1 DEF ScenarioInv, Reviving, Spared, DoneAt, NoChaos, Live
  <2> QED
    BY <2>2, <2>3, <2>4 DEF ScenarioInv
<1> QED
  BY <1>1, <1>2

LEMMA ScenarioInvHolds == ScenarioSpec => []ScenarioInv
BY ScenarioInvInit, ScenarioInvStep, PTL DEF ScenarioSpec

\* A scenario that ends with HealAll, and finishes: whatever calls failed and
\* whoever came and went meanwhile, no rate, no cut link and no chaos is left.
THEOREM HealingLasts == ScenarioSpec => []HealedAtEnd
<1>1. ASSUME ScenarioInv, outcome = "finished", Has("each", "calm"), NEW n \in Nodes
      PROVE  ~node[n].chaos /\ Undisturbed(node[n])
  <2>1. Len(script) \in Nat /\ ip \in Nat /\ DOMAIN script = 1..Len(script)
    BY <1>1, LenProperties DEF ScenarioInv, ControlOK, ScenarioTypeOK
  <2>2. HasIn(script, "each", "calm")
    BY <1>1, <2>1 DEF Has, HasIn
  <2>3. PICK h \in Nat : HealsAt(script, h)
    BY <1>1, <2>2, ScriptFacts DEF ScenarioInv
  <2>4. ip > Len(script) /\ h + 1 <= Len(script)
    BY <1>1, <2>3 DEF ScenarioInv, ControlOK, RunOK, HealsAt
  <2>5. DoneAt(h, n) /\ DoneAt(h + 1, n)
    BY <2>1, <2>4 DEF DoneAt
  <2> QED
    BY <1>1, <2>3, <2>5 DEF ScenarioInv, Healing
<1>2. ScenarioInv => HealedAtEnd
  BY <1>1 DEF HealedAtEnd, Undisturbed
<1> QED
  BY <1>2, ScenarioInvHolds, PTL

\* quorum-loss: the nodes that it kills are alive when it finishes, though a revival
\* may fail, and though it kills every node if its list of victims is empty.
THEOREM VictimsReturn == ScenarioSpec => []VictimsAreBack
<1>1. ASSUME ScenarioInv, outcome = "finished", Has("each", "kill"), NEW n \in Nodes
      PROVE  node[n].alive
  <2>1. Len(script) \in Nat /\ ip \in Nat /\ DOMAIN script = 1..Len(script)
    BY <1>1, LenProperties DEF ScenarioInv, ControlOK, ScenarioTypeOK
  <2>2. HasIn(script, "each", "kill")
    BY <1>1, <2>1 DEF Has, HasIn
  <2>3. PICK k \in Nat : KillsAt(script, k)
    BY <1>1, <2>2, ScriptFacts DEF ScenarioInv
  <2>4. ip > Len(script) /\ Len(script) = k + 5
    BY <1>1, <2>3 DEF ScenarioInv, ControlOK, RunOK, KillsAt
  <2>5. DoneAt(k + 3, n)
    BY <2>1, <2>4 DEF DoneAt
  <2>6. script[k].ids \in SUBSET Nodes
    BY <2>3 DEF KillsAt, Called
  <2>7. Spared(k, script[k].ids, n)
    BY <2>5 DEF Spared
  <2> HIDE DEF KillsAt, Spared
  <2>8. Live(n)
    BY <1>1, <2>3, <2>6, <2>7 DEF ScenarioInv, Reviving
  <2> QED
    BY <2>8 DEF Live
<1>2. ScenarioInv => VictimsAreBack
  BY <1>1 DEF VictimsAreBack
<1> QED
  BY <1>2, ScenarioInvHolds, PTL
=============================================================================
