--------------------------- MODULE MembersProofs ---------------------------
(***************************************************************************)
(* What ParsePeers is worth to the cluster, for any addresses, ids and     *)
(* lengths of the lists: ids differ and quorums meet wherever the lists    *)
(* are true.                                                               *)
(***************************************************************************)
EXTENDS Members, FiniteSetTheorems, TLAPS

NodesAreAccepted == node \in [Addrs -> Accepted \cup {Down}]

\* A process runs only with a command line that ParsePeers accepted.
LEMMA OnlyAccepted == MembersSpec => []NodesAreAccepted
<1>1. MembersInit => NodesAreAccepted
  BY DEF MembersInit, NodesAreAccepted
<1>2. NodesAreAccepted /\ [MembersNext]_membersVars => NodesAreAccepted'
  BY DEF NodesAreAccepted, MembersNext, Start, Exit, membersVars
<1> QED
  BY <1>1, <1>2, PTL DEF MembersSpec

\* The calls of a node whose list is true go to nodes with different ids.
LEMMA CallsDiffer ==
  ASSUME NodesAreAccepted, NEW a \in Addrs, KnowsItsPeers(a)
  PROVE  /\ Calls(a) \in Seq(Addrs)
         /\ Len(Calls(a)) \in Nat
         /\ DOMAIN Calls(a) = 1..Len(Calls(a))
         /\ \A i, j \in DOMAIN Calls(a) :
                node[Calls(a)[i]].ID = node[Calls(a)[j]].ID => i = j
<1> DEFINE peers == node[a].Peers
           addrs == [i \in DOMAIN peers |-> peers[i].Addr]
<1>1. node[a] \in Configs /\ ParsesPeers(peers, node[a].ID)
  BY DEF NodesAreAccepted, KnowsItsPeers, Accepted
<1>2. PICK n \in 0..MaxPeers : peers \in [1..n -> Specs \cup {Malformed}]
  BY <1>1 DEF Configs
<1>3. n \in Nat /\ DOMAIN peers = 1..n
  BY <1>2, MembersAssumption
<1>4. \A i \in 1..n : peers[i] \in Specs
  BY <1>1, <1>2, <1>3 DEF ParsesPeers, ParsesPeer
<1>5. addrs \in Seq(Addrs) /\ Len(addrs) = n
  BY <1>3, <1>4 DEF Specs
<1>6. Calls(a) = <<a>> \o addrs
  BY DEF Calls
<1>7. /\ Calls(a) \in Seq(Addrs)
      /\ Len(Calls(a)) = n + 1
      /\ DOMAIN Calls(a) = 1..(n + 1)
  BY <1>3, <1>5, <1>6
<1>8. Calls(a)[1] = a /\ \A i \in 1..n : Calls(a)[i + 1] = peers[i].Addr
  BY <1>3, <1>5, <1>6
<1>9. \A i \in 1..n : node[Calls(a)[i + 1]].ID = peers[i].ID
  BY <1>3, <1>8 DEF KnowsItsPeers
<1>10. \A i \in 1..n : node[Calls(a)[i + 1]].ID # node[Calls(a)[1]].ID
  <2>1. \A i \in 1..n : peers[i].ID # node[a].ID
    BY <1>1, <1>3 DEF ParsesPeers
  <2>2. node[Calls(a)[1]].ID = node[a].ID
    BY <1>8
  <2> QED
    BY <1>9, <2>1, <2>2
<1>11. \A i, j \in 1..n : i < j => node[Calls(a)[j + 1]].ID # node[Calls(a)[i + 1]].ID
  <2>1. ASSUME NEW i \in 1..n, NEW j \in 1..n, i < j
        PROVE  node[Calls(a)[j + 1]].ID # node[Calls(a)[i + 1]].ID
    <3>1. i \in 1..(j - 1)
      BY <1>3, <2>1
    <3>2. peers[j].ID # peers[i].ID
      BY <1>1, <1>3, <3>1 DEF ParsesPeers
    <3>3. node[Calls(a)[i + 1]].ID = peers[i].ID /\ node[Calls(a)[j + 1]].ID = peers[j].ID
      BY <1>9
    <3> QED
      BY <3>2, <3>3
  <2> QED
    BY <2>1
<1>12. ASSUME NEW i \in 1..(n + 1), NEW j \in 1..(n + 1), i < j
       PROVE  node[Calls(a)[i]].ID # node[Calls(a)[j]].ID
  <2>1. j - 1 \in 1..n /\ (j - 1) + 1 = j
    BY <1>3, <1>12
  <2>2. CASE i = 1
    BY <1>10, <2>1, <2>2
  <2>3. CASE i # 1
    <3>1. i - 1 \in 1..n /\ (i - 1) + 1 = i /\ i - 1 < j - 1
      BY <1>3, <1>12, <2>3
    <3> QED
      BY <1>11, <2>1, <3>1
  <2> QED
    BY <2>2, <2>3
<1>13. ASSUME NEW i \in 1..(n + 1), NEW j \in 1..(n + 1),
              node[Calls(a)[i]].ID = node[Calls(a)[j]].ID
       PROVE  i = j
  <2>1. ~(i < j) /\ ~(j < i)
    BY <1>12, <1>13
  <2> QED
    BY <1>3, <2>1
<1> QED
  BY <1>3, <1>7, <1>13

\* As many acceptors are reached as calls are answered.
LEMMA AnswersAreAcceptors ==
  ASSUME NodesAreAccepted, NEW a \in Addrs, KnowsItsPeers(a),
         NEW I \in SUBSET DOMAIN Calls(a)
  PROVE  /\ IsFiniteSet(Reached(a, I))
         /\ Cardinality(Reached(a, I)) = Cardinality(I)
         /\ Cardinality(I) \in Nat
<1> DEFINE f == [i \in I |-> Calls(a)[i]]
<1>1. IsFiniteSet(I) /\ Cardinality(I) \in Nat
  <2>1. IsFiniteSet(1..Len(Calls(a)))
    BY CallsDiffer, FS_Interval
  <2>2. IsFiniteSet(I)
    BY <2>1, CallsDiffer, FS_Subset
  <2> QED
    BY <2>2, FS_CardinalityType
<1>2. \A i, j \in I : f[i] = f[j] => i = j
  BY CallsDiffer
<1>3. f \in Bijection(I, Reached(a, I))
  BY <1>2 DEF Reached, Bijection, Injection, Surjection, IsInjective
<1>4. ExistsBijection(I, Reached(a, I))
  BY <1>3 DEF ExistsBijection
<1> QED
  BY <1>1, <1>4, FS_Bijection

\* n calls are counted as n.
LEMMA CountTo == ASSUME NEW n \in Nat PROVE Cardinality(1..n) = n
<1>1. Cardinality(1..n) = IF 1 > n THEN 0 ELSE n - 1 + 1
  BY FS_Interval
<1> QED
  BY <1>1

\* Ids differ in the cluster of a node whose list is true: ParsePeers keeps its own id
\* and every id it has met out of the rest of the list.
THEOREM IdsOfMembersDiffer == MembersSpec => []MemberIdsDiffer
<1>1. NodesAreAccepted => MemberIdsDiffer
  <2> SUFFICES ASSUME NodesAreAccepted, NEW a \in Addrs, KnowsItsPeers(a),
                      NEW b \in Members(a), NEW c \in Members(a), node[b].ID = node[c].ID
               PROVE  b = c
    BY DEF MemberIdsDiffer
  <2>1. PICK i \in DOMAIN Calls(a) : b = Calls(a)[i]
    BY DEF Members, Reached
  <2>2. PICK j \in DOMAIN Calls(a) : c = Calls(a)[j]
    BY DEF Members, Reached
  <2> QED
    BY <2>1, <2>2, CallsDiffer
<1> QED
  BY <1>1, OnlyAccepted, PTL

\* The quorums that two nodes with true lists of one cluster count have an acceptor in
\* common, though each counts the answers to its own calls.
THEOREM QuorumsOfMembersMeet == MembersSpec => []QuorumsMeet
<1>1. NodesAreAccepted => QuorumsMeet
  <2> SUFFICES ASSUME NodesAreAccepted, NEW a \in Addrs, NEW b \in Addrs,
                      KnowsItsPeers(a), KnowsItsPeers(b), Members(a) = Members(b),
                      NEW I \in SUBSET DOMAIN Calls(a), NEW J \in SUBSET DOMAIN Calls(b),
                      Cardinality(I) >= Quorum(a), Cardinality(J) >= Quorum(b)
               PROVE  Reached(a, I) \cap Reached(b, J) # {}
    BY DEF QuorumsMeet
  <2> DEFINE m == Len(Calls(a))
             n == Len(Calls(b))
  <2>1. m \in Nat /\ n \in Nat
    BY CallsDiffer
  <2>2. Cardinality(Members(a)) = m /\ IsFiniteSet(Members(a))
    <3>1. Cardinality(DOMAIN Calls(a)) = m
      BY <2>1, CallsDiffer, CountTo
    <3> QED
      BY <3>1, AnswersAreAcceptors DEF Members
  <2>3. Cardinality(Members(b)) = n
    <3>1. Cardinality(DOMAIN Calls(b)) = n
      BY <2>1, CallsDiffer, CountTo
    <3> QED
      BY <3>1, AnswersAreAcceptors DEF Members
  <2>4. m = n
    BY <2>2, <2>3
  <2>5. /\ Cardinality(Reached(a, I)) = Cardinality(I)
        /\ Cardinality(Reached(b, J)) = Cardinality(J)
        /\ Cardinality(I) \in Nat /\ Cardinality(J) \in Nat
    BY AnswersAreAcceptors
  <2>6. Reached(a, I) \subseteq Members(a) /\ Reached(b, J) \subseteq Members(a)
    BY DEF Members, Reached
  <2>7. Cardinality(I) >= m \div 2 + 1 /\ Cardinality(J) >= m \div 2 + 1
    BY <2>4 DEF Quorum
  <2>8. Cardinality(I) + Cardinality(J) > m
    BY <2>1, <2>5, <2>7
  <2>9. Cardinality(Reached(a, I)) + Cardinality(Reached(b, J)) > Cardinality(Members(a))
    BY <2>2, <2>5, <2>8
  <2> QED
    BY <2>2, <2>6, <2>9, FS_MajoritiesIntersect
<1> QED
  BY <1>1, OnlyAccepted, PTL
=============================================================================
