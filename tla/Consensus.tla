----------------------------- MODULE Consensus -----------------------------
(***************************************************************************)
(* What the cluster promises, with no acceptor, message or round in sight: *)
(* one proposed value is chosen, once and for good, and a proposer that    *)
(* reports a value reports that one.                                       *)
(***************************************************************************)
CONSTANTS Proposers, ValueOf

VARIABLES
    chosen,     \* the values chosen so far: none or one
    learned     \* for each proposer, the values its campaign reported

ConsensusInit ==
    /\ chosen = {}
    /\ learned = [p \in Proposers |-> {}]

Choose ==
    /\ chosen = {}
    /\ \E p \in Proposers : chosen' = {ValueOf[p]}
    /\ UNCHANGED learned

Learn(p) ==
    /\ learned[p] = {}
    /\ chosen # {}
    /\ learned' = [learned EXCEPT ![p] = chosen]
    /\ UNCHANGED chosen

ConsensusNext == Choose \/ \E p \in Proposers : Learn(p)

ConsensusSpec == ConsensusInit /\ [][ConsensusNext]_<<chosen, learned>>
=============================================================================
