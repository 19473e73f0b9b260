---------------------------- MODULE MCScenarios ----------------------------
(* Three nodes, so that a quorum is two and one node may fail.             *)
EXTENDS Scenarios

Of(name, count, ticked) == [name |-> name, count |-> count, ticked |-> ticked]

\* The eight scenarios.  A quorum-loss that is to kill no node lists none, and so
\* kills all of them; one that is to kill fewer than none panics.
All == {Of("fresh-election", 0, {}), Of("dueling-proposers", 2, {"heal"}),
        Of("partition", 1, {}),
        Of("quorum-loss", 0, {}), Of("quorum-loss", 2, {}), Of("quorum-loss", -1, {}),
        Of("packet-loss", 0, {}), Of("slow-network", 0, {}),
        Of("rolling-restart", 0, {}), Of("chaos", 1, {"drop"})}

Chaos == {Of("chaos", 1, {})}
=============================================================================
