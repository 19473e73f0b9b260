-------------------------------- MODULE Feed --------------------------------
(***************************************************************************)
(* What a console promises about the logs of one node: it shows events     *)
(* that the node did log, in the order in which they were logged, none     *)
(* twice.  It may skip some.  The node restarts, and numbers its events    *)
(* from one again each time.                                               *)
(***************************************************************************)
EXTENDS Naturals, Sequences

VARIABLES
    published,  \* for each life of the node, how many events it has logged
    told        \* the last event shown: its life and number, <<0, 0>> if none

feedVars == <<published, told>>

\* The events there are, and their order.
Events == UNION {{l} \X (1..published[l]) : l \in 1..Len(published)}

Follows(e, d) == e[1] > d[1] \/ (e[1] = d[1] /\ e[2] > d[2])

FeedInit ==
    /\ published = <<0>>
    /\ told = <<0, 0>>

LogEvent ==
    /\ published' = [published EXCEPT ![Len(published)] = @ + 1]
    /\ UNCHANGED told

NewLife ==
    /\ published' = Append(published, 0)
    /\ UNCHANGED told

Tell ==
    /\ \E e \in Events : Follows(e, told) /\ told' = e
    /\ UNCHANGED published

FeedNext == LogEvent \/ NewLife \/ Tell

FeedSpec == FeedInit /\ [][FeedNext]_feedVars
=============================================================================
