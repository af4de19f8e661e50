-------------------------- MODULE MCRpmCalculation --------------------------
(* Series of up to MCMixed probes with times that repeat and differ and a    *)
(* loss, in every order; and up to MaxProbes if all have the same answer, so *)
(* that the default percentage comes to keep something (at 20 answers).      *)
EXTENDS RpmCalculation
MCSelfTimes == {1, 2, 5, 151}
MCForeignTimes == {3, 9}
MCPercentiles == {1, 50, 90}
MCTrims == {0, 5, 50, 100}

MCMixed == 4
AllAlike == \A i \in DOMAIN selfRtts.data :
              selfRtts.data[i].second = 2 /\ foreignRtts.data[i].second = 3
MCNext == Next /\ (Len(selfRtts'.data) <= MCMixed \/ AllAlike')
MCSpec == Init /\ [][MCNext]_vars
=============================================================================
