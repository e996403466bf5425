------------------------------ MODULE MCAlerts ------------------------------
(***************************************************************************)
(* Small instances of Alerts for TLC: one cluster, two consumer groups, and *)
(* lags that are at most 0 or 1.                                            *)
(***************************************************************************)
EXTENDS Alerts

LagRule == [cluster |-> "c", type |-> "consumer_lag", threshold |-> 0,
            enabled |-> TRUE]
OfflineRule == [LagRule EXCEPT !.type = "offline_partitions"]
MCBodies == {LagRule, [LagRule EXCEPT !.enabled = FALSE], OfflineRule}

\* The name of group 1 begins the name of group 2.
Prefixed == {<<g, h>> \in Groups \X Groups : g <= h}
=============================================================================
