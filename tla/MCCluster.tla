----------------------------- MODULE MCCluster -----------------------------
(* Instances of ClusterConnection for TLC.                                 *)
EXTENDS ClusterConnection, TLC

AllKeys == [r \in Requests |-> "key"]
OneSlot == [r \in Requests |-> CHOOSE k \in Slots : TRUE]

=============================================================================
