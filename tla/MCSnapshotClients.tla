------------------------- MODULE MCSnapshotClients -------------------------
(***************************************************************************)
(* Instances of SnapshotClients for TLC.                                    *)
(***************************************************************************)
EXTENDS SnapshotClients

\* Snapshots on demand only, the newest kept.
OnDemand == {[interval |-> 0, retain |-> 1]}
NoFaults == {}
=============================================================================
