---------------------------- MODULE MCSnapshotd ----------------------------
(***************************************************************************)
(* Instances of Snapshotd for TLC.                                          *)
(***************************************************************************)
EXTENDS Snapshotd

\* A schedule that falls due after one tick and keeps one snapshot.
EveryTick == {[interval |-> 1, retain |-> 1]}

\* A schedule of two ticks, and no schedule.
OnAndOff == {[interval |-> 2, retain |-> 1], [interval |-> 0, retain |-> 0]}

PoolFaults == {"zfs", "rescan"}
PollFaults == {"param", "query"}
=============================================================================
