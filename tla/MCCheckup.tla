----------------------------- MODULE MCCheckup ------------------------------
(***************************************************************************)
(* Instances of Checkup for TLC.                                            *)
(***************************************************************************)
EXTENDS Checkup

Kind(active, lags, retained, wal) ==
  [active |-> active, lags |-> lags, retained |-> retained, wal |-> wal]

\* Slots that stream, lag, are left behind and at risk, or are lost.
SomeSlots ==
  {Kind(TRUE, FALSE, 0, "reserved"), Kind(TRUE, TRUE, 1, "reserved"),
   Kind(FALSE, TRUE, 2, "unreserved"), Kind(FALSE, FALSE, None, "lost")}
=============================================================================
