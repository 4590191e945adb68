---------------------------- MODULE MCAlertLoop ----------------------------
(***************************************************************************)
(* Instances of AlertLoop for TLC.                                          *)
(***************************************************************************)
EXTENDS AlertLoop
=============================================================================
