---------------------------- MODULE MCBranches -----------------------------
(***************************************************************************)
(* Instances of Branches for TLC.                                           *)
(***************************************************************************)
EXTENDS Branches

AllCommands == Makers \cup Removers \cup {"reset"}
=============================================================================
