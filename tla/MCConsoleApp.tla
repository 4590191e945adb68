---------------------------- MODULE MCConsoleApp ----------------------------
(***************************************************************************)
(* Instances of ConsoleApp for TLC.                                         *)
(***************************************************************************)
EXTENDS ConsoleApp

Alike == Permutations(Calls)
=============================================================================
