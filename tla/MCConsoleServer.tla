-------------------------- MODULE MCConsoleServer --------------------------
(***************************************************************************)
(* Instances of ConsoleServer for TLC.                                      *)
(***************************************************************************)
EXTENDS ConsoleServer, TLC

Alike == Permutations(Actors)
=============================================================================
