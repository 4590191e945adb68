---------------------------- MODULE MCSchemaSync ----------------------------
(***************************************************************************)
(* Instances of SchemaSync for TLC.                                         *)
(***************************************************************************)
EXTENDS SchemaSync

\* Every call of a pass may fail but the ones its guards and answer rest on.
PassFaults == {"param", "list", "create", "drop", "add", "index", "subscription",
               "refresh"}
=============================================================================
