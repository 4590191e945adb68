\* Passes of both kinds across failures, publisher DDL and a crash.
SPECIFICATION FairSpec
CONSTANTS
  Tables = {1}
  Columns = {1, 2}
  Nonces = {n1}
  NoNonce = NoNonce
  Faults <- PassFaults
  MaxDDL = 2
  MaxCrashes = 1
PROPERTIES
  DropsAreAsked
  SuccessMeansHealed
  GuardHolds
  AutoHeals
  SyncIsAnswered
