\* Two calls, one of which may overwrite the other's nonce; no faults.
SPECIFICATION AllSpec
CONSTANTS
  Nonces = {n1, n2}
  NoNonce = NoNonce
  Configs <- OnDemand
  NoConfig = NoConfig
  Lag = 0
  MaxWait = 1
  MaxAge = 0
  Faults <- NoFaults
  MaxSnaps = 2
  MaxRows = 0
  MaxCrashes = 0
INVARIANTS
  NewestListedExists
  ListedIsTagged
  FreshIsNewer
PROPERTIES
  EveryWaitIsAnswered
