\* The pool, the verdicts and the requests, across a crash.
SPECIFICATION Spec
CONSTANTS
  Nonces = {n1}
  NoNonce = NoNonce
  Configs <- EveryTick
  NoConfig = NoConfig
  Lag = 0
  MaxWait = 1
  MaxAge = 1
  Faults <- PoolFaults
  MaxSnaps = 2
  MaxRows = 1
  MaxCrashes = 1
INVARIANTS
  TypeOK
  NewestSurvives
  ConvergedTagIsTrue
  OnePerRequest
PROPERTIES
  DestroysOnlySurplus
