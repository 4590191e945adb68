\* The schedule's clock and its progress, on a stream that may never catch up.
SPECIFICATION FairSpec
CONSTANTS
  Nonces = {n1}
  NoNonce = NoNonce
  Configs <- OnAndOff
  NoConfig = NoConfig
  Lag = 0
  MaxWait = 2
  MaxAge = 2
  Faults <- PollFaults
  MaxSnaps = 1
  MaxRows = 0
  MaxCrashes = 1
PROPERTIES
  GivesUpInItsOwnLife
  ScheduleIsKept
  RequestsAreSeen
