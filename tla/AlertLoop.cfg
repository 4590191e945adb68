\* Restarts, and two ticks in flight or a call that fails.
SPECIFICATION FairSpec
CONSTANTS
  Unreachable = Unreachable
  EngineCodes = {usage}
  OtherCodes = {drift}
  Severities = {1, 2}
  Threshold = 2
  Cap = 3
  Ticks = {t1, t2}
  NoState = NoState
  Torn = Torn
  MaxChanges = 2
  MaxStops = 2
  MaxTroubles = 1
INVARIANTS
  FeedMatchesSeen
  SkippedSaveIsOnDisk
  ToldOnce
  SlackMatchesFeed
PROPERTY FeedCatchesUp
