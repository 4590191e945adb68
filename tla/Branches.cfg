\* Every command by two callers, with a call or a clone that fails.
SPECIFICATION FairSpec
CONSTANTS
  Callers = {c1, c2}
  Commands <- AllCommands
  NoCommand = NoCommand
  MaxTroubles = 1
PROPERTIES
  KeepsPromise
  EnsureRepairs
  NothingIsLeft
  EveryCommandEnds
