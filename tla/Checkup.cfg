\* One table; slots of every kind, two at most; two changes while the checkup reads.
SPECIFICATION Spec
CONSTANTS
  Tables = {t}
  Prints = {p, q}
  Slots <- SomeSlots
  MaxSlots = 2
  Capacity = 5
  None = None
  Down = Down
  MaxChanges = 2
  MaxTroubles = 1
INVARIANTS
  StandingTroubleIsFound
  FindingsWereTrue
  HopNamesTheWorst
