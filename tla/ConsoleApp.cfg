\* Two calls in flight, polls that race them, and a screen that is left.
SPECIFICATION Spec
CONSTANTS
  Branches = {main, dev}
  Root = main
  Live = main
  Statements = {q}
  Calls = {c1, c2}
  None = None
  Limit = 2
  MaxClicks = 5
  MaxChanges = 1
  MaxSnaps = 2
  MaxTroubles = 1
SYMMETRY Alike
INVARIANTS
  RefreshShowsChange
  FreshMeansNew
PROPERTIES
  DialogWaitsForItsAnswer
  HistoryKeepsStatements
