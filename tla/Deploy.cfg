\* Every platform, two directories, an environment, and two commands at a time.
SPECIFICATION Spec
CONSTANTS
  Dirs = {here, there}
  DefaultDir = here
  Platforms = {"aws", "gcp", "azure", "local"}
  Names = {tendb, other}
  DefaultName = tendb
  Envs = {staging}
  Top = top
  Runs = {r1, r2}
  None = None
  MaxInits = 2
  MaxCommands = 2
SYMMETRY Alike
INVARIANTS
  StaysWired
  EngineHasSource
CHECK_DEADLOCK FALSE
