\* A deployment on this machine under a name of its own, brought up.
SPECIFICATION Spec
CONSTANTS
  Dirs = {here}
  DefaultDir = here
  Platforms = {"local"}
  Names = {tendb, other}
  DefaultName = tendb
  Envs = {staging}
  Top = top
  Runs = {r1}
  None = None
  MaxInits = 1
  MaxCommands = 1
INVARIANT UpIsWired
CHECK_DEADLOCK FALSE
