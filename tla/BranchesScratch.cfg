\* A scratch migration whose clone fails.
SPECIFICATION Spec
CONSTANTS
  Callers = {c1}
  Commands = {"scratch"}
  NoCommand = NoCommand
  MaxTroubles = 1
PROPERTY ScratchStartsPristine
