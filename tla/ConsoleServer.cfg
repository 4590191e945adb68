\* Two requests or alert ticks on the live branch and another.
SPECIFICATION Spec
CONSTANTS
  Branches = {main, dev}
  Live = main
  Actors = {a1, a2}
  Stream = Stream
  NoConn = NoConn
  Unset = Unset
  MaxTunnels = 2
  MaxClones = 2
SYMMETRY Alike
INVARIANTS
  CachedIsDialable
  LiveIsReadOnly
  ReachesItsClone
  ClosedIsQuiet
PROPERTY WorkingConnectionStays
CHECK_DEADLOCK FALSE
