SPECIFICATION Spec
CONSTANTS
  Beads = {b1, b2, b3}
  Foreign = {}
  Clients = {k1}
  Dispatchers = {d1, d2}
  Slingers = {}
  None = None
  MaxContexts = 3
  NumPolecats = 3
  MaxPolecats = 2
  BatchSize = 2
  maxDispatchFailures = 1
  Capped = {}
  MaxFaults = 1
INVARIANT CapacityHeld
SYMMETRY Symmetry
CHECK_DEADLOCK FALSE
