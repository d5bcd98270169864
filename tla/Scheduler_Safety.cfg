SPECIFICATION Spec
CONSTANTS
  Beads = {b1, b2}
  Foreign = {}
  Clients = {k1}
  Dispatchers = {d1}
  Slingers = {s1}
  None = None
  MaxContexts = 2
  NumPolecats = 2
  MaxPolecats = 1
  BatchSize = 1
  maxDispatchFailures = 3
  Capped = {}
  MaxFaults = 1
INVARIANT OneWorker
SYMMETRY Symmetry
CHECK_DEADLOCK FALSE
