SPECIFICATION FairSpec
CONSTANTS
  Beads = {b1, b2}
  Foreign = {b2}
  Clients = {k1, k2}
  Dispatchers = {d1}
  Slingers = {}
  None = None
  MaxContexts = 2
  NumPolecats = 1
  MaxPolecats = 1
  BatchSize = 1
  maxDispatchFailures = 2
  Capped = {b1}
  MaxFaults = 3
INVARIANT TypeOK
 
CHECK_DEADLOCK FALSE
