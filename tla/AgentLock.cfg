CONSTANTS
  p1 = p1
  p2 = p2
  s1 = s1
  s2 = s2
  Prime = {p1, p2}
  Checker = {k1}
  Cleaner = {c1}
  Session = {s1, s2}
  SessionOf <- MCSessionOf
  Id <- MCId
  IdOf <- MCIdOf
  Names <- MCNames
  NoLock = NoLock
SPECIFICATION FairSpec
CHECK_DEADLOCK FALSE
INVARIANT LiveHolderRecorded
PROPERTY AcquireNeverEvicts AcquireReturns
