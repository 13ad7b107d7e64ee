CONSTANTS
  p1 = p1
  p2 = p2
  i1 = i1
  i2 = i2
  m1 = m1
  k1 = k1
  k2 = k2
  k3 = k3
  Withdrawal = {p1}
  KindOf <- KindOfW
  KeyOf <- KeyOfW
  AmountOf <- AmountOfW
  Moves = {1}
  MaxEarned = 1
  VolumeLimit = 1
  RetryLimit = 2
  MaxReturns = 2
  AdminStatus = {}
SPECIFICATION FairSpec
CHECK_DEADLOCK FALSE
PROPERTIES OrphanRecovered SubmittedResolved
