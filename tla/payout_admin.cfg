CONSTANTS
  p1 = p1
  p2 = p2
  i1 = i1
  i2 = i2
  m1 = m1
  k1 = k1
  k2 = k2
  k3 = k3
  Withdrawal = {i1, i2, m1}
  KindOf <- KindOfW
  KeyOf <- KeyOfW
  AmountOf <- AmountOfW
  Moves = {1}
  MaxEarned = 2
  VolumeLimit = 2
  RetryLimit = 1
  MaxReturns = 2
  AdminStatus = {"PENDING", "PROCESSING", "COMPLETED", "REJECTED"}
SPECIFICATION Spec
CHECK_DEADLOCK FALSE
INVARIANTS NoOverdraft OneActiveIban IbanPaidOrReturned
PROPERTY IbanFinal
