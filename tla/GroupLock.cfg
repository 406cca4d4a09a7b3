SPECIFICATION Spec
CONSTANTS
  a = a
  b = b
  Callers = {a, b}
  LeaseTime = 3
  Skew <- MCSkew
  MaxSkew = 1
  MaxTime = 6
  MaxTokens = 3
  NoLock = NoLock
INVARIANTS
  TypeOK
  ExclusiveLease
  IInv
PROPERTIES
  ReleaseRemovesOwn
  ImplementsLease
CHECK_DEADLOCK FALSE
