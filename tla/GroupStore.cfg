SPECIFICATION Spec
CONSTANTS
  c1 = c1
  c2 = c2
  c3 = c3
  p1 = p1
  p2 = p2
  p3 = p3
  Clusters = {c1, c2, c3}
  NoCluster = NoCluster
  Procs = {p1, p2}
  ClusterOf <- MCClusterOf
  Ops = {"failover", "failback"}
  NoConfig = NoConfig
  NoRow = NoRow
  MaxCalls = 2
  MaxSecond = 0
INVARIANTS
  TypeOK
  OnePrimary
PROPERTIES
  ImplementsOwnership
  ImplementsLease
  VersionCounts
CHECK_DEADLOCK FALSE
