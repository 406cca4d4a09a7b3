SPECIFICATION WorkflowSpec
CONSTANTS
  c1 = c1
  c2 = c2
  p1 = p1
  p2 = p2
  Clusters = {c1, c2}
  NoCluster = NoCluster
  Procs = {p1, p2}
  ClusterOf <- MCClusterOf
  Ops = {"failover", "transfer"}
  NoConfig = NoConfig
  NoRow = NoRow
  NoJob = NoJob
  MaxCalls = 6
  MaxSecond = 0
  Modes = {"CONSISTENCY", "UPTIME"}
  Forces = {TRUE, FALSE}
  MaxRuns = 2
INVARIANTS
  WorkflowTypeOK
  SuccessMeansOwner
PROPERTIES
  WorkflowLease
CHECK_DEADLOCK FALSE
