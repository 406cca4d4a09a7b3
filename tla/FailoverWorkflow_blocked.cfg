SPECIFICATION WorkflowSpec
CONSTANTS
  c1 = c1
  c2 = c2
  p1 = p1
  p2 = p2
  Clusters = {c1, c2}
  NoCluster = NoCluster
  Procs = {p1}
  ClusterOf <- MCClusterOf
  Ops = {"failover", "transfer"}
  NoConfig = NoConfig
  NoRow = NoRow
  NoJob = NoJob
  MaxCalls = 3
  MaxSecond = 0
  Modes = {"UPTIME"}
  Forces = {FALSE}
  MaxRuns = 1
PROPERTIES
  OwnLockDoesNotBlock
CHECK_DEADLOCK FALSE
