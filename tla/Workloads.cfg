SPECIFICATION Spec
CONSTANTS
  p1 = p1
  p2 = p2
  Procs = {p1, p2}
  Names = {o1, o2}
  Kinds = {"Deployment", "StatefulSet", "CronJob", "Ingress", "VirtualService", "Kustomization", "HelmRelease", "VolumeReplication"}
  Calls <- MCCalls
  NoCopy = NoCopy
  GitMode = "active"
  MaxChanges = 1
  MaxCalls = 2
INVARIANTS
  TypeOK
  AcknowledgedStays
  WaitVerdict
PROPERTIES
  CallsReturn
CHECK_DEADLOCK FALSE
