SPECIFICATION FairSpec
CONSTANTS
  c1 = c1
  c2 = c2
  NoCluster = NoCluster
  Clusters <- TwoClusters
  Goroutines <- TwoGoroutines
  Deletable <- OneDeletable
  MaxSwitches = 1
  MaxFaults = 1
  MaxTicks = 0
PROPERTIES
  RolesConverge
