SPECIFICATION FairSpec
CONSTANTS
  c1 = c1
  c2 = c2
  NoCluster = NoCluster
  Clusters <- TwoClusters
  Goroutines <- ThreeGoroutines
  Deletable <- OneDeletable
  MaxSwitches = 0
  MaxFaults = 0
  MaxTicks = 0
PROPERTIES
  GroupDeletionCompletes
  ZombiesRemoved
