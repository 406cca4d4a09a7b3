SPECIFICATION Spec
CONSTANTS
  c1 = c1
  c2 = c2
  NoCluster = NoCluster
  Clusters <- TwoClusters
  Goroutines <- ThreeGoroutines
  Deletable <- OneDeletable
  MaxSwitches = 0
  MaxFaults = 1
  MaxTicks = 1
INVARIANTS
  GroupTypeOK
PROPERTIES
  SelfPromotion
