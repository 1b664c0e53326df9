CONSTANTS Names = {"A", "B"}  Values = {u, v}  Paths <- MCPaths
          TotalClusters = 4  SlotsPerCluster = 3  MaxLen = 2
SYMMETRY MCSymmetry
SPECIFICATION Spec
INVARIANT FaultsOnlyLeak
INVARIANT NothingLost
INVARIANT ReadsBack
 
