SPECIFICATION CarefulSpec
CONSTANTS FatType = "FAT16"  CLUST = 3  LastCluster = 7  MaxRead = 9  MaxPos = 12
CONSTANT Files <- MCFiles
INVARIANT ClusterFollowsPos
PROPERTY PromiseSpec
