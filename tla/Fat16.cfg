SPECIFICATION FatFairSpec
CONSTANTS EntriesPerCluster = 2 cluster_size = 2 Lengths = {0, 2, 3, 4}
Names <- MCNames
Volumes <- MCVolumes
Paths <- MCPaths
INVARIANTS  ReadsContent OverrunBounded
PROPERTY LookupEnds
