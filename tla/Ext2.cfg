SPECIFICATION Spec
CONSTANTS Groups = 2 inodes_per_group = 1 DataBlocks = 2 MaxLinks = 1 MaxCrashes = 1 MaxFailures = 1
INVARIANTS BlocksSound CountsSafe
 ValidIsExact 
