SPECIFICATION FairSpec
CONSTANTS
  NumDisks = 3
  Cells = 2
  Superblock = {s1}
  Sources <- Short
  InitialImages <- AnyOld
  MaxScrubs = 2
  MaxDamage = 2
INVARIANTS LossIsReported RepairsAreCounted
PROPERTY ScrubEnds
CHECK_DEADLOCK FALSE
