SPECIFICATION Spec
CONSTANTS
  NumDisks = 3
  Cells = 2
  Superblock = {s1}
  Sources <- Short
  InitialImages <- NewOrUsed
  MaxScrubs = 1
  MaxDamage = 1
INVARIANT StoredVerifies
CHECK_DEADLOCK FALSE
