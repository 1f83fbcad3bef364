SPECIFICATION Spec
CONSTANTS
  NumDisks = 3
  Cells = 2
  Superblock = {s1}
  Sources <- Short
  InitialImages <- Chance
  MaxScrubs = 1
  MaxDamage = 1
INVARIANT DamageIsLoss
CHECK_DEADLOCK FALSE
