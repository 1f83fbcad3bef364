SPECIFICATION Spec
CONSTANTS
  NumDisks = 3
  Cells = 2
  Superblock = {s1, s2}
  Sources <- OneEach
  InitialImages <- Chance
  MaxScrubs = 1
  MaxDamage = 1
INVARIANTS TypeOK ScrubSparesGoodData LossIsReported
PROPERTIES ScrubNeverWorsens
CHECK_DEADLOCK FALSE
SYMMETRY Symmetry
