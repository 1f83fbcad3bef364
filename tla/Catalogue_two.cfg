SPECIFICATION FairSpec
CONSTANTS
  Proc = {p1, p2}
  Superblock = {s1, s2}
  SuperblockSize = 2
  Name = {"a", "b", "d", "e"}
  Command <- SideBySide
  MaxCommands = 3
INVARIANTS Backed Tree Serialized
PROPERTIES WritesOnlySpare Completes
CHECK_DEADLOCK FALSE
