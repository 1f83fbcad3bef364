SPECIFICATION Spec
CONSTANTS
  Proc = {p1}
  Superblock = {s1, s2, s3}
  SuperblockSize = 2
  Name = {"a", "b", "d", "e"}
  Command <- Replacements
  MaxCommands = 3
INVARIANT NoLeak
CHECK_DEADLOCK FALSE
