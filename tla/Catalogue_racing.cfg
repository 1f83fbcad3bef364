SPECIFICATION Spec
CONSTANTS
  Proc = {p1, p2}
  Superblock = {s1, s2}
  SuperblockSize = 2
  Name = {"a", "b", "d", "e"}
  Command <- PlainAdds
  MaxCommands = 2
INVARIANT ListedIsStored
CHECK_DEADLOCK FALSE
