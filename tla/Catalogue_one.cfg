SPECIFICATION Spec
CONSTANTS
  Proc = {p1}
  Superblock = {s1, s2, s3}
  SuperblockSize = 2
  Name = {"a", "b", "d", "e"}
  Command <- OneByOne
  MaxCommands = 4

SYMMETRY AnySuperblock
INVARIANTS TypeOK UniquePaths IntactUnlessReplaced FilesListedAtCommit
PROPERTIES StoreSpec
CHECK_DEADLOCK FALSE
