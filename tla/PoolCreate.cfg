SPECIFICATION Spec
CONSTANTS
  Proc = {p1, p2}
  Disk = {d1, d2}
  File = {f1, f2, f3}
  NoFile = NoFile
  Lengths = {528383, 1056768}
  Asked = {1048577}
  PoolSizes = {2}
  MaxCommands = 3
  MaxChanges = 1
SYMMETRY AnyNames
INVARIANTS TypeOK WholePool InfoAgrees AloneSucceeds VdiskAsAsked
PROPERTIES FinishedIsStable
CHECK_DEADLOCK FALSE
