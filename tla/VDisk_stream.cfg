SPECIFICATION StreamSpec
CONSTANTS
  Blocks = 2
  Parts = 2
  MaxWrites = 2
  MaxSessions = 3
  Half = 8
INVARIANTS TypeOK SessionReads FileReads OwnPlaces PositionOnDisk SeeksLand
PROPERTY PlainSpec
CHECK_DEADLOCK FALSE
