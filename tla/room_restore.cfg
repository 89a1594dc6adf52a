SPECIFICATION Spec
CONSTANTS
  Player = {p1, p2}
  HP = {full, hurt}
  Client = {k1}
  DeltaSize = 2
  MaxOps = 2
  MaxVersion = 4
  MaxFaults = 2
  Absent = Absent
  NoRoom = NoRoom
SYMMETRY RoomSymmetry
CONSTRAINT UpToABreach
CHECK_DEADLOCK FALSE
INVARIANTS  SeenIsDurable
PROPERTY RestoreYieldsRoom
