SPECIFICATION Spec
CONSTANTS
  MaxPart = 2
  Sources <- MCSources
  Archived <- MCArchived
  Rooms <- MCRooms
  MaxTaken = 1
  MaxWritten = 1
INVARIANTS
  TypeOK
  AskedRoomSuffices
  PartsAreTheArchive
  CatRestoresUpTo99
CHECK_DEADLOCK FALSE
