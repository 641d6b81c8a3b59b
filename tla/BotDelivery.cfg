SPECIFICATION Spec
CONSTANTS
  Kinds = {"start", "tap", "other"}
  Limit = 500
  MaxParts = 2
  MaxUpdates = 4
  MaxCrashes = 1
  Faults = {"refused", "late", "gone", "noTempDir", "noSpace", "statFails", "packError", "foreign", "dirStays"}
INVARIANTS
  TypeOK
  ProgressSettles
  PartsAnnounced
  NoTempLeft
