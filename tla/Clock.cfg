SPECIFICATION Spec
CONSTANTS
  k1 = k1
  k2 = k2
  Key = {k1, k2}
  Debounce = 3
  Tick = 1
  Base = 3
  Cap = 20
  Saturation = 7
  FloatLimit = 1024
  MaxDrain = 2
  MaxFailures = 4
SYMMETRY Symmetry
INVARIANTS
  TypeOK
  LooksAgain
PROPERTIES
  OnlyQuietCollected
  KeepsChanges
