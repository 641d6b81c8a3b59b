SPECIFICATION Spec
CONSTANTS
  Kinds = {"start", "tap"}
  Limit = 500
  MaxParts = 1
  MaxUpdates = 5
  MaxCrashes = 0
  Faults = {}
INVARIANT OncePerButton
