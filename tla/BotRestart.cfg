SPECIFICATION FairSpec
CONSTANTS
  Kinds = {"start", "tap", "stranger", "broken", "noId", "noDict"}
  Limit = 3
  MaxParts = 1
  MaxUpdates = 4
  MaxCrashes = 1
  Faults = {"pollLost"}
INVARIANTS
  NothingLostOnRestart
  OncePerTap
PROPERTIES
  ServesTheQueue
  EveryUpdateConfirmed
