SPECIFICATION Spec
CONSTANTS
  Name <- MCName
  Depth = 2
  SearchLimit = 2
  MaxLinks = 4
  Trees <- MCTrees
  Edits <- MCEdits
  Rel <- MCRel
  Needles <- MCNeedles
  lister <- ListDir
  opens <- IsFolder
  searcher <- Search
  PageSize = 1
  MaxResults = 2
  Limit = 6
  MaxScreens = 3
  Taps = 6
INVARIANTS TypeOK NewestScreenLive NoEmptyPage EveryEntryReachable ShownCanBeFetched WalksAgree
CHECK_DEADLOCK FALSE
