SPECIFICATION FairSpec
CONSTANTS
  f1 = f1
  f2 = f2
  dirItem = dirItem
  fileItem = fileItem
  subItem = subItem
  both = both
  split = split
  moved = moved
  alone = alone
  mistyped = mistyped
  garbled = garbled
  none = none
  s1 = s1
  s2 = s2
  Absent = none
  Label = {"A", "B"}
  Content = {alone, moved}
  Faults = {"crash"}
  Endings = {"ok", "connection"}
  CutEndings = {"ok", "ownSignal"}
  Item = {dirItem, fileItem}
  File = {f2}
  Remote = {s1, s2}
  LabelOf <- MCLabelOf
  FilesOf <- MCFilesOf
  Watch <- MCWatch
  WatchOf <- MCWatchOf
  Reports <- MCReports
  Rank <- MCRank
  Outcome <- MCOutcome
  RemoteOf <- MCRemoteOf
  TargetsOf <- MCTargetsOf
  Excluded <- MCExcluded
PROPERTIES
  Converges
  StopEnds
  ConfigApplied
