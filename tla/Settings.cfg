SPECIFICATION Spec
CONSTANTS
  Names <- MCNames
  AgentDocs <- MCAgentDocs
  BotDocs <- MCBotDocs
  Disks <- MCDisks
  Own <- MCOwn
  Dirs <- MCDirs
  Files <- MCFiles
  Str <- MCStr
  BadLabel <- MCBadLabel
  DefaultExcludes <- MCDefaultExcludes
  PublicMax = 2
  LocalMax = 5
INVARIANTS
  TypeOK
  DistinctDestinations
  SentIsNoticed
  PublicPartFits
\* A load ends.
CHECK_DEADLOCK FALSE
