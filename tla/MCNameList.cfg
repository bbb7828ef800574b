SPECIFICATION FairNamesSpec
CONSTANTS
  Versions <- MCVersions
  NoNames = NoNames
  Torn = Torn
  Hash <- MCHash
  MaxStamp = 2
CHECK_DEADLOCK FALSE
INVARIANTS
  MarksTellNames
PROPERTIES
  UrlFresh
  PathFresh
  ReloadersExit
