SPECIFICATION PluginSpec
CONSTANTS
  Forms <- MCForms
  Lines <- MCLines
  MaxTo = 2
  MaxOther = 2
  MaxBlocks = 2
  Duration <- MCDuration
  Number <- MCNumber
  HostOf <- MCHostOf
  Below <- MCBelow
CHECK_DEADLOCK FALSE
INVARIANTS
  AsWritten
  HostsInherit
  BlockUsable
  HandlesOpen
  PartialStart
  PartialStop
PROPERTIES
  ShutdownEnds
  AllReleased
