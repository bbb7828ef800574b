SPECIFICATION PluginSpec
CONSTANTS
  Forms <- MCForms
  Lines <- MCLines
  MaxTo = 2
  MaxOther = 2
  MaxBlocks = 2
  Duration <- MCDuration
  Number <- MCNumber
  HostOf <- MCHostOf
  Below <- MCBelow
CHECK_DEADLOCK FALSE
INVARIANT
  ZeroDisables
