CONSTANTS
  Configs <- AllConfigs
  MaxResets = 2
  MaxDrops = 3
SPECIFICATION FairSpec
INVARIANTS
  TypeOK
  GroupExists
  ServersOnlyOnline
PROPERTIES
  StationBoots
  Reconnects
CHECK_DEADLOCK FALSE
