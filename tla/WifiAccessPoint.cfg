CONSTANTS
  Configs <- AccessPoint
  MaxResets = 2
  MaxDrops = 3
SPECIFICATION FairSpec
PROPERTIES
  DeviceBoots
CHECK_DEADLOCK FALSE
