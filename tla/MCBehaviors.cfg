CONSTANTS
  Light <- MCLight
  LightEnabled <- MCLight
  DistAngles <- MCDistAngles
  SensorsFail = TRUE
SPECIFICATION FairSpec
INVARIANTS
  TypeOK
  SwitchIsPrompt
  HeadsWhereClear
PROPERTIES
  
  Follows
