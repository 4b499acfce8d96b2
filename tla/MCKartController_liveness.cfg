SPECIFICATION FairSpec
CONSTANTS
  Unit = 4
  Pads <- FewPads
  Configs <- TwoConfigs
  TickSteps = {1}
  HbTimeout = 1
  ArmCenterMax = 2
  CapFloor = 1
  AgeCap = 4
PROPERTIES
  SilenceBrakes
  CentredStickBrakes
