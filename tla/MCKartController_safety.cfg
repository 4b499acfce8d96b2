SPECIFICATION TimedSpec
CONSTANTS
  Unit = 4
  Pads <- MCPads
  Configs <- MCConfigs
  TickSteps = {1, 2}
  HbTimeout = 2
  ArmCenterMax = 2
  CapFloor = 1
  AgeCap = 5
INVARIANTS
  TypeOK
  FreewheelWithinDecel
PROPERTIES
  ConsentEachTick
  NoDutyJump
  ArmingHandshake
  PoweredWhileDisarmedOnlyCoasting
  ImplementsDeadMan
  ArmedMeansDriven
  ArmedAfterOneLongPress
