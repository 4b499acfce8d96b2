SPECIFICATION FairSpec
CONSTANTS
  Params <- TwoParams
  Floats = {"duty_cap"}
  Lo = 0
  Hi = 1
  Default = 0
  Asked = {0, 2}
  Found <- MCFound
  Missing = Missing
  NotANumber = NotANumber
  Drives <- MCDrives
INVARIANTS
  TypeOK
  CoreSeesBounded
  AtRestDurable
  PinsObeyTick
  LateWriteIsOld
PROPERTIES
  BrakeNeverDrives
  ControlKeepsTicking
