\* The board may be off, or idle with nothing left to raise within the bounds.
CHECK_DEADLOCK FALSE
SPECIFICATION Spec
CONSTANTS
  RingN = 2
  BatchN = 2
  Slots = 4
  BootMod = 8
  MaxEvents = 3
  MaxCrashes = 1
  MaxFails = 0
PROPERTY
  DrainedIsReadable
