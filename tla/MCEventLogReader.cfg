\* The board may be off, or idle with nothing left to raise within the bounds.
CHECK_DEADLOCK FALSE
SPECIFICATION ReaderSpec
CONSTANTS
  RingN = 2
  BatchN = 1
  Slots = 3
  BootMod = 8
  MaxEvents = 3
  MaxCrashes = 1
  MaxFails = 1
  ReplyMax = 2
  Bite = 1
INVARIANTS
  SentIsWindow
  SentInOrder
PROPERTY
  DisarmedDrains
