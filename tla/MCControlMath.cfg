\* A pure call returns and that is all: the states after it are final.
CHECK_DEADLOCK FALSE
SPECIFICATION Spec
CONSTANTS
  Unit = 6
  Deadzones = {0, 1, 2}
  Rates = {0, 1, 2, 3, 7}
  Strengths <- MCStrengths
  Gains = {0, 2, 6}
INVARIANTS
  RampIsGreedyPath
  MixSteersToStick
  ShapingKeepsRange
