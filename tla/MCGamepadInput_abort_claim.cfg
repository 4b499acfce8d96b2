SPECIFICATION Spec
CONSTANTS
  Unit = 3
  MinAmp = 1
  Reports <- TwoReports
INVARIANT
  AbortedCalibrationIsIgnored
