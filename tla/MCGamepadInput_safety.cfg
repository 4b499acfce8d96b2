SPECIFICATION Spec
CONSTANTS
  Unit = 2
  MinAmp = 1
  Reports <- TwoReports
INVARIANTS
  TypeOK
  GoneIsForgotten
  VerdictOutlivesBoots
PROPERTY
  CollectionParks
