\* No rumble is left to post within the bound.
CHECK_DEADLOCK FALSE
SPECIFICATION Spec
CONSTANTS
  BlockEvery = 2
  MaxPosts = 4
INVARIANTS
  PiecesNeverOlder
  LastIsPlayedWhole
PROPERTY
  EdgesAreFelt
