CONSTANTS
  Sizes = {0, 2}
  Ways = {"buf", "list", "none"}
  Closes = TRUE
  Resets = TRUE
  SndCap = 3
  IovMax = 2
  MaxSends = 3
  MaxIn = 2
  MaxQueue = 2
SPECIFICATION Spec
CHECK_DEADLOCK FALSE
INVARIANTS
  TypeOK
  NoLostEdge
  CloseIsComplete
  AllReadBeforeClose
  NothingLost
PROPERTIES
  NoMessageAfterClose
  InputIsRead
