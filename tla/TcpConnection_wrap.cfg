CONSTANTS
  Sizes = {2}
  Ways = {"buf"}
  Closes = FALSE
  Resets = FALSE
  SndCap = 2
  IovMax = 2
  MaxSends = 2
  MaxIn = 2
  MaxQueue = 1
SPECIFICATION SafeSpec
INVARIANTS
  SendsTheData
