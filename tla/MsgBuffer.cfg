CONSTANTS
  Base = 2
  kCheapPrepend = 1
  kInitialSize = 3
  ExtraBuf = 2
  MaxLen = 3
  MaxSize = 8
SPECIFICATION Spec
INVARIANTS
  TypeOK
  Bounded
PROPERTIES
  IsByteStream
