CONSTANTS
  Fds = {3, 4}
  Objects = {u, b}
  NoFd = NoFd
  NoObject = NoObject
  NoFile = NoFile
  Kinds = {"server", "client"}
  Socket = u
  Neighbour = b
  Foreign = Foreign
  Sizes = {0, 1, 2}
  MaxSize = 1
  Lengths = {2, 4}
  BufferSize = 3
  SndCap = 1
  MaxOpens = 2
  MaxSends = 2
  MaxIn = 2
  MaxQueue = 1
SPECIFICATION Spec
INVARIANTS
  EachOnceInOrder
  WaitingIsWritten
  InputIsReceived
  OthersHear
  NoDescriptorLeaks
