CONSTANTS
  Fds = {3, 4}
  Objects = {c}
  NoFd = NoFd
  NoObject = NoObject
  NoFile = NoFile
  Client = c
  Other = Other
  MaxConnects = 3
  MaxSends = 1
  MaxCloses = 2
  MaxQueue = 2
SPECIFICATION Spec
INVARIANTS
  StatusIsTrue
  AttemptsGiveDescriptorsBack
  NoInputIsLost
  MessagesKeepTheirConnection
