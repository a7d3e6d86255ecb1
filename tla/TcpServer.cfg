CONSTANTS
  Fds = {3, 4, 5}
  Objects = {a, c1, c2, c3}
  NoFd = NoFd
  NoObject = NoObject
  NoFile = NoFile
  Peers = {1, 2, 3}
  Conns = {c1, c2, c3}
  Acceptor = a
  Listener = Listener
  Other = Other
  None = None
  MaxCalls = 3
  MaxSignals = 2
  MaxQueue = 1
SPECIFICATION Spec
INVARIANTS
  TypeOK
  EverybodyHears
  NoDescriptorLeaks
  EventsReachTheirSocket
  NobodyWaitsUnseen
