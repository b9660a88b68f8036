SPECIFICATION Spec
CONSTANTS
  a = a
  b = b
  c3 = c3
  Listener = Listener
  Clients <- Three
  Script <- Mixed
  Fds <- TwoFds
  ReadMax = 1
  SendMax = 1
  MaxEvents = 2
INVARIANTS TypeOK OneDescriptorEach  NoLostWakeup RepliesInOrder
PROPERTY KeepsHealthyConnections
CHECK_DEADLOCK FALSE
