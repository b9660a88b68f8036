SPECIFICATION FairSpec
CONSTANTS
  a = a
  b = b
  c3 = c3
  Listener = Listener
  Clients <- One
  Script <- Garbled
  Fds <- TwoFds
  ReadMax = 2
  SendMax = 1
  MaxEvents = 1
INVARIANTS NoLostWakeup RepliesInOrder
PROPERTIES KeepsHealthyConnections EveryRequestAnswered DepartedAreReleased
CHECK_DEADLOCK FALSE
