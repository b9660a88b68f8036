SPECIFICATION Spec
CONSTANTS
  a = a
  b = b
  c3 = c3
  Listener = Listener
  Clients <- One
  Script <- Pipelined
  Fds <- TwoFds
  ReadMax = 2
  SendMax = 1
  MaxEvents = 1
PROPERTY ReceivedAreExecuted
CHECK_DEADLOCK FALSE
