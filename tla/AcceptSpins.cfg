SPECIFICATION FairSpec
CONSTANTS
  a = a
  b = b
  c3 = c3
  Listener = Listener
  Clients <- Two
  Script <- Single
  Fds <- OneFd
  ReadMax = 1
  SendMax = 1
  MaxEvents = 1
PROPERTY AcceptReturns
CHECK_DEADLOCK FALSE
