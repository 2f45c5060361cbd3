SPECIFICATION Spec
CONSTANTS
  a = a
  b = b
  Clients = {a}
  Sender = a
  Span = 16
  MaxChunks = 1
  MaxFaults = 1
PROPERTIES
  ToldTheWholeReply
CHECK_DEADLOCK FALSE
