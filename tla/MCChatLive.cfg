SPECIFICATION FairSpecKeysDiffer
CONSTANTS
  Clients = {c1, c2, c3}
  Keys = {k1, k2, k3}
  Free = Free
  MAX_CLIENT_NUMBER = 2
  ServerInterrupted = FALSE
  Interrupted = {}
  MaxOrders = 0
CHECK_DEADLOCK FALSE
PROPERTY InitAnswered
