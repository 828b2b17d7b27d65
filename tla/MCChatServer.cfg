SPECIFICATION SpecKeysDiffer
CONSTANTS
  Clients = {c1, c2, c3}
  Keys = {k1, k2, k3}
  Free = Free
  MAX_CLIENT_NUMBER = 2
  ServerInterrupted = TRUE
  Interrupted = {c1}
  MaxOrders = 1
CHECK_DEADLOCK FALSE
SYMMETRY Symmetry
INVARIANTS TypeOK ActiveCountsTable IdOwned NoEcho
