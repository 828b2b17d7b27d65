SPECIFICATION Spec
CONSTANTS
  Barbers = {b1, b2}
  Clients = {c1}
  Nobody = Nobody
  LOBBY_CAPACITY = 1
  SEATS_NUMBER = 2
  PATIENCE = 2
CHECK_DEADLOCK FALSE
INVARIANT NoBarberStranded
