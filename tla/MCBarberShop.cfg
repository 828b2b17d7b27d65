SPECIFICATION SpecFour
CONSTANTS
  Barbers = {b1, b2, b3}
  Clients = {c1, c2, c3}
  Nobody = Nobody
  LOBBY_CAPACITY = 2
  SEATS_NUMBER = 2
  PATIENCE = 2
SYMMETRY Symmetry
CHECK_DEADLOCK FALSE
INVARIANTS TypeOK SeatSemCountsBarbers EveryClientCalled NothingLost
