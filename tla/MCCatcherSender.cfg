SPECIFICATION FairSpec
CONSTANTS
  Senders = {s1, s2}
  Scripts <- AllModes
  NoSignal = NoSignal
  ResetHand = {TRUE, FALSE}
CHECK_DEADLOCK FALSE
INVARIANTS TypeOK NoStaleAck
PROPERTIES PairsShakeHands SenderEnds
