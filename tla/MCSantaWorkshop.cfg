SPECIFICATION FairSpec
CONSTANTS
  Santa = Santa
  NoOne = NoOne
  Elves = {e1, e2}
  Reindeer = {r1, r2}
  ELVES_NEEDED = 2
  REINDEERS_NEEDED = 2
  PRESENTS_TO_BE_DELIVERED = 2
  CameBackBound = 3
INVARIANTS TypeOK SectionHoldsMutex NoMissedWakeup QueueSound
PROPERTIES ElvesFirst FullQueueServed
