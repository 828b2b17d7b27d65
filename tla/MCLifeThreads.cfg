SPECIFICATION Spec
CONSTANTS
  Width = 3
  Height = 2
  thread_number = 4
  Timely = TRUE
INVARIANTS TypeOK FairBlocks ThreadsInStep
PROPERTIES ShowsLife DrawnAlone
