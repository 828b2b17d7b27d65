SPECIFICATION Spec
CONSTANTS
  Width = 2
  Height = 2
  thread_number = 2
  Timely = FALSE
INVARIANT ThreadsInStep
