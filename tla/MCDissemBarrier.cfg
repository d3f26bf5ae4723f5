\* The threads stop after MaxEpisodes barriers; Termination says that they do
\* not stop before.
CONSTANTS
  NumThreads = 5
  Capacity = 3
  MaxEpisodes = 3
SPECIFICATION FairSpec
INVARIANTS
  QueueBound
PROPERTIES
  ImplementsBarrier
  Termination
CHECK_DEADLOCK FALSE
