\* Three threads are no power of two and need two rounds, four are one.  Nine
\* barriers take the flags of the MCS barrier through both parities and both
\* senses, and the tag of barrier(), 2, 4, .., 14, 2, 4, once round the MAXOPS sets
\* of flags, past INT_MAX, and into the set of the last tag before it.
\* The threads stop after MaxCalls barriers, or hang as Termination says.
CONSTANTS
  NumThreads = 4
  MAXOPS = 10
  INT_MAX = 14
  MaxCalls = 9
SPECIFICATION FairSpec
INVARIANT
  FlagsTurn
PROPERTIES
  LeaveTogether
  Termination
CHECK_DEADLOCK FALSE
