CONSTANTS
  NumSlots = 4
  IdxMod = 5
  Polls = TRUE
SPECIFICATION FairSpec
PROPERTY PollProgress
