CONSTANTS
  NumSlots = 4
  IdxMod = 5
  Polls = FALSE
SPECIFICATION FairSpec
INVARIANTS
  TypeOK
  Intact
PROPERTIES
  ImplementsFifo
  WriterProgress
