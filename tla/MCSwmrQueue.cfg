CONSTANTS
  NumSlots = 5
  NumReaders = 2
  PubBit = 2
  MinInit = 99
  MaxMsgs = 9
SPECIFICATION FairSpec
INVARIANTS
  SafeUnlessTorn
PROPERTIES
  WriterProgress
  Delivery
