CONSTANTS
  NumSlots = 5
  NumReaders = 1
  PubBit = 2
  MinInit = 6
  MaxMsgs = 14
SPECIFICATION FairSpec
PROPERTY WriterProgress
