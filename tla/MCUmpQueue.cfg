CONSTANTS
  NumMsg = 4
  IdxMod = 6
SPECIFICATION FairSpec
INVARIANTS
  TypeOK
  NoOverrun
  UnreadIntact
  CopyExposure
  FlowControl
PROPERTIES
  ImplementsFifo
  Delivery
