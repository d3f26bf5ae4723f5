CONSTANTS
  Size = 3
  WordMod = 4
  AppWords = {0, 1}
  IdxMod = 5
SPECIFICATION FairSpec
INVARIANTS
  TypeOK
  SlotState
  Intact
PROPERTIES
  ImplementsFifo
  Delivery
