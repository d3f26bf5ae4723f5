\* The nodes stop after MaxOps operations; Termination says that they do not
\* stop before.
CONSTANTS
  NumNodes <- MCNumNodes
  Trees <- MCTrees
  Capacity = 1
  MaxOps = 2
SPECIFICATION FairSpec
INVARIANTS
  TypeOK
  NoMixing
  BroadcastAgreement
PROPERTIES
  ImplementsBarrier
  Termination
CHECK_DEADLOCK FALSE
