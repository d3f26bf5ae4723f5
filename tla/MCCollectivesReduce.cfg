CONSTANTS
  NumNodes <- MCNumNodes
  Trees <- MCTrees
  Capacity = 1
  MaxOps = 1
SPECIFICATION Spec
INVARIANT ReduceAggregates
CHECK_DEADLOCK FALSE
