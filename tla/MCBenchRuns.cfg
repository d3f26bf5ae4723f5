SPECIFICATION FairSpec
CONSTANTS
  Programs <- BenchPrograms
  Rows = 4
  NUM_EXP = 2
  num_cores = 4
  NUM_MSG = 2
  NUM_CHANNELS = 6
  NUM_RUNS = 2
  OPT_RUNS = 1
  machine <- MCmachine
  core_lists <- MClists
  numa_machines <- MCnuma
  cluster <- MCcluster
  opt_machines <- MCopt
  Capacity = 2
  MaxFailures = 1
  MayFail <- MCMayFail
  MaxTries = 12
  UINT8_VALUES = 3
INVARIANTS
  TypeOK
  Matched
  OneUser
  Drained
  
  PlacementsSound
PROPERTIES
  Termination
\* Programs end, or wait for a thread that was never started; Termination says
\* that nothing else stops them.
CHECK_DEADLOCK FALSE
