SPECIFICATION FairSpec
CONSTANTS
  NR_PAGES = 2
  LOW_MEMORY = 1
  NR_TASK = 3
  DEF_COUNTER = 2
  Forks = 2
  TickWired = FALSE
  Voluntary = {}
  CallersMask = FALSE
PROPERTY
  SliceExpires
