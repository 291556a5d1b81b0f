SPECIFICATION FairSpec
CONSTANTS
  NR_PAGES = 4
  LOW_MEMORY = 1
  NR_TASK = 4
  DEF_COUNTER = 2
  Forks = 5
  TickWired = TRUE
  Voluntary = {}
  CallersMask = FALSE
INVARIANTS
  NoFault
  NrRunningExact
  ForkSharesSlice
  LeakOnlyWhenFull
PROPERTIES
  InitNeverResumes
  ScheduleEnds
  NoStarvation
  ImplementsTimeShare
