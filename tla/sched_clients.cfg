SPECIFICATION Spec
CONSTANTS
  NR_PAGES = 4
  LOW_MEMORY = 1
  NR_TASK = 5
  DEF_COUNTER = 2
  Forks = 4
  TickWired = TRUE
  Voluntary = {2, 3}
  CallersMask = TRUE
INVARIANTS
  NoFault
  UninitOnlyWhenEmpty
  QueueHoldsRunnable
  PreemptBalance
  NotAtomic
  MaskConfined
PROPERTY
  ImplementsTimeShare
