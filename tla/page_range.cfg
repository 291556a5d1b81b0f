SPECIFICATION Spec
CONSTANTS
  NR_PAGES = 4
  LOW_MEMORY = 2
  Contexts = {boot, t1}
  init_task = boot
INVARIANT
  PagesInsideMemory
