SPECIFICATION DSpec
CONSTANTS
  PAGE_SIZE = 2
  PTRS = 8
  NR_PAGES = 32
  LOW_MEMORY = 16
  TOTAL_MEMORY = 64
  PBASE = 1008
  DEVICE_SIZE = 32
  text_boot = 4
  Etext = {5, 6, 7, 8, 9, 10, 11, 12, 13, 14, 15, 16, 17, 18, 19, 20, 21, 22, 23, 24, 25, 26, 27}
  Parange = {4, 6}
CHECK_DEADLOCK FALSE
INVARIANTS
  NeverMismapped
  MapsExactly
  TablesFormTree
  DumpComplete
  DumpTellsRights
PROPERTY
  DumpTerminates
