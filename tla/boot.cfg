SPECIFICATION Spec
CONSTANTS
  Cpus = {0, 1, 2}
  StrLen = 2
INVARIANTS KernelEntry BssKept
PROPERTY Boots
