SPECIFICATION Spec
CONSTANTS
  Threads = {t1, t2}
  boot_cpu = boot_cpu
  irq = irq
  ThreadLine = 2
  IrqLine = 3
  FifoDepth = 2
  MaxIrqs = 2
INVARIANT WholeUnlessHit
PROPERTY MaskedPrintkFinishes
