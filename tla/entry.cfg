SPECIFICATION Spec
CONSTANTS
  Threads = {init, t1, t2}
  init_task = init
  MaxFrames = 3
INVARIANTS OwnRegisters StartsOwnFunction StackBounded ExitMasked
