CONSTANTS PageSize = 4  MaxPages = 9  LowMem = 4  KernelSpan = 3
          StackBase = 2  StackSize = 2  MaxCount = 3
          BootInfos <- MCBootInfos
SPECIFICATION Spec
INVARIANT CounterExact
INVARIANT HeldSafe
PROPERTY FailsOnlyWhenFull
PROPERTY ImplementsPageAllocator
