\* Multi-page mm_alloc of the stack.
SPECIFICATION Spec
CONSTANTS
  NBlocks = 30
  LowBlocks = 1
  KernelBase = 20
  KernelBlocks = 2
  KernelVm <- MCKernelVm
  FreeAtBoot <- MCFreeAtBoot
  LastFree = 16
  PageSize = 8
  Word = 128
  HeapBase = 10
  HeapBlocks = 8
  TableBase = 22
  TableBlocks = 2
  PoolSlots = 15
  SlotsPerPage = 16
  StackBase = 24
  StackBlocks = 3
  StackDepth = 1
  BufferBase = 28
  BufferSizes = {4, 17}
  Lens = {1, 3, 6, 10, 16, 17, 200}
INVARIANT StackApartFromTable
