\* Callers that free blocks; the stack shares a frame with slots 8 to 15.
SPECIFICATION FullSpec
CONSTANTS
  NBlocks = 30
  LowBlocks = 1
  KernelBase = 20
  KernelBlocks = 2
  KernelVm <- MCKernelVm
  FreeAtBoot <- MCFreeAtBoot
  LastFree = 16
  PageSize = 8
  Word = 128
  HeapBase = 10
  HeapBlocks = 8
  TableBase = 22
  TableBlocks = 2
  PoolSlots = 15
  SlotsPerPage = 8
  StackBase = 24
  StackBlocks = 3
  StackDepth = 1
  BufferBase = 28
  BufferSizes = {4, 17}
  Lens = {1, 6, 17}
INVARIANT HeapSound
PROPERTY ImplementsHeap
