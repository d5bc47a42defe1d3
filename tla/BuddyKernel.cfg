\* The kernel as built, on a machine with memory for 4 pages besides the boot
\* allocations, and a tree area of 5 nodes.  As in the code the heap is half a word.
SPECIFICATION FairSpec
CONSTANTS
  NBlocks = 30
  LowBlocks = 1
  KernelBase = 20
  KernelBlocks = 2
  KernelVm <- MCKernelVm
  FreeAtBoot <- MCFreeAtBoot
  LastFree = 8
  PageSize = 8
  Word = 64
  HeapBase = 10
  HeapBlocks = 4
  TableBase = 22
  TableBlocks = 2
  PoolSlots = 5
  SlotsPerPage = 16
  StackBase = 24
  StackBlocks = 3
  StackDepth = 1
  BufferBase = 28
  BufferSizes = {4, 17}
  Lens = {1, 3, 6, 10, 16, 35, 60}
INVARIANTS ClassGranted SearchComplete BlocksMapped
PROPERTY AllocReturns
