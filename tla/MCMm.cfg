SPECIFICATION MmSpec
CONSTANTS
  NBlocks = 8
  LowBlocks = 1
  KernelBase = 6
  KernelBlocks = 2
  KernelVm <- MCKernelVm
  FreeAtBoot <- MCFreeAtBoot
INVARIANT FramesSound
PROPERTY HeldStable
