SPECIFICATION SeqFairSpec
CONSTANTS
  MaxNodes = 5 Values <- SomeValues
  MAX_PROC = 40
  byte_bits = 4 block_size = 8 inode_table_length = 6 inodes_per_group = 13
  desc_size = 2 reduced_count = 4 Sizes <- SomeSizes
  WordSize = 64 MaxDigits = 6 BufferSize = 7
  Letters <- SomeLetters Strings <- SomeStrings Inputs <- SomeInputs
  BitsPerByte = 4 FrameSize = 2 MapFrames = 24 LowFrames = 4 MemoryMaps <- SomeMaps
INVARIANTS FindsStored IdsUnique LayoutRight Formatted BootBitmap
PROPERTIES StepLoses ScanEnds
