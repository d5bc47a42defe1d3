SPECIFICATION KeyboardSpec
CONSTANTS Table <- MCTable ReleaseBit = 8 ArrLen = 4 Printable = {1, 2, 6} Keys <- Typed MaxBytes = 5
INVARIANTS EchoInOrder
PROPERTIES EchoComplete Drained
CHECK_DEADLOCK FALSE
