CONSTANTS
  NUM = 3
  DEPTH = 3
  WDEPTH = 3
  Data <- MCData
SPECIFICATION SabSpec
INVARIANT MatrixInv NoSecondPass FifoInv GatingTransparent CreateFindsRoom AskedIsAwaited
PROPERTY ImplementsLru ImplementsQueue
