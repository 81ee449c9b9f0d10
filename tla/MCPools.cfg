CONSTANTS
  WordBits = 4
  HeapLines = 12
  RequestBytes = {1, 65, 97}
  MEM_ALIGNMENT = 2
  MEM_SIZE = 26
  SIZEOF_STRUCT_MEM = 2
  MIN_SIZE = 2
  Width = 32
  Sizes = {0, 1, 3, 6, 9, 31}
  NCM_NTB_N = 4
  TooLarge = TooLarge
  NULL = NULL
SPECIFICATION PoolsSpec
INVARIANTS
  HeapOK
  InsideHeap
  ChainOK
  FreeFound
  CallersServed
  QueueOK
PROPERTIES
  FreesOnlyItsBlock
  OthersUntouched
  ImplementsFifo
