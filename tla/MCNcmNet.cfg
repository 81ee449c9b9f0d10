CONSTANTS
  NCM_NTB_N = 2
  NULL = NULL
  NCM_NTB_MAX_SIZE = 48
  NCM_MAX_DATAGRAMS_PER_NTB = 2
  NCM_EP_SIZE = 8
  DatagramSizes = {3, 12}
  MaxBlocks = 3
  MaxDatagrams = 3
  NotifyDepth = 2
SPECIFICATION NetSpec
INVARIANTS
  NetOK
  OneOwner
  PromiseHolds
  Outgoing
PROPERTIES
  SendingIsFrozen
  FramesKept
  Drained
