CONSTANTS
  NCM_NTB_N = 2
  NULL = NULL
  NCM_NTB_MAX_SIZE = 56
  NCM_MAX_DATAGRAMS_PER_NTB = 3
  NCM_EP_SIZE = 8
  DatagramSizes = {3, 4, 10}
SPECIFICATION TxSpec
PROPERTY SentIsFreed
