CONSTANTS
  NCM_NTB_N = 2
  NULL = NULL
  MaxBlocks = 3
  MaxDatagrams = 4
SPECIFICATION RxSpec
PROPERTY ReceptionGoesOn
