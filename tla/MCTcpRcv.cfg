CONSTANTS
  SeqRange = 64
  Start = 60
  TCP_WND = 4
  mss = 2
  WndMod = 16
  StreamLen = 6
  MaxSegment = 3
  None = None
SPECIFICATION Spec
INVARIANTS
  OoseqOK
  WindowOK
  StreamKept
PROPERTIES
  EdgeNeverShrinks
  Delivered
