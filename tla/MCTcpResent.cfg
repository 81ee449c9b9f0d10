CONSTANTS
  SeqRange = 64
  Start = 62
  mss = 2
  TCP_SND_BUF = 4
  Cwnds = {2, 3}
  PeerWnd = 3
  StreamLen = 3
  MaxWrite = 2
  DupAcks = 1
  TCP_MAXRTX = 2
  NetAcks = 1
  None = None
SPECIFICATION Spec
INVARIANTS
  BufferedAtLbb
