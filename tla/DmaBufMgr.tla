----------------------------- MODULE DmaBufMgr -----------------------------
(***************************************************************************)
(* The DMA buffer heap of src/cyfx/cyfx_tx.c: CyU3PDmaBufferInit, -DeInit, *)
(* -Alloc, -Free and CyU3PBufEnableChecks.  The heap is an array of cache  *)
(* lines with one status bit each.  The bit of the last line of a block is *)
(* left clear: it ends the block when CyU3PDmaBufferFree counts its bits.  *)
(*                                                                         *)
(* Every function runs under glBufferManager.lock; a caller that does not  *)
(* get the lock changes nothing.                                           *)
(***************************************************************************)
EXTENDS Integers

CONSTANTS
  WordBits,       \* bits of a word of the status array (32)
  HeapLines,      \* CY_U3P_BUFFER_HEAP_SIZE / FX3_CACHE_LINE_SZ (7168)
  RequestBytes    \* sizes, in bytes, that callers ask for

ASSUME HeapAssumption ==
  /\ WordBits \in Nat \ {0}
  /\ HeapLines \in Nat \ {0}
  /\ RequestBytes \subseteq Nat /\ \A n \in RequestBytes : n < 65536

VARIABLES
  started,      \* startAddr and regionSize are set
  checks,       \* glBufMgrEnableChecks
  usedStatus,   \* the lines whose status bit is set
  searchPos,    \* the word where the next search begins
  blocks        \* the blocks that callers hold: first line and number of lines

heapVars == <<started, checks, usedStatus, searchPos, blocks>>

FX3_CACHE_LINE_SZ == 32

statusSize == (HeapLines + WordBits - 1) \div WordBits
Bits == 0 .. statusSize * WordBits - 1

\* ROUND_UP(bytes, 4) plus the 20 bytes of MemBlockInfo and the 4 bytes of the
\* end signature, when the checks are on.
BlockBytes(bytes) ==
  IF checks THEN 4 * ((bytes + 3) \div 4) + 24 ELSE bytes

\* A block has at least two lines.
LinesOf(bytes) ==
  IF BlockBytes(bytes) <= FX3_CACHE_LINE_SZ THEN 2
  ELSE (BlockBytes(bytes) + FX3_CACHE_LINE_SZ - 1) \div FX3_CACHE_LINE_SZ

\* Mutant: the run may end one bit after the array.
Fits_OffByOne(size, lo, hi) ==
  {z \in lo .. hi - size + 1 : \A l \in z .. z + size : l \notin usedStatus}

\* The places where the search finds size + 1 clear bits between lo and hi.
Fits(size, lo, hi) ==
  {z \in lo .. hi - size : \A l \in z .. z + size : l \notin usedStatus}

First(S) == {z \in S : \A y \in S : z <= y}

\* The search goes from the first bit of searchPos to the end, then from the top
\* of the array to searchPos; a run of clear bits is cut at both places.
Search(size) ==
  LET lo == searchPos * WordBits
      upper == Fits(size, lo, statusSize * WordBits - 1)
  IN First(IF upper # {} THEN upper ELSE Fits(size, 0, lo - 1))

\* CyU3PDmaBufMgrSetStatus alters numBits bits from startPos on.
BitRange(startPos, numBits) == startPos .. startPos + numBits - 1

-----------------------------------------------------------------------------
HeapInit ==
  /\ started = FALSE
  /\ checks = FALSE
  /\ usedStatus = {}
  /\ searchPos = 0
  /\ blocks = {}

CyU3PBufEnableChecks(enable) ==
  /\ ~started
  /\ checks' = enable
  /\ UNCHANGED <<started, usedStatus, searchPos, blocks>>

\* When the last word is not filled, the upper WordBits - tmp bits of it are set,
\* with tmp = WordBits - (HeapLines & (WordBits - 1)).
Unavailable ==
  LET rest == HeapLines % WordBits
  IN IF rest = 0 THEN {} ELSE BitRange(statusSize * WordBits - rest, rest)

CyU3PDmaBufferInit ==
  /\ ~started
  /\ started' = TRUE
  /\ usedStatus' = Unavailable
  /\ searchPos' = 0
  /\ UNCHANGED <<checks, blocks>>

\* The buffers of a heap that is taken down are nobody's any more.
CyU3PDmaBufferDeInit ==
  /\ started
  /\ started' = FALSE
  /\ usedStatus' = {}
  /\ blocks' = {}
  /\ UNCHANGED <<checks, searchPos>>

\* Mutant: the clear bit before the block is not skipped.
Place_NoSkip(z, size) == [start |-> z, size |-> size]

\* The first clear bit found may be the end of the block before: it is skipped.
Place(z, size) == [start |-> z + 1, size |-> size]

\* Mutant: the bit of the last line is set too.
StatusBits_All(b) == BitRange(b.start, b.size)

StatusBits(b) == BitRange(b.start, b.size - 1)

CyU3PDmaBufferAlloc(bytes) ==
  LET size == LinesOf(bytes) IN
    /\ started
    /\ \/ /\ Search(size) = {}
          /\ UNCHANGED heapVars
       \/ \E z \in Search(size) :
            LET b == Place(z, size) IN
              /\ searchPos' = (z + size) \div WordBits
              /\ usedStatus' = usedStatus \cup StatusBits(b)
              /\ blocks' = blocks \cup {b}
              /\ UNCHANGED <<started, checks>>

\* The bits that CyU3PDmaBufferFree counts: set, and consecutive from start on.
SetRun(start) == {l \in Bits : start <= l /\ \A k \in start .. l : k \in usedStatus}

CyU3PDmaBufferFree(b) ==
  /\ started
  /\ b \in blocks
  /\ b.start > 0 /\ b.start < HeapLines
  /\ usedStatus' = usedStatus \ SetRun(b.start)
  /\ searchPos' = 0
  /\ blocks' = blocks \ {b}
  /\ UNCHANGED <<started, checks>>

HeapNext ==
  \/ \E enable \in BOOLEAN : CyU3PBufEnableChecks(enable)
  \/ CyU3PDmaBufferInit
  \/ CyU3PDmaBufferDeInit
  \/ \E bytes \in RequestBytes : CyU3PDmaBufferAlloc(bytes)
  \/ \E b \in blocks : CyU3PDmaBufferFree(b)

HeapSpec == HeapInit /\ [][HeapNext]_heapVars
-----------------------------------------------------------------------------
Lines(b) == BitRange(b.start, b.size)

\* The fields keep their types: in particular no bit beyond the status array is
\* ever set and searchPos is always a word of it (cyfx_tx.c:907-944).
HeapTypeOK ==
  /\ started \in BOOLEAN
  /\ checks \in BOOLEAN
  /\ usedStatus \subseteq Bits
  /\ searchPos \in 0 .. statusSize - 1
  /\ blocks \subseteq [start : Nat, size : Nat]

\* Two callers never hold the same cache line, although the last line of every
\* block looks free in the status array (cyfx_tx.c:918-921).
Disjoint == \A b, c \in blocks : b # c => Lines(b) \cap Lines(c) = {}

\* The status array is exactly what the held blocks account for: no line of a
\* held block but its last can be found free, and nothing is leaked or freed
\* twice over any sequence of calls (cyfx_tx.c:949, 1057-1068).
Accounted ==
  started => usedStatus = Unavailable \cup UNION {BitRange(b.start, b.size - 1) : b \in blocks}

\* Alloc and free keep callers apart, and know exactly what is held.
HeapOK == HeapTypeOK /\ Disjoint /\ Accounted

\* CyU3PDmaBufferFree, which does not know the size of the block, clears the bits
\* of that block and of no other.
FreesOnlyItsBlock ==
  [][\A b \in blocks : started' /\ b \notin blocks' =>
       usedStatus' = usedStatus \ BitRange(b.start, b.size - 1)]_heapVars

\* cyfx_tx.c:731-732: "If there are any status bits beyond the valid memory
\* range, mark these as unavailable."  So every block lies inside the heap.
InsideHeap == \A b \in blocks : Lines(b) \subseteq 0 .. HeapLines - 1

\* cyfx_tx.c:900: "Search through the status array to find the first block that
\* fits the need."  So an allocation fails only when no block fits.
HeapFindsWhatFits ==
  started => \A bytes \in RequestBytes :
    Fits(LinesOf(bytes), 0, statusSize * WordBits - 1) # {} => Search(LinesOf(bytes)) # {}
=============================================================================
