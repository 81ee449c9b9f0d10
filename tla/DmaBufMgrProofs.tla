-------------------------- MODULE DmaBufMgrProofs --------------------------
(***************************************************************************)
(* The DMA buffer heap is safe for every heap size, word size and set of   *)
(* request sizes.                                                          *)
(***************************************************************************)
EXTENDS DmaBufMgr, TLAPS

NumBits == statusSize * WordBits

\* The arithmetic of words and bits.
LEMMA DivBound ==
  ASSUME NEW x \in Nat, NEW w \in Nat, w > 0, NEW n \in Nat, x < n * w
  PROVE  x \div w \in 0 .. n - 1
<1> DEFINE q == x \div w
<1>1. q \in Int /\ w * q <= x /\ q >= 0
  BY Z3
<1>2. n * w \in Int
  OBVIOUS
<1>3. ASSUME q >= n PROVE FALSE
  <2>1. w * q >= w * n
    BY <1>1, <1>3, Z3
  <2> QED BY <1>1, <1>2, <2>1, Z3
<1> QED BY <1>1, <1>3

\* The status array has at least one word and covers the whole heap
\* (cyfx_tx.c:723).
LEMMA SizeFacts == statusSize \in Nat /\ statusSize > 0 /\ NumBits \in Nat /\ NumBits > 0 /\ HeapLines <= NumBits
<1>1. WordBits \in Nat /\ WordBits > 0 /\ HeapLines \in Nat /\ HeapLines > 0
  BY HeapAssumption
<1> DEFINE y == HeapLines + WordBits - 1
           q == y \div WordBits
<1>2. y \in Nat /\ y >= WordBits
  BY <1>1
<1>3. q \in Int /\ WordBits * q <= y /\ y < WordBits * q + WordBits /\ q >= 0
  BY <1>1, <1>2, Z3
<1>4. q > 0
  <2>1. SUFFICES ASSUME q = 0 PROVE FALSE
    BY <1>3
  <2>2. WordBits * q = 0
    BY <2>1, <1>1
  <2>3. y < 0 + WordBits
    BY <2>2, <1>3
  <2> HIDE DEF q, y
  <2> QED BY <2>3, <1>2, <1>1
<1>5. WordBits * q \in Int /\ WordBits * q = q * WordBits
  BY <1>1, <1>3, Z3
<1>6. q * WordBits > 0 /\ HeapLines <= q * WordBits
  BY <1>5, <1>3, <1>1, <1>2
<1>7. statusSize = q /\ NumBits = q * WordBits
  BY DEF statusSize, NumBits
<1> HIDE DEF q, y
<1> QED BY <1>3, <1>4, <1>5, <1>6, <1>7

\* The first bit of searchPos is a bit of the array (cyfx_tx.c:901).
LEMMA PosBound == ASSUME searchPos \in 0 .. statusSize - 1
                  PROVE  searchPos * WordBits \in Nat /\ searchPos * WordBits <= NumBits
<1>1. WordBits \in Nat
  BY HeapAssumption
<1>2. statusSize \in Nat
  BY SizeFacts
<1>3. searchPos \in Nat /\ searchPos <= statusSize
  BY <1>2
<1> HIDE DEF statusSize
<1> QED BY <1>1, <1>2, <1>3, Z3 DEF NumBits

\* Every request takes at least two cache lines (cyfx_tx.c:898).
LEMMA LinesFact == ASSUME checks \in BOOLEAN, NEW bytes \in RequestBytes
                   PROVE  LinesOf(bytes) \in Nat /\ LinesOf(bytes) >= 2
<1>1. bytes \in Nat
  BY HeapAssumption
<1>2. BlockBytes(bytes) \in Nat
  BY <1>1 DEF BlockBytes
<1> QED BY <1>2 DEF LinesOf, FX3_CACHE_LINE_SZ

\* What a successful search returns: size + 1 clear bits inside the array.
LEMMA SearchFact ==
  ASSUME HeapTypeOK, NEW size \in Nat, NEW z \in Search(size)
  PROVE  /\ z \in Nat
         /\ z + size < NumBits
         /\ \A l \in z .. z + size : l \notin usedStatus
<1> DEFINE lo == searchPos * WordBits
           upper == Fits(size, lo, NumBits - 1)
           lower == Fits(size, 0, lo - 1)
<1>1. lo \in Nat /\ lo <= NumBits /\ NumBits \in Nat
  BY PosBound, SizeFacts DEF HeapTypeOK
<1>2. z \in upper \/ z \in lower
  BY DEF Search, First, NumBits
<1> HIDE DEF lo
<1>3. CASE z \in upper
  BY <1>1, <1>3 DEF Fits
<1>4. CASE z \in lower
  BY <1>1, <1>4 DEF Fits
<1> QED BY <1>2, <1>3, <1>4

-----------------------------------------------------------------------------
\* The inductive invariant.  Beyond what is promised: a block has two lines or
\* more, starts after line 0 and lies in the array; none of its lines belongs to
\* the unavailable end of the array; the bit of its last line is clear.
Shape(b) ==
  /\ b.start >= 1
  /\ b.size >= 2
  /\ b.start + b.size <= NumBits
  /\ \A l \in Lines(b) : l \notin Unavailable

Ended == \A b \in blocks : (b.start + b.size) - 1 \notin usedStatus

HeapInv ==
  /\ HeapTypeOK
  /\ ~started => blocks = {}
  /\ \A b \in blocks : Shape(b)
  /\ Disjoint
  /\ Accounted
  /\ Ended

\* Accounted, line by line.
LEMMA AccountedPointwise ==
  Accounted <=>
    (started => \A l : l \in usedStatus <=>
       l \in Unavailable \/ \E b \in blocks : l \in BitRange(b.start, b.size - 1))
  BY DEF Accounted

\* CyU3PDmaBufferInit sets bits of the array only (cyfx_tx.c:734-738).
LEMMA UnavailableBits == Unavailable \subseteq Bits
<1>1. WordBits \in Nat /\ WordBits > 0 /\ HeapLines \in Nat
  BY HeapAssumption
<1>2. HeapLines % WordBits \in Nat /\ HeapLines % WordBits <= HeapLines
  BY <1>1, Z3
<1> QED BY <1>1, <1>2, SizeFacts DEF Unavailable, BitRange, Bits, NumBits

-----------------------------------------------------------------------------
\* The invariant holds before CyU3PDmaBufferInit has run.
LEMMA HeapInvInit == HeapInit => HeapInv
<1> SUFFICES ASSUME HeapInit PROVE HeapInv
  OBVIOUS
<1>1. started \in BOOLEAN /\ checks \in BOOLEAN /\ ~started
  BY Zenon DEF HeapInit
<1>2. HeapTypeOK
  BY <1>1, SizeFacts DEF HeapInit, HeapTypeOK
<1> QED BY <1>1, <1>2 DEF HeapInit, HeapInv, Disjoint, Accounted, Ended

\* CyU3PDmaBufferInit establishes the accounting with no block held.
LEMMA InitStep == HeapInv /\ CyU3PDmaBufferInit => HeapInv'
<1> SUFFICES ASSUME HeapInv, CyU3PDmaBufferInit PROVE HeapInv'
  OBVIOUS
<1>1. blocks' = {}
  BY DEF HeapInv, CyU3PDmaBufferInit
<1>2. HeapTypeOK'
  BY UnavailableBits, SizeFacts, <1>1 DEF HeapInv, HeapTypeOK, CyU3PDmaBufferInit
<1>3. Accounted'
  BY <1>1 DEF CyU3PDmaBufferInit, Accounted, Unavailable
<1> QED BY <1>1, <1>2, <1>3 DEF HeapInv, Disjoint, Ended

\* A search that succeeds places the new block on lines that nobody holds.
LEMMA AllocStep ==
  ASSUME HeapInv, started, NEW size \in Nat, size >= 2, NEW z \in Search(size),
         NEW b, b = Place(z, size),
         searchPos' = (z + size) \div WordBits,
         usedStatus' = usedStatus \cup StatusBits(b),
         blocks' = blocks \cup {b},
         UNCHANGED <<started, checks>>
  PROVE  HeapInv'
<1>1. /\ z \in Nat
      /\ z + size < NumBits
      /\ NumBits \in Nat
      /\ \A l \in z .. z + size : l \notin usedStatus
  BY SearchFact, SizeFacts DEF HeapInv
<1>2. b = [start |-> z + 1, size |-> size]
  BY DEF Place
<1>3. b \in [start : Nat, size : Nat] /\ b.start = z + 1 /\ b.size = size
  BY <1>1, <1>2
<1>4. \A c \in blocks : /\ c.start \in Int /\ c.size \in Int /\ c.start >= 1 /\ c.size >= 2
                         /\ c.start + c.size <= NumBits
  BY DEF HeapInv, Shape, HeapTypeOK
<1>5. \A c \in blocks : \A l \in c.start .. c.start + c.size - 2 : l \in usedStatus
  <2> TAKE c \in blocks
  <2> TAKE l \in c.start .. c.start + c.size - 2
  <2>1. l \in BitRange(c.start, c.size - 1)
    BY <1>4 DEF BitRange
  <2> QED BY <2>1, AccountedPointwise DEF HeapInv
<1>6. \A c \in blocks : Lines(b) \cap Lines(c) = {}
  <2> SUFFICES ASSUME NEW c \in blocks, NEW l \in Lines(b), l \in Lines(c) PROVE FALSE
    OBVIOUS
  <2>1. l \in Int /\ l >= z + 1 /\ l <= z + size
    BY <1>1, <1>3 DEF Lines, BitRange
  <2>2. l >= c.start /\ l <= c.start + c.size - 1
    BY <1>4 DEF Lines, BitRange
  <2>3. CASE l <= c.start + c.size - 2
    BY <2>1, <2>2, <2>3, <1>1, <1>4, <1>5
  <2>4. CASE l = c.start + c.size - 1
    <3>1. l - 1 \in c.start .. c.start + c.size - 2
      BY <2>1, <2>4, <1>4
    <3>2. l - 1 \in z .. z + size
      BY <2>1, <1>1
    <3> QED BY <3>1, <3>2, <1>1, <1>5
  <2> QED BY <2>1, <2>2, <2>3, <2>4, <1>4
<1>7. StatusBits(b) = z + 1 .. z + size - 1
  BY <1>1, <1>3 DEF StatusBits, BitRange
<1>8. HeapTypeOK'
  <2>1. searchPos' \in 0 .. statusSize - 1
    BY <1>1, DivBound, SizeFacts, HeapAssumption DEF NumBits
  <2>2. usedStatus' \subseteq Bits
    BY <1>1, <1>7 DEF HeapInv, HeapTypeOK, Bits, NumBits
  <2>3. started' \in BOOLEAN /\ checks' \in BOOLEAN
    BY Zenon DEF HeapInv, HeapTypeOK
  <2> QED BY <2>1, <2>2, <2>3, <1>3 DEF HeapInv, HeapTypeOK, Bits, statusSize
<1>9. \A c \in blocks' : Shape(c)
  <2>1. Shape(b)
    <3>1. \A l \in Lines(b) : l \notin usedStatus
      BY <1>1, <1>3 DEF Lines, BitRange
    <3>2. \A l \in Lines(b) : l \notin Unavailable
      BY <3>1, AccountedPointwise DEF HeapInv
    <3> QED BY <3>2, <1>1, <1>3 DEF Shape
  <2> QED BY <2>1 DEF HeapInv
<1>10. Disjoint'
  <2>1. \A c, d \in blocks : c # d => Lines(c) \cap Lines(d) = {}
    BY DEF HeapInv, Disjoint
  <2> QED BY <2>1, <1>6 DEF Disjoint, Lines, BitRange
<1>11. Accounted'
  <2>1. \A l : l \in usedStatus <=>
            l \in Unavailable \/ \E c \in blocks : l \in BitRange(c.start, c.size - 1)
    BY AccountedPointwise DEF HeapInv
  <2>2. \A l : l \in usedStatus' <=>
            l \in Unavailable \/ \E c \in blocks' : l \in BitRange(c.start, c.size - 1)
    BY <2>1 DEF StatusBits
  <2>3. Unavailable' = Unavailable
    BY DEF Unavailable, statusSize
  <2> QED BY <2>2, <2>3 DEF Accounted, BitRange
<1>12. Ended'
  <2>1. \A c \in blocks : (c.start + c.size) - 1 \notin usedStatus /\ (c.start + c.size) - 1 \in Lines(c)
    BY <1>4 DEF HeapInv, Ended, Lines, BitRange
  <2>2. \A c \in blocks : (c.start + c.size) - 1 \notin Lines(b)
    BY <2>1, <1>6
  <2>3. StatusBits(b) \subseteq Lines(b)
    BY <1>1, <1>3, <1>7 DEF Lines, BitRange
  <2>4. (b.start + b.size) - 1 \notin usedStatus'
    BY <1>1, <1>3, <1>7
  <2> QED BY <2>1, <2>2, <2>3, <2>4 DEF Ended
<1> QED BY <1>8, <1>9, <1>10, <1>11, <1>12 DEF HeapInv, Shape, Lines, BitRange, NumBits, Unavailable, statusSize

\* Counting set bits from the first line of a held block stops at its end.
LEMMA SetRunIsBlock ==
  ASSUME HeapInv, started, NEW b \in blocks
  PROVE  SetRun(b.start) = BitRange(b.start, b.size - 1)
<1>1. /\ b.start \in Int /\ b.size \in Int /\ b.start >= 1 /\ b.size >= 2
      /\ b.start + b.size <= NumBits /\ NumBits \in Int
  BY SizeFacts DEF HeapInv, Shape, HeapTypeOK
<1>2. (b.start + b.size) - 1 \notin usedStatus
  BY DEF HeapInv, Ended
<1>3. \A l \in BitRange(b.start, b.size - 1) : l \in usedStatus
  BY AccountedPointwise DEF HeapInv
<1>4. BitRange(b.start, b.size - 1) \subseteq SetRun(b.start)
  BY <1>1, <1>3 DEF BitRange, SetRun, Bits, NumBits
<1>5. SetRun(b.start) \subseteq BitRange(b.start, b.size - 1)
  <2> SUFFICES ASSUME NEW l \in SetRun(b.start), l > (b.start + b.size) - 2 PROVE FALSE
    BY <1>1 DEF BitRange, SetRun, Bits
  <2>1. l \in Int /\ \A k \in b.start .. l : k \in usedStatus
    BY DEF SetRun, Bits
  <2>2. (b.start + b.size) - 1 \in b.start .. l
    BY <2>1, <1>1
  <2> QED BY <2>1, <2>2, <1>2
<1> QED BY <1>4, <1>5

\* CyU3PDmaBufferFree keeps the accounting of the other blocks.
LEMMA FreeStep ==
  ASSUME HeapInv, NEW b \in blocks, CyU3PDmaBufferFree(b)
  PROVE  HeapInv'
<1>1. /\ started /\ started' = started /\ checks' = checks
      /\ usedStatus' = usedStatus \ BitRange(b.start, b.size - 1)
      /\ blocks' = blocks \ {b}
      /\ searchPos' = 0
  BY SetRunIsBlock DEF CyU3PDmaBufferFree
<1>2. HeapTypeOK'
  <2>1. started' \in BOOLEAN /\ checks' \in BOOLEAN
    BY <1>1, Zenon DEF HeapInv, HeapTypeOK
  <2>2. searchPos' \in 0 .. statusSize - 1
    BY <1>1, SizeFacts
  <2>3. usedStatus' \subseteq Bits /\ blocks' \subseteq [start : Nat, size : Nat]
    BY <1>1 DEF HeapInv, HeapTypeOK
  <2> QED BY <2>1, <2>2, <2>3 DEF HeapTypeOK, Bits, statusSize
<1>3. \A c \in blocks' : Shape(c)
  BY <1>1 DEF HeapInv
<1>4. Disjoint'
  BY <1>1 DEF HeapInv, Disjoint, Lines, BitRange
<1>5. BitRange(b.start, b.size - 1) \subseteq Lines(b)
  BY DEF HeapInv, HeapTypeOK, BitRange, Lines
<1>6. Accounted'
  <2>1. \A l : l \in usedStatus <=>
            l \in Unavailable \/ \E c \in blocks : l \in BitRange(c.start, c.size - 1)
    BY <1>1, AccountedPointwise DEF HeapInv
  <2>2. \A l \in BitRange(b.start, b.size - 1) : l \notin Unavailable
    BY <1>5 DEF HeapInv, Shape
  <2>3. \A c \in blocks : c # b => BitRange(c.start, c.size - 1) \cap BitRange(b.start, b.size - 1) = {}
    <3> TAKE c \in blocks
    <3>1. BitRange(c.start, c.size - 1) \subseteq Lines(c)
      BY DEF HeapInv, HeapTypeOK, BitRange, Lines
    <3> QED BY <3>1, <1>5 DEF HeapInv, Disjoint
  <2>4. \A l : l \in usedStatus' <=>
            l \in Unavailable \/ \E c \in blocks' : l \in BitRange(c.start, c.size - 1)
    BY <1>1, <2>1, <2>2, <2>3
  <2>5. Unavailable' = Unavailable
    BY DEF Unavailable, statusSize
  <2> QED BY <2>4, <2>5 DEF Accounted, BitRange
<1>7. Ended'
  BY <1>1 DEF HeapInv, Ended
<1> QED BY <1>1, <1>2, <1>3, <1>4, <1>6, <1>7 DEF HeapInv, Shape, Lines, BitRange, NumBits, Unavailable, statusSize

\* Every call of the buffer manager keeps the invariant.
LEMMA HeapInvNext == HeapInv /\ [HeapNext]_heapVars => HeapInv'
<1> SUFFICES ASSUME HeapInv, [HeapNext]_heapVars PROVE HeapInv'
  OBVIOUS
<1> USE DEF Shape, Lines, BitRange, NumBits, Unavailable, statusSize
<1>1. ASSUME NEW enable \in BOOLEAN, CyU3PBufEnableChecks(enable) PROVE HeapInv'
  <2>1. started' \in BOOLEAN /\ checks' \in BOOLEAN
    BY <1>1, Zenon DEF HeapInv, HeapTypeOK, CyU3PBufEnableChecks
  <2>2. usedStatus' = usedStatus /\ searchPos' = searchPos /\ blocks' = blocks /\ started' = started
    BY <1>1 DEF CyU3PBufEnableChecks
  <2>3. HeapTypeOK'
    BY <2>1, <2>2 DEF HeapInv, HeapTypeOK, Bits
  <2> QED BY <2>2, <2>3 DEF HeapInv, Disjoint, Accounted, Ended
<1>2. CASE CyU3PDmaBufferInit
  BY <1>2, InitStep
<1>3. CASE CyU3PDmaBufferDeInit
  <2>1. started' \in BOOLEAN /\ checks' \in BOOLEAN /\ ~started'
    BY <1>3, Zenon DEF HeapInv, HeapTypeOK, CyU3PDmaBufferDeInit
  <2>2. usedStatus' = {} /\ blocks' = {} /\ searchPos' = searchPos
    BY <1>3 DEF CyU3PDmaBufferDeInit
  <2>3. HeapTypeOK'
    BY <2>1, <2>2 DEF HeapInv, HeapTypeOK, Bits
  <2> QED BY <2>1, <2>2, <2>3 DEF HeapInv, Disjoint, Accounted, Ended
<1>4. CASE UNCHANGED heapVars
  BY <1>4 DEF heapVars, HeapInv, HeapTypeOK, Bits, Disjoint, Accounted, Ended
<1>5. ASSUME NEW bytes \in RequestBytes, CyU3PDmaBufferAlloc(bytes) PROVE HeapInv'
  <2> DEFINE size == LinesOf(bytes)
  <2>1. size \in Nat /\ size >= 2
    BY LinesFact DEF HeapInv, HeapTypeOK
  <2>2. CASE UNCHANGED heapVars
    BY <2>2, <1>4
  <2>3. ASSUME NEW z \in Search(size),
               searchPos' = (z + size) \div WordBits,
               usedStatus' = usedStatus \cup StatusBits(Place(z, size)),
               blocks' = blocks \cup {Place(z, size)},
               UNCHANGED <<started, checks>>
        PROVE  HeapInv'
    <3> HIDE DEF size
    <3>1. started
      BY <1>5 DEF CyU3PDmaBufferAlloc
    <3> QED BY <2>1, <2>3, <3>1, AllocStep
  <2> QED BY <1>5, <2>2, <2>3 DEF CyU3PDmaBufferAlloc
<1>6. ASSUME NEW b \in blocks, CyU3PDmaBufferFree(b) PROVE HeapInv'
  BY <1>6, FreeStep
<1> QED BY <1>1, <1>2, <1>3, <1>4, <1>5, <1>6 DEF HeapNext

\* Whatever the sequence of calls, no two callers hold the same cache line and the
\* status array is exactly what the held blocks account for.
THEOREM HeapSafe == HeapSpec => []HeapOK
<1>1. HeapInv => HeapOK
  BY DEF HeapInv, HeapOK
<1> QED BY HeapInvInit, HeapInvNext, <1>1, PTL DEF HeapSpec

\* Freeing a block clears the bits of that block and of no other.
THEOREM FreeSafe == HeapSpec => FreesOnlyItsBlock
<1>1. ASSUME HeapInv, [HeapNext]_heapVars
      PROVE  [\A b \in blocks : started' /\ b \notin blocks' =>
                usedStatus' = usedStatus \ BitRange(b.start, b.size - 1)]_heapVars
  <2> SUFFICES ASSUME NEW b \in blocks, started', b \notin blocks'
               PROVE  usedStatus' = usedStatus \ BitRange(b.start, b.size - 1)
    OBVIOUS
  <2>1. PICK c \in blocks : CyU3PDmaBufferFree(c)
    BY <1>1 DEF heapVars, HeapNext, CyU3PBufEnableChecks, CyU3PDmaBufferInit,
       CyU3PDmaBufferDeInit, CyU3PDmaBufferAlloc
  <2>2. b = c
    BY <2>1 DEF CyU3PDmaBufferFree
  <2> QED BY <1>1, <2>1, <2>2, SetRunIsBlock DEF CyU3PDmaBufferFree
<1> QED BY HeapInvInit, HeapInvNext, <1>1, PTL DEF HeapSpec, FreesOnlyItsBlock

\* In a heap that fills its last status word, every block lies inside the heap.
THEOREM HeapBounded == ASSUME HeapLines % WordBits = 0 PROVE HeapSpec => []InsideHeap
<1>1. NumBits = HeapLines
  <2>1. WordBits \in Nat /\ WordBits > 0 /\ HeapLines \in Nat
    BY HeapAssumption
  <2> DEFINE q == HeapLines \div WordBits
  <2>2. q \in Int /\ HeapLines = WordBits * q
    BY <2>1, Z3
  <2>3. (HeapLines + WordBits - 1) \div WordBits = q
    BY <2>1, <2>2, Z3
  <2>4. q * WordBits = WordBits * q
    BY <2>1, <2>2, Z3
  <2> QED BY <2>2, <2>3, <2>4 DEF NumBits, statusSize
<1>2. HeapInv => InsideHeap
  BY <1>1, SizeFacts DEF HeapInv, HeapTypeOK, Shape, InsideHeap, Lines, BitRange
<1> QED BY HeapInvInit, HeapInvNext, <1>2, PTL DEF HeapSpec
=============================================================================
