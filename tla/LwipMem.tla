------------------------------ MODULE LwipMem ------------------------------
(***************************************************************************)
(* lib/lwip/src/core/mem.c: the heap of lwIP (PBUF_RAM).  The heap is      *)
(* tiled by blocks with a header each; free neighbours are combined and    *)
(* lfree points to the lowest free block.                                  *)
(***************************************************************************)
EXTENDS Integers, FiniteSets, FiniteSetsExt

CONSTANTS
  MEM_ALIGNMENT,
  MEM_SIZE,           \* MEM_SIZE_ALIGNED
  SIZEOF_STRUCT_MEM,
  MIN_SIZE,           \* MIN_SIZE_ALIGNED
  Width,              \* number of values of mem_size_t
  Sizes,              \* sizes that are asked for
  TooLarge            \* no size: the answer is NULL

ASSUME LwipMemAssumption ==
  /\ MEM_ALIGNMENT \in Nat \ {0}
  /\ SIZEOF_STRUCT_MEM \in Nat \ {0} /\ MIN_SIZE \in Nat \ {0}
  /\ MEM_SIZE \in Nat /\ MEM_SIZE >= SIZEOF_STRUCT_MEM + MIN_SIZE
  /\ Width \in Nat /\ MEM_SIZE < Width
  /\ Sizes \subseteq 0 .. Width - 1
  /\ TooLarge \notin Nat

VARIABLES
  mem,     \* the headers of the blocks, by offset in ram; the last one is ram_end
  lfree,
  given    \* the callers' blocks: the offset of the header and the size asked for

vars == <<mem, lfree, given>>

HDR == SIZEOF_STRUCT_MEM
Blocks == DOMAIN mem
Header(next, prev, used) == [next |-> next, prev |-> prev, used |-> used]

\* What a header at p says of the room in its block.
Room(m, p) == m[p].next - (p + HDR)

Init ==
  /\ mem = [p \in {0, MEM_SIZE} |-> IF p = 0 THEN Header(MEM_SIZE, 0, FALSE)
                                    ELSE Header(MEM_SIZE, MEM_SIZE, TRUE)]
  /\ lfree = 0
  /\ given = [p \in {} |-> 0]

\* LWIP_MEM_ALIGN_SIZE as a mem_size_t, which wraps.
LWIP_MEM_ALIGN_SIZE(n) == (((n + MEM_ALIGNMENT - 1) \div MEM_ALIGNMENT) * MEM_ALIGNMENT) % Width

\* Mutant: the wrap is not looked for.
Adjusted_Wrap(n) ==
  LET size == LWIP_MEM_ALIGN_SIZE(n)
      s == IF size < MIN_SIZE THEN MIN_SIZE ELSE size
  IN IF s > MEM_SIZE THEN TooLarge ELSE s

\* The size that is looked for, or TooLarge if the heap cannot have it.
Adjusted(n) ==
  LET size == LWIP_MEM_ALIGN_SIZE(n)
      s == IF size < MIN_SIZE THEN MIN_SIZE ELSE size
  IN IF s > MEM_SIZE \/ s < n THEN TooLarge ELSE s

\* Mutant: the wrong link of the next block is set.
LinkBack_Next(m, next, p) ==
  [q \in DOMAIN m |-> IF q = next /\ next # MEM_SIZE THEN [m[q] EXCEPT !.next = p] ELSE m[q]]

\* ptr_to_mem(next)->prev = p, unless next is the end of the heap.
LinkBack(m, next, p) ==
  [q \in DOMAIN m |-> IF q = next /\ next # MEM_SIZE THEN [m[q] EXCEPT !.prev = p] ELSE m[q]]

Without(m, p) == [q \in DOMAIN m \ {p} |-> m[q]]
With(m, p, h) == [q \in DOMAIN m \cup {p} |-> IF q = p THEN h ELSE m[q]]

-----------------------------------------------------------------------------
\* The blocks at which the search may stop: it follows the links, which are in the order
\* of the addresses, from lfree on.
Candidates(size) ==
  {p \in Blocks : p >= lfree /\ p < MEM_SIZE - size /\ ~mem[p].used /\ Room(mem, p) >= size}

Splits(p, size) == Room(mem, p) >= size + HDR + MIN_SIZE

\* The next free block from p on, or ram_end.
NextFree(m, p) == Min({q \in DOMAIN m : q >= p /\ (~m[q].used \/ q = MEM_SIZE)})

LowestAfter(m, p) == IF p = lfree THEN NextFree(m, p) ELSE lfree

mem_malloc(n) ==
  /\ n # 0 /\ Adjusted(n) # TooLarge
  /\ LET size == Adjusted(n)
         p == Min(Candidates(size))
         ptr2 == p + HDR + size
         m1 == IF Splits(p, size)
               THEN LinkBack(With([mem EXCEPT ![p] = [@ EXCEPT !.next = ptr2, !.used = TRUE]],
                                  ptr2, Header(mem[p].next, p, FALSE)),
                             mem[p].next, ptr2)
               ELSE [mem EXCEPT ![p] = [@ EXCEPT !.used = TRUE]]
     IN /\ Candidates(size) # {}
        /\ mem' = m1
        /\ lfree' = LowestAfter(m1, p)
        /\ given' = With(given, p, n)

\* Mutant: the hole before is not plugged.
plug_holes_Forward(m, l, p) ==
  LET n == m[p].next
      forward == n # p /\ ~m[n].used /\ n # MEM_SIZE
  IN IF forward THEN [m |-> LinkBack(Without([m EXCEPT ![p] = [@ EXCEPT !.next = m[n].next]], n), m[n].next, p),
                      l |-> IF l = n THEN p ELSE l]
     ELSE [m |-> m, l |-> l]

\* plug_holes: the block p, just freed, is combined with the next and then with the one
\* before.
plug_holes(m, l, p) ==
  LET n == m[p].next
      forward == n # p /\ ~m[n].used /\ n # MEM_SIZE
      m1 == IF forward
            THEN LinkBack(Without([m EXCEPT ![p] = [@ EXCEPT !.next = m[n].next]], n),
                          m[n].next, p)
            ELSE m
      l1 == IF forward /\ l = n THEN p ELSE l
      q == m1[p].prev
      backward == q # p /\ ~m1[q].used
      m2 == IF backward
            THEN LinkBack(Without([m1 EXCEPT ![q] = [@ EXCEPT !.next = m1[p].next]], p),
                          m1[p].next, q)
            ELSE m1
  IN [m |-> m2, l |-> IF backward /\ l1 = p THEN q ELSE l1]

\* mem_free of a block that was given out (whose checks therefore succeed).
mem_free(p) ==
  /\ p \in DOMAIN given
  /\ LET r == plug_holes([mem EXCEPT ![p] = [@ EXCEPT !.used = FALSE]],
                         IF p < lfree THEN p ELSE lfree, p)
     IN mem' = r.m /\ lfree' = r.l
  /\ given' = Without(given, p)

\* Mutant: the free block behind is moved, but not lfree.
MovedLfree_Same(old, new) == lfree

MovedLfree(old, new) == IF lfree = old THEN new ELSE lfree

\* mem_trim: what is cut off joins the free block behind, or becomes one if there is room
\* for it.
mem_trim(p, n) ==
  LET newsize == Adjusted(n)
      size == Room(mem, p)
      next == mem[p].next
      ptr2 == p + HDR + newsize
      Cut(m, after) == LinkBack(With([m EXCEPT ![p] = [@ EXCEPT !.next = ptr2]],
                                     ptr2, Header(after, p, FALSE)), after, ptr2)
  IN /\ p \in DOMAIN given
     /\ newsize # TooLarge /\ newsize <= size
     /\ \/ /\ newsize < size /\ ~mem[next].used
           /\ mem' = Cut(Without(mem, next), mem[next].next)
           /\ lfree' = MovedLfree(next, ptr2)
        \/ /\ mem[next].used /\ newsize + HDR + MIN_SIZE <= size
           /\ mem' = Cut(mem, next)
           /\ lfree' = IF ptr2 < lfree THEN ptr2 ELSE lfree
        \/ /\ newsize = size \/ (mem[next].used /\ newsize + HDR + MIN_SIZE > size)
           /\ UNCHANGED <<mem, lfree>>
     /\ given' = [given EXCEPT ![p] = n]

Next ==
  \/ \E n \in Sizes : mem_malloc(n)
  \/ \E p \in DOMAIN given : mem_free(p)
  \/ \E p \in DOMAIN given, n \in Sizes : mem_trim(p, n)

Spec == Init /\ [][Next]_vars
-----------------------------------------------------------------------------
Offsets == 0 .. MEM_SIZE

\* The variables keep their types; the heap begins with a block and ends with ram_end.
TypeOK ==
  /\ Blocks \subseteq Offsets /\ {0, MEM_SIZE} \subseteq Blocks
  /\ \A p \in Blocks : /\ mem[p].next \in Offsets /\ mem[p].prev \in Offsets
                       /\ mem[p].used \in BOOLEAN
  /\ mem[MEM_SIZE] = Header(MEM_SIZE, MEM_SIZE, TRUE)
  /\ lfree \in Blocks
  /\ DOMAIN given \subseteq Blocks \ {MEM_SIZE}

\* The blocks tile the heap: each ends where the next one begins, which points back to
\* it, and each is large enough for its header and the smallest data (mem.c:551-609).
Linked ==
  /\ mem[0].prev = 0
  /\ \A p \in Blocks \ {MEM_SIZE} :
       LET n == mem[p].next IN
       /\ n \in Blocks /\ p + HDR + MIN_SIZE <= n
       /\ \A q \in Blocks : q <= p \/ n <= q
       /\ n # MEM_SIZE => mem[n].prev = p

\* plug_holes leaves no two free blocks in a row (mem.c:462-465).
NoHoles ==
  \A p \in Blocks \ {MEM_SIZE} : ~mem[p].used => mem[mem[p].next].used

\* The chain of blocks is sound after every call: what mem_sanity asks for.
ChainOK == TypeOK /\ Linked /\ NoHoles

\* lfree is the lowest free block, or ram_end if there is none (mem.c:416-421).
LfreeIsLowest == lfree = NextFree(mem, 0)

\* The blocks in use are the callers', and each caller has the bytes it asked for, without
\* a wrap of the size and without loss of more than a header and the smallest data.
CallersServed ==
  /\ DOMAIN given = {p \in Blocks \ {MEM_SIZE} : mem[p].used}
  /\ \A p \in DOMAIN given :
       /\ given[p] <= Room(mem, p)
       /\ Room(mem, p) < given[p] + MEM_ALIGNMENT + HDR + 2 * MIN_SIZE

\* The search from lfree on misses no block: NULL is returned only if no free block has
\* the room (mem.c:867-871).
FindsWhatFits ==
  \A size \in 1 .. MEM_SIZE :
    (\E p \in Blocks : ~mem[p].used /\ Room(mem, p) >= size) => Candidates(size) # {}

\* When all is given back the heap is as after mem_init, however it was cut.
AllBack == DOMAIN given = {} => Blocks = {0, MEM_SIZE} /\ lfree = 0

\* Free memory is found: by the search from lfree, and as one block when all is free.
FreeFound == LfreeIsLowest /\ FindsWhatFits /\ AllBack

\* No operation moves or shrinks a block other than the one it is called for: a caller's
\* data stays where it is (mem.c:760-800).
OthersUntouched ==
  [][\A p \in DOMAIN given \cap DOMAIN given' :
       mem'[p].next # mem[p].next => \E n \in Sizes : mem_trim(p, n)]_vars
=============================================================================
