--------------------------- MODULE LwipMemProofs ---------------------------
(***************************************************************************)
(* The heap of lwIP is sound for every heap size, alignment, size of a     *)
(* header and set of request sizes.  The invariant is MemInv; every        *)
(* operation marks a block, cuts one in two or joins two neighbours, and   *)
(* the lemmas show what each of these three does to a chain of blocks.     *)
(***************************************************************************)
EXTENDS LwipMem, WellFoundedInduction, TLAPS

-----------------------------------------------------------------------------
\* Min, which the searches use, is what it is called.
LEMMA MinIs ==
  ASSUME NEW S \in SUBSET Nat, NEW l \in S, \A y \in S : l <= y
  PROVE  Min(S) = l
<1>1. Min(S) \in S /\ \A y \in S : Min(S) <= y
  BY Zenon DEF Min
<1>2. Min(S) <= l /\ l <= Min(S) /\ Min(S) \in Nat /\ l \in Nat
  BY Zenon, <1>1
<1> QED BY <1>2

\* A set of naturals that is not empty has its minimum.
LEMMA MinExists ==
  ASSUME NEW S \in SUBSET Nat, S # {}
  PROVE  Min(S) \in S /\ \A y \in S : Min(S) <= y
<1>1. PICK x \in S : \A y \in S : ~(<<y, x>> \in OpToRel(<, Nat))
  BY Zenon, NatLessThanWellFounded, WFMin
<1>2. \A y \in S : x <= y
  <2>1. SUFFICES ASSUME NEW y \in S, y < x PROVE FALSE
    OBVIOUS
  <2>2. <<y, x>> \in OpToRel(<, Nat)
    BY Zenon, <2>1 DEF OpToRel
  <2> QED BY Zenon, <2>2, <1>1
<1> QED BY Zenon, <1>2, MinIs

-----------------------------------------------------------------------------
\* The invariant.  Chain is TypeOK and Linked with the links in both directions and
\* headers of their type; Lowest is LfreeIsLowest without Min.
HeaderSet == [next : Offsets, prev : Offsets, used : BOOLEAN]

Typed(m) ==
  /\ m \in [DOMAIN m -> HeaderSet]
  /\ DOMAIN m \subseteq Offsets /\ 0 \in DOMAIN m /\ MEM_SIZE \in DOMAIN m
  /\ m[0].prev = 0
  /\ m[MEM_SIZE].next = MEM_SIZE /\ m[MEM_SIZE].prev = MEM_SIZE /\ m[MEM_SIZE].used

Chain(m) ==
  /\ Typed(m)
  /\ \A p \in DOMAIN m \ {MEM_SIZE} :
       /\ m[p].next \in DOMAIN m /\ p + HDR + MIN_SIZE <= m[p].next
       /\ \A q \in DOMAIN m : q <= p \/ m[p].next <= q
       /\ m[p].next # MEM_SIZE => m[m[p].next].prev = p
       /\ p # 0 => /\ m[p].prev \in DOMAIN m /\ m[p].prev < p
                   /\ m[m[p].prev].next = p

HolesPlugged(m) == \A p \in DOMAIN m \ {MEM_SIZE} : ~m[p].used => m[m[p].next].used

Lowest(m, l) ==
  /\ l \in DOMAIN m /\ (~m[l].used \/ l = MEM_SIZE)
  /\ \A q \in DOMAIN m : q < l => m[q].used

Served(m, g) ==
  /\ DOMAIN g = {p \in DOMAIN m \ {MEM_SIZE} : m[p].used}
  /\ g \in [DOMAIN g -> Nat]
  /\ \A p \in DOMAIN g : /\ g[p] <= Room(m, p)
                         /\ Room(m, p) < g[p] + MEM_ALIGNMENT + HDR + 2 * MIN_SIZE

MemInv == Chain(mem) /\ HolesPlugged(mem) /\ Lowest(mem, lfree) /\ Served(mem, given)

\* What LwipMemAssumption says of the sizes, in the form in which the proofs use it.
LEMMA Sizes0 ==
  /\ MEM_SIZE \in Nat /\ MEM_SIZE > 0 /\ HDR \in Nat /\ HDR > 0 /\ MIN_SIZE \in Nat /\ MIN_SIZE > 0
  /\ MEM_ALIGNMENT \in Nat /\ MEM_ALIGNMENT > 0 /\ HDR + MIN_SIZE <= MEM_SIZE
BY LwipMemAssumption DEF HDR

-----------------------------------------------------------------------------
\* The two ways in which a chain changes: s is m with the block p, which is then in use,
\* cut in two at the offset at ...
IsCut(m, p, at, s) ==
  /\ DOMAIN s = DOMAIN m \cup {at} /\ at \notin DOMAIN m
  /\ s \in [DOMAIN s -> HeaderSet]
  /\ s[at].next = m[p].next /\ s[at].prev = p /\ ~s[at].used
  /\ s[p].next = at /\ s[p].prev = m[p].prev /\ s[p].used
  /\ \A q \in DOMAIN m \ {p} :
       /\ s[q].next = m[q].next /\ s[q].used = m[q].used
       /\ s[q].prev = IF q = m[p].next /\ q # MEM_SIZE THEN at ELSE m[q].prev

\* ... or m with p and the block behind it joined.
IsJoined(m, p, s) ==
  /\ DOMAIN s = DOMAIN m \ {m[p].next} /\ p \in DOMAIN s
  /\ s \in [DOMAIN s -> HeaderSet]
  /\ s[p].next = m[m[p].next].next
  /\ \A q \in DOMAIN s :
       /\ q # p => s[q].next = m[q].next
       /\ s[q].used = m[q].used
       /\ s[q].prev = IF q = m[m[p].next].next /\ q # MEM_SIZE THEN p ELSE m[q].prev

Taken(h, x) == [h EXCEPT !.next = x, !.used = TRUE]

\* The assignments of the code to the fields of a header (mem.c:906-927).
LEMMA SetNextUsed ==
  ASSUME NEW h \in HeaderSet, NEW x \in Offsets
  PROVE  /\ Taken(h, x) \in HeaderSet /\ Taken(h, x).next = x
         /\ Taken(h, x).prev = h.prev /\ Taken(h, x).used
BY Zenon DEF HeaderSet, Taken

\* Setting next only.
LEMMA SetNext ==
  ASSUME NEW h \in HeaderSet, NEW x \in Offsets, NEW g, g = [h EXCEPT !.next = x]
  PROVE  g \in HeaderSet /\ g.next = x /\ g.prev = h.prev /\ g.used = h.used
BY Zenon DEF HeaderSet

\* Setting prev only.
LEMMA SetPrev ==
  ASSUME NEW h \in HeaderSet, NEW x \in Offsets, NEW g, g = [h EXCEPT !.prev = x]
  PROVE  g \in HeaderSet /\ g.next = h.next /\ g.prev = x /\ g.used = h.used
BY Zenon DEF HeaderSet

Freed(h) == [h EXCEPT !.used = FALSE]
Busy(h) == [h EXCEPT !.used = TRUE]

\* Setting used only.
LEMMA SetUsed ==
  ASSUME NEW h \in HeaderSet
  PROVE  /\ Freed(h) \in HeaderSet /\ Freed(h).next = h.next /\ Freed(h).prev = h.prev
         /\ ~Freed(h).used
         /\ Busy(h) \in HeaderSet /\ Busy(h).next = h.next /\ Busy(h).prev = h.prev
         /\ Busy(h).used
<1>1. /\ Freed(h) \in HeaderSet /\ Freed(h).next = h.next /\ Freed(h).prev = h.prev
      /\ ~Freed(h).used
  BY Zenon DEF HeaderSet, Freed
<1>2. /\ Busy(h) \in HeaderSet /\ Busy(h).next = h.next /\ Busy(h).prev = h.prev
      /\ Busy(h).used
  BY Zenon DEF HeaderSet, Busy
<1> QED BY Zenon, <1>1, <1>2

FreeHeader(x, y) == Header(x, y, FALSE)

\* The header of what is cut off.
LEMMA NewHeader ==
  ASSUME NEW x \in Offsets, NEW y \in Offsets
  PROVE  /\ FreeHeader(x, y) \in HeaderSet /\ FreeHeader(x, y).next = x
         /\ FreeHeader(x, y).prev = y /\ ~FreeHeader(x, y).used
BY Zenon DEF HeaderSet, Header, FreeHeader

IsLinkedBack(m, n, p, s) ==
  /\ DOMAIN s = DOMAIN m /\ s \in [DOMAIN s -> HeaderSet]
  /\ \A q \in DOMAIN m :
       /\ s[q].next = m[q].next /\ s[q].used = m[q].used
       /\ s[q].prev = IF q = n /\ n # MEM_SIZE THEN p ELSE m[q].prev

\* What LinkBack does to the headers.
LEMMA LinkBackFields ==
  ASSUME NEW m, \A q \in DOMAIN m : m[q] \in HeaderSet, NEW n, NEW p \in Offsets
  PROVE  IsLinkedBack(m, n, p, LinkBack(m, n, p))
<1> DEFINE s == LinkBack(m, n, p)
<1>1. /\ s = [q \in DOMAIN m |-> s[q]]
      /\ \A q \in DOMAIN m : s[q] = IF q = n /\ n # MEM_SIZE THEN [m[q] EXCEPT !.prev = p] ELSE m[q]
  BY Zenon DEF LinkBack
<1> HIDE DEF s
<1>2. ASSUME NEW q \in DOMAIN m
      PROVE  /\ s[q] \in HeaderSet /\ s[q].next = m[q].next /\ s[q].used = m[q].used
             /\ s[q].prev = IF q = n /\ n # MEM_SIZE THEN p ELSE m[q].prev
  <2>1. CASE q = n /\ n # MEM_SIZE
    <3>1. s[q] = [m[q] EXCEPT !.prev = p]
      BY Zenon, <2>1, <1>1
    <3> QED BY <3>1, <2>1, SetPrev
  <2>2. CASE ~(q = n /\ n # MEM_SIZE)
    BY Zenon, <2>2, <1>1
  <2> QED BY Zenon, <2>1, <2>2
<1>3. IsLinkedBack(m, n, p, s)
  BY Zenon, <1>1, <1>2 DEF IsLinkedBack
<1> QED BY Zenon, <1>3 DEF s

IsCutOff(m, p, at, after, hp, s) ==
  /\ DOMAIN s = DOMAIN m \cup {at} /\ s \in [DOMAIN s -> HeaderSet]
  /\ s[at].next = after /\ s[at].prev = p /\ ~s[at].used
  /\ s[p].next = hp.next /\ s[p].prev = hp.prev /\ s[p].used = hp.used
  /\ \A q \in DOMAIN m \ {p} :
       /\ s[q].next = m[q].next /\ s[q].used = m[q].used
       /\ s[q].prev = IF q = after /\ q # MEM_SIZE THEN at ELSE m[q].prev

\* What mem_malloc and mem_trim do to the headers when they cut: m is the heap without
\* the block that what is cut off may absorb.
LEMMA CutFields ==
  ASSUME NEW m, m \in [DOMAIN m -> HeaderSet], NEW p \in DOMAIN m, p \in Offsets,
         NEW at \in Offsets, at \notin DOMAIN m, NEW after \in Offsets, after # at, after # p,
         NEW hp \in HeaderSet
  PROVE  IsCutOff(m, p, at, after, hp,
                  LinkBack(With([m EXCEPT ![p] = hp], at, FreeHeader(after, p)), after, at))
<1> DEFINE ha == FreeHeader(after, p)
           m1 == [m EXCEPT ![p] = hp]
           m2 == With(m1, at, ha)
           s == LinkBack(m2, after, at)
<1>1. ha \in HeaderSet /\ ha.next = after /\ ha.prev = p /\ ~ha.used
  BY NewHeader
<1> HIDE DEF ha
<1>2. DOMAIN m1 = DOMAIN m /\ m1[p] = hp /\ \A q \in DOMAIN m \ {p} : m1[q] = m[q]
  BY Zenon
<1>3. DOMAIN m2 = DOMAIN m \cup {at} /\ m2[at] = ha /\ \A q \in DOMAIN m : m2[q] = m1[q]
  BY Zenon, <1>2 DEF With
<1>4. (\A q \in DOMAIN m \ {p} : m2[q] = m[q]) /\ m2[p] = hp
  BY Zenon, <1>2, <1>3
<1> HIDE DEF m1, m2
<1>5. \A q \in DOMAIN m2 : m2[q] \in HeaderSet
  BY <1>1, <1>2, <1>3
<1>6. IsLinkedBack(m2, after, at, s)
  BY Zenon, <1>5, LinkBackFields
<1> HIDE DEF s
<1>7. IsCutOff(m, p, at, after, hp, s)
  BY <1>1, <1>3, <1>4, <1>6 DEF IsLinkedBack, IsCutOff
<1> QED BY Zenon, <1>7 DEF s, m2, m1, ha

\* A chain of which a large enough block is cut in two is a chain.
LEMMA CutChain ==
  ASSUME NEW m, Chain(m), NEW p \in DOMAIN m \ {MEM_SIZE}, NEW at \in Nat,
         p + HDR + MIN_SIZE <= at, at + HDR + MIN_SIZE <= m[p].next,
         NEW s, IsCut(m, p, at, s)
  PROVE  Chain(s)
<1>2. \A q \in DOMAIN m : q \in Nat /\ q <= MEM_SIZE
  BY Sizes0 DEF Chain, Typed, Offsets
<1>3. at \in Offsets /\ p < at /\ at < m[p].next /\ m[p].next \in DOMAIN m /\ at # 0 /\ at # MEM_SIZE
  BY <1>2, Sizes0 DEF Chain, Offsets
<1>4. Typed(s)
  BY <1>2, <1>3, Sizes0 DEF Chain, Typed, IsCut
<1>5. ASSUME NEW q \in DOMAIN s \ {MEM_SIZE}
      PROVE  /\ s[q].next \in DOMAIN s /\ q + HDR + MIN_SIZE <= s[q].next
             /\ \A r \in DOMAIN s : r <= q \/ s[q].next <= r
  <2>1. CASE q = at
    BY <2>1, <1>2, <1>3, Sizes0 DEF Chain, IsCut
  <2>2. CASE q = p
    BY <2>2, <1>2, <1>3, Sizes0 DEF Chain, IsCut
  <2>3. CASE q # at /\ q # p
    <3>1. q \in DOMAIN m /\ s[q].next = m[q].next /\ m[q].next \in DOMAIN m
      BY Zenon, <2>3, <1>5 DEF Chain, IsCut
    <3>2. (p <= q \/ m[q].next <= p) /\ (q <= p \/ m[p].next <= q)
      BY Zenon, <3>1, <1>5 DEF Chain
    <3>3. at <= q \/ m[q].next <= at
      BY <3>1, <3>2, <2>3, <1>2, <1>3
    <3> QED BY <3>1, <3>3, <1>5 DEF Chain, IsCut
  <2> QED BY Zenon, <2>1, <2>2, <2>3
<1>6. ASSUME NEW q \in DOMAIN s \ {MEM_SIZE}, s[q].next # MEM_SIZE
      PROVE  s[s[q].next].prev = q
  BY <1>2, <1>3, <1>6, Sizes0 DEF Chain, IsCut
<1>7. ASSUME NEW q \in DOMAIN s \ {MEM_SIZE}, q # 0
      PROVE  s[q].prev \in DOMAIN s /\ s[q].prev < q /\ s[s[q].prev].next = q
  BY <1>2, <1>3, <1>7, Sizes0 DEF Chain, IsCut
<1> QED BY Zenon, <1>4, <1>5, <1>6, <1>7 DEF Chain

Join(m, p) ==
  LET n == m[p].next
  IN LinkBack(Without([m EXCEPT ![p] = [@ EXCEPT !.next = m[n].next]], n), m[n].next, p)

\* What plug_holes does to the headers when it combines p with the next block.
LEMMA JoinFields ==
  ASSUME NEW m, Chain(m), NEW p \in DOMAIN m \ {MEM_SIZE}, m[p].next # MEM_SIZE
  PROVE  IsJoined(m, p, Join(m, p))
<1> DEFINE n == m[p].next
           o == m[n].next
           hp == [m[p] EXCEPT !.next = o]
           m1 == [m EXCEPT ![p] = hp]
           m2 == Without(m1, n)
           s == Join(m, p)
<1>1. /\ n \in DOMAIN m /\ n \in Nat /\ p \in Nat /\ n <= MEM_SIZE /\ p < n
      /\ p \in Offsets /\ n \in Offsets /\ n \in DOMAIN m \ {MEM_SIZE}
  BY Sizes0 DEF Chain, Typed, Offsets
<1>2. o \in DOMAIN m /\ o \in Nat /\ n < o /\ o \in Offsets
  BY <1>1, Sizes0 DEF Chain, Typed, Offsets
<1>3. m \in [DOMAIN m -> HeaderSet] /\ m[p] \in HeaderSet
  BY Zenon DEF Chain, Typed
<1>0. hp = [m[p] EXCEPT !.next = o]
  BY Zenon
<1> HIDE DEF hp
<1>4. hp \in HeaderSet /\ hp.next = o /\ hp.prev = m[p].prev /\ hp.used = m[p].used
  BY <1>0, <1>2, <1>3, SetNext
<1>6. s = LinkBack(m2, o, p)
  BY Zenon DEF Join, hp
<1>7. DOMAIN m1 = DOMAIN m /\ m1[p] = hp /\ \A q \in DOMAIN m \ {p} : m1[q] = m[q]
  BY Zenon, <1>3
<1>8. DOMAIN m2 = DOMAIN m \ {n} /\ \A q \in DOMAIN m \ {n} : m2[q] = m1[q]
  BY Zenon, <1>7 DEF Without
<1> HIDE DEF m1, m2, s
<1>10. \A q \in DOMAIN m2 : m2[q] \in HeaderSet
  BY <1>3, <1>4, <1>7, <1>8
<1>11. IsLinkedBack(m2, o, p, s)
  BY Zenon, <1>1, <1>6, <1>10, LinkBackFields
<1>12. IsJoined(m, p, s)
  BY <1>1, <1>2, <1>4, <1>7, <1>8, <1>11 DEF IsJoined, IsLinkedBack
<1> QED BY Zenon, <1>12 DEF s

\* A chain of which two neighbours are joined is a chain.
LEMMA JoinChain ==
  ASSUME NEW m, Chain(m), NEW p \in DOMAIN m \ {MEM_SIZE}, m[p].next # MEM_SIZE,
         NEW s, IsJoined(m, p, s)
  PROVE  Chain(s)
<1> DEFINE n == m[p].next
           o == m[n].next
<1>1. /\ DOMAIN s = DOMAIN m \ {n} /\ p \in DOMAIN s
      /\ s \in [DOMAIN s -> HeaderSet]
      /\ s[p].next = o
      /\ \A q \in DOMAIN s :
           /\ q # p => s[q].next = m[q].next
           /\ s[q].used = m[q].used
           /\ s[q].prev = IF q = o /\ q # MEM_SIZE THEN p ELSE m[q].prev
  BY Zenon DEF IsJoined
<1>2. \A q \in DOMAIN m : q \in Nat /\ q <= MEM_SIZE
  BY Sizes0 DEF Chain, Typed, Offsets
<1>3. /\ n \in DOMAIN m \ {MEM_SIZE} /\ p < n /\ n # 0 /\ p + HDR + MIN_SIZE <= n
      /\ o \in DOMAIN m /\ n < o /\ n + HDR + MIN_SIZE <= o
      /\ \A r \in DOMAIN m : (r <= p \/ n <= r) /\ (r <= n \/ o <= r)
      /\ m[n].prev = p /\ (o # MEM_SIZE => m[o].prev = n)
  BY <1>2, Sizes0 DEF Chain
<1> HIDE DEF n, o
<1>4. Typed(s)
  BY <1>1, <1>2, <1>3, Sizes0 DEF Chain, Typed
<1>5. ASSUME NEW q \in DOMAIN s \ {MEM_SIZE}, q # p PROVE s[q].next # n
  BY <1>1, <1>2, <1>3, <1>5, Sizes0 DEF Chain, n
<1>6. ASSUME NEW q \in DOMAIN s \ {MEM_SIZE}
      PROVE  /\ s[q].next \in DOMAIN s /\ q + HDR + MIN_SIZE <= s[q].next
             /\ \A r \in DOMAIN s : r <= q \/ s[q].next <= r
  <2>1. CASE q = p
    BY <2>1, <1>1, <1>2, <1>3, Sizes0
  <2>2. CASE q # p
    <3>1. q \in DOMAIN m /\ s[q].next = m[q].next /\ m[q].next # n
      BY Zenon, <2>2, <1>1, <1>5, <1>6
    <3> QED BY Zenon, <3>1, <1>1, <1>6 DEF Chain
  <2> QED BY Zenon, <2>1, <2>2
<1>7. ASSUME NEW q \in DOMAIN s \ {MEM_SIZE}, s[q].next # MEM_SIZE
      PROVE  s[s[q].next].prev = q
  <2>1. CASE q = p
    BY Zenon, <2>1, <1>1, <1>3, <1>7, <1>2
  <2>2. CASE q # p
    <3>1. s[q].next = m[q].next /\ m[m[q].next].prev = q
      BY <2>2, <1>1, <1>7 DEF Chain
    <3>2. m[q].next # o
      BY <3>1, <2>2, <1>1, <1>2, <1>3, <1>7
    <3> QED BY <3>1, <3>2, <1>1, <1>6, <1>7
  <2> QED BY Zenon, <2>1, <2>2
<1>8. ASSUME NEW q \in DOMAIN s \ {MEM_SIZE}, q # 0
      PROVE  s[q].prev \in DOMAIN s /\ s[q].prev < q /\ s[s[q].prev].next = q
  <2>1. CASE q = o
    BY <2>1, <1>1, <1>2, <1>3, <1>8
  <2>2. CASE q # o
    <3>1. s[q].prev = m[q].prev /\ m[q].prev \in DOMAIN m /\ m[q].prev < q /\ m[m[q].prev].next = q
      BY Zenon, <2>2, <1>1, <1>8 DEF Chain
    <3>2. m[q].prev # n /\ m[q].prev # p
      BY Zenon, <3>1, <2>2, <1>1 DEF n, o
    <3> QED BY <3>1, <3>2, <1>1
  <2> QED BY Zenon, <2>1, <2>2
<1> QED BY Zenon, <1>4, <1>6, <1>7, <1>8 DEF Chain

IsMarked(m, p, s) ==
  /\ DOMAIN s = DOMAIN m /\ s \in [DOMAIN s -> HeaderSet]
  /\ \A q \in DOMAIN m : /\ s[q].next = m[q].next /\ s[q].prev = m[q].prev
                         /\ q # p => s[q].used = m[q].used

\* What mem_malloc and mem_free do to the headers when they only mark a block.
LEMMA MarkFields ==
  ASSUME NEW m, Chain(m), NEW p \in DOMAIN m
  PROVE  /\ IsMarked(m, p, [m EXCEPT ![p] = Freed(m[p])])
         /\ IsMarked(m, p, [m EXCEPT ![p] = Busy(m[p])])
         /\ ~[m EXCEPT ![p] = Freed(m[p])][p].used
         /\ [m EXCEPT ![p] = Busy(m[p])][p].used
<1>1. m \in [DOMAIN m -> HeaderSet] /\ m[p] \in HeaderSet
  BY Zenon DEF Chain, Typed
<1>2. ASSUME NEW h \in HeaderSet, h.next = m[p].next, h.prev = m[p].prev
      PROVE  IsMarked(m, p, [m EXCEPT ![p] = h]) /\ [m EXCEPT ![p] = h][p] = h
  BY Zenon, <1>1, <1>2 DEF IsMarked
<1> QED BY Zenon, <1>1, <1>2, SetUsed

\* A chain stays one when a block is marked.
LEMMA MarkChain ==
  ASSUME NEW m, Chain(m), NEW p \in DOMAIN m \ {MEM_SIZE}, NEW s, IsMarked(m, p, s)
  PROVE  Chain(s)
BY DEF Chain, Typed, IsMarked

-----------------------------------------------------------------------------
\* What mem_malloc looks for is enough for the caller, and not much more: the size does
\* not wrap (mem.c:846-856).
LEMMA AdjustedIs ==
  ASSUME NEW n \in Nat, Adjusted(n) # TooLarge
  PROVE  /\ Adjusted(n) \in Nat /\ n <= Adjusted(n) /\ MIN_SIZE <= Adjusted(n)
         /\ Adjusted(n) <= MEM_SIZE /\ Adjusted(n) < n + MEM_ALIGNMENT + MIN_SIZE
<1> DEFINE k == (n + MEM_ALIGNMENT - 1) \div MEM_ALIGNMENT
           x == k * MEM_ALIGNMENT
           size == LWIP_MEM_ALIGN_SIZE(n)
<1>1. k \in Nat /\ x <= n + MEM_ALIGNMENT - 1 /\ x \in Nat
  BY Sizes0
<1>2. size = x % Width
  BY Zenon DEF LWIP_MEM_ALIGN_SIZE
<1> HIDE DEF k, x, size
<1>3. size \in Nat /\ size <= x
  BY <1>1, <1>2, LwipMemAssumption
<1>4. Adjusted(n) = LET s == IF size < MIN_SIZE THEN MIN_SIZE ELSE size
                    IN IF s > MEM_SIZE \/ s < n THEN TooLarge ELSE s
  BY Zenon DEF Adjusted, size
<1> QED BY <1>1, <1>3, <1>4, Sizes0

\* The search of mem_malloc for the next free block finds the lowest one (mem.c:931-949).
LEMMA NextFreeIs ==
  ASSUME NEW m, Chain(m), NEW p \in DOMAIN m, \A q \in DOMAIN m : q < p => m[q].used
  PROVE  Lowest(m, NextFree(m, p))
<1> DEFINE S == {q \in DOMAIN m : q >= p /\ (~m[q].used \/ q = MEM_SIZE)}
<1>1. \A q \in DOMAIN m : q \in Nat /\ q <= MEM_SIZE
  BY Sizes0 DEF Chain, Typed, Offsets
<1>2. S \in SUBSET Nat /\ S # {} /\ NextFree(m, p) = Min(S)
  BY Zenon, <1>1 DEF Chain, Typed, NextFree
<1>3. Min(S) \in S /\ \A y \in S : Min(S) <= y
  BY Zenon, <1>2, MinExists
<1> DEFINE l == Min(S)
<1>4. l \in DOMAIN m /\ l \in Nat /\ (~m[l].used \/ l = MEM_SIZE)
  BY Zenon, <1>1, <1>3
<1>5. ASSUME NEW q \in DOMAIN m, q < l PROVE m[q].used
  <2>1. q \notin S
    BY <1>1, <1>3, <1>4, <1>5
  <2> QED BY <2>1, <1>1
<1> QED BY Zenon, <1>2, <1>4, <1>5 DEF Lowest

UsedIn(m) == {q \in DOMAIN m \ {MEM_SIZE} : m[q].used}

Fits(m, p, n) ==
  /\ n \in Nat /\ n <= Room(m, p) /\ Room(m, p) < n + MEM_ALIGNMENT + HDR + 2 * MIN_SIZE

\* A caller is served if only the block p changes and p fits.
LEMMA ServedWith ==
  ASSUME NEW m, NEW g, Served(m, g), NEW s, NEW p, NEW n,
         UsedIn(s) = UsedIn(m) \cup {p}, \A q \in UsedIn(m) \ {p} : s[q].next = m[q].next,
         Fits(s, p, n)
  PROVE  Served(s, With(g, p, n)) /\ (p \in DOMAIN g => Served(s, [g EXCEPT ![p] = n]))
<1>1. DOMAIN g = UsedIn(m) /\ g \in [DOMAIN g -> Nat]
  BY Zenon DEF Served, UsedIn
<1>2. \A q \in UsedIn(m) \ {p} : Room(s, q) = Room(m, q)
  BY Zenon DEF Room
<1>3. ASSUME NEW h, h \in [UsedIn(s) -> Nat], h[p] = n, \A q \in UsedIn(m) \ {p} : h[q] = g[q]
      PROVE  Served(s, h)
  BY Zenon, <1>1, <1>2, <1>3 DEF Served, Fits, UsedIn
<1>4. /\ With(g, p, n) \in [UsedIn(s) -> Nat] /\ With(g, p, n)[p] = n
      /\ \A q \in UsedIn(m) \ {p} : With(g, p, n)[q] = g[q]
  BY Zenon, <1>1 DEF With, Fits
<1>5. ASSUME p \in DOMAIN g
      PROVE  /\ [g EXCEPT ![p] = n] \in [UsedIn(s) -> Nat] /\ [g EXCEPT ![p] = n][p] = n
             /\ \A q \in UsedIn(m) \ {p} : [g EXCEPT ![p] = n][q] = g[q]
  BY Zenon, <1>1, <1>5 DEF Fits
<1> QED BY Zenon, <1>3, <1>4, <1>5

\* ... or if p is no longer used.
LEMMA ServedWithout ==
  ASSUME NEW m, NEW g, Served(m, g), NEW s, NEW p,
         UsedIn(s) = UsedIn(m) \ {p}, \A q \in UsedIn(m) \ {p} : s[q].next = m[q].next
  PROVE  Served(s, Without(g, p))
<1>1. DOMAIN g = UsedIn(m) /\ g \in [DOMAIN g -> Nat]
  BY Zenon DEF Served, UsedIn
<1>2. \A q \in UsedIn(m) \ {p} : Room(s, q) = Room(m, q)
  BY Zenon DEF Room
<1>3. /\ DOMAIN Without(g, p) = UsedIn(s) /\ Without(g, p) \in [UsedIn(s) -> Nat]
      /\ \A q \in UsedIn(s) : Without(g, p)[q] = g[q]
  BY Zenon, <1>1 DEF Without
<1> QED BY Zenon, <1>1, <1>2, <1>3 DEF Served, UsedIn

-----------------------------------------------------------------------------
\* The facts about blocks that the steps below use.
LEMMA ChainFacts ==
  ASSUME NEW m, Chain(m)
  PROVE  /\ m \in [DOMAIN m -> HeaderSet]
         /\ \A q \in DOMAIN m : q \in Nat /\ q <= MEM_SIZE /\ q \in Offsets
         /\ MEM_SIZE \in DOMAIN m /\ m[MEM_SIZE].used
         /\ \A q \in DOMAIN m \ {MEM_SIZE} :
              /\ m[q].next \in DOMAIN m /\ q < m[q].next /\ m[q].next \in Nat
              /\ m[q].next \in Offsets /\ q < MEM_SIZE /\ m[q] \in HeaderSet
              /\ \A r \in DOMAIN m : r <= q \/ m[q].next <= r
<1>1. \A q \in DOMAIN m : q \in Nat /\ q <= MEM_SIZE /\ q \in Offsets
  BY Sizes0 DEF Chain, Typed, Offsets
<1> QED BY <1>1, Sizes0 DEF Chain, Typed

\* Cutting a block that was free, or whose rest is not followed by a free block, leaves
\* no two free blocks in a row.
LEMMA CutHoles ==
  ASSUME NEW m, Chain(m), HolesPlugged(m), NEW p \in DOMAIN m \ {MEM_SIZE}, NEW at \in Nat,
         p < at, at < m[p].next, m[m[p].next].used, NEW s, IsCut(m, p, at, s)
  PROVE  HolesPlugged(s)
<1>1. /\ \A q \in DOMAIN m : q \in Nat /\ q <= MEM_SIZE
      /\ \A q \in DOMAIN m \ {MEM_SIZE} : m[q].next \in DOMAIN m /\ q < m[q].next
  BY Zenon, ChainFacts
<1>2. SUFFICES ASSUME NEW q \in DOMAIN s \ {MEM_SIZE}, ~s[q].used PROVE s[s[q].next].used
  BY Zenon DEF HolesPlugged
<1>3. m[p].next # p
  BY <1>1
<1>4. CASE q = at
  BY <1>4, <1>1, <1>3 DEF IsCut
<1>5. CASE q # at
  <2>1. q \in DOMAIN m /\ q # p /\ ~m[q].used /\ s[q].next = m[q].next
    BY Zenon, <1>5, <1>2 DEF IsCut
  <2>2. m[m[q].next].used /\ m[q].next \in DOMAIN m
    BY Zenon, <2>1, <1>1, <1>2 DEF HolesPlugged
  <2> QED BY <2>1, <2>2 DEF IsCut
<1> QED BY Zenon, <1>4, <1>5

\* The used blocks and their ends after a cut.
LEMMA CutUsed ==
  ASSUME NEW m, Chain(m), NEW p \in DOMAIN m \ {MEM_SIZE}, NEW at \in Nat, at # MEM_SIZE,
         NEW s, IsCut(m, p, at, s)
  PROVE  /\ UsedIn(s) = UsedIn(m) \cup {p}
         /\ \A q \in UsedIn(m) \ {p} : s[q].next = m[q].next
<1>1. \A q \in UsedIn(m) \ {p} : s[q].next = m[q].next
  BY Zenon DEF IsCut, UsedIn
<1>2. \A q \in DOMAIN s \ {MEM_SIZE} : s[q].used <=> q = p \/ (q \in DOMAIN m /\ m[q].used)
  <2> TAKE q \in DOMAIN s \ {MEM_SIZE}
  <2>1. CASE q = at
    BY Zenon, <2>1 DEF IsCut
  <2>2. CASE q = p
    BY Zenon, <2>2 DEF IsCut
  <2>3. CASE q # p /\ q # at
    BY <2>3 DEF IsCut
  <2> QED BY Zenon, <2>1, <2>2, <2>3
<1>3. DOMAIN s = DOMAIN m \cup {at} /\ at \notin DOMAIN m
  BY Zenon DEF IsCut
<1>4. UsedIn(s) = UsedIn(m) \cup {p}
  BY Zenon, <1>2, <1>3 DEF UsedIn
<1> QED BY Zenon, <1>1, <1>4

\* The step of mem_malloc that cuts is a cut.
LEMMA MallocCut ==
  ASSUME NEW m, Chain(m), NEW p \in DOMAIN m \ {MEM_SIZE}, NEW at \in Nat,
         p < at, at < m[p].next
  PROVE  IsCut(m, p, at,
           LinkBack(With([m EXCEPT ![p] = [@ EXCEPT !.next = at, !.used = TRUE]],
                         at, Header(m[p].next, p, FALSE)), m[p].next, at))
<1> DEFINE n == m[p].next
           s == LinkBack(With([m EXCEPT ![p] = Taken(m[p], at)], at, FreeHeader(n, p)), n, at)
<1>1. /\ n \in DOMAIN m /\ n \in Nat /\ n \in Offsets /\ p \in Offsets /\ p \in Nat
      /\ m \in [DOMAIN m -> HeaderSet] /\ m[p] \in HeaderSet /\ n # p
      /\ at \notin DOMAIN m /\ at # n
  BY ChainFacts
<1>2. at \in Offsets
  BY <1>1, Sizes0 DEF Offsets
<1>3. /\ Taken(m[p], at) \in HeaderSet /\ Taken(m[p], at).next = at
      /\ Taken(m[p], at).prev = m[p].prev /\ Taken(m[p], at).used
  BY Zenon, <1>1, <1>2, SetNextUsed
<1>4. IsCutOff(m, p, at, n, Taken(m[p], at), s)
  BY Zenon, <1>1, <1>2, <1>3, CutFields
<1> HIDE DEF s
<1>5. IsCut(m, p, at, s)
  BY Zenon, <1>1, <1>3, <1>4 DEF IsCutOff, IsCut
<1> QED BY Zenon, <1>5 DEF s, Taken, FreeHeader

\* mem_malloc keeps the invariant, and the ends of the blocks that are in use.
LEMMA MallocStep ==
  ASSUME MemInv, NEW n \in Sizes, mem_malloc(n)
  PROVE  MemInv' /\ \A q \in UsedIn(mem) : mem'[q].next = mem[q].next
<1> DEFINE size == Adjusted(n)
           C == Candidates(size)
           p == Min(C)
           ptr2 == p + HDR + size
<1>1. n \in Nat /\ Adjusted(n) # TooLarge
  BY LwipMemAssumption DEF mem_malloc
<1>2. /\ size \in Nat /\ n <= size /\ MIN_SIZE <= size /\ size <= MEM_SIZE
      /\ size < n + MEM_ALIGNMENT + MIN_SIZE
  BY Zenon, <1>1, AdjustedIs
<1>3. Chain(mem) /\ HolesPlugged(mem) /\ Lowest(mem, lfree) /\ Served(mem, given)
  BY Zenon DEF MemInv
<1>4. /\ mem \in [DOMAIN mem -> HeaderSet]
      /\ \A q \in DOMAIN mem : q \in Nat /\ q <= MEM_SIZE /\ q \in Offsets
      /\ MEM_SIZE \in DOMAIN mem /\ mem[MEM_SIZE].used
      /\ \A q \in DOMAIN mem \ {MEM_SIZE} :
           /\ mem[q].next \in DOMAIN mem /\ q < mem[q].next /\ mem[q].next \in Nat
           /\ mem[q].next \in Offsets /\ q < MEM_SIZE /\ mem[q] \in HeaderSet
           /\ \A r \in DOMAIN mem : r <= q \/ mem[q].next <= r
  BY Zenon, <1>3, ChainFacts
<1>5. C # {} /\ C \in SUBSET Nat
  BY Zenon, <1>4 DEF mem_malloc, Candidates, Blocks
<1>6. p \in C
  BY Zenon, <1>5, MinExists
<1>7. /\ p \in DOMAIN mem \ {MEM_SIZE} /\ ~mem[p].used /\ Room(mem, p) >= size
      /\ p >= lfree /\ p \in Nat
  BY Zenon, <1>6, <1>4 DEF Candidates, Blocks
<1>8. /\ mem' = IF Splits(p, size)
                THEN LinkBack(With([mem EXCEPT ![p] = [@ EXCEPT !.next = ptr2, !.used = TRUE]],
                                   ptr2, Header(mem[p].next, p, FALSE)),
                              mem[p].next, ptr2)
                ELSE [mem EXCEPT ![p] = Busy(mem[p])]
      /\ lfree' = LowestAfter(mem', p)
      /\ given' = With(given, p, n)
  BY Zenon DEF mem_malloc, Busy
<1> HIDE DEF C, p, size
<1>9. lfree \in DOMAIN mem /\ lfree \in Nat /\ ~mem[lfree].used
  BY Zenon, <1>3, <1>4, <1>7, Sizes0 DEF Lowest
<1>10. mem[mem[p].next].used
  BY Zenon, <1>3, <1>7 DEF HolesPlugged
<1>11. p \notin UsedIn(mem)
  BY Zenon, <1>7 DEF UsedIn
<1>12. ASSUME Chain(mem'), HolesPlugged(mem'), UsedIn(mem') = UsedIn(mem) \cup {p},
              \A q \in UsedIn(mem) \ {p} : mem'[q].next = mem[q].next,
              Fits(mem', p, n), DOMAIN mem \subseteq DOMAIN mem',
              \A q \in DOMAIN mem' : q < p => q \in DOMAIN mem
       PROVE  MemInv' /\ \A q \in UsedIn(mem) : mem'[q].next = mem[q].next
  <2>1. Served(mem', given')
    <3>1. Served(mem', With(given, p, n))
      BY <1>3, <1>12, ServedWith, Zenon
    <3> QED BY Zenon, <3>1, <1>8
  <2>2. \A q \in DOMAIN mem' : q < lfree => mem'[q].used
    <3> TAKE q \in DOMAIN mem'
    <3> HAVE q < lfree
    <3>1. q \in DOMAIN mem /\ q # MEM_SIZE /\ mem[q].used
      BY <1>3, <1>4, <1>7, <1>9, <1>12, ChainFacts DEF Lowest
    <3> QED BY Zenon, <3>1, <1>12 DEF UsedIn
  <2>3. Lowest(mem', lfree')
    <3>1. CASE p = lfree
      BY ZenonT(40), <3>1, <2>2, <1>7, <1>8, <1>12, NextFreeIs DEF LowestAfter
    <3>2. CASE p # lfree
      <4>1. lfree' = lfree /\ lfree \in DOMAIN mem'
        BY Zenon, <3>2, <1>8, <1>9, <1>12 DEF LowestAfter
      <4>2. lfree # MEM_SIZE => ~mem'[lfree].used
        BY Zenon, <3>2, <4>1, <1>9, <1>12 DEF UsedIn
      <4> QED BY Zenon, <4>1, <4>2, <2>2 DEF Lowest
    <3> QED BY Zenon, <3>1, <3>2
  <2> QED BY Zenon, <2>1, <2>3, <1>11, <1>12 DEF MemInv
<1>13. CASE Splits(p, size)
  <2>1. /\ p + HDR + MIN_SIZE <= ptr2 /\ ptr2 + HDR + MIN_SIZE <= mem[p].next /\ ptr2 \in Nat
        /\ p < ptr2 /\ ptr2 < mem[p].next /\ ptr2 # MEM_SIZE
    BY <1>2, <1>4, <1>7, <1>13, Sizes0 DEF Splits, Room
  <2> HIDE DEF ptr2
  <2>2. IsCut(mem, p, ptr2, mem')
    <3>1. mem' = LinkBack(With([mem EXCEPT ![p] = [@ EXCEPT !.next = ptr2, !.used = TRUE]],
                               ptr2, Header(mem[p].next, p, FALSE)), mem[p].next, ptr2)
      BY <1>8, <1>13, Zenon
    <3>2. IsCut(mem, p, ptr2, LinkBack(With([mem EXCEPT ![p] = [@ EXCEPT !.next = ptr2, !.used = TRUE]],
                               ptr2, Header(mem[p].next, p, FALSE)), mem[p].next, ptr2))
      BY <2>1, <1>3, <1>7, MallocCut, Zenon
    <3> QED BY <3>1, <3>2, Zenon
  <2>3. Chain(mem')
    BY Zenon, <2>1, <2>2, <1>3, <1>7, CutChain
  <2>4. HolesPlugged(mem')
    BY <2>1, <2>2, <1>3, <1>7, <1>10, CutHoles
  <2>5. /\ UsedIn(mem') = UsedIn(mem) \cup {p}
        /\ \A q \in UsedIn(mem) \ {p} : mem'[q].next = mem[q].next
    BY <2>1, <2>2, <1>3, <1>7, CutUsed
  <2>6. Room(mem', p) = size
    BY <2>2, <1>2, <1>7, Sizes0 DEF IsCut, Room, ptr2
  <2>7. Fits(mem', p, n)
    BY <2>6, <1>1, <1>2, Sizes0 DEF Fits
  <2>8. DOMAIN mem' = DOMAIN mem \cup {ptr2}
    BY Zenon, <2>2 DEF IsCut
  <2> QED BY <2>1, <2>3, <2>4, <2>5, <2>7, <2>8, <1>7, <1>12
<1>14. CASE ~Splits(p, size)
  <2>1. IsMarked(mem, p, mem') /\ mem'[p].used
    BY Zenon, <1>3, <1>7, <1>8, <1>14, MarkFields
  <2>2. Chain(mem')
    BY <2>1, <1>3, <1>7, MarkChain
  <2>3. UsedIn(mem') = UsedIn(mem) \cup {p}
    BY Zenon, <2>1, <1>7 DEF IsMarked, UsedIn
  <2>4. HolesPlugged(mem')
    <3> SUFFICES ASSUME NEW q \in DOMAIN mem' \ {MEM_SIZE}, ~mem'[q].used
                 PROVE  mem'[mem'[q].next].used
      BY Zenon DEF HolesPlugged
    <3>1. q # p /\ q \in DOMAIN mem \ {MEM_SIZE} /\ mem'[q].next = mem[q].next /\ ~mem[q].used
      BY Zenon, <2>1 DEF IsMarked
    <3>2. mem[mem[q].next].used /\ mem[q].next \in DOMAIN mem
      BY Zenon, <3>1, <1>3, <1>4 DEF HolesPlugged
    <3> QED BY Zenon, <3>1, <3>2, <2>1 DEF IsMarked
  <2>5. Room(mem', p) = Room(mem, p) /\ mem[p].next \in Nat
    BY Zenon, <2>1, <1>4, <1>7 DEF IsMarked, Room
  <2>6. Fits(mem', p, n)
    BY <2>5, <1>1, <1>2, <1>7, <1>14, Sizes0 DEF Fits, Splits, Room
  <2>7. \A q \in UsedIn(mem) \ {p} : mem'[q].next = mem[q].next
    BY Zenon, <2>1 DEF IsMarked, UsedIn
  <2> QED BY <2>1, <2>2, <2>3, <2>4, <2>6, <2>7, <1>12 DEF IsMarked
<1> QED BY Zenon, <1>13, <1>14

-----------------------------------------------------------------------------
\* Joining a free block p with the free block behind it keeps the lowest free block, the
\* used blocks and their ends.
LEMMA JoinUsed ==
  ASSUME NEW m, Chain(m), NEW p \in DOMAIN m \ {MEM_SIZE}, ~m[m[p].next].used,
         NEW s, IsJoined(m, p, s)
  PROVE  /\ UsedIn(s) = UsedIn(m)
         /\ \A q \in UsedIn(m) \ {p} : s[q].next = m[q].next
         /\ \A l : Lowest(m, l) /\ l # m[p].next => Lowest(s, l)
<1> DEFINE n == m[p].next
<1>1. /\ \A q \in DOMAIN m : q \in Nat /\ q <= MEM_SIZE
      /\ n \in DOMAIN m /\ m[MEM_SIZE].used
  BY Zenon, ChainFacts
<1>2. DOMAIN s = DOMAIN m \ {n} /\ (\A q \in DOMAIN s : s[q].used = m[q].used)
  BY Zenon DEF IsJoined
<1>3. \A q \in DOMAIN s : q # p => s[q].next = m[q].next
  BY Zenon DEF IsJoined
<1>4. UsedIn(s) = UsedIn(m)
  BY Zenon, <1>1, <1>2 DEF UsedIn
<1>5. \A q \in UsedIn(m) \ {p} : s[q].next = m[q].next
  BY Zenon, <1>1, <1>2, <1>3 DEF UsedIn
<1>6. \A l : Lowest(m, l) /\ l # n => Lowest(s, l)
  BY Zenon, <1>1, <1>2 DEF Lowest
<1> QED BY Zenon, <1>4, <1>5, <1>6

\* mem_free keeps the invariant, and the ends of the other blocks that are in use.
LEMMA FreeStep ==
  ASSUME MemInv, NEW p \in DOMAIN given, mem_free(p)
  PROVE  MemInv' /\ \A q \in UsedIn(mem) \ {p} : mem'[q].next = mem[q].next
<1> DEFINE m0 == [mem EXCEPT ![p] = Freed(mem[p])]
           l0 == IF p < lfree THEN p ELSE lfree
           n == m0[p].next
           forward == n # p /\ ~m0[n].used /\ n # MEM_SIZE
           m1 == IF forward THEN Join(m0, p) ELSE m0
           l1 == IF forward /\ l0 = n THEN p ELSE l0
           b == m1[p].prev
           backward == b # p /\ ~m1[b].used
           m2 == IF backward
                 THEN LinkBack(Without([m1 EXCEPT ![b] = [@ EXCEPT !.next = m1[p].next]], p),
                               m1[p].next, b)
                 ELSE m1
<1>1. /\ mem' = m2 /\ lfree' = (IF backward /\ l1 = p THEN b ELSE l1)
      /\ given' = Without(given, p)
  BY Zenon DEF mem_free, plug_holes, Freed, Join
<1> HIDE DEF m0, m1, m2
<1>2. Chain(mem) /\ HolesPlugged(mem) /\ Lowest(mem, lfree) /\ Served(mem, given)
  BY Zenon DEF MemInv
<1>3. p \in DOMAIN mem \ {MEM_SIZE} /\ mem[p].used /\ p \in UsedIn(mem)
  BY Zenon, <1>2 DEF Served, UsedIn
<1>4. IsMarked(mem, p, m0) /\ ~m0[p].used
  BY Zenon, <1>2, <1>3, MarkFields DEF m0
<1>5. Chain(m0)
  BY Zenon, <1>2, <1>3, <1>4, MarkChain
<1>6. UsedIn(m0) = UsedIn(mem) \ {p} /\ \A q \in UsedIn(mem) \ {p} : m0[q].next = mem[q].next
  BY Zenon, <1>3, <1>4 DEF IsMarked, UsedIn
<1>7. /\ \A q \in DOMAIN mem : q \in Nat /\ q <= MEM_SIZE
      /\ p \in Nat /\ p < MEM_SIZE /\ p \in DOMAIN m0 \ {MEM_SIZE} /\ DOMAIN m0 = DOMAIN mem
      /\ lfree \in DOMAIN mem /\ lfree \in Nat /\ l0 \in Nat /\ l0 <= p
  <2>1. \A q \in DOMAIN mem : q \in Nat /\ q <= MEM_SIZE
    BY Zenon, <1>2, ChainFacts
  <2>2. lfree \in DOMAIN mem
    BY Zenon, <1>2 DEF Lowest
  <2> QED BY <2>1, <2>2, <1>3, <1>4, Sizes0 DEF IsMarked
<1>8. Lowest(m0, l0)
  BY <1>2, <1>3, <1>4, <1>7 DEF Lowest, IsMarked
<1>9. /\ n \in DOMAIN m0 /\ p < n /\ n \in Nat
      /\ \A q \in DOMAIN m0 : q \in Nat /\ q <= MEM_SIZE
      /\ \A q \in DOMAIN m0 \ {MEM_SIZE} : m0[q].next \in DOMAIN m0 /\ q < m0[q].next
  BY Zenon, <1>5, <1>7, ChainFacts
<1>10. \A q \in DOMAIN m0 \ {MEM_SIZE} :
         ~m0[q].used => m0[m0[q].next].used \/ q = p \/ m0[q].next = p
  <2> SUFFICES ASSUME NEW q \in DOMAIN m0 \ {MEM_SIZE}, ~m0[q].used, q # p, m0[q].next # p
               PROVE  m0[m0[q].next].used
    BY Zenon
  <2>1. q \in DOMAIN mem /\ ~mem[q].used /\ m0[q].next = mem[q].next
    BY Zenon, <1>4 DEF IsMarked
  <2>2. mem[mem[q].next].used /\ m0[q].next \in DOMAIN mem
    BY Zenon, <2>1, <1>2, <1>7, <1>9 DEF HolesPlugged
  <2> QED BY Zenon, <2>1, <2>2, <1>4 DEF IsMarked
<1>11. l1 = l0
  BY Zenon, <1>7, <1>9
<1>12. /\ Chain(m1) /\ p \in DOMAIN m1 \ {MEM_SIZE} /\ ~m1[p].used /\ m1[m1[p].next].used
       /\ \A q \in DOMAIN m1 \ {MEM_SIZE} : ~m1[q].used => m1[m1[q].next].used \/ m1[q].next = p
       /\ Lowest(m1, l0)
       /\ UsedIn(m1) = UsedIn(mem) \ {p} /\ \A q \in UsedIn(mem) \ {p} : m1[q].next = mem[q].next
  <2>1. CASE ~forward
    <3>1. m1 = m0 /\ m0[n].used
      BY SMTT(20), <2>1, <1>5, <1>9, ChainFacts DEF m1
    <3> QED BY <3>1, <1>4, <1>5, <1>6, <1>7, <1>8, <1>10
  <2>2. CASE forward
    <3>1. IsJoined(m0, p, m1)
      BY Zenon, <2>2, <1>5, <1>7, JoinFields DEF m1
    <3>2. Chain(m1)
      BY Zenon, <3>1, <2>2, <1>5, <1>7, JoinChain
    <3>3. /\ UsedIn(m1) = UsedIn(m0) /\ Lowest(m1, l0)
          /\ \A q \in UsedIn(m0) \ {p} : m1[q].next = m0[q].next
      BY <3>1, <2>2, <1>5, <1>7, <1>8, <1>9, JoinUsed
    <3>4. /\ DOMAIN m1 = DOMAIN m0 \ {n} /\ p \in DOMAIN m1
          /\ \A q \in DOMAIN m1 : q # p => m1[q].next = m0[q].next
          /\ \A q \in DOMAIN m1 : m1[q].used = m0[q].used
          /\ m1[p].next = m0[n].next
      BY Zenon, <3>1 DEF IsJoined
    <3>5. m0[m0[n].next].used /\ m0[n].next \in DOMAIN m1
      BY <3>4, <2>2, <1>7, <1>9, <1>10
    <3>6. m1[m1[p].next].used
      BY Zenon, <3>4, <3>5
    <3>7. \A q \in DOMAIN m1 \ {MEM_SIZE} : ~m1[q].used => m1[m1[q].next].used \/ m1[q].next = p
      <4> SUFFICES ASSUME NEW q \in DOMAIN m1 \ {MEM_SIZE}, ~m1[q].used, q # p, m1[q].next # p
                   PROVE  m1[m1[q].next].used
        BY Zenon, <3>6
      <4>1. m0[m0[q].next].used /\ m1[q].next = m0[q].next
        BY Zenon, <3>4, <1>10
      <4>2. m1[q].next \in DOMAIN m1
        BY Zenon, <3>2, ChainFacts
      <4> QED BY Zenon, <4>1, <4>2, <3>4
    <3> QED BY <3>2, <3>3, <3>4, <3>6, <3>7, <1>4, <1>6, <1>7
  <2> QED BY Zenon, <2>1, <2>2
<1>13. /\ \A q \in DOMAIN m1 : q \in Nat /\ q <= MEM_SIZE
       /\ \A q \in DOMAIN m1 \ {MEM_SIZE} : m1[q].next \in DOMAIN m1 /\ q < m1[q].next
       /\ m1[MEM_SIZE].used
  BY Zenon, <1>12, ChainFacts
<1>14. p # 0 => b \in DOMAIN m1 \ {MEM_SIZE} /\ b < p /\ m1[b].next = p
  BY <1>7, <1>12, <1>13 DEF Chain
<1>15. p = 0 => b = p
  BY Zenon, <1>12 DEF Chain, Typed
<1>16. ASSUME Chain(mem'), HolesPlugged(mem'), Lowest(mem', lfree'), UsedIn(mem') = UsedIn(m1),
              \A q \in UsedIn(m1) : mem'[q].next = m1[q].next
       PROVE  MemInv' /\ \A q \in UsedIn(mem) \ {p} : mem'[q].next = mem[q].next
  <2>1. UsedIn(mem') = UsedIn(mem) \ {p} /\ \A q \in UsedIn(mem) \ {p} : mem'[q].next = mem[q].next
    BY Zenon, <1>12, <1>16
  <2>2. Served(mem', Without(given, p))
    BY Zenon, <2>1, <1>2, ServedWithout
  <2> QED BY Zenon, <2>1, <2>2, <1>1, <1>16 DEF MemInv
<1>17. CASE ~backward
  <2>1. mem' = m1 /\ lfree' = l0
    BY Zenon, <1>1, <1>11, <1>17 DEF m2
  <2>2. HolesPlugged(m1)
    <3> SUFFICES ASSUME NEW q \in DOMAIN m1 \ {MEM_SIZE}, ~m1[q].used, m1[q].next = p
                 PROVE  FALSE
      BY Zenon, <1>12 DEF HolesPlugged
    <3>1. b = q
      BY Zenon, <1>7, <1>12 DEF Chain
    <3> QED BY <3>1, <1>13, <1>17
  <2> QED BY Zenon, <2>1, <2>2, <1>12, <1>16
<1>18. CASE backward
  <2>1. b \in DOMAIN m1 \ {MEM_SIZE} /\ b < p /\ b \in Nat /\ m1[b].next = p /\ ~m1[b].used
    BY Zenon, <1>13, <1>14, <1>15, <1>18
  <2>2. l0 <= b
    BY <2>1, <1>7, <1>12 DEF Lowest
  <2>3. mem' = Join(m1, b) /\ lfree' = l0
    <3>1. mem' = LinkBack(Without([m1 EXCEPT ![b] = [@ EXCEPT !.next = m1[p].next]], p),
                          m1[p].next, b)
      BY Zenon, <1>1, <1>18 DEF m2
    <3>2. lfree' = l0
      BY <2>1, <2>2, <1>1, <1>7, <1>11
    <3> QED BY <3>1, <3>2, <2>1, Zenon DEF Join
  <2> HIDE DEF b
  <2>4. IsJoined(m1, b, mem')
    BY Zenon, <2>1, <2>3, <1>7, <1>12, JoinFields
  <2>5. Chain(mem')
    BY Zenon, <2>1, <2>4, <1>7, <1>12, JoinChain
  <2>6. /\ UsedIn(mem') = UsedIn(m1) /\ Lowest(mem', l0)
        /\ \A q \in UsedIn(m1) \ {b} : mem'[q].next = m1[q].next
    BY <2>1, <2>2, <2>4, <1>7, <1>12, JoinUsed
  <2>7. b \notin UsedIn(m1)
    BY Zenon, <2>1 DEF UsedIn
  <2>8. HolesPlugged(mem')
    <3>1. /\ DOMAIN mem' = DOMAIN m1 \ {p} /\ b \in DOMAIN mem'
          /\ \A q \in DOMAIN mem' : q # b => mem'[q].next = m1[q].next
          /\ \A q \in DOMAIN mem' : mem'[q].used = m1[q].used
          /\ mem'[b].next = m1[p].next
      BY Zenon, <2>1, <2>4 DEF IsJoined
    <3> SUFFICES ASSUME NEW q \in DOMAIN mem' \ {MEM_SIZE}, ~mem'[q].used
                 PROVE  mem'[mem'[q].next].used
      BY Zenon DEF HolesPlugged
    <3>2. mem'[q].next \in DOMAIN mem'
      BY Zenon, <2>5, ChainFacts
    <3>3. CASE q = b
      BY <3>1, <3>2, <3>3, <1>12
    <3>4. CASE q # b
      <4>1. m1[q].next # p
        BY Zenon, <3>1, <3>2, <3>4
      <4> QED BY <4>1, <3>1, <3>2, <3>4, <1>12
    <3> QED BY Zenon, <3>3, <3>4
  <2> QED BY Zenon, <2>3, <2>5, <2>6, <2>7, <2>8, <1>16
<1> QED BY Zenon, <1>17, <1>18

-----------------------------------------------------------------------------
\* The step of mem_trim that moves the free block behind is a cut of the joined block.
LEMMA TrimJoined ==
  ASSUME NEW m, Chain(m), NEW p \in DOMAIN m \ {MEM_SIZE}, m[p].used, m[p].next # MEM_SIZE,
         NEW at \in Nat, p < at, at < m[p].next
  PROVE  IsCut(Join(m, p), p, at,
           LinkBack(With([Without(m, m[p].next) EXCEPT ![p] = [@ EXCEPT !.next = at]],
                         at, Header(m[m[p].next].next, p, FALSE)), m[m[p].next].next, at))
<1> DEFINE n == m[p].next
           o == m[n].next
           j == Join(m, p)
           w == Without(m, n)
           hp == [m[p] EXCEPT !.next = at]
           s == LinkBack(With([w EXCEPT ![p] = hp], at, FreeHeader(o, p)), o, at)
<1>1. /\ n \in DOMAIN m \ {MEM_SIZE} /\ n \in Nat /\ p \in Offsets /\ p \in Nat
      /\ m \in [DOMAIN m -> HeaderSet] /\ m[p] \in HeaderSet /\ n # p
      /\ at \notin DOMAIN m /\ n <= MEM_SIZE /\ p # n
  BY ChainFacts
<1>2. o \in DOMAIN m /\ o \in Nat /\ o \in Offsets /\ n < o
  BY Zenon, <1>1, ChainFacts
<1>3. at \in Offsets /\ o # at /\ o # p
  BY <1>1, <1>2, Sizes0 DEF Offsets
<1>4. DOMAIN w = DOMAIN m \ {n} /\ \A q \in DOMAIN w : w[q] = m[q]
  BY Zenon DEF Without
<1>5. w \in [DOMAIN w -> HeaderSet] /\ w[p] = m[p] /\ p \in DOMAIN w
  BY Zenon, <1>1, <1>4 DEF Without
<1>0. hp = [m[p] EXCEPT !.next = at]
  BY Zenon
<1> HIDE DEF hp, w
<1>6. hp \in HeaderSet /\ hp.next = at /\ hp.prev = m[p].prev /\ hp.used = m[p].used
  <2>1. \A h \in HeaderSet : \A g : g = [h EXCEPT !.next = at] =>
          g \in HeaderSet /\ g.next = at /\ g.prev = h.prev /\ g.used = h.used
    BY <1>3, SetNext, Zenon
  <2> QED BY <2>1, <1>0, <1>1, Zenon
<1>7. IsCutOff(w, p, at, o, hp, s)
  BY Zenon, <1>1, <1>2, <1>3, <1>4, <1>5, <1>6, CutFields
<1>8. IsJoined(m, p, j)
  BY Zenon, <1>1, JoinFields
<1> HIDE DEF s, j
<1>9. /\ DOMAIN s = DOMAIN w \cup {at} /\ s \in [DOMAIN s -> HeaderSet]
      /\ s[at].next = o /\ s[at].prev = p /\ ~s[at].used
      /\ s[p].next = at /\ s[p].prev = m[p].prev /\ s[p].used
      /\ \A q \in DOMAIN w \ {p} :
           /\ s[q].next = m[q].next /\ s[q].used = m[q].used
           /\ s[q].prev = IF q = o /\ q # MEM_SIZE THEN at ELSE m[q].prev
  BY <1>4, <1>6, <1>7 DEF IsCutOff
<1>10. /\ DOMAIN j = DOMAIN w /\ j[p].next = o /\ j[p].prev = m[p].prev
       /\ \A q \in DOMAIN w \ {p} :
            /\ j[q].next = m[q].next /\ j[q].used = m[q].used
            /\ j[q].prev = IF q = o /\ q # MEM_SIZE THEN p ELSE m[q].prev
  BY Zenon, <1>3, <1>4, <1>8 DEF IsJoined
<1>11. IsCut(j, p, at, s)
  BY <1>1, <1>4, <1>9, <1>10 DEF IsCut
<1>12. s = LinkBack(With([w EXCEPT ![p] = [@ EXCEPT !.next = at]],
                         at, Header(o, p, FALSE)), o, at)
  BY Zenon, <1>5 DEF s, hp, FreeHeader
<1> QED BY Zenon, <1>11, <1>12 DEF j, w

\* The step of mem_trim that makes a new free block is a cut.
LEMMA TrimCut ==
  ASSUME NEW m, Chain(m), NEW p \in DOMAIN m \ {MEM_SIZE}, m[p].used, NEW at \in Nat,
         p < at, at < m[p].next
  PROVE  IsCut(m, p, at,
           LinkBack(With([m EXCEPT ![p] = [@ EXCEPT !.next = at]],
                         at, Header(m[p].next, p, FALSE)), m[p].next, at))
<1> DEFINE n == m[p].next
           hp == [m[p] EXCEPT !.next = at]
           s == LinkBack(With([m EXCEPT ![p] = hp], at, FreeHeader(n, p)), n, at)
<1>1. /\ n \in DOMAIN m /\ n \in Nat /\ n \in Offsets /\ p \in Offsets /\ p \in Nat
      /\ m \in [DOMAIN m -> HeaderSet] /\ m[p] \in HeaderSet /\ n # p
      /\ at \notin DOMAIN m /\ at # n /\ n <= MEM_SIZE
  BY ChainFacts
<1>2. at \in Offsets
  BY <1>1, Sizes0 DEF Offsets
<1>0. hp = [m[p] EXCEPT !.next = at]
  BY Zenon
<1> HIDE DEF hp
<1>3. hp \in HeaderSet /\ hp.next = at /\ hp.prev = m[p].prev /\ hp.used = m[p].used
  <2>1. \A h \in HeaderSet : \A g : g = [h EXCEPT !.next = at] =>
          g \in HeaderSet /\ g.next = at /\ g.prev = h.prev /\ g.used = h.used
    BY <1>2, SetNext, Zenon
  <2> QED BY <2>1, <1>0, <1>1, Zenon
<1>4. IsCutOff(m, p, at, n, hp, s)
  BY Zenon, <1>1, <1>2, <1>3, CutFields
<1> HIDE DEF s
<1>5. IsCut(m, p, at, s)
  BY Zenon, <1>1, <1>3, <1>4 DEF IsCutOff, IsCut
<1> QED BY Zenon, <1>5 DEF s, hp, FreeHeader

\* The lowest free block after a cut of a block in use.
LEMMA CutLowest ==
  ASSUME NEW m, Chain(m), NEW p \in DOMAIN m \ {MEM_SIZE}, NEW at \in Nat, p < at,
         at < m[p].next, m[p].used, NEW l, Lowest(m, l), NEW s, IsCut(m, p, at, s)
  PROVE  Lowest(s, IF at < l THEN at ELSE l)
<1>1. /\ \A q \in DOMAIN m : q \in Nat /\ q <= MEM_SIZE
      /\ l \in DOMAIN m /\ l \in Nat /\ p \in Nat
  BY Zenon, ChainFacts DEF Lowest
<1>2. /\ DOMAIN s = DOMAIN m \cup {at} /\ ~s[at].used /\ s[p].used /\ at \notin DOMAIN m
      /\ \A q \in DOMAIN m \ {p} : s[q].used = m[q].used
  BY Zenon DEF IsCut
<1>3. /\ l # p \/ l = MEM_SIZE
      /\ ~m[l].used \/ l = MEM_SIZE
      /\ \A q \in DOMAIN m : q < l => m[q].used
  BY Zenon DEF Lowest
<1>4. CASE at < l
  BY <1>1, <1>2, <1>3, <1>4 DEF Lowest
<1>5. CASE l <= at
  BY <1>1, <1>2, <1>3, <1>5 DEF Lowest
<1> QED BY <1>1, <1>4, <1>5

\* mem_trim keeps the invariant, and the ends of the other blocks that are in use.
LEMMA TrimStep ==
  ASSUME MemInv, NEW p \in DOMAIN given, NEW n \in Sizes, mem_trim(p, n)
  PROVE  MemInv' /\ \A q \in UsedIn(mem) \ {p} : mem'[q].next = mem[q].next
<1> DEFINE newsize == Adjusted(n)
           size == Room(mem, p)
           next == mem[p].next
           ptr2 == p + HDR + newsize
           o == mem[next].next
           j == Join(mem, p)
<1>1. /\ newsize # TooLarge /\ newsize <= size /\ given' = [given EXCEPT ![p] = n]
      /\ \/ /\ newsize < size /\ ~mem[next].used
            /\ mem' = LinkBack(With([Without(mem, next) EXCEPT ![p] = [@ EXCEPT !.next = ptr2]],
                                    ptr2, Header(o, p, FALSE)), o, ptr2)
            /\ lfree' = MovedLfree(next, ptr2)
         \/ /\ mem[next].used /\ newsize + HDR + MIN_SIZE <= size
            /\ mem' = LinkBack(With([mem EXCEPT ![p] = [@ EXCEPT !.next = ptr2]],
                                    ptr2, Header(next, p, FALSE)), next, ptr2)
            /\ lfree' = IF ptr2 < lfree THEN ptr2 ELSE lfree
         \/ /\ newsize = size \/ (mem[next].used /\ newsize + HDR + MIN_SIZE > size)
            /\ UNCHANGED <<mem, lfree>>
  BY Zenon DEF mem_trim
<1>2. n \in Nat
  BY LwipMemAssumption
<1>3. /\ newsize \in Nat /\ n <= newsize /\ MIN_SIZE <= newsize
      /\ newsize < n + MEM_ALIGNMENT + MIN_SIZE
  BY Zenon, <1>1, <1>2, AdjustedIs
<1> HIDE DEF newsize
<1>4. Chain(mem) /\ HolesPlugged(mem) /\ Lowest(mem, lfree) /\ Served(mem, given)
  BY Zenon DEF MemInv
<1>5. p \in DOMAIN mem \ {MEM_SIZE} /\ mem[p].used /\ p \in UsedIn(mem)
  BY Zenon, <1>4 DEF Served, UsedIn
<1>6. /\ \A q \in DOMAIN mem : q \in Nat /\ q <= MEM_SIZE
      /\ MEM_SIZE \in DOMAIN mem /\ mem[MEM_SIZE].used
      /\ next \in DOMAIN mem /\ p < next /\ next \in Nat /\ p \in Nat
      /\ \A q \in DOMAIN mem \ {MEM_SIZE} : mem[q].next \in DOMAIN mem /\ q < mem[q].next
      /\ \A r \in DOMAIN mem : r <= p \/ next <= r
  BY Zenon, <1>4, <1>5, ChainFacts
<1>7. /\ p + HDR + MIN_SIZE <= ptr2 /\ ptr2 \in Nat /\ p < ptr2
      /\ newsize < size => ptr2 < next /\ ptr2 # MEM_SIZE
      /\ newsize + HDR + MIN_SIZE <= size => ptr2 + HDR + MIN_SIZE <= next
      /\ size \in Int
  BY <1>3, <1>5, <1>6, Sizes0 DEF Room
<1>8. ASSUME Chain(mem'), HolesPlugged(mem'), Lowest(mem', lfree'), UsedIn(mem') = UsedIn(mem),
             \A q \in UsedIn(mem) \ {p} : mem'[q].next = mem[q].next, Fits(mem', p, n)
      PROVE  MemInv'
  <2>1. UsedIn(mem') = UsedIn(mem) \cup {p}
    BY Zenon, <1>5, <1>8
  <2>2. Served(mem', [given EXCEPT ![p] = n])
    BY <2>1, <1>4, <1>8, ServedWith, Zenon
  <2> QED BY Zenon, <2>2, <1>1, <1>8 DEF MemInv
<1>9. ASSUME mem'[p].next = ptr2 PROVE Fits(mem', p, n)
  <2>1. Room(mem', p) = newsize
    BY <1>3, <1>6, <1>9, Sizes0 DEF Room
  <2> QED BY <2>1, <1>2, <1>3, Sizes0 DEF Fits
<1>10. CASE /\ newsize < size /\ ~mem[next].used
            /\ mem' = LinkBack(With([Without(mem, next) EXCEPT ![p] = [@ EXCEPT !.next = ptr2]],
                                    ptr2, Header(o, p, FALSE)), o, ptr2)
            /\ lfree' = MovedLfree(next, ptr2)
  <2>1. next \in DOMAIN mem \ {MEM_SIZE} /\ ptr2 < next /\ ptr2 # MEM_SIZE
    BY <1>6, <1>7, <1>10
  <2>2. IsCut(j, p, ptr2, mem')
    <3>1. IsCut(j, p, ptr2, LinkBack(With([Without(mem, next) EXCEPT ![p] = [@ EXCEPT !.next = ptr2]],
                                    ptr2, Header(o, p, FALSE)), o, ptr2))
      BY <2>1, <1>4, <1>5, <1>7, TrimJoined, Zenon
    <3> QED BY <3>1, <1>10, Zenon
  <2>3. IsJoined(mem, p, j)
    BY <2>1, <1>4, <1>5, JoinFields
  <2> HIDE DEF ptr2, j
  <2>4. Chain(j)
    BY <2>1, <2>3, <1>4, <1>5, JoinChain
  <2>5. /\ DOMAIN j = DOMAIN mem \ {next} /\ p \in DOMAIN j /\ j[p].next = o
        /\ \A q \in DOMAIN j : q # p => j[q].next = mem[q].next
        /\ \A q \in DOMAIN j : j[q].used = mem[q].used
    BY Zenon, <2>3 DEF IsJoined
  <2>6. /\ o \in DOMAIN mem /\ o \in Nat /\ next < o /\ mem[o].used
        /\ ptr2 + HDR + MIN_SIZE <= o /\ ptr2 < o
    <3>1. next + HDR + MIN_SIZE <= o /\ o \in DOMAIN mem
      BY Zenon, <2>1, <1>4 DEF Chain
    <3>2. mem[o].used
      BY Zenon, <2>1, <1>4, <1>10 DEF HolesPlugged
    <3> QED BY <3>1, <3>2, <2>1, <1>6, <1>7, Sizes0
  <2>7. HolesPlugged(j)
    <3> SUFFICES ASSUME NEW q \in DOMAIN j \ {MEM_SIZE}, ~j[q].used PROVE j[j[q].next].used
      BY Zenon DEF HolesPlugged
    <3>1. q # p /\ ~mem[q].used /\ q \in DOMAIN mem \ {MEM_SIZE} /\ j[q].next = mem[q].next
      BY Zenon, <2>5, <1>5
    <3>2. mem[mem[q].next].used
      BY Zenon, <3>1, <1>4 DEF HolesPlugged
    <3>3. j[q].next \in DOMAIN j
      BY Zenon, <2>4, ChainFacts
    <3> QED BY <3>1, <3>2, <3>3, <2>5
  <2>8. p \in DOMAIN j \ {MEM_SIZE} /\ j[p].used /\ j[j[p].next].used
    BY <2>5, <2>6, <1>5, <1>6
  <2>9. Chain(mem')
    BY Zenon, <2>2, <2>4, <2>5, <2>6, <2>8, <1>7, CutChain
  <2>10. HolesPlugged(mem')
    BY Zenon, <2>2, <2>4, <2>5, <2>6, <2>7, <2>8, <1>7, CutHoles
  <2>11. /\ UsedIn(j) = UsedIn(mem)
         /\ \A q \in UsedIn(mem) \ {p} : j[q].next = mem[q].next
         /\ lfree # next => Lowest(j, lfree)
    BY <2>3, <1>4, <1>5, <1>10, JoinUsed
  <2>12. /\ UsedIn(mem') = UsedIn(j) \cup {p}
         /\ \A q \in UsedIn(j) \ {p} : mem'[q].next = j[q].next
    BY <2>1, <2>2, <2>4, <2>8, <1>7, CutUsed
  <2>13. Lowest(mem', lfree')
    <3>1. CASE lfree = next
      <4>1. lfree' = ptr2
        BY Zenon, <3>1, <1>10 DEF MovedLfree
      <4>2. /\ DOMAIN mem' = DOMAIN j \cup {ptr2} /\ ~mem'[ptr2].used /\ mem'[p].used
            /\ \A q \in DOMAIN j \ {p} : mem'[q].used = j[q].used
        BY Zenon, <2>2 DEF IsCut
      <4>3. ASSUME NEW q \in DOMAIN mem', q < ptr2 PROVE mem'[q].used
        <5>1. q \in DOMAIN j /\ q \in DOMAIN mem /\ q < next
          BY <4>2, <4>3, <2>1, <2>5, <1>6, <1>7
        <5>2. mem[q].used
          BY Zenon, <5>1, <3>1, <1>4 DEF Lowest
        <5> QED BY Zenon, <5>1, <5>2, <4>2, <2>5
      <4> QED BY Zenon, <4>1, <4>2, <4>3 DEF Lowest
    <3>2. CASE lfree # next
      <4>1. lfree' = lfree
        BY Zenon, <3>2, <1>10 DEF MovedLfree
      <4>2. lfree \in DOMAIN mem /\ lfree \in Nat /\ ~(next < lfree)
        BY Zenon, <1>4, <1>6, <1>10 DEF Lowest
      <4>3. ~(ptr2 < lfree)
        BY <4>2, <3>2, <2>1, <1>6, <1>7
      <4>4. Lowest(mem', IF ptr2 < lfree THEN ptr2 ELSE lfree)
        BY Zenon, <3>2, <2>2, <2>4, <2>5, <2>6, <2>8, <2>11, <1>7, CutLowest
      <4> QED BY Zenon, <4>1, <4>3, <4>4
    <3> QED BY Zenon, <3>1, <3>2
  <2>14. mem'[p].next = ptr2
    BY Zenon, <2>2 DEF IsCut
  <2> QED BY <2>9, <2>10, <2>11, <2>12, <2>13, <2>14, <1>5, <1>8, <1>9
<1>11. CASE /\ mem[next].used /\ newsize + HDR + MIN_SIZE <= size
            /\ mem' = LinkBack(With([mem EXCEPT ![p] = [@ EXCEPT !.next = ptr2]],
                                    ptr2, Header(next, p, FALSE)), next, ptr2)
            /\ lfree' = IF ptr2 < lfree THEN ptr2 ELSE lfree
  <2>1. ptr2 + HDR + MIN_SIZE <= next /\ ptr2 < next /\ ptr2 # MEM_SIZE
    BY <1>6, <1>7, <1>11, Sizes0
  <2>2. IsCut(mem, p, ptr2, mem')
    <3>1. IsCut(mem, p, ptr2, LinkBack(With([mem EXCEPT ![p] = [@ EXCEPT !.next = ptr2]],
                                    ptr2, Header(next, p, FALSE)), next, ptr2))
      BY <2>1, <1>4, <1>5, <1>7, TrimCut, Zenon
    <3> QED BY <3>1, <1>11, Zenon
  <2> HIDE DEF ptr2
  <2>3. Chain(mem')
    BY Zenon, <2>1, <2>2, <1>4, <1>5, <1>7, CutChain
  <2>4. HolesPlugged(mem')
    BY Zenon, <2>1, <2>2, <1>4, <1>5, <1>7, <1>11, CutHoles
  <2>5. /\ UsedIn(mem') = UsedIn(mem) \cup {p}
        /\ \A q \in UsedIn(mem) \ {p} : mem'[q].next = mem[q].next
    BY <2>1, <2>2, <1>4, <1>5, <1>7, CutUsed
  <2>6. Lowest(mem', lfree')
    BY Zenon, <2>1, <2>2, <1>4, <1>5, <1>7, <1>11, CutLowest
  <2>7. mem'[p].next = ptr2
    BY Zenon, <2>2 DEF IsCut
  <2> QED BY Zenon, <2>3, <2>4, <2>5, <2>6, <2>7, <1>5, <1>8, <1>9
<1>12. CASE /\ newsize = size \/ (mem[next].used /\ newsize + HDR + MIN_SIZE > size)
            /\ UNCHANGED <<mem, lfree>>
  <2>1. mem' = mem /\ lfree' = lfree
    BY Zenon, <1>12
  <2>2. Fits(mem, p, n)
    BY <1>1, <1>2, <1>3, <1>7, <1>12, Sizes0 DEF Fits
  <2> QED BY Zenon, <2>1, <2>2, <1>4, <1>8
<1> QED BY Zenon, <1>1, <1>10, <1>11, <1>12

-----------------------------------------------------------------------------
EndHeader(x) == Header(x, x, TRUE)

\* The header of ram_end.
LEMMA EndHeaderIs ==
  ASSUME NEW x \in Offsets
  PROVE  /\ EndHeader(x) \in HeaderSet /\ EndHeader(x).next = x
         /\ EndHeader(x).prev = x /\ EndHeader(x).used
         /\ \A h \in HeaderSet : h.next = x /\ h.prev = x /\ h.used => h = EndHeader(x)
<1>1. /\ EndHeader(x) \in HeaderSet /\ EndHeader(x).next = x
      /\ EndHeader(x).prev = x /\ EndHeader(x).used
  BY Zenon DEF HeaderSet, Header, EndHeader
<1>2. \A h \in HeaderSet : h.next = x /\ h.prev = x /\ h.used => h = EndHeader(x)
  BY DEF HeaderSet, Header, EndHeader
<1> QED BY Zenon, <1>1, <1>2

\* mem_init establishes the invariant.
LEMMA MemInit ==
  ASSUME Init
  PROVE  MemInv
<1>1. /\ DOMAIN mem = {0, MEM_SIZE} /\ lfree = 0 /\ DOMAIN given = {} /\ 0 # MEM_SIZE
      /\ mem[0] = FreeHeader(MEM_SIZE, 0) /\ mem[MEM_SIZE] = EndHeader(MEM_SIZE)
  BY SMTT(20), Sizes0 DEF Init, FreeHeader, EndHeader
<1>2. 0 \in Offsets /\ MEM_SIZE \in Offsets
  BY Sizes0 DEF Offsets
<1>3. mem[0] \in HeaderSet /\ mem[0].next = MEM_SIZE /\ mem[0].prev = 0 /\ ~mem[0].used
  BY <1>1, <1>2, NewHeader
<1>4. /\ mem[MEM_SIZE] \in HeaderSet /\ mem[MEM_SIZE].next = MEM_SIZE
      /\ mem[MEM_SIZE].prev = MEM_SIZE /\ mem[MEM_SIZE].used
  BY <1>1, <1>2, EndHeaderIs
<1>5. mem \in [DOMAIN mem -> HeaderSet]
  <2>1. mem = [q \in DOMAIN mem |-> mem[q]]
    BY Zenon DEF Init
  <2> QED BY <2>1, <1>1, <1>3, <1>4
<1>6. Typed(mem)
  BY Zenon, <1>1, <1>2, <1>3, <1>4, <1>5 DEF Typed
<1>7. Chain(mem)
  BY <1>1, <1>3, <1>6, Sizes0 DEF Chain
<1>8. HolesPlugged(mem) /\ Lowest(mem, lfree)
  <2>1. HolesPlugged(mem)
    BY Zenon, <1>1, <1>3, <1>4 DEF HolesPlugged
  <2>2. Lowest(mem, 0)
    BY <1>1, <1>3, Sizes0 DEF Lowest
  <2> QED BY Zenon, <2>1, <2>2, <1>1
<1>9. Served(mem, given)
  BY Zenon, <1>1, <1>3 DEF Served, Init
<1> QED BY Zenon, <1>7, <1>8, <1>9 DEF MemInv

\* Every step keeps it.
LEMMA MemStep ==
  ASSUME MemInv, [Next]_vars
  PROVE  MemInv'
<1>1. ASSUME NEW n \in Sizes, mem_malloc(n) PROVE MemInv'
  BY Zenon, <1>1, MallocStep
<1>2. ASSUME NEW p \in DOMAIN given, mem_free(p) PROVE MemInv'
  BY Zenon, <1>2, FreeStep
<1>3. ASSUME NEW p \in DOMAIN given, NEW n \in Sizes, mem_trim(p, n) PROVE MemInv'
  BY Zenon, <1>3, TrimStep
<1>4. CASE UNCHANGED vars
  BY <1>4 DEF vars, MemInv, Served, Lowest, Chain, Typed, HolesPlugged, Room
<1> QED BY Zenon, <1>1, <1>2, <1>3, <1>4 DEF Next

\* The invariant gives ChainOK ...
LEMMA MemChainOK ==
  ASSUME MemInv
  PROVE  ChainOK
<1>1. Chain(mem) /\ HolesPlugged(mem) /\ Lowest(mem, lfree) /\ Served(mem, given)
  BY Zenon DEF MemInv
<1>2. MEM_SIZE \in Offsets
  BY Sizes0 DEF Offsets
<1>3. mem[MEM_SIZE] = EndHeader(MEM_SIZE)
  BY <1>1, <1>2, EndHeaderIs DEF Chain, Typed
<1>4. \A p \in DOMAIN mem : /\ mem[p].next \in Offsets /\ mem[p].prev \in Offsets
                            /\ mem[p].used \in BOOLEAN
  BY Zenon, <1>1 DEF Chain, Typed, HeaderSet
<1>5. TypeOK
  BY <1>1, <1>3, <1>4 DEF TypeOK, Blocks, Chain, Typed, Lowest, Served, EndHeader
<1>6. Linked
  BY Zenon, <1>1 DEF Linked, Blocks, Chain, Typed
<1>7. NoHoles
  BY Zenon, <1>1 DEF NoHoles, Blocks, HolesPlugged
<1> QED BY Zenon, <1>5, <1>6, <1>7 DEF ChainOK

\* ... FreeFound ...
LEMMA MemFreeFound ==
  ASSUME MemInv
  PROVE  FreeFound
<1>1. Chain(mem) /\ HolesPlugged(mem) /\ Lowest(mem, lfree) /\ Served(mem, given)
  BY Zenon DEF MemInv
<1>2. /\ \A q \in DOMAIN mem : q \in Nat /\ q <= MEM_SIZE
      /\ MEM_SIZE \in DOMAIN mem /\ mem[MEM_SIZE].used /\ 0 \in DOMAIN mem
      /\ \A q \in DOMAIN mem \ {MEM_SIZE} :
           /\ mem[q].next \in DOMAIN mem /\ q < mem[q].next
           /\ \A r \in DOMAIN mem : r <= q \/ mem[q].next <= r
  BY Zenon, <1>1, ChainFacts DEF Chain, Typed
<1>3. LfreeIsLowest
  <2> DEFINE S == {q \in DOMAIN mem : q >= 0 /\ (~mem[q].used \/ q = MEM_SIZE)}
  <2>1. S \in SUBSET Nat /\ lfree \in S
    BY <1>1, <1>2 DEF Lowest
  <2>2. ASSUME NEW y \in S PROVE lfree <= y
    BY <1>1, <1>2, <2>1 DEF Lowest
  <2>3. Min(S) = lfree
    BY <2>1, <2>2, MinIs
  <2> QED BY Zenon, <2>3 DEF LfreeIsLowest, NextFree
<1>4. FindsWhatFits
  <2> SUFFICES ASSUME NEW size \in 1 .. MEM_SIZE, NEW p \in DOMAIN mem,
                      ~mem[p].used, Room(mem, p) >= size
               PROVE  p \in Candidates(size)
    BY Zenon DEF FindsWhatFits, Blocks
  <2>1. p # MEM_SIZE /\ p \in Nat /\ lfree \in Nat /\ ~(p < lfree)
    BY Zenon, <1>1, <1>2 DEF Lowest
  <2>2. mem[p].next \in Nat /\ mem[p].next <= MEM_SIZE
    BY Zenon, <2>1, <1>2
  <2>3. p < MEM_SIZE - size
    BY <2>1, <2>2, Sizes0 DEF Room
  <2> QED BY <2>1, <2>3 DEF Candidates, Blocks
<1>5. AllBack
  <2> SUFFICES ASSUME DOMAIN given = {} PROVE DOMAIN mem = {0, MEM_SIZE} /\ lfree = 0
    BY Zenon DEF AllBack, Blocks
  <2>1. \A q \in DOMAIN mem \ {MEM_SIZE} : ~mem[q].used
    BY Zenon, <1>1 DEF Served
  <2>2. mem[0].next = MEM_SIZE
    BY <2>1, <1>1, <1>2, Sizes0 DEF HolesPlugged
  <2>3. \A r \in DOMAIN mem : r <= 0 \/ MEM_SIZE <= r
    BY Zenon, <2>2, <1>2, Sizes0
  <2>4. DOMAIN mem = {0, MEM_SIZE}
    <3>1. \A r \in DOMAIN mem : r = 0 \/ r = MEM_SIZE
      BY <2>3, <1>2, Sizes0
    <3> QED BY Zenon, <3>1, <1>2
  <2>5. lfree = 0
    BY Zenon, <2>1, <2>4, <1>1, Sizes0 DEF Lowest
  <2> QED BY Zenon, <2>4, <2>5
<1> QED BY Zenon, <1>3, <1>4, <1>5 DEF FreeFound

\* For every heap size, alignment, header size and set of requests, the chain of the
\* heap's blocks is sound, free memory is found and the callers are served after every
\* sequence of mem_malloc, mem_free and mem_trim (mem.c:474-505, 617-957).
THEOREM MemSafe == Spec => [](ChainOK /\ FreeFound /\ CallersServed)
<1>1. Init => MemInv
  BY Zenon, MemInit
<1>2. MemInv /\ [Next]_vars => MemInv'
  BY Zenon, MemStep
<1>3. MemInv => ChainOK /\ FreeFound /\ CallersServed
  <2>1. MemInv => CallersServed
    BY Zenon DEF MemInv, Served, CallersServed, Blocks
  <2> QED BY Zenon, <2>1, MemChainOK, MemFreeFound
<1> QED BY <1>1, <1>2, <1>3, PTL DEF Spec

\* Of these, the search: lfree is the lowest free block, a request fails only when no free
\* block is large enough, and a heap that is given back is one block again, although
\* plug_holes joins neighbours only (mem.c:474-505, 831-957).
THEOREM MemFinds == Spec => []FreeFound
  BY MemSafe, PTL

\* And the callers: each has the bytes it asked for, and every used block is a caller's
\* (mem.c:617-810, 831-957).
THEOREM MemServes == Spec => []CallersServed
  BY MemSafe, PTL

\* No operation moves or shrinks a block other than the one it is called for, whatever
\* plug_holes joins (mem.c:474-505, 745-810).
THEOREM MemUntouched == Spec => OthersUntouched
<1> DEFINE A == \A p \in DOMAIN given \cap DOMAIN given' :
                  mem'[p].next # mem[p].next => \E n \in Sizes : mem_trim(p, n)
<1>1. Init => MemInv
  BY Zenon, MemInit
<1>2. MemInv /\ [Next]_vars => MemInv'
  BY Zenon, MemStep
<1>3. MemInv /\ [Next]_vars => [A]_vars
  <2> SUFFICES ASSUME MemInv, Next, NEW p \in DOMAIN given \cap DOMAIN given',
                      mem'[p].next # mem[p].next
               PROVE  \E n \in Sizes : mem_trim(p, n)
    BY Zenon
  <2>1. p \in UsedIn(mem)
    BY Zenon DEF MemInv, Served, UsedIn
  <2>2. ASSUME NEW n \in Sizes, mem_malloc(n) PROVE FALSE
    BY Zenon, <2>1, <2>2, MallocStep
  <2>3. ASSUME NEW q \in DOMAIN given, mem_free(q) PROVE FALSE
    <3>1. q # p
      BY Zenon, <2>3 DEF mem_free, Without
    <3> QED BY Zenon, <3>1, <2>1, <2>3, FreeStep
  <2>4. ASSUME NEW q \in DOMAIN given, NEW n \in Sizes, mem_trim(q, n) PROVE q = p
    BY Zenon, <2>1, <2>4, TrimStep
  <2> QED BY Zenon, <2>2, <2>3, <2>4 DEF Next
<1>4. OthersUntouched <=> [][A]_vars
  BY Zenon DEF OthersUntouched
<1> QED BY <1>1, <1>2, <1>3, <1>4, PTL DEF Spec
=============================================================================
