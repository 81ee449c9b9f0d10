--------------------------- MODULE EtharpProofs ---------------------------
(***************************************************************************)
(* The ARP table is sound for every table size, age limit, set of hosts,   *)
(* routes, messages and packet buffers.  A world is the table with the     *)
(* counts of the buffers; the lemmas show what freeing an entry, finding   *)
(* one and letting a packet wait on it do to a world, and the steps of     *)
(* etharp.c are compositions of these.                                     *)
(***************************************************************************)
EXTENDS Etharp, FiniteSetTheorems, WellFoundedInduction, TLAPS

-----------------------------------------------------------------------------
\* A set of naturals that is not empty has its minimum.
LEMMA LeastExists ==
  ASSUME NEW S \in SUBSET Nat, S # {}
  PROVE  /\ \E x \in S : \A y \in S : x <= y
         /\ Min(S) \in S
<1>1. PICK x \in S : \A y \in S : ~(<<y, x>> \in OpToRel(<, Nat))
  BY Zenon, NatLessThanWellFounded, WFMin
<1>2. \A y \in S : x <= y
  <2>1. SUFFICES ASSUME NEW y \in S, y < x PROVE FALSE
    OBVIOUS
  <2>2. <<y, x>> \in OpToRel(<, Nat)
    BY <2>1 DEF OpToRel
  <2> QED BY Zenon, <2>2, <1>1
<1> QED BY Zenon, <1>2 DEF Min

\* Indices of the table.
LEMMA IdxFact == /\ Idx \subseteq Nat /\ 0 \in Idx /\ ERR_MEM \notin Idx
                 /\ ARP_TABLE_SIZE \in Nat /\ \A i \in Idx : i < ARP_TABLE_SIZE
  BY EtharpAssumption DEF Idx, ERR_MEM

-----------------------------------------------------------------------------
\* The type of an entry, and what holds of each one by itself.
Entry ==
  [state : EMPTY .. STATIC, ipaddr : IPs \cup {NoRoute}, ethaddr : MACs \cup {NULL},
   ctime : Nat, q : Pbufs \cup {NULL}]

EntryOK(e) ==
  /\ e.state # EMPTY => e.ipaddr \in IPs /\ e.ctime < ARP_MAXAGE
  /\ e.q # NULL => e.state = PENDING

\* OneEntryEach, and no buffer waits on two entries.
Once(t) ==
  \A i, j \in Idx : t[i].state # EMPTY /\ t[j].state # EMPTY /\ t[i].ipaddr = t[j].ipaddr => i = j

WaitsOnce(t) == \A i, j \in Idx : t[i].q = t[j].q /\ t[i].q # NULL => i = j

TableInv(t) ==
  /\ t \in [Idx -> Entry]
  /\ \A i \in Idx : EntryOK(t[i])
  /\ Once(t)
  /\ WaitsOnce(t)

Waiting(t, p) == \E i \in Idx : t[i].q = p

\* RefsCounted without cardinalities; h are the buffers to which a caller refers.
Holds(h, p) == IF p \in h THEN 1 ELSE 0
Waits(t, p) == IF Waiting(t, p) THEN 1 ELSE 0

Counted(w, h) == \A p \in Pbufs : w.r[p] = Holds(h, p) + Waits(w.t, p)

Worlds == [t : [Idx -> Entry], r : [Pbufs -> Int]]

WorldOK(w, h) == w \in Worlds /\ TableInv(w.t) /\ Counted(w, h)

\* The fields of an entry.
LEMMA EntryFields ==
  ASSUME NEW t, t \in [Idx -> Entry], NEW i \in Idx
  PROVE  /\ t[i] \in Entry
         /\ t[i].state \in EMPTY .. STATIC /\ t[i].ipaddr \in IPs \cup {NoRoute}
         /\ t[i].ethaddr \in MACs \cup {NULL} /\ t[i].ctime \in Nat
         /\ t[i].q \in Pbufs \cup {NULL}
  BY DEF Entry

\* The numbers of the states (etharp.c:82-93).
LEMMA StateCodes ==
  /\ STATIC # EMPTY /\ PENDING # EMPTY /\ PENDING # STATIC /\ STABLE # EMPTY
  /\ ~(EMPTY >= STABLE) /\ ~(PENDING >= STABLE) /\ STABLE >= STABLE /\ STATIC >= STABLE
  /\ {EMPTY, PENDING, STABLE, STATIC} \subseteq EMPTY .. STATIC
  /\ \A s \in STABLE .. STATIC : s >= STABLE /\ s # EMPTY /\ s # PENDING
  BY DEF EMPTY, PENDING, STABLE, STATIC

\* The parts of a world.
LEMMA WorldFields ==
  ASSUME NEW w, NEW h, WorldOK(w, h)
  PROVE  /\ w = [t |-> w.t, r |-> w.r] /\ w.t \in [Idx -> Entry] /\ w.r \in [Pbufs -> Int]
         /\ TableInv(w.t) /\ Counted(w, h)
  BY DEF WorldOK, Worlds

-----------------------------------------------------------------------------
\* The world w with e in place of entry i, whose packet, if any, is freed.
Dropped(w, i, e) == [t |-> [w.t EXCEPT ![i] = e], r |-> pbuf_free(w.r, w.t[i].q)]

\* Entry e may stand at i: nothing waits on it and its address is nowhere else.
MayStand(t, i, e) ==
  /\ EntryOK(e) /\ e.q = NULL
  /\ e.state # EMPTY => \A j \in Idx \ {i} : t[j].state # EMPTY => t[j].ipaddr # e.ipaddr

\* A new entry on which nothing waits takes the place of an entry: no count is wrong
\* afterwards.
LEMMA DropFact ==
  ASSUME NEW w, NEW h, WorldOK(w, h), NEW i \in Idx, NEW e \in Entry, MayStand(w.t, i, e)
  PROVE  WorldOK(Dropped(w, i, e), h)
<1>0. /\ EntryOK(e) /\ e.q = NULL
      /\ e.state # EMPTY => \A j \in Idx \ {i} : w.t[j].state # EMPTY => w.t[j].ipaddr # e.ipaddr
  BY Zenon DEF MayStand
<1> DEFINE t == [w.t EXCEPT ![i] = e]
           r == pbuf_free(w.r, w.t[i].q)
           v == [t |-> t, r |-> r]
<1>1. w.t \in [Idx -> Entry] /\ w.r \in [Pbufs -> Int] /\ TableInv(w.t) /\ Counted(w, h)
  BY WorldFields
<1>2. t \in [Idx -> Entry] /\ t[i] = e /\ \A j \in Idx \ {i} : t[j] = w.t[j]
  BY <1>1
<1>3. w.t[i].q \in Pbufs \cup {NULL} /\ NULL \notin Pbufs
  BY <1>1, EntryFields, EtharpAssumption
<1>4. r \in [Pbufs -> Int] /\ \A p \in Pbufs : r[p] = w.r[p] - (IF w.t[i].q = p THEN 1 ELSE 0)
  BY <1>1, <1>3 DEF pbuf_free
<1> HIDE DEF t, r
<1>5. \A j \in Idx : EntryOK(t[j])
  BY <1>0, <1>1, <1>2 DEF TableInv
<1>6. Once(t)
  BY <1>0, <1>1, <1>2 DEF TableInv, Once
<1>7. WaitsOnce(t)
  BY <1>0, <1>1, <1>2 DEF TableInv, WaitsOnce
<1>8. \A p \in Pbufs : Waits(w.t, p) = Waits(t, p) + (IF w.t[i].q = p THEN 1 ELSE 0)
  <2> SUFFICES ASSUME NEW p \in Pbufs
               PROVE  Waits(w.t, p) = Waits(t, p) + (IF w.t[i].q = p THEN 1 ELSE 0)
    OBVIOUS
  <2>1. CASE w.t[i].q = p
    <3>1. Waiting(w.t, p)
      BY <2>1 DEF Waiting
    <3>2. ~Waiting(t, p)
      BY <1>0, <1>1, <1>2, <1>3, <2>1 DEF Waiting, TableInv, WaitsOnce
    <3> QED BY <2>1, <3>1, <3>2 DEF Waits
  <2>2. CASE w.t[i].q # p
    <3>1. Waiting(w.t, p) <=> Waiting(t, p)
      BY <1>0, <1>2, <1>3, <2>2 DEF Waiting
    <3> QED BY <2>2, <3>1 DEF Waits
  <2> QED BY <2>1, <2>2
<1>9. v.t = t /\ v.r = r /\ v \in Worlds
  BY <1>2, <1>4 DEF Worlds
<1> HIDE DEF v
<1>10. Counted(v, h)
  <2> SUFFICES ASSUME NEW p \in Pbufs PROVE v.r[p] = Holds(h, p) + Waits(v.t, p)
    BY DEF Counted
  <2>1. Holds(h, p) \in Int /\ Waits(t, p) \in Int /\ Waits(w.t, p) \in Int
    BY DEF Holds, Waits
  <2> QED BY <1>1, <1>4, <1>8, <1>9, <2>1 DEF Counted
<1>11. WorldOK(v, h)
  BY <1>2, <1>5, <1>6, <1>7, <1>9, <1>10 DEF WorldOK, TableInv
<1> QED BY Zenon, <1>11 DEF Dropped, v, t, r

\* Packet c takes the place of what waits on entry i.
Put(w, i, c) == [t |-> [w.t EXCEPT ![i].q = c],
                 r |-> pbuf_free([w.r EXCEPT ![c] = @ + 1], w.t[i].q)]

\* A buffer that waits nowhere yet comes to wait on a pending entry; the packet that
\* waited there is freed.
LEMMA PutFact ==
  ASSUME NEW w, NEW h, WorldOK(w, h), NEW i \in Idx, w.t[i].state = PENDING,
         NEW c \in Pbufs, ~Waiting(w.t, c)
  PROVE  WorldOK(Put(w, i, c), h)
<1> DEFINE e == [w.t[i] EXCEPT !.q = c]
           t == [w.t EXCEPT ![i].q = c]
           r == pbuf_free([w.r EXCEPT ![c] = @ + 1], w.t[i].q)
           v == [t |-> t, r |-> r]
<1> SUFFICES WorldOK(v, h)
  BY DEF Put
<1>1. w.t \in [Idx -> Entry] /\ w.r \in [Pbufs -> Int] /\ TableInv(w.t) /\ Counted(w, h)
  BY WorldFields
<1>2. w.t[i] \in Entry /\ EntryOK(w.t[i]) /\ w.t[i].q \in Pbufs \cup {NULL}
  BY <1>1, EntryFields DEF TableInv
<1>3. e \in Entry /\ e.q = c /\ e.state = w.t[i].state /\ e.ipaddr = w.t[i].ipaddr
      /\ e.ctime = w.t[i].ctime
  BY <1>2 DEF Entry
<1>4. t = [w.t EXCEPT ![i] = e]
  BY <1>1
<1> HIDE DEF e, t
<1>5. t \in [Idx -> Entry] /\ t[i] = e /\ \A j \in Idx \ {i} : t[j] = w.t[j]
  BY <1>1, <1>3, <1>4
<1>6. NULL \notin Pbufs /\ w.t[i].q # c
  BY EtharpAssumption DEF Waiting
<1>7. r \in [Pbufs -> Int] /\ \A p \in Pbufs : r[p] = w.r[p] + (IF p = c THEN 1 ELSE 0)
                                                     - (IF w.t[i].q = p THEN 1 ELSE 0)
  BY <1>1, <1>2, <1>6 DEF pbuf_free
<1> HIDE DEF r
<1>8. \A j \in Idx : EntryOK(t[j])
  BY <1>1, <1>2, <1>3, <1>5 DEF TableInv, EntryOK
<1>9. Once(t)
  BY <1>1, <1>3, <1>5 DEF TableInv, Once
<1>10. WaitsOnce(t)
  BY <1>1, <1>3, <1>5 DEF TableInv, WaitsOnce, Waiting
<1>11. \A p \in Pbufs : Waits(t, p) = Waits(w.t, p) + (IF p = c THEN 1 ELSE 0)
                                        - (IF w.t[i].q = p THEN 1 ELSE 0)
  <2> SUFFICES ASSUME NEW p \in Pbufs
               PROVE  Waits(t, p) = Waits(w.t, p) + (IF p = c THEN 1 ELSE 0)
                                      - (IF w.t[i].q = p THEN 1 ELSE 0)
    OBVIOUS
  <2>1. CASE p = c
    <3>1. Waiting(t, p) /\ ~Waiting(w.t, p)
      BY <1>3, <1>5, <2>1 DEF Waiting
    <3> QED BY <1>6, <2>1, <3>1 DEF Waits
  <2>2. CASE p # c /\ w.t[i].q = p
    <3>1. Waiting(w.t, p) /\ ~Waiting(t, p)
      BY <1>1, <1>3, <1>5, <1>6, <2>2 DEF Waiting, TableInv, WaitsOnce
    <3> QED BY <2>2, <3>1 DEF Waits
  <2>3. CASE p # c /\ w.t[i].q # p
    <3>1. Waiting(w.t, p) <=> Waiting(t, p)
      BY <1>3, <1>5, <2>3 DEF Waiting
    <3> QED BY <2>3, <3>1 DEF Waits
  <2> QED BY <2>1, <2>2, <2>3
<1>12. v.t = t /\ v.r = r /\ v \in Worlds
  BY <1>5, <1>7 DEF Worlds
<1> HIDE DEF v
<1>13. Counted(v, h)
  <2> SUFFICES ASSUME NEW p \in Pbufs PROVE v.r[p] = Holds(h, p) + Waits(v.t, p)
    BY DEF Counted
  <2>1. Holds(h, p) \in Int /\ Waits(t, p) \in Int /\ Waits(w.t, p) \in Int
    BY DEF Holds, Waits
  <2> QED BY <1>1, <1>7, <1>11, <1>12, <2>1 DEF Counted
<1>14. WorldOK(v, h)
  BY <1>5, <1>8, <1>9, <1>10, <1>12, <1>13 DEF WorldOK, TableInv
<1> QED BY <1>14 DEF v, t, r

\* Entries lose their packets, and every buffer is freed as often as it loses one: a
\* pass over the whole table.
LEMMA SweepFact ==
  ASSUME NEW t0, NEW r0, NEW h, WorldOK([t |-> t0, r |-> r0], h), NEW t, t \in [Idx -> Entry],
         \A i \in Idx : EntryOK(t[i]) /\ t[i].q \in {t0[i].q, NULL},
         \A i \in Idx : t[i].state # EMPTY => t0[i].state # EMPTY /\ t[i].ipaddr = t0[i].ipaddr,
         NEW lost, lost = {i \in Idx : t0[i].q # NULL /\ t[i].q = NULL}
  PROVE  WorldOK([t |-> t,
                  r |-> [p \in Pbufs |-> r0[p] - Cardinality({i \in lost : t0[i].q = p})]], h)
<1> DEFINE n(p) == Cardinality({i \in lost : t0[i].q = p})
           r == [p \in Pbufs |-> r0[p] - n(p)]
           v == [t |-> t, r |-> r]
<1>1. t0 \in [Idx -> Entry] /\ r0 \in [Pbufs -> Int] /\ TableInv(t0) /\ (\A p \in Pbufs : r0[p] = Holds(h, p) + Waits(t0, p))
  BY WorldFields DEF Counted
<1>2. NULL \notin Pbufs
  BY EtharpAssumption
<1>3. Once(t)
  BY <1>1 DEF TableInv, Once
<1>4. WaitsOnce(t)
  BY <1>1 DEF TableInv, WaitsOnce
<1>5. ASSUME NEW p \in Pbufs
      PROVE  n(p) \in Int /\ Waits(t, p) = Waits(t0, p) - n(p)
  <2>1. CASE \E i \in lost : t0[i].q = p
    <3>1. PICK i \in lost : t0[i].q = p
      BY <2>1
    <3>2. {j \in lost : t0[j].q = p} = {i}
      BY <1>1, <1>2, <3>1 DEF TableInv, WaitsOnce
    <3>3. Cardinality({j \in lost : t0[j].q = p}) = 1
      BY Zenon, <3>2, FS_Singleton
    <3>4. Waiting(t0, p)
      BY <3>1 DEF Waiting
    <3>5. ~Waiting(t, p)
      BY <1>1, <1>2, <3>1 DEF Waiting, TableInv, WaitsOnce
    <3> QED BY <3>3, <3>4, <3>5 DEF Waits
  <2>2. CASE ~ \E i \in lost : t0[i].q = p
    <3>1. {j \in lost : t0[j].q = p} = {}
      BY <2>2
    <3>2. Cardinality({j \in lost : t0[j].q = p}) = 0
      BY Zenon, <3>1, FS_EmptySet
    <3>3. Waiting(t0, p) <=> Waiting(t, p)
      BY <1>2, <2>2 DEF Waiting
    <3> QED BY <3>2, <3>3 DEF Waits
  <2> QED BY <2>1, <2>2
<1> HIDE DEF n
<1>6. r \in [Pbufs -> Int] /\ \A p \in Pbufs : r[p] = r0[p] - n(p)
  BY <1>1, <1>5
<1> HIDE DEF r
<1>7. v.t = t /\ v.r = r /\ v \in Worlds
  BY <1>6 DEF Worlds
<1> HIDE DEF v
<1>8. Counted(v, h)
  <2> SUFFICES ASSUME NEW p \in Pbufs PROVE v.r[p] = Holds(h, p) + Waits(v.t, p)
    BY DEF Counted
  <2>1. Holds(h, p) \in Int /\ Waits(t, p) \in Int /\ Waits(t0, p) \in Int
    BY DEF Holds, Waits
  <2>2. r0[p] = Holds(h, p) + Waits(t0, p)
    BY <1>1
  <2> QED BY <1>5, <1>6, <1>7, <2>1, <2>2
<1>9. WorldOK(v, h)
  BY <1>3, <1>4, <1>7, <1>8 DEF WorldOK, TableInv
<1> QED BY <1>9 DEF v, r, n

-----------------------------------------------------------------------------
\* The sweep for the oldest entry of a class that is not empty finds one of the class.
LEMMA OldestIn ==
  ASSUME NEW t, t \in [Idx -> Entry], NEW S \in SUBSET Idx, S # {},
         \A i \in S : t[i].ctime < ARP_MAXAGE
  PROVE  Oldest(t, S) \in S
<1> DEFINE Left(i) == ARP_MAXAGE - t[i].ctime
           L == {Left(i) : i \in S}
<1>1. ARP_MAXAGE \in Nat /\ \A i \in S : t[i].ctime \in Nat
  BY EntryFields, EtharpAssumption
<1>2. L \in SUBSET Nat /\ L # {}
  BY <1>1
<1>3. PICK x \in L : \A y \in L : x <= y
  BY Zenon, <1>2, LeastExists
<1> DEFINE T == {i \in S : Left(i) = x}
           R == {ARP_TABLE_SIZE - i : i \in T}
<1>4. T # {} /\ R \in SUBSET Nat /\ R # {}
  BY <1>3, IdxFact
<1>5. PICK z \in R : \A y \in R : z <= y
  BY Zenon, <1>4, LeastExists
<1>6. PICK i \in T : z = ARP_TABLE_SIZE - i
  BY <1>5
<1>7. i \in S
  BY <1>6
<1>8. ASSUME NEW j \in S
      PROVE  t[j].ctime < t[i].ctime \/ (t[j].ctime = t[i].ctime /\ j <= i)
  <2>1. Left(i) = x /\ x <= Left(j) /\ x \in Nat
    BY <1>2, <1>3, <1>6
  <2>2. t[j].ctime <= t[i].ctime
    BY <1>1, <1>7, <2>1
  <2>3. ASSUME t[j].ctime = t[i].ctime PROVE j <= i
    <3>1. j \in T
      BY <2>1, <2>3
    <3>2. ARP_TABLE_SIZE - i <= ARP_TABLE_SIZE - j
      BY <1>5, <1>6, <3>1
    <3>3. i \in Nat /\ j \in Nat /\ ARP_TABLE_SIZE \in Nat
      BY <1>7, IdxFact
    <3> QED BY <3>2, <3>3
  <2> QED BY <1>1, <1>7, <2>2, <2>3
<1> QED BY <1>7, <1>8 DEF Oldest

\* etharp_free_entry (etharp.c:169-188) keeps the world sound and every other entry.
LEMMA FreeEntryFact ==
  ASSUME NEW w, NEW h, WorldOK(w, h), NEW i \in Idx
  PROVE  LET v == etharp_free_entry(w, i) IN
           /\ WorldOK(v, h)
           /\ v.t[i].state = EMPTY /\ v.t[i].q = NULL /\ v.t[i].ipaddr = w.t[i].ipaddr
           /\ \A j \in Idx \ {i} : v.t[j] = w.t[j]
<1> DEFINE e == [w.t[i] EXCEPT !.q = NULL, !.state = EMPTY]
           v == etharp_free_entry(w, i)
<1>1. w.t \in [Idx -> Entry] /\ w.t[i] \in Entry
  BY WorldFields, EntryFields
<1>2. e \in Entry /\ e.q = NULL /\ e.state = EMPTY /\ e.ipaddr = w.t[i].ipaddr
  <2>1. EMPTY \in EMPTY .. STATIC
    BY DEF EMPTY, STATIC
  <2> QED BY Zenon, <1>1, <2>1 DEF Entry
<1>3. v = [t |-> [w.t EXCEPT ![i] = e], r |-> pbuf_free(w.r, w.t[i].q)]
  BY Zenon, <1>1, <1>2 DEF etharp_free_entry, Entry
<1> HIDE DEF e, v
<1>4. EntryOK(e)
  BY <1>2 DEF EntryOK
<1>5. WorldOK(v, h)
  <2>1. v = Dropped(w, i, e)
    BY Zenon, <1>3 DEF Dropped
  <2>2. WorldOK(Dropped(w, i, e), h)
    <3>1. MayStand(w.t, i, e)
      BY Zenon, <1>2, <1>4 DEF MayStand
    <3> QED BY Zenon, <1>2, <3>1, DropFact
  <2> QED BY Zenon, <2>1, <2>2
<1>6. v.t = [w.t EXCEPT ![i] = e]
  BY <1>3
<1>7. v.t[i] = e /\ \A j \in Idx \ {i} : v.t[j] = w.t[j]
  BY <1>1, <1>6
<1> QED BY <1>2, <1>5, <1>7 DEF v

\* What etharp_find_entry (etharp.c:257-394) answers when it finds or makes an entry:
\* the only one for ip, either as it was or empty and new; a static one is never
\* recycled.
Found(w, h, ip, f) ==
  /\ WorldOK(f.w, h) /\ f.i \in Idx
  /\ f.w.t[f.i].ipaddr = ip
  /\ \A j \in Idx \ {f.i} : f.w.t[j] = w.t[j]
  /\ \A j \in Idx \ {f.i} : w.t[j].state # EMPTY => w.t[j].ipaddr # ip
  /\ \/ f.w = w /\ w.t[f.i].state # EMPTY
     \/ /\ f.w.t[f.i].state = EMPTY /\ f.w.t[f.i].q = NULL /\ f.w.t[f.i].ctime = 0
        /\ w.t[f.i].state # STATIC

\* An empty entry gets a new address.
Renewed(v, i, ip) == [v EXCEPT !.t[i].ipaddr = ip, !.t[i].ctime = 0]

\* This keeps the world sound.
LEMMA RenewedFact ==
  ASSUME NEW v, NEW h, WorldOK(v, h), NEW i \in Idx, NEW ip \in IPs,
         v.t[i].state = EMPTY
  PROVE  LET n == Renewed(v, i, ip) IN
           /\ WorldOK(n, h)
           /\ n.t[i].ipaddr = ip /\ n.t[i].ctime = 0 /\ n.t[i].state = EMPTY /\ n.t[i].q = NULL
           /\ \A j \in Idx \ {i} : n.t[j] = v.t[j]
<1> DEFINE e == [v.t[i] EXCEPT !.ipaddr = ip, !.ctime = 0]
           n == Renewed(v, i, ip)
<1>1. v.t \in [Idx -> Entry] /\ v.t[i] \in Entry /\ v = [t |-> v.t, r |-> v.r] /\ TableInv(v.t)
  BY WorldFields, EntryFields
<1>2. e \in Entry /\ e.ipaddr = ip /\ e.ctime = 0 /\ e.state = EMPTY /\ e.q = v.t[i].q
  BY Zenon, <1>1 DEF Entry
<1>3. v.t[i].q = NULL
  BY <1>1 DEF TableInv, EntryOK, PENDING, EMPTY
<1>4. pbuf_free(v.r, v.t[i].q) = v.r
  BY <1>3 DEF pbuf_free
<1>5. n = [t |-> [v.t EXCEPT ![i] = e], r |-> v.r]
  <2> DEFINE a == [v.t EXCEPT ![i].ipaddr = ip]
             b == [a EXCEPT ![i].ctime = 0]
  <2>1. a \in [Idx -> Entry] /\ a[i] = [v.t[i] EXCEPT !.ipaddr = ip] /\ \A j \in Idx \ {i} : a[j] = v.t[j]
    BY <1>1 DEF Entry
  <2>2. n = [v EXCEPT !.t = b]
    BY Zenon, <1>1 DEF Renewed
  <2> HIDE DEF a
  <2>3. b = [v.t EXCEPT ![i] = e]
    BY Zenon, <1>1, <2>1
  <2> HIDE DEF b, e
  <2> QED BY <1>1, <2>2, <2>3
<1> HIDE DEF e, n
<1>6. EntryOK(e)
  BY <1>2, <1>3 DEF EntryOK
<1>7. WorldOK(n, h)
  BY <1>2, <1>3, <1>4, <1>5, <1>6, DropFact DEF Dropped, MayStand
<1>8. n.t = [v.t EXCEPT ![i] = e]
  BY <1>5
<1>9. n.t[i] = e /\ \A j \in Idx \ {i} : n.t[j] = v.t[j]
  BY <1>1, <1>8
<1> QED BY <1>2, <1>3, <1>7, <1>9 DEF n

\* A class of entries that may be recycled: none is empty and none is static.
LEMMA RecyclableFact ==
  ASSUME NEW t, TableInv(t), NEW k \in 1 .. 3
  PROVE  /\ Recyclable(t)[k] \in SUBSET Idx
         /\ \A i \in Recyclable(t)[k] : t[i].state # EMPTY /\ t[i].state # STATIC
                                        /\ t[i].ctime < ARP_MAXAGE
<1>1. \A i \in Idx : t[i].state \in EMPTY .. STATIC /\ (t[i].state # EMPTY => t[i].ctime < ARP_MAXAGE)
  BY EntryFields DEF TableInv, EntryOK
<1>2. k = 1 \/ k = 2 \/ k = 3
  OBVIOUS
<1>3. CASE k = 1
  BY <1>1, <1>3 DEF Recyclable, STABLE, STATIC, EMPTY
<1>4. CASE k = 2
  BY <1>1, <1>4 DEF Recyclable, PENDING, STATIC, EMPTY
<1>5. CASE k = 3
  BY <1>1, <1>5 DEF Recyclable, PENDING, STATIC, EMPTY
<1> QED BY <1>2, <1>3, <1>4, <1>5

\* etharp_find_entry returns ERR_MEM and changes nothing, for an address that is not in
\* the table, or finds its entry.
LEMMA FindFact ==
  ASSUME NEW w, NEW h, WorldOK(w, h), NEW ip \in IPs, NEW flags
  PROVE  LET f == etharp_find_entry(w, ip, flags) IN
           \/ f.i = ERR_MEM /\ f.w = w /\ Matching(w.t, ip) = {}
           \/ f.i # ERR_MEM /\ Found(w, h, ip, f)
<1> DEFINE f == etharp_find_entry(w, ip, flags)
           match == Matching(w.t, ip)
           empty == {i \in Idx : w.t[i].state = EMPTY}
           classes == {k \in 1 .. 3 : Recyclable(w.t)[k] # {}}
           old == Oldest(w.t, Recyclable(w.t)[Min(classes)])
           None == [i |-> ERR_MEM, w |-> w]
           New(v, i) == [i |-> i, w |-> Renewed(v, i, ip)]
<1>1. w.t \in [Idx -> Entry] /\ TableInv(w.t)
  BY WorldFields
<1>2. \/ match # {} /\ f = [i |-> Min(match), w |-> w]
      \/ match = {} /\ f = None
      \/ match = {} /\ empty # {} /\ f = New(w, Min(empty))
      \/ match = {} /\ classes # {} /\ f = New(etharp_free_entry(w, old), old)
  BY Zenon DEF etharp_find_entry, Renewed
<1> SUFFICES \/ f.i = ERR_MEM /\ f.w = w /\ match = {}
             \/ f.i # ERR_MEM /\ Found(w, h, ip, f)
  BY Zenon
<1> HIDE DEF f
<1>3. CASE match # {} /\ f = [i |-> Min(match), w |-> w]
  <2>1. Min(match) \in match /\ match \subseteq Idx
    <3>1. match \in SUBSET Nat
      BY Zenon, IdxFact DEF Matching
    <3> QED BY Zenon, <1>3, <3>1, LeastExists DEF Matching
  <2>2. f.i \in Idx /\ f.w = w /\ w.t[f.i].state # EMPTY /\ w.t[f.i].ipaddr = ip
    BY Zenon, <1>3, <2>1 DEF Matching
  <2>3. \A j \in Idx \ {f.i} : w.t[j].state # EMPTY => w.t[j].ipaddr # ip
    BY Zenon, <1>1, <2>2 DEF TableInv, Once
  <2> QED BY Zenon, <2>2, <2>3, IdxFact DEF Found
<1>4. CASE match = {} /\ f = None
  BY Zenon, <1>4
<1>5. ASSUME match = {}, NEW v, NEW i \in Idx, WorldOK(v, h), v.t[i].state = EMPTY,
             \A j \in Idx \ {i} : v.t[j] = w.t[j], w.t[i].state # STATIC, f = New(v, i)
      PROVE  f.i # ERR_MEM /\ Found(w, h, ip, f)
  <2> DEFINE n == Renewed(v, i, ip)
  <2>1. /\ WorldOK(n, h)
        /\ n.t[i].ipaddr = ip /\ n.t[i].ctime = 0 /\ n.t[i].state = EMPTY /\ n.t[i].q = NULL
        /\ \A j \in Idx \ {i} : n.t[j] = v.t[j]
    <3>1. WorldOK(v, h) /\ v.t[i].state = EMPTY
      BY Zenon, <1>5
    <3> HIDE DEF empty, classes, old, None, New
    <3> QED BY Zenon, <3>1, RenewedFact
  <2>2. f.i = i /\ f.w = n
    BY Zenon, <1>5
  <2> HIDE DEF n
  <2>3. \A j \in Idx : w.t[j].state # EMPTY => w.t[j].ipaddr # ip
    BY Zenon, <1>5 DEF Matching
  <2> QED BY Zenon, <1>5, <2>1, <2>2, <2>3, IdxFact DEF Found
<1>6. CASE match = {} /\ empty # {} /\ f = New(w, Min(empty))
  <2>1. Min(empty) \in empty
    <3>1. empty \in SUBSET Nat
      BY Zenon, IdxFact
    <3> QED BY Zenon, <1>6, <3>1, LeastExists
  <2>2. Min(empty) \in Idx /\ w.t[Min(empty)].state = EMPTY /\ EMPTY # STATIC
    BY <2>1 DEF EMPTY, STATIC
  <2> QED BY Zenon, <1>5, <1>6, <2>2
<1>7. CASE match = {} /\ classes # {} /\ f = New(etharp_free_entry(w, old), old)
  <2> DEFINE v == etharp_free_entry(w, old)
             S == Recyclable(w.t)[Min(classes)]
  <2>1. Min(classes) \in classes
    <3>1. classes \in SUBSET Nat
      OBVIOUS
    <3> QED BY Zenon, <1>7, <3>1, LeastExists
  <2>2. S \in SUBSET Idx /\ S # {} /\ \A i \in S : w.t[i].state # STATIC /\ w.t[i].ctime < ARP_MAXAGE
    BY Zenon, <1>1, <2>1, RecyclableFact
  <2>3. old \in S
    BY Zenon, <1>1, <2>2, OldestIn
  <2> HIDE DEF S, old
  <2>4. old \in Idx /\ w.t[old].state # STATIC
    BY Zenon, <2>2, <2>3
  <2>5. /\ WorldOK(v, h) /\ v.t[old].state = EMPTY
        /\ \A j \in Idx \ {old} : v.t[j] = w.t[j]
    BY Zenon, <2>4, FreeEntryFact
  <2>7. f = New(v, old)
    BY Zenon, <1>7
  <2> HIDE DEF v
  <2> QED BY Zenon, <1>5, <1>7, <2>4, <2>5, <2>7
<1> QED BY Zenon, <1>2, <1>3, <1>4, <1>6, <1>7
-----------------------------------------------------------------------------
\* What waits on an entry is to go to a host behind the entry's address.
DstOK(t, ds) ==
  \A i \in Idx : t[i].q # NULL => ds[t[i].q] \in Dests /\ NextHop[ds[t[i].q]] = t[i].ipaddr

\* A resolved entry holds the address that its host announced last.
HeardOK(t, hd) == \A i \in Idx : t[i].state >= STABLE => hd[t[i].ipaddr] = t[i].ethaddr

DstSet == [Pbufs -> Dests \cup {NULL}]
HeardSet == [IPs -> MACs \cup {NULL}]

\* The inductive invariant.
IInv ==
  /\ WorldOK(World, held)
  /\ held \subseteq Pbufs /\ etharp_cached_entry \in Idx
  /\ dst \in DstSet /\ DstOK(arp_table, dst)
  /\ heard \in HeardSet /\ HeardOK(arp_table, heard)
  /\ SentToLatest

\* The table and the counts of a state, without the invariant's other parts.
LEMMA InvFields ==
  ASSUME IInv
  PROVE  /\ World.t = arp_table /\ World.r = ref /\ WorldOK(World, held)
         /\ arp_table \in [Idx -> Entry] /\ ref \in [Pbufs -> Int] /\ TableInv(arp_table)
         /\ \A p \in Pbufs : ref[p] = Holds(held, p) + Waits(arp_table, p)
<1>1. World.t = arp_table /\ World.r = ref
  BY Zenon DEF World
<1> QED BY Zenon, <1>1, WorldFields DEF IInv, Counted

\* A step that leaves a sound world keeps the types and the destinations: a buffer that
\* waits is referred to, so its content stays.
LEMMA BecomesFact ==
  ASSUME NEW w, NEW h \in SUBSET Pbufs, WorldOK(w, h), held' = h,
         NEW ds \in DstSet, DstOK(w.t, ds), Becomes(w, ds)
  PROVE  /\ WorldOK(World, held)' /\ (held \subseteq Pbufs)'
         /\ (dst \in DstSet)' /\ DstOK(arp_table, dst)'
         /\ arp_table' = w.t
<1>1. /\ w = [t |-> w.t, r |-> w.r] /\ w.t \in [Idx -> Entry] /\ w.r \in [Pbufs -> Int]
      /\ \A p \in Pbufs : w.r[p] = Holds(h, p) + Waits(w.t, p)
  BY Zenon, WorldFields DEF Counted
<1>2. arp_table' = w.t /\ ref' = w.r /\ dst' = [p \in Pbufs |-> IF w.r[p] = 0 THEN NULL ELSE ds[p]]
  BY Zenon DEF Becomes
<1>3. World' = w
  BY Zenon, <1>1, <1>2 DEF World
<1>4. WorldOK(World, held)'
  BY Zenon, <1>3
<1>5. dst' \in DstSet
  BY Zenon, <1>2 DEF DstSet
<1>6. DstOK(arp_table', dst')
  <2> SUFFICES ASSUME NEW i \in Idx, w.t[i].q # NULL
               PROVE  dst'[w.t[i].q] \in Dests /\ NextHop[dst'[w.t[i].q]] = w.t[i].ipaddr
    BY Zenon, <1>2 DEF DstOK
  <2>1. w.t[i].q \in Pbufs
    BY Zenon, <1>1, EntryFields
  <2>2. Waits(w.t, w.t[i].q) = 1
    BY Zenon DEF Waits, Waiting
  <2>3. w.r[w.t[i].q] # 0
    BY <1>1, <2>1, <2>2 DEF Holds
  <2>4. dst'[w.t[i].q] = ds[w.t[i].q]
    BY Zenon, <1>2, <2>1, <2>3
  <2> QED BY Zenon, <2>4 DEF DstOK
<1> QED BY Zenon, <1>2, <1>4, <1>5, <1>6

\* Announcements: an address that is in the table keeps what is recorded for it.
LEMMA HearsFact ==
  ASSUME NEW hd \in HeardSet, Hears(hd), TableInv(arp_table)', HeardOK(arp_table', hd)
  PROVE  /\ (heard \in HeardSet)' /\ HeardOK(arp_table, heard)'
         /\ \A i \in Idx : arp_table'[i].state # EMPTY =>
              heard'[arp_table'[i].ipaddr] = hd[arp_table'[i].ipaddr]
<1>1. /\ heard' = [ip \in IPs |-> IF Matching(arp_table', ip) = {} THEN NULL ELSE hd[ip]]
      /\ arp_table' \in [Idx -> Entry]
  BY Zenon DEF Hears, TableInv
<1>2. heard' \in HeardSet
  BY Zenon, <1>1 DEF HeardSet
<1>3. ASSUME NEW i \in Idx, arp_table'[i].state # EMPTY
      PROVE  heard'[arp_table'[i].ipaddr] = hd[arp_table'[i].ipaddr]
  <2>1. arp_table'[i].ipaddr \in IPs
    BY Zenon, <1>3 DEF TableInv, EntryOK
  <2>2. Matching(arp_table', arp_table'[i].ipaddr) # {}
    BY Zenon, <1>3 DEF Matching
  <2> QED BY Zenon, <1>1, <2>1, <2>2
<1>4. \A i \in Idx : arp_table'[i].state >= STABLE => arp_table'[i].state # EMPTY
  BY DEF STABLE, EMPTY
<1>5. HeardOK(arp_table', heard')
  BY Zenon, <1>3, <1>4 DEF HeardOK
<1> QED BY Zenon, <1>2, <1>3, <1>5

\* etharp_update_arp_entry (etharp.c:423-492) with what the announcement makes known.
LEMMA UpdateStep ==
  ASSUME IInv, NEW ip \in IPs, NEW mac \in MACs, NEW flags,
         etharp_update_arp_entry(ip, mac, flags), held' = held,
         etharp_cached_entry' = etharp_cached_entry,
         NEW hd \in HeardSet, Hears(hd),
         \A x \in IPs \ {ip} : hd[x] = heard[x],
         hd[ip] = IF IsStatic(ip) /\ "STATIC" \notin flags THEN heard[ip] ELSE mac
  PROVE  IInv'
<1> DEFINE f == etharp_find_entry(World, ip, flags)
           e == f.w.t[f.i]
           s == IF "STATIC" \in flags THEN STATIC ELSE STABLE
           n == [e EXCEPT !.state = s, !.ethaddr = mac, !.ctime = 0, !.q = NULL]
           v == [t |-> [f.w.t EXCEPT ![f.i] = n], r |-> pbuf_free(f.w.r, e.q)]
<1>1. /\ World.t = arp_table /\ WorldOK(World, held) /\ arp_table \in [Idx -> Entry]
      /\ TableInv(arp_table) /\ held \in SUBSET Pbufs /\ etharp_cached_entry \in Idx
      /\ dst \in DstSet /\ DstOK(arp_table, dst) /\ HeardOK(arp_table, heard)
  BY Zenon, InvFields DEF IInv
<1>2. \/ f.i = ERR_MEM /\ f.w = World /\ Matching(arp_table, ip) = {}
      \/ f.i # ERR_MEM /\ Found(World, held, ip, f)
  BY Zenon, <1>1, FindFact
<1>3. \/ f.i = ERR_MEM /\ Becomes(f.w, dst) /\ wire' = NoFrame
      \/ f.i # ERR_MEM /\ e.state = STATIC /\ "STATIC" \notin flags /\ Becomes(f.w, dst) /\ wire' = NoFrame
      \/ /\ f.i # ERR_MEM /\ ~(e.state = STATIC /\ "STATIC" \notin flags)
         /\ Becomes(v, dst) /\ wire' = IF e.q = NULL THEN NoFrame ELSE Frame(dst[e.q], mac)
  BY Zenon DEF etharp_update_arp_entry
<1> HIDE DEF f
<1>4. \A i \in Idx : arp_table[i].state >= STABLE => /\ arp_table[i].state # EMPTY
                                                     /\ arp_table[i].ipaddr \in IPs
  BY Zenon, <1>1, StateCodes DEF TableInv, EntryOK
<1>5. ASSUME Becomes(World, dst), wire' = NoFrame, hd[ip] = heard[ip] \/ Matching(arp_table, ip) = {}
      PROVE  IInv'
  <2>1. /\ WorldOK(World, held)' /\ (held \subseteq Pbufs)'
        /\ (dst \in DstSet)' /\ DstOK(arp_table, dst)' /\ arp_table' = arp_table
    BY Zenon, <1>1, <1>5, BecomesFact
  <2>2. HeardOK(arp_table', hd)
    <3> SUFFICES ASSUME NEW j \in Idx, arp_table[j].state >= STABLE
                 PROVE  hd[arp_table[j].ipaddr] = arp_table[j].ethaddr
      BY Zenon, <2>1 DEF HeardOK
    <3>1. heard[arp_table[j].ipaddr] = arp_table[j].ethaddr
      BY Zenon, <1>1 DEF HeardOK
    <3>2. CASE arp_table[j].ipaddr # ip
      BY Zenon, <1>4, <3>1, <3>2
    <3>3. CASE arp_table[j].ipaddr = ip
      <4>1. j \in Matching(arp_table, ip)
        BY Zenon, <1>4, <3>3 DEF Matching
      <4> QED BY Zenon, <1>5, <3>1, <3>3, <4>1
    <3> QED BY Zenon, <3>2, <3>3
  <2>3. (heard \in HeardSet)' /\ HeardOK(arp_table, heard)'
    BY Zenon, <1>1, <2>1, <2>2, HearsFact
  <2> QED BY Zenon, <1>1, <1>5, <2>1, <2>3 DEF IInv, SentToLatest
<1>6. CASE f.i = ERR_MEM /\ Becomes(f.w, dst) /\ wire' = NoFrame
  BY Zenon, <1>2, <1>5, <1>6
<1>7. CASE f.i # ERR_MEM /\ e.state = STATIC /\ "STATIC" \notin flags /\ Becomes(f.w, dst) /\ wire' = NoFrame
  <2>1. Found(World, held, ip, f)
    BY Zenon, <1>2, <1>7
  <2>2. f.w = World /\ f.i \in Idx /\ arp_table[f.i].state = STATIC /\ arp_table[f.i].ipaddr = ip
    BY Zenon, <1>1, <1>7, <2>1, StateCodes DEF Found
  <2>3. IsStatic(ip)
    BY Zenon, <2>2 DEF IsStatic
  <2> QED BY Zenon, <1>5, <1>7, <2>2, <2>3
<1>8. CASE /\ f.i # ERR_MEM /\ ~(e.state = STATIC /\ "STATIC" \notin flags)
           /\ Becomes(v, dst) /\ wire' = IF e.q = NULL THEN NoFrame ELSE Frame(dst[e.q], mac)
  <2>1. /\ WorldOK(f.w, held) /\ f.i \in Idx /\ e.ipaddr = ip
        /\ \A j \in Idx \ {f.i} : f.w.t[j] = arp_table[j]
        /\ \A j \in Idx \ {f.i} : arp_table[j].state # EMPTY => arp_table[j].ipaddr # ip
        /\ \/ f.w = World
           \/ e.q = NULL /\ arp_table[f.i].state # STATIC
    BY Zenon, <1>1, <1>2, <1>8 DEF Found
  <2>2. f.w.t \in [Idx -> Entry] /\ e \in Entry
    BY Zenon, <2>1, WorldFields, EntryFields
  <2>3. s \in EMPTY .. STATIC /\ s >= STABLE /\ s # EMPTY
    BY Zenon, StateCodes
  <2> HIDE DEF s, e
  <2>4. n \in Entry /\ n.state = s /\ n.ethaddr = mac /\ n.ctime = 0 /\ n.q = NULL /\ n.ipaddr = e.ipaddr
    BY Zenon, <2>2, <2>3 DEF Entry
  <2> HIDE DEF n
  <2>5. EntryOK(n)
    BY <2>1, <2>3, <2>4, EtharpAssumption DEF EntryOK
  <2>6. WorldOK(v, held)
    <3>1. v = Dropped(f.w, f.i, n)
      BY Zenon DEF Dropped, e
    <3>2. \A j \in Idx \ {f.i} : f.w.t[j].state # EMPTY => f.w.t[j].ipaddr # n.ipaddr
      BY Zenon, <2>1, <2>4
    <3>3. WorldOK(Dropped(f.w, f.i, n), held)
      <4>1. MayStand(f.w.t, f.i, n)
        BY Zenon, <2>4, <2>5, <3>2 DEF MayStand
      <4> QED BY Zenon, <2>1, <2>4, <4>1, DropFact
    <3> QED BY Zenon, <3>1, <3>3
  <2>7. v.t = [f.w.t EXCEPT ![f.i] = n]
    BY Zenon
  <2> HIDE DEF v
  <2>8. v.t[f.i] = n /\ \A j \in Idx \ {f.i} : v.t[j] = arp_table[j]
    BY Zenon, <2>1, <2>2, <2>7
  <2>9. DstOK(v.t, dst)
    <3> SUFFICES ASSUME NEW j \in Idx, v.t[j].q # NULL
                 PROVE  dst[v.t[j].q] \in Dests /\ NextHop[dst[v.t[j].q]] = v.t[j].ipaddr
      BY Zenon DEF DstOK
    <3>1. j # f.i
      BY Zenon, <2>4, <2>8
    <3>2. v.t[j] = arp_table[j]
      BY Zenon, <2>8, <3>1
    <3> QED BY Zenon, <1>1, <3>2 DEF DstOK
  <2>10. /\ WorldOK(World, held)' /\ (held \subseteq Pbufs)'
         /\ (dst \in DstSet)' /\ DstOK(arp_table, dst)' /\ arp_table' = v.t
    BY Zenon, <1>1, <1>8, <2>6, <2>9, BecomesFact
  <2>11. hd[ip] = mac
    <3> SUFFICES ASSUME IsStatic(ip), "STATIC" \notin flags PROVE FALSE
      BY Zenon
    <3>1. PICK k \in Idx : arp_table[k].state = STATIC /\ arp_table[k].ipaddr = ip
      BY Zenon DEF IsStatic
    <3>2. k = f.i
      BY Zenon, <2>1, <3>1, StateCodes
    <3>3. e.state = STATIC
      BY Zenon, <1>1, <2>1, <3>1, <3>2 DEF e
    <3> QED BY Zenon, <1>8, <3>3
  <2>12. HeardOK(arp_table', hd)
    <3> SUFFICES ASSUME NEW j \in Idx, v.t[j].state >= STABLE
                 PROVE  hd[v.t[j].ipaddr] = v.t[j].ethaddr
      BY Zenon, <2>10 DEF HeardOK
    <3>1. CASE j = f.i
      BY Zenon, <2>1, <2>4, <2>8, <2>11, <3>1
    <3>2. CASE j # f.i
      <4>1. arp_table[j].state # EMPTY /\ arp_table[j].ipaddr \in IPs \ {ip} /\ v.t[j] = arp_table[j]
        BY Zenon, <1>4, <2>1, <2>8, <3>2
      <4>2. hd[arp_table[j].ipaddr] = heard[arp_table[j].ipaddr]
        BY Zenon, <4>1
      <4> QED BY Zenon, <1>1, <4>1, <4>2 DEF HeardOK
    <3> QED BY Zenon, <3>1, <3>2
  <2>13. TableInv(arp_table)'
    BY Zenon, <2>6, <2>10, WorldFields
  <2>14. /\ (heard \in HeardSet)' /\ HeardOK(arp_table, heard)'
         /\ \A i \in Idx : arp_table'[i].state # EMPTY =>
              heard'[arp_table'[i].ipaddr] = hd[arp_table'[i].ipaddr]
    BY Zenon, <2>12, <2>13, HearsFact
  <2>15. SentToLatest'
    <3>1. CASE e.q = NULL
      BY Zenon, <1>8, <3>1 DEF SentToLatest
    <3>2. CASE e.q # NULL
      <4>1. f.w = World
        BY Zenon, <2>1, <3>2
      <4>2. NextHop[dst[e.q]] = ip
        BY Zenon, <1>1, <2>1, <3>2, <4>1 DEF DstOK, e
      <4>3. heard'[ip] = mac
        BY Zenon, <2>1, <2>3, <2>4, <2>8, <2>10, <2>11, <2>14
      <4>4. wire' = Frame(dst[e.q], mac) /\ ip # Broadcast
        BY Zenon, <1>8, <3>2, EtharpAssumption
      <4>5. wire'.to = dst[e.q] /\ wire'.mac = mac
        BY Zenon, <4>4 DEF Frame
      <4> QED BY Zenon, <4>2, <4>3, <4>4, <4>5 DEF SentToLatest
    <3> QED BY Zenon, <3>1, <3>2
  <2> QED BY Zenon, <1>1, <2>10, <2>14, <2>15 DEF IInv
<1> QED BY Zenon, <1>3, <1>6, <1>7, <1>8
-----------------------------------------------------------------------------
\* A step that sends nothing and changes resolved entries at most to empty ones.
LEMMA QuietStep ==
  ASSUME IInv, NEW w, WorldOK(w, held), held' = held, Becomes(w, dst),
         \A i \in Idx : w.t[i].q \in {arp_table[i].q, NULL} /\ w.t[i].ipaddr = arp_table[i].ipaddr,
         \A i \in Idx : w.t[i].state >= STABLE =>
           arp_table[i].state >= STABLE /\ w.t[i].ethaddr = arp_table[i].ethaddr,
         wire' = NoFrame, Hears(heard), etharp_cached_entry' = etharp_cached_entry
  PROVE  IInv'
<1>1. /\ held \in SUBSET Pbufs /\ etharp_cached_entry \in Idx
      /\ dst \in DstSet /\ DstOK(arp_table, dst)
      /\ heard \in HeardSet /\ HeardOK(arp_table, heard)
  BY Zenon DEF IInv
<1>2. DstOK(w.t, dst)
  BY Zenon, <1>1 DEF DstOK
<1>3. /\ WorldOK(World, held)' /\ (held \subseteq Pbufs)'
      /\ (dst \in DstSet)' /\ DstOK(arp_table, dst)' /\ arp_table' = w.t
  BY Zenon, <1>1, <1>2, BecomesFact
<1>4. HeardOK(arp_table', heard)
  BY Zenon, <1>1, <1>3 DEF HeardOK
<1>5. TableInv(arp_table)'
  BY Zenon, <1>3, WorldFields
<1>6. (heard \in HeardSet)' /\ HeardOK(arp_table, heard)'
  BY Zenon, <1>1, <1>4, <1>5, HearsFact
<1> QED BY Zenon, <1>1, <1>3, <1>6 DEF IInv, SentToLatest

\* etharp_remove_static_entry (etharp.c:530-553).
LEMMA RemoveStep ==
  ASSUME IInv, NEW ip \in IPs, etharp_remove_static_entry(ip)
  PROVE  /\ IInv'
         /\ \A i \in Idx : arp_table[i].state = STATIC /\ arp_table'[i] # arp_table[i]
                             => arp_table[i].ipaddr = ip
<1> DEFINE f == etharp_find_entry(World, ip, {"FIND_ONLY"})
           v == etharp_free_entry(f.w, f.i)
<1>1. /\ World.t = arp_table /\ WorldOK(World, held) /\ arp_table \in [Idx -> Entry]
  BY Zenon, InvFields
<1>2. /\ f.i # ERR_MEM /\ f.w.t[f.i].state = STATIC /\ Becomes(v, dst) /\ wire' = NoFrame
      /\ Hears(heard) /\ etharp_cached_entry' = etharp_cached_entry /\ held' = held
  BY Zenon DEF etharp_remove_static_entry
<1>3. Found(World, held, ip, f)
  BY Zenon, <1>1, <1>2, FindFact
<1> HIDE DEF f
<1>4. f.w = World /\ f.i \in Idx /\ arp_table[f.i].ipaddr = ip
  BY Zenon, <1>1, <1>2, <1>3, StateCodes DEF Found
<1>5. /\ WorldOK(v, held)
      /\ v.t[f.i].state = EMPTY /\ v.t[f.i].q = NULL /\ v.t[f.i].ipaddr = arp_table[f.i].ipaddr
      /\ \A j \in Idx \ {f.i} : v.t[j] = arp_table[j]
  <2> DEFINE u == etharp_free_entry(World, f.i)
  <2>1. /\ WorldOK(u, held)
        /\ u.t[f.i].state = EMPTY /\ u.t[f.i].q = NULL /\ u.t[f.i].ipaddr = World.t[f.i].ipaddr
        /\ \A j \in Idx \ {f.i} : u.t[j] = World.t[j]
    <3>1. WorldOK(World, held) /\ f.i \in Idx
      BY Zenon, <1>1, <1>4
    <3> HIDE DEF v
    <3> QED BY Zenon, <3>1, FreeEntryFact
  <2>2. v = u
    BY Zenon, <1>4
  <2> HIDE DEF u, v
  <2> QED BY Zenon, <1>1, <2>1, <2>2
<1> HIDE DEF v
<1>8. ~(EMPTY >= STABLE)
  BY DEF EMPTY, STABLE
<1>9. IInv'
  <2>1. \A i \in Idx : v.t[i].q \in {arp_table[i].q, NULL} /\ v.t[i].ipaddr = arp_table[i].ipaddr
    BY Zenon, <1>5
  <2>2. \A i \in Idx : v.t[i].state >= STABLE =>
          arp_table[i].state >= STABLE /\ v.t[i].ethaddr = arp_table[i].ethaddr
    BY Zenon, <1>5, <1>8
  <2> QED BY Zenon, <1>2, <1>5, <2>1, <2>2, QuietStep
<1>10. arp_table' = v.t
  BY Zenon, <1>2 DEF Becomes
<1> QED BY Zenon, <1>4, <1>5, <1>9, <1>10

\* etharp_cleanup_netif (etharp.c:560-570).
LEMMA CleanupStep ==
  ASSUME IInv, etharp_cleanup_netif
  PROVE  IInv'
<1> DEFINE t == [i \in Idx |-> [arp_table[i] EXCEPT !.state = EMPTY, !.q = NULL]]
           lost == {i \in Idx : arp_table[i].q # NULL /\ t[i].q = NULL}
           r == [p \in Pbufs |-> ref[p] - Cardinality({i \in lost : arp_table[i].q = p})]
           v == [t |-> t, r |-> r]
<1>1. /\ World.t = arp_table /\ World.r = ref /\ WorldOK(World, held)
      /\ arp_table \in [Idx -> Entry]
  BY Zenon, InvFields
<1>2. ASSUME NEW i \in Idx
      PROVE  /\ t[i] \in Entry /\ t[i].state = EMPTY /\ t[i].q = NULL
             /\ t[i].ipaddr = arp_table[i].ipaddr
  <2>1. arp_table[i] \in Entry
    BY Zenon, <1>1, EntryFields
  <2>2. EMPTY \in EMPTY .. STATIC
    BY DEF EMPTY, STATIC
  <2>3. t[i] = [arp_table[i] EXCEPT !.state = EMPTY, !.q = NULL]
    BY Zenon
  <2> HIDE DEF t
  <2> QED BY Zenon, <2>1, <2>2, <2>3 DEF Entry
<1>3. t \in [Idx -> Entry]
  <2>1. \A i \in Idx : t[i] \in Entry
    BY Zenon, <1>2
  <2>2. t = [i \in Idx |-> t[i]]
    BY Zenon
  <2> HIDE DEF t
  <2> QED BY Zenon, <2>1, <2>2
<1>4. \A p \in Pbufs : {i \in Idx : arp_table[i].q = p} = {i \in lost : arp_table[i].q = p}
  <2> HIDE DEF t
  <2> QED BY Zenon, <1>2, EtharpAssumption
<1>5. r = [p \in Pbufs |-> ref[p] - Cardinality({i \in Idx : arp_table[i].q = p})]
  <2> HIDE DEF lost
  <2> QED BY Zenon, <1>4
<1>6. /\ Becomes(v, dst) /\ wire' = NoFrame /\ Hears(heard)
      /\ etharp_cached_entry' = etharp_cached_entry /\ held' = held
  BY Zenon, <1>5 DEF etharp_cleanup_netif
<1> HIDE DEF t
<1>7. \A i \in Idx : EntryOK(t[i]) /\ t[i].q \in {arp_table[i].q, NULL}
  BY Zenon, <1>2 DEF EntryOK
<1>8. WorldOK(v, held)
  <2>1. WorldOK([t |-> arp_table, r |-> ref], held)
    BY Zenon, <1>1 DEF World
  <2>2. \A i \in Idx : t[i].state # EMPTY =>
          arp_table[i].state # EMPTY /\ t[i].ipaddr = arp_table[i].ipaddr
    BY Zenon, <1>2
  <2> QED BY Zenon, <1>3, <1>7, <2>1, <2>2, SweepFact
<1>9. ~(EMPTY >= STABLE)
  BY DEF EMPTY, STABLE
<1>10. v.t = t
  BY Zenon
<1> HIDE DEF v
<1> QED BY Zenon, <1>2, <1>6, <1>8, <1>9, <1>10, QuietStep

\* One pass of the loop of etharp_tmr (etharp.c:203-240): an entry that is not given up
\* keeps its host and its packet.
LEMMA AgedFact ==
  ASSUME NEW e \in Entry, EntryOK(e)
  PROVE  /\ Aged(e) \in Entry /\ EntryOK(Aged(e))
         /\ Aged(e).q \in {e.q, NULL} /\ Aged(e).ipaddr = e.ipaddr /\ Aged(e).ethaddr = e.ethaddr
         /\ Aged(e).state # EMPTY => e.state # EMPTY
         /\ Aged(e).state >= STABLE => e.state >= STABLE
         /\ e.state = STATIC => Aged(e) = e
<1>1. /\ e.ctime \in Nat /\ e.state \in 0 .. 5 /\ ARP_MAXAGE \in Nat
      /\ ARP_MAXPENDING \in Nat /\ e.ctime + 1 \in Nat
  BY EtharpAssumption DEF Entry, EMPTY, STATIC
<1>2. CASE e.state \in {EMPTY, STATIC}
  BY Zenon, <1>2 DEF Aged
<1>3. CASE /\ e.state \notin {EMPTY, STATIC}
           /\ \/ e.ctime + 1 >= ARP_MAXAGE
              \/ e.state = PENDING /\ e.ctime + 1 >= ARP_MAXPENDING
  <2> DEFINE a == [e EXCEPT !.ctime = e.ctime + 1, !.state = EMPTY, !.q = NULL]
  <2>1. Aged(e) = a
    BY Zenon, <1>3 DEF Aged
  <2>2. EMPTY \in EMPTY .. STATIC
    BY DEF EMPTY, STATIC
  <2>3. /\ a \in Entry /\ a.state = EMPTY /\ a.q = NULL /\ a.ipaddr = e.ipaddr
        /\ a.ethaddr = e.ethaddr
    BY Zenon, <1>1, <2>2 DEF Entry
  <2> HIDE DEF a
  <2>4. EntryOK(a)
    BY Zenon, <2>3 DEF EntryOK
  <2> QED BY <1>3, <2>1, <2>3, <2>4 DEF EMPTY, STABLE
<1>4. CASE /\ e.state \notin {EMPTY, STATIC}
           /\ ~(\/ e.ctime + 1 >= ARP_MAXAGE
                \/ e.state = PENDING /\ e.ctime + 1 >= ARP_MAXPENDING)
  <2> DEFINE s == CASE e.state = STABLE_REREQUESTING_1 -> STABLE_REREQUESTING_2
                    [] e.state = STABLE_REREQUESTING_2 -> STABLE
                    [] OTHER -> e.state
             a == [e EXCEPT !.ctime = e.ctime + 1, !.state = s]
  <2>1. Aged(e) = a
    BY Zenon, <1>4 DEF Aged
  <2>2. s \in EMPTY .. STATIC /\ (s = PENDING <=> e.state = PENDING) /\ s # EMPTY
        /\ (s >= STABLE => e.state >= STABLE)
    BY <1>1, <1>4 DEF EMPTY, PENDING, STABLE, STABLE_REREQUESTING_1, STABLE_REREQUESTING_2, STATIC
  <2> HIDE DEF s
  <2>3. /\ a \in Entry /\ a.state = s /\ a.q = e.q /\ a.ipaddr = e.ipaddr
        /\ a.ethaddr = e.ethaddr /\ a.ctime = e.ctime + 1
    BY Zenon, <1>1, <2>2 DEF Entry
  <2> HIDE DEF a
  <2>4. EntryOK(a)
    BY <1>1, <1>4, <2>2, <2>3 DEF EntryOK
  <2> QED BY Zenon, <1>4, <2>1, <2>2, <2>3, <2>4
<1> QED BY Zenon, <1>2, <1>3, <1>4

\* etharp_tmr (etharp.c:198-241).
LEMMA TimerStep ==
  ASSUME IInv, etharp_tmr
  PROVE  IInv' /\ \A i \in Idx : arp_table[i].state = STATIC => arp_table'[i] = arp_table[i]
<1> DEFINE t == [i \in Idx |-> Aged(arp_table[i])]
           lost == {i \in Idx : arp_table[i].q # NULL /\ t[i].q = NULL}
           r == [p \in Pbufs |-> ref[p] - Cardinality({i \in lost : arp_table[i].q = p})]
           v == [t |-> t, r |-> r]
<1>1. /\ World.t = arp_table /\ World.r = ref /\ WorldOK(World, held)
      /\ arp_table \in [Idx -> Entry] /\ TableInv(arp_table)
  BY Zenon, InvFields
<1>2. \A i \in Idx : arp_table[i] \in Entry /\ EntryOK(arp_table[i]) /\ t[i] = Aged(arp_table[i])
  BY Zenon, <1>1 DEF TableInv
<1>3. /\ Becomes(v, dst) /\ wire' = NoFrame /\ Hears(heard)
      /\ etharp_cached_entry' = etharp_cached_entry /\ held' = held
  BY Zenon DEF etharp_tmr
<1>4. t = [i \in Idx |-> t[i]]
  BY Zenon
<1> HIDE DEF t
<1>5. \A i \in Idx : t[i] \in Entry
  BY Zenon, <1>2, AgedFact
<1>6. t \in [Idx -> Entry]
  BY Zenon, <1>4, <1>5
<1>7. \A i \in Idx : /\ EntryOK(t[i]) /\ t[i].q \in {arp_table[i].q, NULL}
                     /\ t[i].ipaddr = arp_table[i].ipaddr
                     /\ t[i].state # EMPTY => arp_table[i].state # EMPTY
                     /\ t[i].state >= STABLE =>
                          arp_table[i].state >= STABLE /\ t[i].ethaddr = arp_table[i].ethaddr
                     /\ arp_table[i].state = STATIC => t[i] = arp_table[i]
  BY Zenon, <1>2, AgedFact
<1>8. WorldOK(v, held)
  <2>1. WorldOK([t |-> arp_table, r |-> ref], held)
    BY Zenon, <1>1 DEF World
  <2>2. \A i \in Idx : t[i].state # EMPTY =>
          arp_table[i].state # EMPTY /\ t[i].ipaddr = arp_table[i].ipaddr
    BY Zenon, <1>7
  <2>3. \A i \in Idx : EntryOK(t[i]) /\ t[i].q \in {arp_table[i].q, NULL}
    BY Zenon, <1>7
  <2> QED BY Zenon, <1>6, <2>1, <2>2, <2>3, SweepFact
<1>9. v.t = t
  BY Zenon
<1> HIDE DEF v
<1>10. IInv'
  BY Zenon, <1>3, <1>7, <1>8, <1>9, QuietStep
<1>11. arp_table' = t
  BY Zenon, <1>3, <1>9 DEF Becomes
<1> QED BY Zenon, <1>7, <1>10, <1>11
-----------------------------------------------------------------------------
\* The caller's reference to the packet that it hands over: a new buffer, or a kept one
\* that waits nowhere.
LEMMA CallerFact ==
  ASSUME IInv, NEW p \in Pbufs, NEW d \in Dests,
         ref[p] = 0 \/ (p \in held /\ ref[p] = 1 /\ dst[p] = d)
  PROVE  LET w == [World EXCEPT !.r[p] = 1]
             ds == [dst EXCEPT ![p] = d]
         IN /\ WorldOK(w, held \cup {p}) /\ w.t = arp_table /\ ~Waiting(arp_table, p)
            /\ ds \in DstSet /\ ds[p] = d /\ DstOK(arp_table, ds)
<1> DEFINE r == [ref EXCEPT ![p] = 1]
           w == [World EXCEPT !.r[p] = 1]
           ds == [dst EXCEPT ![p] = d]
<1>1. /\ World = [t |-> arp_table, r |-> ref] /\ arp_table \in [Idx -> Entry]
      /\ ref \in [Pbufs -> Int] /\ TableInv(arp_table)
      /\ \A x \in Pbufs : ref[x] = Holds(held, x) + Waits(arp_table, x)
      /\ dst \in DstSet /\ DstOK(arp_table, dst)
  BY Zenon, InvFields DEF IInv, World
<1>2. w = [t |-> arp_table, r |-> r]
  BY <1>1
<1>3. ~Waiting(arp_table, p)
  BY <1>1 DEF Waits, Holds
<1>4. r \in [Pbufs -> Int] /\ r[p] = 1 /\ \A x \in Pbufs \ {p} : r[x] = ref[x]
  BY <1>1
<1> HIDE DEF r, w
<1>5. w.t = arp_table /\ w.r = r /\ w \in Worlds
  BY Zenon, <1>1, <1>2, <1>4 DEF Worlds
<1>6. Counted(w, held \cup {p})
  <2> SUFFICES ASSUME NEW x \in Pbufs PROVE r[x] = Holds(held \cup {p}, x) + Waits(arp_table, x)
    BY Zenon, <1>5 DEF Counted
  <2>1. CASE x = p
    BY <1>3, <1>4, <2>1 DEF Holds, Waits
  <2>2. CASE x # p
    BY Zenon, <1>1, <1>4, <2>2 DEF Holds
  <2> QED BY Zenon, <2>1, <2>2
<1>7. WorldOK(w, held \cup {p})
  BY Zenon, <1>1, <1>5, <1>6 DEF WorldOK
<1>8. ds \in DstSet /\ ds[p] = d /\ \A x \in Pbufs \ {p} : ds[x] = dst[x]
  BY Zenon, <1>1 DEF DstSet
<1> HIDE DEF ds
<1>9. DstOK(arp_table, ds)
  <2> SUFFICES ASSUME NEW i \in Idx, arp_table[i].q # NULL
               PROVE  ds[arp_table[i].q] \in Dests /\ NextHop[ds[arp_table[i].q]] = arp_table[i].ipaddr
    BY Zenon DEF DstOK
  <2>1. arp_table[i].q \in Pbufs \ {p}
    BY Zenon, <1>1, <1>3, EntryFields DEF Waiting
  <2> QED BY Zenon, <1>1, <1>8, <2>1 DEF DstOK
<1> QED BY Zenon, <1>3, <1>5, <1>7, <1>8, <1>9 DEF w, ds

\* After the call the caller keeps its reference or gives it back.
After(v, p, d) == IF d \in Kept THEN v ELSE [v EXCEPT !.r[p] = @ - 1]
HeldAfter(p, d) == IF d \in Kept THEN held \cup {p} ELSE held \ {p}

\* Either way the counts are those of the holders that remain.
LEMMA AfterFact ==
  ASSUME NEW v, NEW p \in Pbufs, NEW d, WorldOK(v, held \cup {p})
  PROVE  WorldOK(After(v, p, d), HeldAfter(p, d)) /\ After(v, p, d).t = v.t
<1>1. CASE d \in Kept
  BY Zenon, <1>1 DEF After, HeldAfter
<1>2. CASE d \notin Kept
  <2> DEFINE u == [v EXCEPT !.r[p] = @ - 1]
             r == [v.r EXCEPT ![p] = @ - 1]
  <2>1. /\ v = [t |-> v.t, r |-> v.r] /\ v.t \in [Idx -> Entry] /\ v.r \in [Pbufs -> Int]
        /\ TableInv(v.t) /\ \A x \in Pbufs : v.r[x] = Holds(held \cup {p}, x) + Waits(v.t, x)
    BY Zenon, WorldFields DEF Counted
  <2>2. u = [t |-> v.t, r |-> r]
    BY <2>1
  <2>3. r \in [Pbufs -> Int] /\ r[p] = v.r[p] - 1 /\ \A x \in Pbufs \ {p} : r[x] = v.r[x]
    BY <2>1
  <2> HIDE DEF r, u
  <2>4. u.t = v.t /\ u.r = r /\ u \in Worlds
    BY Zenon, <2>1, <2>2, <2>3 DEF Worlds
  <2>5. Counted(u, held \ {p})
    <3> SUFFICES ASSUME NEW x \in Pbufs PROVE r[x] = Holds(held \ {p}, x) + Waits(v.t, x)
      BY Zenon, <2>4 DEF Counted
    <3>1. Waits(v.t, x) \in Int
      BY DEF Waits
    <3>2. CASE x = p
      BY <2>1, <2>3, <3>1, <3>2 DEF Holds
    <3>3. CASE x # p
      BY Zenon, <2>1, <2>3, <3>3 DEF Holds
    <3> QED BY Zenon, <3>2, <3>3
  <2>6. WorldOK(u, held \ {p})
    BY Zenon, <2>1, <2>4, <2>5 DEF WorldOK
  <2>7. After(v, p, d) = u /\ HeldAfter(p, d) = held \ {p}
    BY Zenon, <1>2 DEF After, HeldAfter, u
  <2> QED BY Zenon, <2>4, <2>6, <2>7
<1> QED BY Zenon, <1>1, <1>2

\* What is left to show of a call of etharp_output once its world is known.
LEMMA OutputEnd ==
  ASSUME IInv, NEW p \in Pbufs, NEW d \in Dests, NEW w, WorldOK(w, HeldAfter(p, d)),
         held' = HeldAfter(p, d), NEW ds \in DstSet, DstOK(w.t, ds), Becomes(w, ds),
         HeardOK(w.t, heard), Hears(heard), etharp_cached_entry' \in Idx,
         \/ wire' = NoFrame
         \/ wire' = Frame(d, Broadcast) /\ NextHop[d] = Broadcast
         \/ \E i \in Idx : /\ w.t[i].state # EMPTY /\ w.t[i].ipaddr = NextHop[d]
                           /\ wire' = Frame(d, heard[NextHop[d]])
  PROVE  IInv'
<1>1. held \subseteq Pbufs /\ heard \in HeardSet
  BY Zenon DEF IInv
<1>2. HeldAfter(p, d) \in SUBSET Pbufs
  BY Zenon, <1>1 DEF HeldAfter
<1>3. /\ WorldOK(World, held)' /\ (held \subseteq Pbufs)'
      /\ (dst \in DstSet)' /\ DstOK(arp_table, dst)' /\ arp_table' = w.t
  BY Zenon, <1>2, BecomesFact
<1>4. TableInv(arp_table)'
  BY Zenon, <1>3, WorldFields
<1>5. /\ (heard \in HeardSet)' /\ HeardOK(arp_table, heard)'
      /\ \A i \in Idx : arp_table'[i].state # EMPTY =>
           heard'[arp_table'[i].ipaddr] = heard[arp_table'[i].ipaddr]
  BY Zenon, <1>1, <1>3, <1>4, HearsFact
<1>6. SentToLatest'
  <2>1. CASE wire' = NoFrame
    BY Zenon, <2>1 DEF SentToLatest
  <2>2. CASE wire' = Frame(d, Broadcast) /\ NextHop[d] = Broadcast
    <3>1. wire'.to = d /\ wire'.mac = Broadcast
      BY Zenon, <2>2 DEF Frame
    <3> QED BY Zenon, <2>2, <3>1 DEF SentToLatest
  <2>3. ASSUME NEW i \in Idx, w.t[i].state # EMPTY, w.t[i].ipaddr = NextHop[d],
               wire' = Frame(d, heard[NextHop[d]])
        PROVE  SentToLatest'
    <3>1. wire'.to = d /\ wire'.mac = heard[NextHop[d]]
      BY Zenon, <2>3 DEF Frame
    <3>2. NextHop[d] \in IPs
      BY Zenon, <1>3, <1>4, <2>3 DEF TableInv, EntryOK
    <3>3. NextHop[d] # Broadcast
      BY Zenon, <3>2, EtharpAssumption
    <3>4. heard'[NextHop[d]] = heard[NextHop[d]]
      BY Zenon, <1>3, <1>5, <2>3
    <3> QED BY Zenon, <3>1, <3>3, <3>4 DEF SentToLatest
  <2> QED BY Zenon, <2>1, <2>2, <2>3
<1> QED BY Zenon, <1>3, <1>5, <1>6 DEF IInv

\* A resolved entry may be marked as being asked for again (etharp.c:749-776).
LEMMA MarkFact ==
  ASSUME NEW w, NEW h, WorldOK(w, h), NEW i \in Idx, w.t[i].state >= STABLE,
         NEW s \in STABLE .. STATIC
  PROVE  LET v == [w EXCEPT !.t[i].state = s] IN
           /\ WorldOK(v, h)
           /\ v.t[i].state = s /\ v.t[i].ipaddr = w.t[i].ipaddr /\ v.t[i].ethaddr = w.t[i].ethaddr
           /\ v.t[i].q = NULL /\ \A j \in Idx \ {i} : v.t[j] = w.t[j]
<1> DEFINE e == [w.t[i] EXCEPT !.state = s]
           v == [w EXCEPT !.t[i].state = s]
<1>1. w = [t |-> w.t, r |-> w.r] /\ w.t \in [Idx -> Entry] /\ w.t[i] \in Entry /\ TableInv(w.t)
  BY Zenon, WorldFields, EntryFields
<1>2. s \in EMPTY .. STATIC /\ s # EMPTY /\ w.t[i].state # EMPTY /\ w.t[i].state # PENDING
  BY <1>1 DEF EMPTY, STATIC, STABLE, PENDING, Entry
<1>3. /\ e \in Entry /\ e.state = s /\ e.ipaddr = w.t[i].ipaddr /\ e.ethaddr = w.t[i].ethaddr
      /\ e.q = w.t[i].q /\ e.ctime = w.t[i].ctime
  BY Zenon, <1>1, <1>2 DEF Entry
<1>4. w.t[i].q = NULL /\ w.t[i].ipaddr \in IPs /\ w.t[i].ctime < ARP_MAXAGE
  BY Zenon, <1>1, <1>2 DEF TableInv, EntryOK
<1>5. v = [t |-> [w.t EXCEPT ![i] = e], r |-> w.r]
  BY <1>1
<1>6. pbuf_free(w.r, w.t[i].q) = w.r
  BY Zenon, <1>4 DEF pbuf_free
<1> HIDE DEF e, v
<1>7. EntryOK(e)
  BY Zenon, <1>3, <1>4 DEF EntryOK
<1>8. \A j \in Idx \ {i} : w.t[j].state # EMPTY => w.t[j].ipaddr # e.ipaddr
  BY Zenon, <1>1, <1>2, <1>3 DEF TableInv, Once
<1>9. WorldOK(v, h)
  <2>1. e.q = NULL /\ v = Dropped(w, i, e)
    BY Zenon, <1>3, <1>4, <1>5, <1>6 DEF Dropped
  <2>2. WorldOK(Dropped(w, i, e), h)
    <3>1. MayStand(w.t, i, e)
      BY Zenon, <1>7, <1>8, <2>1 DEF MayStand
    <3> QED BY Zenon, <1>3, <3>1, DropFact
  <2> QED BY Zenon, <2>1, <2>2
<1>10. v.t = [w.t EXCEPT ![i] = e]
  BY Zenon, <1>5
<1>11. v.t[i] = e /\ \A j \in Idx \ {i} : v.t[j] = w.t[j]
  BY Zenon, <1>1, <1>10
<1> QED BY Zenon, <1>3, <1>4, <1>9, <1>11 DEF v

\* The entry that etharp_query (etharp.c:934-1100) has found is pending, new or not.
Pended(f) == [f.w EXCEPT !.t[f.i].state = PENDING]

\* No entry resolves ip.
Unresolved(t, ip) == \A i \in Idx : ~(t[i].state >= STABLE /\ t[i].ipaddr = ip)

\* In the sound world v, entry i alone differs from the world w: it is pending for ip.
PendingIn(w, h, ip, i, v) ==
  /\ WorldOK(v, h)
  /\ v.t[i].state = PENDING /\ v.t[i].ipaddr = ip /\ v.t[i].q \in {w.t[i].q, NULL}
  /\ \A j \in Idx \ {i} : v.t[j] = w.t[j]
  /\ w.t[i].state # STATIC

\* This keeps the world sound and touches no static entry.
LEMMA PendFact ==
  ASSUME NEW w, NEW h, WorldOK(w, h), NEW ip \in IPs, NEW f, Found(w, h, ip, f),
         Unresolved(w.t, ip)
  PROVE  PendingIn(w, h, ip, f.i, Pended(f))
<1> DEFINE u == f.w
           i == f.i
           e == [u.t[i] EXCEPT !.state = PENDING]
           v == [u EXCEPT !.t[i].state = PENDING]
<1>1. /\ WorldOK(u, h) /\ i \in Idx /\ u.t[i].ipaddr = ip
      /\ \A j \in Idx \ {i} : u.t[j] = w.t[j]
      /\ \A j \in Idx \ {i} : w.t[j].state # EMPTY => w.t[j].ipaddr # ip
      /\ \/ u = w /\ w.t[i].state # EMPTY
         \/ /\ u.t[i].state = EMPTY /\ u.t[i].q = NULL /\ u.t[i].ctime = 0
            /\ w.t[i].state # STATIC
  BY Zenon DEF Found
<1> SUFFICES /\ WorldOK(v, h) /\ v.t[i].state = PENDING /\ v.t[i].ipaddr = ip
             /\ v.t[i].q \in {w.t[i].q, NULL}
             /\ \A j \in Idx \ {i} : v.t[j] = w.t[j]
             /\ w.t[i].state # STATIC
  BY Zenon DEF Pended, PendingIn
<1> HIDE DEF u, i
<1>2. u = [t |-> u.t, r |-> u.r] /\ u.t \in [Idx -> Entry] /\ u.t[i] \in Entry
  BY Zenon, <1>1, WorldFields, EntryFields
<1>3. v = [t |-> [u.t EXCEPT ![i] = e], r |-> u.r]
  BY <1>1, <1>2
<1>4. PENDING \in EMPTY .. STATIC /\ PENDING # EMPTY
  BY DEF EMPTY, STATIC, PENDING
<1>5. e \in Entry /\ e.state = PENDING /\ e.ipaddr = ip /\ e.q = u.t[i].q /\ e.ctime = u.t[i].ctime
  BY Zenon, <1>1, <1>2, <1>4 DEF Entry
<1>6. CASE u = w /\ w.t[i].state # EMPTY
  <2>1. w.t[i].state = PENDING
    BY <1>1, <1>2, <1>6 DEF Unresolved, Entry, EMPTY, PENDING, STABLE, STATIC
  <2>2. e = u.t[i]
    BY Zenon, <1>2, <1>6, <2>1 DEF Entry
  <2>3. [u.t EXCEPT ![i] = e] = u.t
    <3> HIDE DEF e
    <3> QED BY Zenon, <1>1, <1>2, <2>2
  <2> HIDE DEF e, v
  <2>4. v = w
    BY Zenon, <1>2, <1>3, <1>6, <2>3
  <2> QED BY Zenon, <1>1, <1>6, <2>1, <2>4, StateCodes
<1>7. CASE u.t[i].state = EMPTY /\ u.t[i].q = NULL /\ u.t[i].ctime = 0 /\ w.t[i].state # STATIC
  <2> HIDE DEF e, v
  <2>1. EntryOK(e)
    BY <1>5, <1>7, EtharpAssumption DEF EntryOK
  <2>2. pbuf_free(u.r, u.t[i].q) = u.r
    BY Zenon, <1>7 DEF pbuf_free
  <2>3. \A j \in Idx \ {i} : u.t[j].state # EMPTY => u.t[j].ipaddr # e.ipaddr
    BY Zenon, <1>1, <1>5
  <2>4. WorldOK(v, h)
    <3>1. e.q = NULL /\ v = Dropped(u, i, e)
      BY Zenon, <1>3, <1>5, <1>7, <2>2 DEF Dropped
    <3>2. WorldOK(Dropped(u, i, e), h)
      <4>1. MayStand(u.t, i, e)
        BY Zenon, <2>1, <2>3, <3>1 DEF MayStand
      <4> QED BY Zenon, <1>1, <1>5, <4>1, DropFact
    <3> QED BY Zenon, <3>1, <3>2
  <2>5. v.t = [u.t EXCEPT ![i] = e]
    BY Zenon, <1>3
  <2>6. v.t[i] = e /\ \A j \in Idx \ {i} : v.t[j] = u.t[j]
    BY Zenon, <1>1, <1>2, <2>5
  <2> QED BY Zenon, <1>1, <1>5, <1>7, <2>4, <2>6
<1> QED BY Zenon, <1>1, <1>6, <1>7

\* From table t to table u an entry stays as it is, or is pending and was not static.
OnlyPended(t, u) == \A i \in Idx : u[i] = t[i] \/ (u[i].state = PENDING /\ t[i].state # STATIC)

\* Every outcome of etharp_query leaves a sound world in which what waits on the entry
\* of the next hop is to go there.
LEMMA QueryFact ==
  ASSUME NEW w, NEW h, NEW p \in Pbufs, p \in h, WorldOK(w, h), ~Waiting(w.t, p),
         NEW ds \in DstSet, DstOK(w.t, ds), ds[p] \in Dests, NEW ip \in IPs, NextHop[ds[p]] = ip,
         Unresolved(w.t, ip), NEW o \in etharp_query(w, ds, ip, p)
  PROVE  /\ WorldOK(o.w, h) /\ o.d \in DstSet /\ DstOK(o.w.t, o.d)
         /\ OnlyPended(w.t, o.w.t)
<1> DEFINE f == etharp_find_entry(w, ip, {"TRY_HARD"})
           v == Pended(f)
           With(c) == [w |-> Enqueue([v EXCEPT !.r[c] = @ + 1], f.i, c),
                       d |-> [ds EXCEPT ![c] = ds[p]]]
<1>1. \/ f.i = ERR_MEM /\ f.w = w
      \/ f.i # ERR_MEM /\ Found(w, h, ip, f)
  BY Zenon, FindFact
<1>2. \/ f.i = ERR_MEM /\ o = [w |-> f.w, d |-> ds]
      \/ f.i # ERR_MEM /\ o = [w |-> v, d |-> ds]
      \/ f.i # ERR_MEM /\ \E c \in Pbufs : (v.r[c] = 0 \/ c = p) /\ o = With(c)
  <2> HIDE DEF f
  <2>1. o \in IF f.i = ERR_MEM THEN {[w |-> f.w, d |-> ds]}
              ELSE IF ds[p] \in Volatile
                THEN {[w |-> v, d |-> ds]} \cup {With(c) : c \in {b \in Pbufs : v.r[b] = 0}}
                ELSE {With(p)}
    BY Zenon DEF etharp_query, f, Pended
  <2> HIDE DEF v, With
  <2> QED BY Zenon, <2>1
<1> HIDE DEF f
<1>3. CASE f.i = ERR_MEM /\ o = [w |-> f.w, d |-> ds]
  BY Zenon, <1>1, <1>3 DEF OnlyPended
<1>4. CASE f.i # ERR_MEM
  <2>1. /\ WorldOK(v, h) /\ v.t[f.i].state = PENDING /\ v.t[f.i].ipaddr = ip
        /\ v.t[f.i].q \in {w.t[f.i].q, NULL}
        /\ \A j \in Idx \ {f.i} : v.t[j] = w.t[j]
        /\ w.t[f.i].state # STATIC
    <3>1. Found(w, h, ip, f)
      BY Zenon, <1>1, <1>4
    <3>2. PendingIn(w, h, ip, f.i, v)
      BY Zenon, <3>1, PendFact
    <3> HIDE DEF v
    <3> QED BY Zenon, <3>2 DEF PendingIn
  <2>2. f.i \in Idx /\ NULL \notin Pbufs
    BY Zenon, <1>1, <1>4, EtharpAssumption DEF Found
  <2>3. /\ v = [t |-> v.t, r |-> v.r] /\ v.t \in [Idx -> Entry] /\ v.r \in [Pbufs -> Int]
        /\ w.t \in [Idx -> Entry] /\ \A x \in Pbufs : v.r[x] = Holds(h, x) + Waits(v.t, x)
    BY Zenon, <2>1, WorldFields DEF Counted
  <2>4. ~Waiting(v.t, p)
    BY Zenon, <2>1, <2>2 DEF Waiting
  <2>5. \A i \in Idx : v.t[i].q # NULL =>
          ds[v.t[i].q] \in Dests /\ NextHop[ds[v.t[i].q]] = v.t[i].ipaddr
    <3> SUFFICES ASSUME NEW i \in Idx, v.t[i].q # NULL
                 PROVE  ds[v.t[i].q] \in Dests /\ NextHop[ds[v.t[i].q]] = v.t[i].ipaddr
      BY Zenon
    <3>1. CASE i # f.i
      BY Zenon, <2>1, <3>1 DEF DstOK
    <3>2. CASE i = f.i
      <4>1. v.t[i].q = w.t[i].q /\ v.t[i].state = PENDING /\ v.t[i].ipaddr = ip
        BY Zenon, <2>1, <3>2
      <4>2. w.t[i].ipaddr = ip
        <5>1. f.w = w \/ f.w.t[f.i].q = NULL
          BY Zenon, <1>1, <1>4 DEF Found
        <5>2. v.t[f.i].q = f.w.t[f.i].q
          BY <1>1, <1>4, <2>2, WorldFields DEF Found, Entry, Pended
        <5>3. f.w = w
          BY Zenon, <3>2, <5>1, <5>2
        <5> QED BY Zenon, <1>1, <1>4, <3>2, <5>3 DEF Found
      <4> QED BY Zenon, <4>1, <4>2 DEF DstOK
    <3> QED BY Zenon, <3>1, <3>2
  <2> HIDE DEF v
  <2>6. CASE o = [w |-> v, d |-> ds]
    BY Zenon, <2>1, <2>5, <2>6 DEF DstOK, OnlyPended
  <2>7. ASSUME NEW c \in Pbufs, v.r[c] = 0 \/ c = p, o = With(c)
        PROVE  /\ WorldOK(o.w, h) /\ o.d \in DstSet /\ DstOK(o.w.t, o.d)
               /\ OnlyPended(w.t, o.w.t)
    <3> DEFINE t == [v.t EXCEPT ![f.i].q = c]
               r == pbuf_free([v.r EXCEPT ![c] = @ + 1], v.t[f.i].q)
               dd == [ds EXCEPT ![c] = ds[p]]
    <3>1. o.w = [t |-> t, r |-> r] /\ o.d = dd
      <4>1. o.w = Enqueue([v EXCEPT !.r[c] = @ + 1], f.i, c) /\ o.d = dd
        BY Zenon, <2>7
      <4>2. [v EXCEPT !.r[c] = @ + 1] = [t |-> v.t, r |-> [v.r EXCEPT ![c] = @ + 1]]
        BY <2>3
      <4> QED BY Zenon, <4>1, <4>2 DEF Enqueue
    <3>2. ~Waiting(v.t, c)
      <4>1. CASE c = p
        BY Zenon, <2>4, <4>1
      <4>2. CASE v.r[c] = 0
        BY <2>3, <4>2 DEF Holds, Waits
      <4> QED BY Zenon, <2>7, <4>1, <4>2
    <3>3. WorldOK(o.w, h)
      <4>1. WorldOK(Put(v, f.i, c), h)
        BY Zenon, <2>1, <2>2, <3>2, PutFact
      <4>2. Put(v, f.i, c) = o.w
        BY Zenon, <3>1 DEF Put
      <4> QED BY Zenon, <4>1, <4>2
    <3>4. v.t[f.i] \in Entry
      BY Zenon, <2>2, <2>3, EntryFields
    <3>5. /\ t[f.i].q = c /\ t[f.i].ipaddr = ip /\ t[f.i].state = PENDING
          /\ \A j \in Idx \ {f.i} : t[j] = v.t[j]
      BY Zenon, <2>1, <2>2, <2>3, <3>4 DEF Entry
    <3>6. dd \in DstSet /\ dd[c] = ds[p] /\ \A x \in Pbufs \ {c} : dd[x] = ds[x]
      BY Zenon DEF DstSet
    <3> HIDE DEF t, r, dd
    <3>7. o.w.t = t
      <4> DEFINE z == o.w
      <4>1. z = [t |-> t, r |-> r]
        BY Zenon, <3>1
      <4> HIDE DEF z
      <4>2. z.t = t
        BY Zenon, <4>1
      <4> QED BY Zenon, <4>2 DEF z
    <3>8. DstOK(t, dd)
      <4> SUFFICES ASSUME NEW i \in Idx, t[i].q # NULL
                   PROVE  dd[t[i].q] \in Dests /\ NextHop[dd[t[i].q]] = t[i].ipaddr
        BY Zenon DEF DstOK
      <4>1. CASE i = f.i
        BY Zenon, <3>5, <3>6, <4>1
      <4>2. CASE i # f.i
        <5>1. t[i] = v.t[i] /\ v.t[i].q \in Pbufs \ {c}
          BY <2>3, <3>2, <3>5, <4>2, EntryFields DEF Waiting
        <5> QED BY Zenon, <2>5, <3>6, <5>1
      <4> QED BY Zenon, <4>1, <4>2
    <3>9. OnlyPended(w.t, t)
      BY Zenon, <2>1, <2>2, <3>5 DEF OnlyPended
    <3> QED BY Zenon, <3>1, <3>3, <3>6, <3>7, <3>8, <3>9
  <2> QED BY Zenon, <1>2, <1>4, <2>6, <2>7
<1> QED BY Zenon, <1>2, <1>3, <1>4

\* etharp_output (etharp.c:792-908), whichever way the packet goes; no static entry
\* changes.
LEMMA OutputStep ==
  ASSUME IInv, NEW p \in Pbufs, NEW d \in Dests, etharp_output(p, d)
  PROVE  IInv' /\ \A i \in Idx : arp_table[i].state = STATIC => arp_table'[i] = arp_table[i]
<1> DEFINE w == [World EXCEPT !.r[p] = 1]
           ds == [dst EXCEPT ![p] = d]
           hop == NextHop[d]
           found == IF Usable(etharp_cached_entry, hop) THEN {etharp_cached_entry}
                    ELSE {i \in Idx : Usable(i, hop)}
<1>1. /\ ref[p] = 0 \/ (p \in held /\ ref[p] = 1 /\ dst[p] = d)
      /\ held' = HeldAfter(p, d) /\ Hears(heard)
  BY Zenon DEF etharp_output, HeldAfter
<1>2. \/ /\ hop \in {Broadcast, NoRoute}
         /\ Becomes(After(w, p, d), ds)
         /\ wire' = IF hop = Broadcast THEN Frame(d, Broadcast) ELSE NoFrame
         /\ etharp_cached_entry' = etharp_cached_entry
      \/ /\ hop \in IPs /\ found # {}
         /\ etharp_cached_entry' = Min(found)
         /\ etharp_output_to_arp_index(After(w, p, d), ds, d, Min(found))
      \/ /\ hop \in IPs /\ found = {}
         /\ \E o \in etharp_query(w, ds, hop, p) : Becomes(After(o.w, p, d), o.d)
         /\ wire' = NoFrame
         /\ etharp_cached_entry' = etharp_cached_entry
  BY Zenon DEF etharp_output, After
<1>3. /\ WorldOK(w, held \cup {p}) /\ w.t = arp_table /\ ~Waiting(arp_table, p)
      /\ ds \in DstSet /\ ds[p] = d /\ DstOK(arp_table, ds)
  BY Zenon, <1>1, CallerFact
<1>4. /\ etharp_cached_entry \in Idx /\ HeardOK(arp_table, heard) /\ arp_table \in [Idx -> Entry]
      /\ TableInv(arp_table)
  BY Zenon, InvFields DEF IInv
<1>5. WorldOK(After(w, p, d), HeldAfter(p, d)) /\ After(w, p, d).t = arp_table
  BY Zenon, <1>3, AfterFact
<1>6. found \subseteq Idx /\ \A i \in found : arp_table[i].state >= STABLE /\ arp_table[i].ipaddr = hop
  BY Zenon, <1>4 DEF Usable
<1>7. found = {} => \A i \in Idx : ~(arp_table[i].state >= STABLE /\ arp_table[i].ipaddr = hop)
  BY Zenon DEF Usable
<1> HIDE DEF w, ds, found
<1>8. CASE /\ hop \in {Broadcast, NoRoute}
           /\ Becomes(After(w, p, d), ds)
           /\ wire' = IF hop = Broadcast THEN Frame(d, Broadcast) ELSE NoFrame
           /\ etharp_cached_entry' = etharp_cached_entry
  <2>1. IInv'
    BY Zenon, <1>1, <1>3, <1>4, <1>5, <1>8, OutputEnd
  <2>2. arp_table' = arp_table
    BY Zenon, <1>5, <1>8 DEF Becomes
  <2> QED BY Zenon, <2>1, <2>2
<1>9. CASE /\ hop \in IPs /\ found # {}
           /\ etharp_cached_entry' = Min(found)
           /\ etharp_output_to_arp_index(After(w, p, d), ds, d, Min(found))
  <2> DEFINE i == Min(found)
             a == After(w, p, d)
  <2>1. i \in found
    <3>1. found \in SUBSET Nat
      BY Zenon, <1>6, IdxFact
    <3> QED BY Zenon, <1>9, <3>1, LeastExists
  <2>2. i \in Idx /\ arp_table[i].state >= STABLE /\ arp_table[i].ipaddr = hop
    BY Zenon, <1>6, <2>1
  <2>3. PICK s \in STABLE .. STATIC :
          /\ Becomes([a EXCEPT !.t[i].state = s], ds) /\ wire' = Frame(d, a.t[i].ethaddr)
          /\ arp_table[i].state = STATIC => s = STATIC
    <3>1. PICK requested \in BOOLEAN :
            /\ requested => arp_table[i].state = STABLE
            /\ Becomes([a EXCEPT !.t[i].state = IF requested THEN STABLE_REREQUESTING_1 ELSE @], ds)
            /\ wire' = Frame(d, arp_table[i].ethaddr)
      BY Zenon, <1>9 DEF etharp_output_to_arp_index
    <3> DEFINE s == IF requested THEN STABLE_REREQUESTING_1 ELSE a.t[i].state
    <3>2. a.t = arp_table /\ arp_table[i].state \in EMPTY .. STATIC
      BY Zenon, <1>4, <1>5, <2>2, EntryFields DEF Entry
    <3>3. s \in STABLE .. STATIC /\ (arp_table[i].state = STATIC => s = STATIC)
      BY <2>2, <3>1, <3>2 DEF EMPTY, STABLE, STABLE_REREQUESTING_1, STATIC
    <3>4. [a EXCEPT !.t[i].state = IF requested THEN STABLE_REREQUESTING_1 ELSE @]
            = [a EXCEPT !.t[i].state = s]
      BY Zenon, <1>5, <2>2, WorldFields DEF Worlds, Entry
    <3> HIDE DEF a, i
    <3> QED BY Zenon, <3>1, <3>2, <3>3, <3>4
  <2> DEFINE v == [a EXCEPT !.t[i].state = s]
  <2>4. WorldOK(a, HeldAfter(p, d)) /\ a.t = arp_table
    BY Zenon, <1>5
  <2> HIDE DEF i, a
  <2>5. /\ WorldOK(v, HeldAfter(p, d))
        /\ v.t[i].state = s /\ v.t[i].ipaddr = a.t[i].ipaddr /\ v.t[i].ethaddr = a.t[i].ethaddr
        /\ v.t[i].q = NULL /\ \A j \in Idx \ {i} : v.t[j] = a.t[j]
    BY <2>2, <2>4, MarkFact
  <2>6. Becomes(v, ds)
    BY Zenon, <2>3
  <2>7. ASSUME NEW j \in Idx, arp_table[j].state = STATIC PROVE v.t[j] = arp_table[j]
    <3>1. CASE j # i
      BY Zenon, <2>4, <2>5, <3>1
    <3>2. CASE j = i
      <4>1. s = STATIC /\ a.t[i] \in Entry
        BY Zenon, <1>4, <2>3, <2>4, <2>7, <3>2
      <4>2. v.t = [a.t EXCEPT ![i].state = s]
        BY <2>4, WorldFields
      <4>3. v.t[i] = [a.t[i] EXCEPT !.state = s]
        BY Zenon, <1>4, <2>2, <2>4, <4>2
      <4>4. [a.t[i] EXCEPT !.state = s] = a.t[i]
        BY Zenon, <2>4, <2>7, <3>2, <4>1 DEF Entry
      <4> QED BY Zenon, <2>4, <3>2, <4>3, <4>4
    <3> QED BY Zenon, <3>1, <3>2
  <2> HIDE DEF v
  <2>8. DstOK(v.t, ds) /\ HeardOK(v.t, heard)
    <3>1. DstOK(v.t, ds)
      BY Zenon, <1>3, <2>4, <2>5 DEF DstOK
    <3>2. HeardOK(v.t, heard)
      <4> SUFFICES ASSUME NEW j \in Idx, v.t[j].state >= STABLE
                   PROVE  heard[v.t[j].ipaddr] = v.t[j].ethaddr
        BY Zenon DEF HeardOK
      <4>1. CASE j = i
        BY Zenon, <1>4, <2>2, <2>4, <2>5, <4>1 DEF HeardOK
      <4>2. CASE j # i
        BY Zenon, <1>4, <2>4, <2>5, <4>2 DEF HeardOK
      <4> QED BY Zenon, <4>1, <4>2
    <3> QED BY Zenon, <3>1, <3>2
  <2>9. v.t[i].state # EMPTY /\ v.t[i].ipaddr = hop /\ a.t[i].ethaddr = heard[hop]
    BY Zenon, <1>4, <2>2, <2>4, <2>5, StateCodes DEF HeardOK
  <2>10. wire' = Frame(d, heard[hop])
    BY Zenon, <2>3, <2>9
  <2>11. etharp_cached_entry' \in Idx
    BY Zenon, <1>9, <2>2 DEF i
  <2>12. IInv'
    BY Zenon, <1>1, <1>3, <2>2, <2>5, <2>6, <2>8, <2>9, <2>10, <2>11, OutputEnd
  <2>13. arp_table' = v.t
    BY Zenon, <2>6 DEF Becomes
  <2> QED BY Zenon, <2>7, <2>12, <2>13
<1>10. CASE /\ hop \in IPs /\ found = {}
            /\ \E o \in etharp_query(w, ds, hop, p) : Becomes(After(o.w, p, d), o.d)
            /\ wire' = NoFrame
            /\ etharp_cached_entry' = etharp_cached_entry
  <2>1. PICK o \in etharp_query(w, ds, hop, p) : Becomes(After(o.w, p, d), o.d)
    BY Zenon, <1>10
  <2>2. /\ Unresolved(w.t, hop)
        /\ p \in held \cup {p} /\ ds[p] \in Dests /\ NextHop[ds[p]] = hop
        /\ ~Waiting(w.t, p) /\ DstOK(w.t, ds)
    BY Zenon, <1>3, <1>7, <1>10 DEF Unresolved
  <2>3. /\ WorldOK(o.w, held \cup {p}) /\ o.d \in DstSet /\ DstOK(o.w.t, o.d)
        /\ \A i \in Idx : o.w.t[i] = arp_table[i]
                          \/ (o.w.t[i].state = PENDING /\ arp_table[i].state # STATIC)
    <3>1. WorldOK(w, held \cup {p}) /\ ds \in DstSet /\ w.t = arp_table /\ hop \in IPs
      BY Zenon, <1>3, <1>10
    <3> HIDE DEF hop, w, ds
    <3>2. /\ WorldOK(o.w, held \cup {p}) /\ o.d \in DstSet /\ DstOK(o.w.t, o.d)
          /\ OnlyPended(w.t, o.w.t)
      BY Zenon, <2>2, <3>1, QueryFact
    <3> QED BY Zenon, <3>1, <3>2 DEF OnlyPended
  <2>4. WorldOK(After(o.w, p, d), HeldAfter(p, d)) /\ After(o.w, p, d).t = o.w.t
    BY Zenon, <2>3, AfterFact
  <2>5. HeardOK(o.w.t, heard)
    BY Zenon, <1>4, <2>3, StateCodes DEF HeardOK
  <2>6. IInv'
    BY Zenon, <1>1, <1>4, <1>10, <2>1, <2>3, <2>4, <2>5, OutputEnd
  <2>7. arp_table' = o.w.t
    BY Zenon, <2>1, <2>4 DEF Becomes
  <2> QED BY Zenon, <2>3, <2>6, <2>7
<1> QED BY Zenon, <1>2, <1>8, <1>9, <1>10

\* The same step does not touch a static entry, unless a static entry for the same
\* address is added (etharp.c:449-459).
LEMMA UpdateStatic ==
  ASSUME IInv, NEW ip \in IPs, NEW mac, NEW flags, etharp_update_arp_entry(ip, mac, flags),
         NEW i \in Idx, arp_table[i].state = STATIC, arp_table'[i] # arp_table[i]
  PROVE  "STATIC" \in flags /\ arp_table[i].ipaddr = ip
<1> DEFINE f == etharp_find_entry(World, ip, flags)
           e == f.w.t[f.i]
           s == IF "STATIC" \in flags THEN STATIC ELSE STABLE
           n == [e EXCEPT !.state = s, !.ethaddr = mac, !.ctime = 0, !.q = NULL]
           v == [t |-> [f.w.t EXCEPT ![f.i] = n], r |-> pbuf_free(f.w.r, e.q)]
<1>1. World.t = arp_table /\ WorldOK(World, held)
  BY Zenon, InvFields
<1>2. \/ f.i = ERR_MEM /\ f.w = World
      \/ f.i # ERR_MEM /\ Found(World, held, ip, f)
  BY Zenon, <1>1, FindFact
<1>3. \/ f.i = ERR_MEM /\ Becomes(f.w, dst)
      \/ f.i # ERR_MEM /\ e.state = STATIC /\ "STATIC" \notin flags /\ Becomes(f.w, dst)
      \/ f.i # ERR_MEM /\ ~(e.state = STATIC /\ "STATIC" \notin flags) /\ Becomes(v, dst)
  BY Zenon DEF etharp_update_arp_entry
<1>4. arp_table' = f.w.t \/ arp_table' = v.t
  BY Zenon, <1>3 DEF Becomes
<1> HIDE DEF f, n
<1>5. v.t = [f.w.t EXCEPT ![f.i] = n]
  BY Zenon
<1>6. f.i # ERR_MEM /\ Found(World, held, ip, f)
  <2> SUFFICES ASSUME f.i = ERR_MEM, f.w = World PROVE FALSE
    BY Zenon, <1>2
  <2> QED BY Zenon, <1>1, <1>3 DEF Becomes
<1>7. /\ f.i \in Idx /\ f.w.t \in [Idx -> Entry] /\ f.w.t[f.i].ipaddr = ip
      /\ \A j \in Idx \ {f.i} : f.w.t[j] = arp_table[j]
      /\ f.w = World \/ arp_table[f.i].state # STATIC
  BY Zenon, <1>1, <1>6, WorldFields DEF Found
<1> HIDE DEF v
<1>8. i = f.i
  BY Zenon, <1>4, <1>5, <1>7
<1>9. f.w = World /\ e = arp_table[i]
  BY Zenon, <1>1, <1>7, <1>8
<1>10. "STATIC" \in flags
  BY Zenon, <1>1, <1>3, <1>6, <1>9 DEF Becomes
<1> QED BY Zenon, <1>7, <1>8, <1>9, <1>10

\* An ARP message (etharp.c:642-745): it makes the address known unless the entry is static.
LEMMA InputStep ==
  ASSUME IInv, NEW m \in Announced, NEW for_us \in BOOLEAN, etharp_input(m[1], m[2], for_us)
  PROVE  IInv' /\ \A i \in Idx : arp_table[i].state = STATIC => arp_table'[i] = arp_table[i]
<1> DEFINE ip == m[1]
           mac == m[2]
           flags == IF for_us THEN {"TRY_HARD"} ELSE {"FIND_ONLY"}
           hd == IF IsStatic(ip) THEN heard ELSE [heard EXCEPT ![ip] = mac]
<1>1. ip \in IPs /\ mac \in MACs
  BY Zenon, EtharpAssumption
<1>2. /\ etharp_update_arp_entry(ip, mac, flags) /\ Hears(hd)
      /\ etharp_cached_entry' = etharp_cached_entry /\ held' = held
  BY Zenon DEF etharp_input
<1>3. "STATIC" \notin flags
  BY Zenon
<1>4. heard \in HeardSet
  BY Zenon DEF IInv
<1> HIDE DEF ip, mac, flags
<1>5. /\ hd \in HeardSet /\ \A x \in IPs \ {ip} : hd[x] = heard[x]
      /\ hd[ip] = IF IsStatic(ip) /\ "STATIC" \notin flags THEN heard[ip] ELSE mac
  BY Zenon, <1>1, <1>3, <1>4 DEF HeardSet
<1> HIDE DEF hd
<1>6. IInv'
  BY Zenon, <1>1, <1>2, <1>5, UpdateStep
<1>7. \A i \in Idx : arp_table[i].state = STATIC => arp_table'[i] = arp_table[i]
  BY Zenon, <1>1, <1>2, <1>3, UpdateStatic
<1> QED BY Zenon, <1>6, <1>7

\* etharp_add_static_entry (etharp.c:504-519).
LEMMA AddStep ==
  ASSUME IInv, NEW m \in Static, etharp_add_static_entry(m[1], m[2])
  PROVE  /\ IInv'
         /\ \A i \in Idx : arp_table[i].state = STATIC /\ arp_table'[i] # arp_table[i]
                             => arp_table[i].ipaddr = m[1]
<1> DEFINE ip == m[1]
           mac == m[2]
           flags == {"TRY_HARD", "STATIC"}
           hd == [heard EXCEPT ![ip] = mac]
<1>1. ip \in IPs /\ mac \in MACs
  BY Zenon, EtharpAssumption
<1>2. /\ etharp_update_arp_entry(ip, mac, flags) /\ Hears(hd)
      /\ etharp_cached_entry' = etharp_cached_entry /\ held' = held
  BY Zenon DEF etharp_add_static_entry
<1>3. "STATIC" \in flags
  BY Zenon
<1>4. heard \in HeardSet
  BY Zenon DEF IInv
<1> SUFFICES /\ IInv'
             /\ \A i \in Idx : arp_table[i].state = STATIC /\ arp_table'[i] # arp_table[i]
                                 => arp_table[i].ipaddr = ip
  BY Zenon
<1> HIDE DEF ip, mac, flags
<1>5. /\ hd \in HeardSet /\ \A x \in IPs \ {ip} : hd[x] = heard[x]
      /\ hd[ip] = IF IsStatic(ip) /\ "STATIC" \notin flags THEN heard[ip] ELSE mac
  BY Zenon, <1>1, <1>3, <1>4 DEF HeardSet
<1> HIDE DEF hd
<1>6. IInv'
  BY Zenon, <1>1, <1>2, <1>5, UpdateStep
<1>7. \A i \in Idx : arp_table[i].state = STATIC /\ arp_table'[i] # arp_table[i]
                       => arp_table[i].ipaddr = ip
  BY Zenon, <1>1, <1>2, UpdateStatic
<1> QED BY Zenon, <1>6, <1>7

\* The upper layer frees a packet: the entries on which it waits keep theirs.
LEMMA ReleaseStep ==
  ASSUME IInv, NEW p \in Pbufs, Release(p)
  PROVE  IInv' /\ arp_table' = arp_table
<1> DEFINE r == [ref EXCEPT ![p] = @ - 1]
           w == [World EXCEPT !.r[p] = @ - 1]
<1>1. /\ p \in held /\ Becomes(w, dst) /\ held' = held \ {p} /\ wire' = NoFrame
      /\ etharp_cached_entry' = etharp_cached_entry /\ heard' = heard
  BY Zenon DEF Release
<1>2. /\ World = [t |-> arp_table, r |-> ref] /\ arp_table \in [Idx -> Entry]
      /\ ref \in [Pbufs -> Int] /\ TableInv(arp_table)
      /\ \A x \in Pbufs : ref[x] = Holds(held, x) + Waits(arp_table, x)
      /\ dst \in DstSet /\ DstOK(arp_table, dst) /\ held \subseteq Pbufs
      /\ heard \in HeardSet /\ HeardOK(arp_table, heard) /\ etharp_cached_entry \in Idx
  BY Zenon, InvFields DEF IInv, World
<1>3. w = [t |-> arp_table, r |-> r]
  BY <1>2
<1>4. r \in [Pbufs -> Int] /\ r[p] = ref[p] - 1 /\ \A x \in Pbufs \ {p} : r[x] = ref[x]
  BY <1>2
<1> HIDE DEF r, w
<1>5. w.t = arp_table /\ w.r = r /\ w \in Worlds
  BY Zenon, <1>2, <1>3, <1>4 DEF Worlds
<1>6. Counted(w, held \ {p})
  <2> SUFFICES ASSUME NEW x \in Pbufs PROVE r[x] = Holds(held \ {p}, x) + Waits(arp_table, x)
    BY Zenon, <1>5 DEF Counted
  <2>1. Waits(arp_table, x) \in Int
    BY DEF Waits
  <2>2. CASE x = p
    BY <1>1, <1>2, <1>4, <2>1, <2>2 DEF Holds
  <2>3. CASE x # p
    BY Zenon, <1>2, <1>4, <2>3 DEF Holds
  <2> QED BY Zenon, <2>2, <2>3
<1>7. WorldOK(w, held \ {p})
  BY Zenon, <1>2, <1>5, <1>6 DEF WorldOK
<1>8. /\ WorldOK(World, held)' /\ (held \subseteq Pbufs)'
      /\ (dst \in DstSet)' /\ DstOK(arp_table, dst)' /\ arp_table' = arp_table
  <2>1. held \ {p} \in SUBSET Pbufs /\ DstOK(w.t, dst)
    BY Zenon, <1>2, <1>5
  <2> QED BY Zenon, <1>1, <1>2, <1>5, <1>7, <2>1, BecomesFact
<1> QED BY Zenon, <1>1, <1>2, <1>8 DEF IInv, SentToLatest
-----------------------------------------------------------------------------
\* The empty table.
LEMMA InitIInv == Init => IInv
<1> SUFFICES ASSUME Init PROVE IInv
  BY Zenon
<1> DEFINE e == [state |-> EMPTY, ipaddr |-> NoRoute, ethaddr |-> NULL, ctime |-> 0, q |-> NULL]
<1>1. /\ arp_table \in [Idx -> {e}] /\ etharp_cached_entry = 0 /\ ref = [p \in Pbufs |-> 0]
      /\ dst = [p \in Pbufs |-> NULL] /\ held = {} /\ wire = NoFrame
      /\ heard = [ip \in IPs |-> NULL]
  BY Zenon DEF Init, NoFrame
<1>2. e \in Entry /\ e.state = EMPTY /\ e.q = NULL
  <2>1. EMPTY \in EMPTY .. STATIC
    BY DEF EMPTY, STATIC
  <2> QED BY Zenon, <2>1 DEF Entry
<1> HIDE DEF e
<1>3. arp_table \in [Idx -> Entry] /\ \A i \in Idx : arp_table[i].state = EMPTY /\ arp_table[i].q = NULL
  BY Zenon, <1>1, <1>2
<1>4. TableInv(arp_table)
  BY Zenon, <1>3 DEF TableInv, EntryOK, Once, WaitsOnce
<1>5. World = [t |-> arp_table, r |-> ref] /\ World.t = arp_table /\ World.r = ref
  BY Zenon DEF World
<1>6. World \in Worlds
  BY <1>1, <1>3, <1>5 DEF Worlds
<1>7. Counted(World, held)
  <2> SUFFICES ASSUME NEW p \in Pbufs PROVE ref[p] = Holds(held, p) + Waits(arp_table, p)
    BY Zenon, <1>5 DEF Counted
  <2>1. ~Waiting(arp_table, p) /\ ref[p] = 0 /\ p \notin held
    BY Zenon, <1>1, <1>3, EtharpAssumption DEF Waiting
  <2> QED BY <2>1 DEF Holds, Waits
<1>8. WorldOK(World, held)
  BY Zenon, <1>4, <1>5, <1>6, <1>7 DEF WorldOK
<1>9. dst \in DstSet /\ DstOK(arp_table, dst) /\ heard \in HeardSet /\ HeardOK(arp_table, heard)
  BY <1>1, <1>3 DEF DstSet, DstOK, HeardSet, HeardOK, EMPTY, STABLE
<1> QED BY Zenon, <1>1, <1>8, <1>9, IdxFact DEF IInv, SentToLatest

\* Every step keeps the inductive invariant.
LEMMA NextIInv == IInv /\ [Next]_vars => IInv'
<1> SUFFICES ASSUME IInv, [Next]_vars PROVE IInv'
  BY Zenon
<1>1. ASSUME NEW m \in Announced, NEW for_us \in BOOLEAN, etharp_input(m[1], m[2], for_us)
      PROVE  IInv'
  BY Zenon, <1>1, InputStep
<1>2. ASSUME NEW m \in Static, etharp_add_static_entry(m[1], m[2]) PROVE IInv'
  BY Zenon, <1>2, AddStep
<1>3. ASSUME NEW ip \in IPs, etharp_remove_static_entry(ip) PROVE IInv'
  BY Zenon, <1>3, RemoveStep
<1>4. ASSUME NEW p \in Pbufs, NEW d \in Dests, etharp_output(p, d) PROVE IInv'
  BY Zenon, <1>4, OutputStep
<1>5. ASSUME NEW p \in Pbufs, Release(p) PROVE IInv'
  BY Zenon, <1>5, ReleaseStep
<1>6. CASE UNCHANGED vars
  BY Zenon, <1>6 DEF vars, IInv, World, SentToLatest
<1> QED BY Zenon, <1>1, <1>2, <1>3, <1>4, <1>5, <1>6, CleanupStep, TimerStep DEF Next

\* The inductive invariant holds in every state.
LEMMA IInvHolds == Spec => []IInv
  BY InitIInv, NextIInv, PTL DEF Spec

\* The number of entries on which a buffer waits.
LEMMA WaitsFact ==
  ASSUME IInv, NEW p \in Pbufs
  PROVE  Cardinality({i \in Idx : arp_table[i].q = p}) = Waits(arp_table, p)
<1>1. WaitsOnce(arp_table) /\ p # NULL
  BY Zenon, InvFields, EtharpAssumption DEF TableInv
<1>2. CASE Waiting(arp_table, p)
  <2>1. PICK k \in Idx : arp_table[k].q = p
    BY Zenon, <1>2 DEF Waiting
  <2>2. {i \in Idx : arp_table[i].q = p} = {k}
    BY Zenon, <1>1, <2>1 DEF WaitsOnce
  <2>3. Cardinality({k}) = 1
    BY Zenon, FS_Singleton
  <2> QED BY Zenon, <1>2, <2>2, <2>3 DEF Waits
<1>3. CASE ~Waiting(arp_table, p)
  <2>1. {i \in Idx : arp_table[i].q = p} = {}
    BY Zenon, <1>3 DEF Waiting
  <2> QED BY Zenon, <1>3, <2>1, FS_EmptySet DEF Waits
<1> QED BY Zenon, <1>2, <1>3

\* The table is sound (etharp.c:257-407): types and ages, one entry for an address, and a
\* packet waits only on the pending entry of its own next hop, for every table size, age
\* limit, set of hosts, announcement and packet.
THEOREM TableSafe == Spec => []TableOK
<1>1. ASSUME IInv PROVE TableOK
  <2>1. /\ arp_table \in [Idx -> Entry] /\ TableInv(arp_table) /\ ref \in [Pbufs -> Int]
        /\ \A p \in Pbufs : ref[p] = Holds(held, p) + Waits(arp_table, p)
        /\ dst \in DstSet /\ DstOK(arp_table, dst) /\ heard \in HeardSet
        /\ held \subseteq Pbufs /\ etharp_cached_entry \in Idx
    BY Zenon, <1>1, InvFields DEF IInv
  <2>2. ref \in [Pbufs -> 0 .. 2]
    BY <2>1 DEF Holds, Waits
  <2>3. \A i \in Idx :
          /\ arp_table[i].state \in EMPTY .. STATIC
          /\ arp_table[i].ipaddr \in IPs \cup {NoRoute}
          /\ arp_table[i].ethaddr \in MACs \cup {NULL}
          /\ arp_table[i].state # EMPTY => arp_table[i].ctime < ARP_MAXAGE
          /\ arp_table[i].q \in Pbufs \cup {NULL}
    <3> SUFFICES ASSUME NEW i \in Idx
                 PROVE  /\ arp_table[i].state \in EMPTY .. STATIC
                        /\ arp_table[i].ipaddr \in IPs \cup {NoRoute}
                        /\ arp_table[i].ethaddr \in MACs \cup {NULL}
                        /\ arp_table[i].state # EMPTY => arp_table[i].ctime < ARP_MAXAGE
                        /\ arp_table[i].q \in Pbufs \cup {NULL}
      BY Zenon
    <3>1. arp_table[i] \in Entry /\ EntryOK(arp_table[i])
      BY Zenon, <2>1 DEF TableInv
    <3> QED BY Zenon, <3>1 DEF Entry, EntryOK
  <2>4. TypeOK
    BY Zenon, <2>1, <2>2, <2>3 DEF TypeOK, DstSet, HeardSet
  <2>5. OneEntryEach
    BY Zenon, <2>1 DEF OneEntryEach, TableInv, Once
  <2>6. WaitsOnItsEntry
    BY Zenon, <2>1 DEF WaitsOnItsEntry, DstOK, TableInv, EntryOK
  <2> QED BY Zenon, <2>4, <2>5, <2>6 DEF TableOK
<1> QED BY <1>1, IInvHolds, PTL

\* The count of every buffer is the number of its holders: recycling, resolving, expiring
\* and removing an entry frees what waits on it exactly once (etharp.c:169-190, 483-491,
\* 1074-1086).
THEOREM RefsSafe == Spec => []RefsCounted
<1>1. ASSUME IInv PROVE RefsCounted
  BY Zenon, <1>1, InvFields, WaitsFact DEF RefsCounted, Holds
<1> QED BY <1>1, IInvHolds, PTL

\* A frame goes to the address that its next hop announced last, whichever entry the
\* cached index of etharp.c:845-870 names.
THEOREM LatestSafe == Spec => []SentToLatest
  BY IInvHolds, PTL DEF IInv

\* A static entry is lost only by removing it or taking the interface down, and changes
\* only by adding it again (etharp.c:208, 324, 449).
THEOREM StaticKept == Spec => StaticStays
<1> DEFINE A == \A i \in Idx : arp_table[i].state = STATIC /\ arp_table'[i] # arp_table[i] =>
                  \/ \E mac \in MACs : etharp_add_static_entry(arp_table[i].ipaddr, mac)
                  \/ etharp_remove_static_entry(arp_table[i].ipaddr)
                  \/ etharp_cleanup_netif
<1>1. IInv /\ [Next]_vars => [A]_vars
  <2> SUFFICES ASSUME IInv, Next, NEW i \in Idx, arp_table[i].state = STATIC,
                      arp_table'[i] # arp_table[i]
               PROVE  \/ \E mac \in MACs : etharp_add_static_entry(arp_table[i].ipaddr, mac)
                      \/ etharp_remove_static_entry(arp_table[i].ipaddr)
                      \/ etharp_cleanup_netif
    BY Zenon
  <2>1. ASSUME NEW m \in Announced, NEW for_us \in BOOLEAN, etharp_input(m[1], m[2], for_us)
        PROVE  FALSE
    BY Zenon, <2>1, InputStep
  <2>2. ASSUME NEW m \in Static, etharp_add_static_entry(m[1], m[2])
        PROVE  \E mac \in MACs : etharp_add_static_entry(arp_table[i].ipaddr, mac)
    <3>1. arp_table[i].ipaddr = m[1]
      BY Zenon, <2>2, AddStep
    <3>2. m[2] \in MACs
      BY Zenon, EtharpAssumption
    <3> QED BY Zenon, <2>2, <3>1, <3>2
  <2>3. ASSUME NEW ip \in IPs, etharp_remove_static_entry(ip)
        PROVE  etharp_remove_static_entry(arp_table[i].ipaddr)
    <3>1. arp_table[i].ipaddr = ip
      BY Zenon, <2>3, RemoveStep
    <3> QED BY Zenon, <2>3, <3>1
  <2>4. ASSUME NEW p \in Pbufs, NEW d \in Dests, etharp_output(p, d) PROVE FALSE
    BY Zenon, <2>4, OutputStep
  <2>5. ASSUME NEW p \in Pbufs, Release(p) PROVE FALSE
    BY Zenon, <2>5, ReleaseStep
  <2>6. ~etharp_tmr
    BY Zenon, TimerStep
  <2> QED BY Zenon, <2>1, <2>2, <2>3, <2>4, <2>5, <2>6 DEF Next
<1>2. StaticStays <=> [][A]_vars
  BY Zenon DEF StaticStays
<1> QED BY <1>1, <1>2, IInvHolds, PTL DEF Spec
=============================================================================
