------------------------- MODULE SysTimeoutsProofs -------------------------
(***************************************************************************)
(* Proofs about the list of timeouts: it stays in the order in which its   *)
(* entries are really due, it is complete, and no handler is called before *)
(* its time, for every clock, set of cyclic timers and intervals.          *)
(***************************************************************************)
EXTENDS SysTimeouts, FiniteSetTheorems, WellFoundedInduction, TLAPS

Quarter == Period \div 4

Entry == [h : Timers, time : Time, left : Int]

\* How long the call of sys_check_timeouts has taken so far.
Elapsed == IF check = Returned THEN 0 ELSE (now - check) % Period

\* What n handlers may take; an entry that is due waits for at most Others.
Busy(n) == MaxHandlerTime * n
Others == Busy(MEMP_NUM_SYS_TIMEOUT - 1)
Latest == IF MaxLate > Others THEN MaxLate ELSE Others

\* Every entry has its true time to go as a remainder.
Listed(l, clock) ==
  /\ l \in Seq(Entry)
  /\ \A i \in DOMAIN l : l[i].time = (clock + l[i].left) % Period

Ordered(l) == \A i, j \in DOMAIN l : i < j => l[i].left <= l[j].left

Distinct(l) == \A i, j \in DOMAIN l : l[i].h = l[j].h => i = j

\* Seen from the beginning of the check an entry is late by at most Latest, and any two
\* are less than half of the clock apart.
Near(l, e) ==
  /\ \A i \in DOMAIN l : l[i].left + e \in -Latest .. 2 * Quarter - 1
  /\ \A i, j \in DOMAIN l : l[j].left - l[i].left <= 2 * Quarter - 1

Due(l, i, e) == l[i].left + e <= 0

\* The time that the check has taken is that of the handlers that are no longer due; an
\* entry that was not due when it began waits for the others only.
Timely(l, e) ==
  /\ e \in 0 .. Busy(MEMP_NUM_SYS_TIMEOUT)
  /\ \A i \in DOMAIN l : Due(l, i, e) => e + Busy(i) <= Busy(MEMP_NUM_SYS_TIMEOUT)
  /\ \A x \in DOMAIN l : ~Due(l, x, e) =>
       /\ l[x].left + Others >= 0
       /\ \A i \in DOMAIN l : Due(l, i, e) => l[x].left + Busy(MEMP_NUM_SYS_TIMEOUT - 1 - i) >= 0

Good(l, clock, e) ==
  Listed(l, clock) /\ Ordered(l) /\ Distinct(l) /\ Near(l, e) /\ Timely(l, e)

Has(l, h) == \E i \in DOMAIN l : l[i].h = h

Complete ==
  /\ \A c \in Cyclic : Has(next_timeout, c) <=> c \notin unstarted
  /\ Has(next_timeout, TCP) <=> tcpip_tcp_timer_active
  /\ pcbs => tcpip_tcp_timer_active

\* The inductive invariant.
IInv ==
  /\ now \in Time /\ check \in Time \cup {Returned} /\ unstarted \subseteq Cyclic
  /\ tcpip_tcp_timer_active \in BOOLEAN /\ pcbs \in BOOLEAN
  /\ check # Returned => unstarted = {}
  /\ Good(next_timeout, now, Elapsed)
  /\ Complete
-----------------------------------------------------------------------------
\* A quarter of the clock, and what the assumptions bound by it.
LEMMA QuarterFact ==
  /\ Quarter \in Nat \ {0} /\ Period = 4 * Quarter /\ Period \div 2 = 2 * Quarter
  /\ (Period - 1) \div 4 = Quarter - 1 /\ Period \in Nat \ {0}
<1>1. Period \in Nat /\ Period % 4 = 0 /\ Period > 0
  BY Zenon, TimeoutsAssumption
<1> QED BY <1>1 DEF Quarter

\* Multiples of the time of a handler.
LEMMA BusyFact ==
  ASSUME NEW n \in Int
  PROVE  /\ Busy(n) \in Int /\ Busy(n + 1) = Busy(n) + MaxHandlerTime
         /\ Busy(n - 1) = Busy(n) - MaxHandlerTime /\ (n >= 0 => Busy(n) >= 0)
<1>1. MaxHandlerTime \in Nat
  BY Zenon, TimeoutsAssumption
<1> QED BY <1>1, SMT DEF Busy

\* More handlers take more time.
LEMMA BusyMore ==
  ASSUME NEW m \in Int, NEW n \in Int, m <= n
  PROVE  Busy(m) <= Busy(n)
<1>1. MaxHandlerTime \in Nat
  BY Zenon, TimeoutsAssumption
<1> QED BY <1>1, SMT DEF Busy

\* The bounds on lateness: an entry that is due waits for a quarter of the clock.
LEMMA LateFact ==
  /\ MEMP_NUM_SYS_TIMEOUT \in Nat /\ MEMP_NUM_SYS_TIMEOUT >= 2
  /\ MaxHandlerTime \in Nat /\ Others \in Nat /\ MaxHandlerTime <= Others
  /\ Busy(MEMP_NUM_SYS_TIMEOUT) = Others + MaxHandlerTime
  /\ Busy(MEMP_NUM_SYS_TIMEOUT) <= Quarter
  /\ Latest \in Nat /\ MaxLate <= Latest /\ Others <= Latest /\ Latest + Others <= Quarter
<1>1. /\ MEMP_NUM_SYS_TIMEOUT \in Nat /\ MEMP_NUM_SYS_TIMEOUT >= 2
      /\ MaxHandlerTime \in Nat /\ MaxLate \in Nat
      /\ MaxLate + Others <= Quarter /\ 2 * Others <= Quarter
  BY Zenon, TimeoutsAssumption DEF Others, Busy, Quarter
<1>3. MEMP_NUM_SYS_TIMEOUT - 1 \in Int /\ MEMP_NUM_SYS_TIMEOUT >= 2
  BY <1>1
<1>4. Others \in Nat /\ Busy(MEMP_NUM_SYS_TIMEOUT) = Others + MaxHandlerTime
  <2>1. MEMP_NUM_SYS_TIMEOUT = (MEMP_NUM_SYS_TIMEOUT - 1) + 1 /\ MEMP_NUM_SYS_TIMEOUT - 1 >= 0
    BY <1>1, <1>3
  <2> QED BY <1>3, <2>1, BusyFact DEF Others
<1>5. MaxHandlerTime <= Others
  <2>1. Busy(1) <= Others
    BY <1>1, <1>3, BusyMore DEF Others
  <2>2. Busy(1) = MaxHandlerTime
    BY <1>1 DEF Busy
  <2> QED BY Zenon, <2>1, <2>2
<1> QED BY <1>1, <1>3, <1>4, <1>5, QuarterFact DEF Latest

\* A number and its remainder.
LEMMA ModFact ==
  ASSUME NEW a \in Int
  PROVE  a % Period \in Time /\ \E k \in Int : a = k * Period + (a % Period)
<1>1. Period \in Nat /\ Period > 0
  BY QuarterFact
<1>2. a % Period \in 0 .. Period - 1
  BY <1>1
<1>3. a = (a \div Period) * Period + (a % Period) /\ a \div Period \in Int
  BY <1>1
<1> QED BY Zenon, <1>2, <1>3 DEF Time

\* The remainder is the only one in its range.
LEMMA ModIs ==
  ASSUME NEW a \in Int, NEW r \in Time, NEW k \in Int, a = k * Period + r
  PROVE  a % Period = r
<1>1. Period \in Nat /\ Period > 0 /\ r \in 0 .. Period - 1
  BY QuarterFact DEF Time
<1> QED BY <1>1, SMT

\* Two numbers that differ by a multiple have one remainder.
LEMMA ModSame ==
  ASSUME NEW a \in Int, NEW b \in Int, NEW k \in Int, a = b + k * Period
  PROVE  a % Period = b % Period
<1>1. PICK j \in Int : b = j * Period + (b % Period)
  BY Zenon, ModFact
<1> DEFINE r == b % Period
           m == j + k
<1>2. r \in Time
  BY Zenon, ModFact
<1>3. Period \in Int /\ r \in Int /\ b = j * Period + r /\ m \in Int
  BY <1>1, <1>2, QuarterFact DEF Time
<1> SUFFICES a % Period = r
  BY Zenon
<1> HIDE DEF r
<1>4. a = m * Period + r
  BY <1>3
<1> HIDE DEF m
<1> QED BY Zenon, <1>2, <1>3, <1>4, ModIs

\* Remainders may be taken before a difference.
LEMMA ModDiff ==
  ASSUME NEW a \in Int, NEW b \in Int
  PROVE  ((a % Period) - (b % Period)) % Period = (a - b) % Period
<1> DEFINE r == a % Period
           s == b % Period
<1>1. PICK j \in Int : a = j * Period + r
  BY Zenon, ModFact
<1>2. PICK k \in Int : b = k * Period + s
  BY Zenon, ModFact
<1>3. Period \in Int /\ r \in Int /\ s \in Int
  BY QuarterFact, ModFact DEF Time
<1> SUFFICES (r - s) % Period = (a - b) % Period
  BY Zenon
<1> HIDE DEF r, s
<1> DEFINE x == r - s
           y == a - b
           m == k - j
<1>4. x \in Int /\ y \in Int /\ m \in Int /\ x = y + m * Period
  BY <1>1, <1>2, <1>3
<1> HIDE DEF x, y, m
<1>5. x % Period = y % Period
  BY Zenon, <1>4, ModSame
<1> QED BY Zenon, <1>5 DEF x, y

\* Remainders may be taken before a sum.
LEMMA ModAdd ==
  ASSUME NEW a \in Int, NEW b \in Int
  PROVE  ((a % Period) + b) % Period = (a + b) % Period
<1> DEFINE r == a % Period
<1>1. PICK j \in Int : a = j * Period + r
  BY Zenon, ModFact
<1>2. Period \in Int /\ r \in Int
  BY QuarterFact, ModFact DEF Time
<1> SUFFICES (r + b) % Period = (a + b) % Period
  BY Zenon
<1> HIDE DEF r
<1> DEFINE x == r + b
           y == a + b
           m == 0 - j
<1>3. x \in Int /\ y \in Int /\ m \in Int /\ x = y + m * Period
  BY <1>1, <1>2
<1> HIDE DEF x, y, m
<1>4. x % Period = y % Period
  BY Zenon, <1>3, ModSame
<1> QED BY Zenon, <1>4 DEF x, y

\* A time of the clock is its own remainder.
LEMMA ModTime ==
  ASSUME NEW a \in Time
  PROVE  a % Period = a
<1>1. a \in Int /\ Period \in Int /\ a = 0 * Period + a
  BY QuarterFact DEF Time
<1> QED BY <1>1, ModIs

\* TIME_LESS_THAN (timeouts.c:73) compares truly what is less than half of the clock
\* apart, wherever the clock stands.
LEMMA LessFact ==
  ASSUME NEW clock \in Int, NEW a \in Int, NEW b \in Int,
         a - b \in -(2 * Quarter) .. 2 * Quarter - 1
  PROVE  TIME_LESS_THAN((clock + a) % Period, (clock + b) % Period) <=> a < b
<1>1. (((clock + a) % Period) - ((clock + b) % Period)) % Period = (a - b) % Period
  <2>1. (clock + a) - (clock + b) = a - b
    OBVIOUS
  <2> QED BY <2>1, ModDiff
<1>2. /\ Quarter \in Nat \ {0} /\ Period = 4 * Quarter /\ Period \div 2 = 2 * Quarter
  BY Zenon, QuarterFact
<1>3. CASE a < b
  <2>1. (a - b) + Period \in Time /\ a - b = (0 - 1) * Period + ((a - b) + Period)
    BY <1>2, <1>3 DEF Time
  <2>2. (a - b) % Period = (a - b) + Period
    BY <2>1, ModIs
  <2> QED BY <1>1, <1>2, <1>3, <2>2 DEF TIME_LESS_THAN
<1>4. CASE ~(a < b)
  <2>1. a - b \in Time
    BY <1>2, <1>4 DEF Time
  <2>2. (a - b) % Period = a - b
    BY Zenon, <2>1, ModTime
  <2> QED BY <1>1, <1>2, <1>4, <2>2 DEF TIME_LESS_THAN
<1> QED BY Zenon, <1>3, <1>4
-----------------------------------------------------------------------------
\* A set of indices has a least one.
LEMMA LeastExists ==
  ASSUME NEW S \in SUBSET Nat, S # {}
  PROVE  Min(S) \in S /\ \A y \in S : Min(S) <= y
<1>1. PICK x \in S : \A y \in S : ~(<<y, x>> \in OpToRel(<, Nat))
  BY Zenon, NatLessThanWellFounded, WFMin
<1>2. \A y \in S : x <= y
  <2>1. SUFFICES ASSUME NEW y \in S, y < x PROVE FALSE
    OBVIOUS
  <2>2. <<y, x>> \in OpToRel(<, Nat)
    BY Zenon, <2>1 DEF OpToRel
  <2> QED BY Zenon, <2>2, <1>1
<1> QED BY Zenon, <1>2 DEF Min

\* The places and the entries of a list.
LEMMA ListFact ==
  ASSUME NEW l \in Seq(Entry)
  PROVE  /\ Len(l) \in Nat /\ DOMAIN l = 1 .. Len(l)
         /\ \A i \in DOMAIN l : /\ l[i] \in Entry /\ l[i].h \in Timers
                                /\ l[i].time \in Time /\ l[i].left \in Int
<1>1. Len(l) \in Nat /\ DOMAIN l = 1 .. Len(l) /\ \A i \in DOMAIN l : l[i] \in Entry
  OBVIOUS
<1>2. \A e \in Entry : e.h \in Timers /\ e.time \in Time /\ e.left \in Int
  BY Zenon DEF Entry
<1> QED BY Zenon, <1>1, <1>2

\* The pool holds an entry for each timer (timeouts.c:188-192).
LEMMA LenFact ==
  ASSUME NEW l \in Seq(Entry), Distinct(l)
  PROVE  /\ Len(l) <= MEMP_NUM_SYS_TIMEOUT
         /\ \A h \in Timers : (\A i \in DOMAIN l : l[i].h # h) => Len(l) < MEMP_NUM_SYS_TIMEOUT
<1> DEFINE N == Cardinality(Timers)
<1>1. IsFiniteSet(Timers) /\ N \in Nat /\ N <= MEMP_NUM_SYS_TIMEOUT
  <2>1. /\ IsFiniteSet(Cyclic) /\ MEMP_NUM_SYS_TIMEOUT \in Nat
        /\ MEMP_NUM_SYS_TIMEOUT >= Cardinality(Timers)
    BY Zenon, TimeoutsAssumption
  <2>2. IsFiniteSet(Cyclic \cup {TCP})
    BY Zenon, <2>1, FS_AddElement
  <2>3. IsFiniteSet((Cyclic \cup {TCP}) \cup {APP})
    BY Zenon, <2>2, FS_AddElement
  <2>4. Timers \in {Cyclic \cup {TCP}, (Cyclic \cup {TCP}) \cup {APP}}
    <3>1. CASE AppMsecs = {}
      BY Zenon, <3>1 DEF Timers
    <3>2. CASE AppMsecs # {}
      BY Zenon, <3>2 DEF Timers
    <3> QED BY Zenon, <3>1, <3>2
  <2>5. IsFiniteSet(Timers)
    BY Zenon, <2>2, <2>3, <2>4
  <2>6. Cardinality(Timers) \in Nat
    BY Zenon, <2>5, FS_CardinalityType
  <2> QED BY <2>1, <2>5, <2>6
<1> HIDE DEF N
<1> DEFINE D == 1 .. Len(l)
           f == [i \in D |-> l[i].h]
<1>2. Len(l) \in Nat /\ DOMAIN l = D /\ \A i \in D : l[i] \in Entry /\ l[i].h \in Timers
  BY Zenon, ListFact
<1>3. IsFiniteSet(D) /\ Cardinality(D) = Len(l)
  <2> DEFINE n == Len(l)
  <2>1. n \in Int /\ 1 \in Int
    BY <1>2
  <2> HIDE DEF n
  <2>2. IsFiniteSet(1 .. n) /\ Cardinality(1 .. n) = IF 1 > n THEN 0 ELSE n - 1 + 1
    BY Zenon, <2>1, FS_Interval
  <2> QED BY <1>2, <2>2 DEF n
<1>4. \A i, j \in D : f[i] = f[j] => i = j
  BY Zenon, <1>2 DEF Distinct
<1> HIDE DEF D
<1>5. Len(l) <= N
  <2> SUFFICES ASSUME Len(l) > N PROVE FALSE
    BY <1>1, <1>2
  <2>1. f \in [D -> Timers]
    BY Zenon, <1>2
  <2> HIDE DEF f
  <2>2. Cardinality(Timers) < Cardinality(D)
    BY Zenon, <1>1, <1>2, <1>3 DEF N
  <2>3. \E x, y \in D : x # y /\ f[x] = f[y]
    BY Zenon, <1>1, <1>3, <2>1, <2>2, FS_PigeonHole
  <2> QED BY Zenon, <1>4, <2>3
<1>6. ASSUME NEW h \in Timers, \A i \in DOMAIN l : l[i].h # h
      PROVE  Len(l) < N
  <2> DEFINE T == Timers \ {h}
  <2> SUFFICES ASSUME Len(l) >= N PROVE FALSE
    BY <1>1, <1>2
  <2>1. f \in [D -> T]
    BY Zenon, <1>2, <1>6
  <2>2. IsFiniteSet(T) /\ Cardinality(T) = N - 1
    BY Zenon, <1>1, FS_RemoveElement DEF N
  <2> HIDE DEF f, T
  <2>3. Cardinality(T) < Cardinality(D)
    BY <1>1, <1>2, <1>3, <2>2
  <2>4. \E x, y \in D : x # y /\ f[x] = f[y]
    BY Zenon, <1>3, <2>1, <2>2, <2>3, FS_PigeonHole
  <2> QED BY Zenon, <1>4, <2>4
<1> QED BY <1>1, <1>2, <1>5, <1>6, LateFact

\* The list l with a new entry at place k.
Inserted(new, l, k, e) ==
  /\ k \in 1 .. Len(l) + 1
  /\ new \in Seq(Entry) /\ Len(new) = Len(l) + 1
  /\ new[k] = e
  /\ \A j \in 1 .. k - 1 : new[j] = l[j]
  /\ \A j \in k .. Len(l) : new[j + 1] = l[j]

\* The list l with x before its k-th entry, and without its k-th entry.
With(l, k, x) == SubSeq(l, 1, k - 1) \o <<x>> \o SubSeq(l, k, Len(l))
Without(l, k) == SubSeq(l, 1, k - 1) \o SubSeq(l, k + 1, Len(l))

\* An entry that is put into a list moves those behind it by one place.
LEMMA WithFact ==
  ASSUME NEW l \in Seq(Entry), NEW e \in Entry, NEW k \in 1 .. Len(l) + 1
  PROVE  Inserted(With(l, k, e), l, k, e)
<1> DEFINE a == SubSeq(l, 1, k - 1)
           b == SubSeq(l, k, Len(l))
           c == a \o <<e>>
           new == c \o b
           n == Len(l)
<1>1. n \in Nat /\ k \in 1 .. n + 1 /\ k \in Int
  OBVIOUS
<1>2. With(l, k, e) = new
  BY Zenon DEF With
<1>3. a \in Seq(Entry) /\ Len(a) = k - 1 /\ \A j \in 1 .. k - 1 : a[j] = l[j]
  OBVIOUS
<1>4. b \in Seq(Entry) /\ Len(b) = n - k + 1
  OBVIOUS
<1>5. \A j \in 1 .. n - k + 1 : b[j] = l[k + j - 1]
  OBVIOUS
<1> HIDE DEF a, b
<1>6. c \in Seq(Entry) /\ Len(c) = k
  BY <1>1, <1>3
<1>7. c[k] = e /\ \A j \in 1 .. k - 1 : c[j] = l[j]
  BY <1>1, <1>3
<1> HIDE DEF c, n
<1>8. new \in Seq(Entry) /\ Len(new) = n + 1
  BY SMTT(30), <1>1, <1>4, <1>6
<1>9. \A j \in 1 .. k : new[j] = c[j]
  BY <1>1, <1>4, <1>6
<1>10. \A j \in k + 1 .. n + 1 : new[j] = b[j - k]
  BY <1>1, <1>4, <1>6
<1> HIDE DEF new
<1>11. ASSUME NEW j \in k .. n PROVE new[j + 1] = l[j]
  <2>1. j + 1 \in k + 1 .. n + 1 /\ j + 1 - k \in 1 .. n - k + 1 /\ k + (j + 1 - k) - 1 = j
    BY <1>1
  <2>2. new[j + 1] = b[j + 1 - k]
    BY <1>10, <2>1
  <2>3. b[j + 1 - k] = l[k + (j + 1 - k) - 1]
    BY Zenon, <1>5, <2>1
  <2> QED BY Zenon, <2>1, <2>2, <2>3
<1>12. \A j \in 1 .. k - 1 : new[j] = l[j]
  BY <1>1, <1>7, <1>9
<1>13. new[k] = e
  BY <1>1, <1>7, <1>9
<1> QED BY <1>1, <1>2, <1>8, <1>11, <1>12, <1>13 DEF Inserted, n

\* The entries that are later than t.
Later(l, t) == {i \in DOMAIN l : TIME_LESS_THAN(t, l[i].time)}

\* The branches of sys_timeout_abs.
LEMMA AbsFact ==
  ASSUME NEW l, NEW h, NEW at, NEW left, ~(Len(l) >= MEMP_NUM_SYS_TIMEOUT)
  PROVE  sys_timeout_abs(l, h, at, left) =
           With(l, Min(Later(l, at % Period) \cup {Len(l) + 1}),
                [h |-> h, time |-> at % Period, left |-> left])
<1>1. [h |-> h, time |-> at % Period, left |-> left].time = at % Period
  BY Zenon
<1> QED BY <1>1, Zenon DEF sys_timeout_abs, With, Later

\* sys_timeout_abs (timeouts.c:179-221) puts the entry behind those that are not later.
LEMMA InsertFact ==
  ASSUME NEW l \in Seq(Entry), Len(l) < MEMP_NUM_SYS_TIMEOUT, NEW h \in Timers,
         NEW at \in Int, NEW left \in Int, NEW clock \in Int,
         at % Period = (clock + left) % Period,
         \A i \in DOMAIN l : l[i].time = (clock + l[i].left) % Period,
         \A i \in DOMAIN l : left - l[i].left \in -(2 * Quarter) .. 2 * Quarter - 1
  PROVE  \E k \in 1 .. Len(l) + 1 :
           /\ Inserted(sys_timeout_abs(l, h, at, left), l, k,
                       [h |-> h, time |-> (clock + left) % Period, left |-> left])
           /\ \A j \in 1 .. k - 1 : l[j].left <= left
           /\ k <= Len(l) => left < l[k].left
<1> DEFINE t == (clock + left) % Period
           e == [h |-> h, time |-> t, left |-> left]
           I == Later(l, t)
           new == sys_timeout_abs(l, h, at, left)
           n == Len(l)
<1>1. /\ n \in Nat /\ DOMAIN l = 1 .. n /\ n < MEMP_NUM_SYS_TIMEOUT
      /\ \A i \in 1 .. n : l[i] \in Entry /\ l[i].left \in Int
  BY Zenon, ListFact
<1>2. t \in Time /\ at % Period = t
  BY Zenon, ModFact
<1>3. \A i \in 1 .. n : TIME_LESS_THAN(t, l[i].time) <=> left < l[i].left
  <2> SUFFICES ASSUME NEW i \in 1 .. n PROVE TIME_LESS_THAN(t, l[i].time) <=> left < l[i].left
    BY Zenon
  <2>1. l[i].time = (clock + l[i].left) % Period /\ l[i].left \in Int
        /\ left - l[i].left \in -(2 * Quarter) .. 2 * Quarter - 1
    BY Zenon, <1>1
  <2> QED BY Zenon, <2>1, LessFact
<1>4. I \subseteq 1 .. n /\ \A i \in 1 .. n : i \in I <=> left < l[i].left
  BY Zenon, <1>1, <1>3 DEF Later
<1> SUFFICES \E k \in 1 .. n + 1 : /\ Inserted(new, l, k, e)
                                   /\ \A j \in 1 .. k - 1 : l[j].left <= left
                                   /\ k <= n => left < l[k].left
  BY Zenon
<1>5. ~(n >= MEMP_NUM_SYS_TIMEOUT)
  BY <1>1, LateFact
<1> DEFINE J == I \cup {n + 1}
           k == Min(J)
<1>6. new = With(l, k, e)
  BY <1>2, <1>5, AbsFact
<1>7. e \in Entry
  BY Zenon, <1>2 DEF Entry
<1> HIDE DEF new, e, t, I
<1>8. J \in SUBSET Nat /\ J # {}
  <2>1. n + 1 \in Nat /\ \A i \in 1 .. n : i \in Nat
    BY <1>1
  <2> HIDE DEF n
  <2> QED BY Zenon, <1>4, <2>1
<1>9. k \in J /\ \A y \in J : k <= y
  <2> HIDE DEF J
  <2> QED BY Zenon, <1>8, LeastExists
<1> HIDE DEF k
<1>10. k \in 1 .. n + 1
  <2> HIDE DEF n
  <2>1. \A i \in 1 .. n : i \in 1 .. n + 1
    BY <1>1
  <2>2. n + 1 \in 1 .. n + 1
    BY <1>1
  <2> QED BY Zenon, <1>4, <1>9, <2>1, <2>2
<1>11. Inserted(new, l, k, e)
  BY Zenon, <1>6, <1>7, <1>10, WithFact
<1> HIDE DEF n
<1>12. k <= n => left < l[k].left
  BY <1>1, <1>4, <1>9, <1>10
<1>13. ASSUME NEW j \in 1 .. k - 1 PROVE l[j].left <= left
  <2>1. j \in 1 .. n /\ j \notin J
    BY <1>1, <1>9, <1>10
  <2> QED BY <1>1, <1>4, <2>1
<1> QED BY Zenon, <1>10, <1>11, <1>12, <1>13
-----------------------------------------------------------------------------
\* The facts of a good list, entry by entry.
LEMMA GoodFact ==
  ASSUME NEW l, NEW clock, NEW e, Good(l, clock, e)
  PROVE  /\ l \in Seq(Entry) /\ Len(l) \in Nat /\ DOMAIN l = 1 .. Len(l)
         /\ Len(l) <= MEMP_NUM_SYS_TIMEOUT
         /\ e \in Nat /\ e <= Busy(MEMP_NUM_SYS_TIMEOUT)
         /\ \A i \in DOMAIN l : /\ l[i] \in Entry /\ l[i].h \in Timers /\ l[i].time \in Time
                                /\ l[i].left \in Int /\ l[i].time = (clock + l[i].left) % Period
                                /\ l[i].left \in -Quarter .. 2 * Quarter - 1
<1>1. l \in Seq(Entry) /\ \A i \in DOMAIN l : l[i].time = (clock + l[i].left) % Period
  BY Zenon DEF Good, Listed
<1>2. /\ Len(l) \in Nat /\ DOMAIN l = 1 .. Len(l)
      /\ \A i \in DOMAIN l : /\ l[i] \in Entry /\ l[i].h \in Timers
                             /\ l[i].time \in Time /\ l[i].left \in Int
  BY Zenon, <1>1, ListFact
<1>3. Len(l) <= MEMP_NUM_SYS_TIMEOUT
  BY Zenon, <1>1, LenFact DEF Good
<1>4. e \in 0 .. Busy(MEMP_NUM_SYS_TIMEOUT) /\ Busy(MEMP_NUM_SYS_TIMEOUT) \in Int
  BY LateFact, BusyFact DEF Good, Timely
<1>5. ASSUME NEW i \in DOMAIN l PROVE l[i].left \in -Quarter .. 2 * Quarter - 1
  <2>1. l[i].left + e \in -Latest .. 2 * Quarter - 1
    BY Zenon DEF Good, Near
  <2>2. Due(l, i, e) => e + Busy(i) <= Busy(MEMP_NUM_SYS_TIMEOUT)
    BY Zenon DEF Good, Timely
  <2>3. ~Due(l, i, e) => l[i].left + Others >= 0
    BY Zenon DEF Good, Timely
  <2>4. i \in Int /\ Busy(i) \in Int /\ Busy(1) <= Busy(i)
    BY <1>2, BusyFact, BusyMore
  <2>5. Busy(1) = MaxHandlerTime
    BY LateFact DEF Busy
  <2>6. l[i].left \in Int /\ Quarter \in Nat
    BY <1>2, QuarterFact
  <2>7. l[i].left >= -Quarter
    BY <1>4, <2>1, <2>2, <2>3, <2>4, <2>5, <2>6, LateFact
  <2> QED BY <1>4, <2>1, <2>6, <2>7
<1> QED BY <1>1, <1>2, <1>3, <1>4, <1>5

\* An entry of the longer list is the new one or an entry of the old list.
Longer(new, l, k, x) ==
  /\ new \in Seq(Entry) /\ k \in DOMAIN new /\ new[k] = x /\ k \in Int
  /\ \A j \in DOMAIN new : j # k => \E i \in DOMAIN l : /\ new[j] = l[i]
                                                        /\ ((i < k /\ j = i) \/ (i >= k /\ j = i + 1))
  /\ \A i \in DOMAIN l : \E j \in DOMAIN new : new[j] = l[i]

\* Each entry of the longer list is the new one or one of the old ones, and none is lost.
LEMMA InsertedFact ==
  ASSUME NEW l \in Seq(Entry), NEW new, NEW k, NEW x \in Entry, Inserted(new, l, k, x)
  PROVE  Longer(new, l, k, x)
<1> DEFINE n == Len(l)
<1>1. n \in Nat /\ DOMAIN l = 1 .. n
  BY Zenon, ListFact
<1>2. /\ k \in 1 .. n + 1 /\ new \in Seq(Entry) /\ Len(new) = n + 1 /\ new[k] = x
      /\ \A j \in 1 .. k - 1 : new[j] = l[j]
      /\ \A j \in k .. n : new[j + 1] = l[j]
  BY Zenon DEF Inserted
<1>3. DOMAIN new = 1 .. n + 1
  BY Zenon, <1>2, ListFact
<1> HIDE DEF n
<1>4. ASSUME NEW j \in 1 .. n + 1, j > k PROVE j - 1 \in 1 .. n /\ new[j] = l[j - 1]
  <2>1. j - 1 \in k .. n /\ (j - 1) + 1 = j /\ j - 1 \in 1 .. n
    BY <1>1, <1>2, <1>4
  <2> QED BY Zenon, <1>2, <2>1
<1>5. ASSUME NEW j \in 1 .. n + 1, j < k PROVE j \in 1 .. n /\ new[j] = l[j]
  BY <1>1, <1>2, <1>5
<1>6. ASSUME NEW i \in 1 .. n
      PROVE  \/ i < k /\ i \in 1 .. n + 1 /\ new[i] = l[i]
             \/ i >= k /\ i + 1 \in 1 .. n + 1 /\ new[i + 1] = l[i]
  BY <1>1, <1>2
<1>7. ASSUME NEW j \in 1 .. n + 1, j # k
      PROVE  \E i \in 1 .. n : new[j] = l[i] /\ ((i < k /\ j = i) \/ (i >= k /\ j = i + 1))
  <2>1. CASE j < k
    BY Zenon, <1>5, <2>1
  <2>2. CASE j > k
    <3>1. j - 1 \in 1 .. n /\ new[j] = l[j - 1]
      BY Zenon, <1>4, <2>2
    <3>2. j - 1 >= k /\ j = (j - 1) + 1
      BY <1>2, <2>2
    <3> QED BY Zenon, <3>1, <3>2
  <2> QED BY <1>1, <1>2, <1>7, <2>1, <2>2
<1>8. \A i \in 1 .. n : \E j \in 1 .. n + 1 : new[j] = l[i]
  BY Zenon, <1>6
<1>9. k \in Int
  BY <1>1, <1>2
<1> QED BY ZenonT(30), <1>1, <1>2, <1>3, <1>7, <1>8, <1>9 DEF Longer

\* A list stays good when an entry that is not yet due goes where it belongs.
LEMMA LongerGood ==
  ASSUME NEW l, NEW clock, NEW e, Good(l, clock, e), NEW new, NEW k, NEW x \in Entry,
         Longer(new, l, k, x), Len(new) <= MEMP_NUM_SYS_TIMEOUT,
         ~Has(l, x.h), x.time = (clock + x.left) % Period, x.left \in 0 .. Quarter - 1,
         \A j \in DOMAIN l : j < k => l[j].left <= x.left,
         \A j \in DOMAIN l : j >= k => x.left < l[j].left
  PROVE  Good(new, clock, e)
<1> DEFINE K == MEMP_NUM_SYS_TIMEOUT
           left == x.left
<1>1. /\ Len(l) \in Nat /\ DOMAIN l = 1 .. Len(l)
      /\ e \in Nat /\ e <= Busy(K)
      /\ \A i \in DOMAIN l : /\ l[i].time = (clock + l[i].left) % Period /\ l[i].left \in Int
                             /\ l[i].left \in -Quarter .. 2 * Quarter - 1
  BY Zenon, GoodFact
<1>2. Quarter \in Nat /\ left \in Int /\ left >= 0 /\ left <= Quarter - 1
  BY QuarterFact
<1>3. /\ new \in Seq(Entry) /\ k \in DOMAIN new /\ new[k] = x /\ k \in Int
      /\ \A j \in DOMAIN new : j # k => \E i \in DOMAIN l : /\ new[j] = l[i]
                                                            /\ ((i < k /\ j = i) \/ (i >= k /\ j = i + 1))
  BY Zenon DEF Longer
<1>4. Listed(new, clock)
  <2> SUFFICES ASSUME NEW j \in DOMAIN new PROVE new[j].time = (clock + new[j].left) % Period
    BY Zenon, <1>3 DEF Listed
  <2>1. CASE j = k
    BY Zenon, <1>3, <2>1
  <2>2. CASE j # k
    BY Zenon, <1>1, <1>3, <2>2
  <2> QED BY Zenon, <2>1, <2>2
<1>5. /\ Len(new) \in Nat /\ DOMAIN new = 1 .. Len(new) /\ Len(new) <= K
      /\ \A j \in DOMAIN new : new[j].left \in Int /\ j \in Int /\ j <= K
  <2>1. Len(new) \in Nat /\ DOMAIN new = 1 .. Len(new) /\ \A j \in DOMAIN new : new[j].left \in Int
    BY Zenon, <1>3, ListFact
  <2> QED BY <2>1, LateFact
<1>6. Distinct(new)
  <2>1. \A i \in DOMAIN l : l[i].h # x.h
    BY Zenon DEF Has
  <2>2. \A i, j \in DOMAIN l : l[i].h = l[j].h => i = j
    BY Zenon DEF Good, Distinct
  <2>3. \A j \in DOMAIN new : j # k => new[j].h # x.h
    BY Zenon, <1>3, <2>1
  <2>4. ASSUME NEW i \in DOMAIN new, NEW j \in DOMAIN new, i # k, j # k, new[i].h = new[j].h
        PROVE  i = j
    <3>1. PICK a \in DOMAIN l : new[i] = l[a] /\ ((a < k /\ i = a) \/ (a >= k /\ i = a + 1))
      BY Zenon, <1>3, <2>4
    <3>2. PICK b \in DOMAIN l : new[j] = l[b] /\ ((b < k /\ j = b) \/ (b >= k /\ j = b + 1))
      BY Zenon, <1>3, <2>4
    <3>3. a = b
      BY Zenon, <2>2, <2>4, <3>1, <3>2
    <3> QED BY <1>1, <3>1, <3>2, <3>3
  <2> QED BY Zenon, <1>3, <2>3, <2>4 DEF Distinct
<1>7. Ordered(new)
  <2>1. \A i, j \in DOMAIN l : i < j => l[i].left <= l[j].left
    BY Zenon DEF Good, Ordered
  <2> SUFFICES ASSUME NEW i \in DOMAIN new, NEW j \in DOMAIN new, i < j
               PROVE  new[i].left <= new[j].left
    BY Zenon DEF Ordered
  <2>2. CASE i = k
    <3>1. PICK b \in DOMAIN l : new[j] = l[b] /\ ((b < k /\ j = b) \/ (b >= k /\ j = b + 1))
      BY <1>3, <1>5, <2>2
    <3>2. b >= k
      BY <1>1, <1>3, <2>2, <3>1
    <3> QED BY <1>1, <1>2, <1>3, <2>2, <3>1, <3>2
  <2>3. CASE j = k
    <3>1. PICK a \in DOMAIN l : new[i] = l[a] /\ ((a < k /\ i = a) \/ (a >= k /\ i = a + 1))
      BY <1>3, <1>5, <2>3
    <3>2. a < k
      BY <1>1, <1>3, <2>3, <3>1
    <3> QED BY Zenon, <1>1, <1>2, <1>3, <2>3, <3>1, <3>2
  <2>4. CASE i # k /\ j # k
    <3>1. PICK a \in DOMAIN l : new[i] = l[a] /\ ((a < k /\ i = a) \/ (a >= k /\ i = a + 1))
      BY Zenon, <1>3, <2>4
    <3>2. PICK b \in DOMAIN l : new[j] = l[b] /\ ((b < k /\ j = b) \/ (b >= k /\ j = b + 1))
      BY Zenon, <1>3, <2>4
    <3>3. a < b
      BY <1>1, <1>3, <3>1, <3>2
    <3> QED BY Zenon, <2>1, <3>1, <3>2, <3>3
  <2> QED BY Zenon, <2>2, <2>3, <2>4
<1>8. Near(new, e)
  <2>1. /\ \A i \in DOMAIN l : l[i].left + e \in -Latest .. 2 * Quarter - 1
        /\ \A i, j \in DOMAIN l : l[j].left - l[i].left <= 2 * Quarter - 1
    BY Zenon DEF Good, Near
  <2>2. Latest \in Nat /\ Busy(K) <= Quarter /\ Busy(K) \in Int
    BY LateFact, BusyFact
  <2>3. left + e \in -Latest .. 2 * Quarter - 1
    BY <1>1, <1>2, <2>2
  <2>4. \A j \in DOMAIN new : new[j].left + e \in -Latest .. 2 * Quarter - 1
    BY Zenon, <1>3, <2>1, <2>3
  <2>5. \A i \in DOMAIN l : l[i].left - left <= 2 * Quarter - 1 /\ left - l[i].left <= 2 * Quarter - 1
    BY <1>1, <1>2
  <2>6. left - left <= 2 * Quarter - 1
    BY <1>2
  <2>7. ASSUME NEW i \in DOMAIN new, NEW j \in DOMAIN new
        PROVE  new[j].left - new[i].left <= 2 * Quarter - 1
    <3>1. CASE i = k
      BY Zenon, <1>3, <2>5, <2>6, <3>1
    <3>2. CASE j = k
      BY Zenon, <1>3, <2>5, <2>6, <3>2
    <3>3. CASE i # k /\ j # k
      BY Zenon, <1>3, <2>1, <3>3
    <3> QED BY Zenon, <3>1, <3>2, <3>3
  <2> QED BY Zenon, <2>4, <2>7 DEF Near
<1>9. Timely(new, e)
  <2>1. /\ \A i \in DOMAIN l : Due(l, i, e) => e + Busy(i) <= Busy(K)
        /\ \A y \in DOMAIN l : ~Due(l, y, e) => l[y].left + Others >= 0
        /\ \A i, y \in DOMAIN l : ~Due(l, y, e) /\ Due(l, i, e) => l[y].left + Busy(K - 1 - i) >= 0
    BY Zenon DEF Good, Timely
  <2>2. K \in Nat /\ Others \in Nat /\ Busy(K) \in Int
    BY LateFact, BusyFact
  <2>3. ASSUME NEW i \in DOMAIN new, Due(new, i, e)
        PROVE  \/ i \in DOMAIN l /\ Due(l, i, e)
               \/ i = k /\ left = 0 /\ e = 0
    <3>1. CASE i = k
      BY <1>1, <1>2, <1>3, <2>3, <3>1 DEF Due
    <3>2. CASE i # k
      <4>1. PICK a \in DOMAIN l : new[i] = l[a] /\ ((a < k /\ i = a) \/ (a >= k /\ i = a + 1))
        BY Zenon, <1>3, <3>2
      <4>2. ~(left < l[a].left)
        BY SMTT(20), <1>1, <1>2, <2>3, <4>1 DEF Due
      <4> QED BY Zenon, <2>3, <4>1, <4>2 DEF Due
    <3> QED BY Zenon, <3>1, <3>2
  <2>4. ASSUME NEW i \in DOMAIN new, Due(new, i, e) PROVE e + Busy(i) <= Busy(K)
    <3>1. CASE i = k /\ left = 0 /\ e = 0
      <4>1. Busy(i) <= Busy(K) /\ Busy(i) \in Int
        BY <1>5, <2>2, BusyMore, BusyFact
      <4> QED BY <2>2, <3>1, <4>1
    <3> QED BY <2>1, <2>3, <2>4, <3>1
  <2>5. ASSUME NEW y \in DOMAIN new, ~Due(new, y, e) PROVE new[y].left + Others >= 0
    <3>1. CASE y = k
      BY <1>2, <1>3, <2>2, <3>1
    <3>2. CASE y # k
      <4>1. PICK j \in DOMAIN l : new[y] = l[j]
        BY Zenon, <1>3, <3>2
      <4> QED BY Zenon, <2>1, <2>5, <4>1 DEF Due
    <3> QED BY Zenon, <3>1, <3>2
  <2>6. ASSUME NEW y \in DOMAIN new, ~Due(new, y, e), NEW i \in DOMAIN new, Due(new, i, e)
        PROVE  new[y].left + Busy(K - 1 - i) >= 0
    <3>1. i < y
      <4>1. new[i].left \in Int /\ new[y].left \in Int /\ i \in Int /\ y \in Int
        BY Zenon, <1>5
      <4>2. new[i].left < new[y].left
        BY <1>1, <2>6, <4>1 DEF Due
      <4>3. ~(y < i) /\ y # i
        BY <1>7, <4>1, <4>2 DEF Ordered
      <4> QED BY <4>1, <4>3
    <3>2. K - 1 - i \in Int /\ K - 1 - i >= 0
      BY <1>5, <2>2, <3>1
    <3>3. Busy(K - 1 - i) >= 0 /\ Busy(K - 1 - i) \in Int
      BY Zenon, <3>2, BusyFact
    <3>4. CASE new[y].left >= 0
      BY <1>5, <3>3, <3>4
    <3>5. CASE new[y].left < 0
      <4>1. y # k
        BY <1>2, <1>3, <3>5
      <4>2. PICK j \in DOMAIN l : new[y] = l[j]
        BY Zenon, <1>3, <4>1
      <4>3. ~(left = 0 /\ e = 0)
        BY <1>5, <2>6, <3>5 DEF Due
      <4>4. i \in DOMAIN l /\ Due(l, i, e)
        BY <2>3, <2>6, <4>3
      <4>5. ~Due(l, j, e)
        BY Zenon, <2>6, <4>2 DEF Due
      <4> QED BY Zenon, <2>1, <4>2, <4>4, <4>5
    <3> QED BY <1>5, <3>4, <3>5
  <2>7. e \in 0 .. Busy(K)
    BY Zenon DEF Good, Timely
  <2> QED BY Zenon, <2>4, <2>5, <2>6, <2>7 DEF Timely
<1> QED BY <1>4, <1>6, <1>7, <1>8, <1>9 DEF Good

\* A new timeout leaves the list good (sys_timeout_abs, timeouts.c:179-221).
LEMMA InsertGood ==
  ASSUME NEW l, NEW clock \in Int, NEW e, Good(l, clock, e),
         NEW h \in Timers, ~Has(l, h), NEW left \in 0 .. Quarter - 1,
         NEW at \in Int, at % Period = (clock + left) % Period
  PROVE  /\ Good(sys_timeout_abs(l, h, at, left), clock, e)
         /\ \A g : Has(sys_timeout_abs(l, h, at, left), g) <=> g = h \/ Has(l, g)
<1> DEFINE new == sys_timeout_abs(l, h, at, left)
           x == [h |-> h, time |-> (clock + left) % Period, left |-> left]
           K == MEMP_NUM_SYS_TIMEOUT
<1>1. /\ l \in Seq(Entry) /\ Len(l) \in Nat /\ DOMAIN l = 1 .. Len(l)
      /\ \A i \in DOMAIN l : /\ l[i].time = (clock + l[i].left) % Period /\ l[i].left \in Int
                             /\ l[i].left \in -Quarter .. 2 * Quarter - 1
  BY Zenon, GoodFact
<1>2. Quarter \in Nat /\ left \in Int /\ left >= 0 /\ left <= Quarter - 1
  BY QuarterFact
<1>3. Len(l) < K
  BY Zenon, <1>1, LenFact DEF Good, Has
<1>4. \A i \in DOMAIN l : left - l[i].left \in -(2 * Quarter) .. 2 * Quarter - 1
  BY SMTT(20), <1>1, <1>2
<1>5. PICK k \in 1 .. Len(l) + 1 : /\ Inserted(new, l, k, x)
                                   /\ \A j \in 1 .. k - 1 : l[j].left <= left
                                   /\ k <= Len(l) => left < l[k].left
  BY Zenon, <1>1, <1>2, <1>3, <1>4, InsertFact
<1>6. x.h = h /\ x.left = left /\ x.time = (clock + left) % Period /\ x \in Entry
  BY Zenon, <1>2, ModFact DEF Entry
<1> SUFFICES Good(new, clock, e) /\ \A g : Has(new, g) <=> g = h \/ Has(l, g)
  BY Zenon
<1> HIDE DEF new, x
<1>7. Longer(new, l, k, x)
  BY Zenon, <1>1, <1>5, <1>6, InsertedFact
<1>8. \A g : Has(new, g) <=> g = h \/ Has(l, g)
  BY <1>6, <1>7 DEF Has, Longer
<1>9. Len(new) <= K
  <2>1. Len(new) = Len(l) + 1
    BY Zenon, <1>5 DEF Inserted
  <2> QED BY <1>1, <1>3, <2>1, LateFact
<1>10. /\ \A j \in DOMAIN l : j < k => l[j].left <= left
       /\ \A j \in DOMAIN l : j >= k => left < l[j].left
  <2>1. \A i, j \in DOMAIN l : i < j => l[i].left <= l[j].left
    BY Zenon DEF Good, Ordered
  <2>2. ASSUME NEW j \in DOMAIN l, j >= k PROVE left < l[j].left
    <3>1. k \in DOMAIN l /\ left < l[k].left /\ (j = k \/ k < j)
      BY <1>1, <1>5, <2>2
    <3>2. l[k].left <= l[j].left /\ l[k].left \in Int /\ l[j].left \in Int
      BY <1>1, <2>1, <3>1
    <3> QED BY <1>2, <3>1, <3>2
  <2> QED BY <1>1, <1>5, <2>2
<1>11. Good(new, clock, e)
  BY Zenon, <1>6, <1>7, <1>9, <1>10, LongerGood
<1> QED BY <1>8, <1>11
-----------------------------------------------------------------------------
\* A list whose lateness is measured from now on is good when it is listed, ordered and near.
LEMMA FreshGood ==
  ASSUME NEW l, NEW clock, Listed(l, clock), Ordered(l), Distinct(l), Near(l, 0)
  PROVE  Good(l, clock, 0)
<1> DEFINE K == MEMP_NUM_SYS_TIMEOUT
<1>1. l \in Seq(Entry)
  BY Zenon DEF Listed
<1>2. Len(l) \in Nat /\ DOMAIN l = 1 .. Len(l) /\ \A i \in DOMAIN l : l[i].left \in Int
  BY Zenon, <1>1, ListFact
<1>3. Len(l) <= K /\ K \in Nat /\ Others \in Nat
  BY Zenon, <1>1, LenFact, LateFact
<1>4. \A i \in DOMAIN l : i \in Int /\ i <= K
  BY <1>2, <1>3
<1>5. 0 \in 0 .. Busy(K)
  BY <1>3, BusyFact
<1>6. ASSUME NEW i \in DOMAIN l PROVE 0 + Busy(i) <= Busy(K)
  <2>1. i \in Int /\ K \in Int /\ i <= K
    BY <1>3, <1>4
  <2>2. Busy(i) <= Busy(K)
    BY Zenon, <2>1, BusyMore
  <2>3. Busy(i) \in Int
    BY <2>1, BusyFact
  <2> QED BY <2>2, <2>3
<1>7. ASSUME NEW x \in DOMAIN l, ~Due(l, x, 0)
      PROVE  /\ l[x].left + Others >= 0
             /\ \A i \in DOMAIN l : Due(l, i, 0) => l[x].left + Busy(K - 1 - i) >= 0
  <2>1. l[x].left > 0
    BY <1>2, <1>7 DEF Due
  <2>2. ASSUME NEW i \in DOMAIN l, Due(l, i, 0) PROVE l[x].left + Busy(K - 1 - i) >= 0
    <3>1. l[i].left < l[x].left
      BY <1>2, <2>1, <2>2 DEF Due
    <3>2. i < x
      BY <1>2, <1>4, <3>1 DEF Ordered
    <3>3. K - 1 - i \in Int /\ K - 1 - i >= 0
      BY <1>3, <1>4, <3>2
    <3>4. Busy(K - 1 - i) >= 0 /\ Busy(K - 1 - i) \in Int
      BY Zenon, <3>3, BusyFact
    <3> QED BY <1>2, <2>1, <3>4
  <2> QED BY <1>2, <1>3, <2>1, <2>2
<1>8. Timely(l, 0)
  BY Zenon, <1>5, <1>6, <1>7 DEF Timely
<1> QED BY Zenon, <1>8 DEF Good

\* The list after d units of time: only the times to go change.
LEMMA OlderFact ==
  ASSUME NEW l \in Seq(Entry), NEW d \in Int
  PROVE  /\ Older(l, d) \in Seq(Entry) /\ DOMAIN Older(l, d) = DOMAIN l
         /\ Len(Older(l, d)) = Len(l)
         /\ \A i \in DOMAIN l : /\ Older(l, d)[i].h = l[i].h /\ Older(l, d)[i].time = l[i].time
                                /\ Older(l, d)[i].left = l[i].left - d
<1> DEFINE o == Older(l, d)
<1>1. Len(l) \in Nat /\ DOMAIN l = 1 .. Len(l) /\ \A i \in DOMAIN l : l[i] \in Entry
  BY Zenon, ListFact
<1>2. \A x \in Entry : /\ [x EXCEPT !.left = @ - d] \in Entry /\ [x EXCEPT !.left = @ - d].h = x.h
                       /\ [x EXCEPT !.left = @ - d].time = x.time
                       /\ [x EXCEPT !.left = @ - d].left = x.left - d
  BY DEF Entry
<1>3. DOMAIN o = 1 .. Len(l) /\ \A i \in DOMAIN l : o[i] = [l[i] EXCEPT !.left = @ - d]
  BY Zenon, <1>1 DEF Older
<1> HIDE DEF o
<1>4. \A i \in 1 .. Len(l) : o[i] \in Entry
  BY <1>1, <1>2, <1>3
<1>5. o \in [1 .. Len(l) -> Entry]
  <2>1. o = [i \in 1 .. Len(l) |-> o[i]]
    BY Zenon, <1>1 DEF Older, o
  <2> QED BY Zenon, <1>4, <2>1
<1>6. o \in Seq(Entry) /\ Len(o) = Len(l)
  BY <1>1, <1>5
<1>7. ASSUME NEW i \in DOMAIN l
      PROVE  o[i].h = l[i].h /\ o[i].time = l[i].time /\ o[i].left = l[i].left - d
  BY Zenon, <1>1, <1>2, <1>3
<1> QED BY Zenon, <1>1, <1>3, <1>6, <1>7 DEF o

\* ... and the list still tells the truth.
LEMMA OlderListed ==
  ASSUME NEW l, NEW clock \in Int, NEW d \in Int, Listed(l, clock)
  PROVE  Listed(Older(l, d), (clock + d) % Period)
<1>1. l \in Seq(Entry)
  BY Zenon DEF Listed
<1>2. /\ Older(l, d) \in Seq(Entry) /\ DOMAIN Older(l, d) = DOMAIN l
      /\ \A i \in DOMAIN l : /\ Older(l, d)[i].time = l[i].time
                             /\ Older(l, d)[i].left = l[i].left - d
  BY Zenon, <1>1, OlderFact
<1>3. ASSUME NEW i \in DOMAIN l
      PROVE  l[i].time = (((clock + d) % Period) + (l[i].left - d)) % Period
  <2> DEFINE a == clock + d
             b == l[i].left - d
  <2>1. l[i].left \in Int /\ l[i].time = (clock + l[i].left) % Period
    BY Zenon, <1>1, ListFact DEF Listed
  <2>2. a \in Int /\ b \in Int /\ a + b = clock + l[i].left
    BY <2>1
  <2>3. ((a % Period) + b) % Period = (a + b) % Period
    <3> HIDE DEF a, b
    <3> QED BY Zenon, <2>2, ModAdd
  <2> QED BY Zenon, <2>1, <2>2, <2>3
<1> QED BY Zenon, <1>2, <1>3 DEF Listed

\* Time goes on while the main loop is elsewhere (Tick).
LEMMA TickGood ==
  ASSUME NEW l, NEW clock \in Int, Good(l, clock, 0), l # <<>> => Head(l).left > -MaxLate
  PROVE  Good(Older(l, 1), (clock + 1) % Period, 0)
<1> DEFINE o == Older(l, 1)
<1>1. /\ l \in Seq(Entry) /\ Len(l) \in Nat /\ DOMAIN l = 1 .. Len(l)
      /\ \A i \in DOMAIN l : l[i].left \in Int
  BY Zenon, GoodFact
<1>2. /\ DOMAIN o = DOMAIN l
      /\ \A i \in DOMAIN l : o[i].h = l[i].h /\ o[i].left = l[i].left - 1
  BY <1>1, OlderFact
<1>3. Listed(o, (clock + 1) % Period)
  BY OlderListed DEF Good
<1> HIDE DEF o
<1>4. Ordered(o) /\ Distinct(o)
  <2>1. Ordered(o)
    BY <1>1, <1>2 DEF Good, Ordered
  <2>2. Distinct(o)
    BY Zenon, <1>2 DEF Good, Distinct
  <2> QED BY Zenon, <2>1, <2>2
<1>5. MaxLate \in Nat /\ Latest \in Nat /\ MaxLate <= Latest /\ Quarter \in Nat
  BY Zenon, TimeoutsAssumption, LateFact, QuarterFact
<1>6. \A i \in DOMAIN l : l[i].left > -MaxLate
  <2> SUFFICES ASSUME NEW i \in DOMAIN l PROVE l[i].left > -MaxLate
    BY Zenon
  <2>1. 1 \in DOMAIN l /\ Head(l) = l[1] /\ l # <<>>
    BY <1>1
  <2>2. l[1].left <= l[i].left
    BY <1>1, <2>1 DEF Good, Ordered
  <2> QED BY <1>1, <1>5, <2>1, <2>2
<1>7. Near(o, 0)
  <2>1. /\ \A i \in DOMAIN l : l[i].left + 0 \in -Latest .. 2 * Quarter - 1
        /\ \A i, j \in DOMAIN l : l[j].left - l[i].left <= 2 * Quarter - 1
    BY Zenon DEF Good, Near
  <2>2. \A i \in DOMAIN o : o[i].left + 0 \in -Latest .. 2 * Quarter - 1
    BY SMTT(30), <1>1, <1>2, <1>5, <1>6, <2>1
  <2>3. \A i, j \in DOMAIN o : o[j].left - o[i].left <= 2 * Quarter - 1
    BY SMTT(20), <1>1, <1>2, <1>5, <2>1
  <2> QED BY Zenon, <2>2, <2>3 DEF Near
<1>8. Good(o, (clock + 1) % Period, 0)
  BY Zenon, <1>3, <1>4, <1>7, FreshGood
<1> QED BY Zenon, <1>8 DEF o

\* Taking an entry out of the list (sys_untimeout, timeouts.c:318-347).
LEMMA WithoutFact ==
  ASSUME NEW l \in Seq(Entry), NEW k \in 1 .. Len(l)
  PROVE  /\ Without(l, k) \in Seq(Entry)
         /\ DOMAIN Without(l, k) = 1 .. Len(l) - 1
         /\ \A j \in 1 .. Len(l) - 1 : Without(l, k)[j] = l[IF j < k THEN j ELSE j + 1]
<1> DEFINE a == SubSeq(l, 1, k - 1)
           b == SubSeq(l, k + 1, Len(l))
           new == a \o b
           n == Len(l)
<1>1. n \in Nat /\ k \in 1 .. n /\ k \in Int
  OBVIOUS
<1>2. Without(l, k) = new
  BY Zenon DEF Without
<1>3. a \in Seq(Entry) /\ Len(a) = k - 1 /\ \A j \in 1 .. k - 1 : a[j] = l[j]
  OBVIOUS
<1>4. b \in Seq(Entry) /\ Len(b) = n - k
  OBVIOUS
<1>5. \A j \in 1 .. n - k : b[j] = l[k + j]
  OBVIOUS
<1> HIDE DEF a, b, n
<1>6. new \in Seq(Entry) /\ Len(new) = n - 1
  <2>1. a \in Seq(Entry) /\ b \in Seq(Entry)
    BY Zenon, <1>3, <1>4
  <2>2. new \in Seq(Entry) /\ Len(new) = Len(a) + Len(b)
    BY <2>1
  <2> QED BY <1>1, <1>3, <1>4, <2>2
<1>7. \A j \in 1 .. k - 1 : new[j] = a[j]
  BY <1>1, <1>3, <1>4
<1>8. \A j \in k .. n - 1 : new[j] = b[j - (k - 1)]
  BY <1>1, <1>3, <1>4
<1> HIDE DEF new
<1>9. ASSUME NEW j \in 1 .. n - 1 PROVE new[j] = l[IF j < k THEN j ELSE j + 1]
  <2>1. CASE j < k
    BY <1>1, <1>3, <1>7, <2>1
  <2>2. CASE ~(j < k)
    <3>1. j \in k .. n - 1 /\ j - (k - 1) \in 1 .. n - k /\ k + (j - (k - 1)) = j + 1
      BY <1>1, <2>2
    <3> QED BY Zenon, <1>5, <1>8, <2>2, <3>1
  <2> QED BY Zenon, <2>1, <2>2
<1> QED BY <1>2, <1>6, <1>9, ListFact DEF n

\* sys_untimeout (timeouts.c:316-341): the list without the first entry of a timer.
LEMMA RemoveGood ==
  ASSUME NEW l, NEW clock, Good(l, clock, 0), NEW h, Has(l, h)
  PROVE  /\ Good(Without(l, Min({i \in DOMAIN l : l[i].h = h})), clock, 0)
         /\ \A g : Has(Without(l, Min({i \in DOMAIN l : l[i].h = h})), g) <=> g # h /\ Has(l, g)
<1> DEFINE I == {i \in DOMAIN l : l[i].h = h}
           k == Min(I)
           new == Without(l, k)
           n == Len(l)
           s(j) == IF j < k THEN j ELSE j + 1
<1>1. /\ l \in Seq(Entry) /\ n \in Nat /\ DOMAIN l = 1 .. n
      /\ \A i \in DOMAIN l : l[i].left \in Int
  BY Zenon, GoodFact
<1>2. I # {} /\ I \in SUBSET Nat
  BY <1>1 DEF Has
<1>3. k \in I
  BY Zenon, <1>2, LeastExists
<1> SUFFICES Good(new, clock, 0) /\ \A g : Has(new, g) <=> g # h /\ Has(l, g)
  BY Zenon
<1>5. k \in 1 .. n /\ l[k].h = h
  BY Zenon, <1>1, <1>3
<1> HIDE DEF k, I
<1>6. /\ new \in Seq(Entry) /\ DOMAIN new = 1 .. n - 1
      /\ \A j \in 1 .. n - 1 : new[j] = l[s(j)]
  BY Zenon, <1>1, <1>5, WithoutFact
<1> HIDE DEF new, n
<1>7. /\ \A j \in 1 .. n - 1 : s(j) \in DOMAIN l /\ s(j) # k
      /\ \A i, j \in 1 .. n - 1 : i < j => s(i) < s(j)
      /\ \A i, j \in 1 .. n - 1 : s(i) = s(j) => i = j
      /\ \A i \in DOMAIN l : i # k => \E j \in 1 .. n - 1 : s(j) = i
  <2>1. \A j \in 1 .. n - 1 : s(j) \in DOMAIN l /\ s(j) # k
    BY <1>1, <1>5
  <2>2. \A i, j \in 1 .. n - 1 : i < j => s(i) < s(j)
    BY <1>1, <1>5
  <2>3. \A i, j \in 1 .. n - 1 : s(i) = s(j) => i = j
    BY <1>1, <1>5
  <2>4. ASSUME NEW i \in DOMAIN l, i # k PROVE \E j \in 1 .. n - 1 : s(j) = i
    <3>1. CASE i < k
      BY <1>1, <1>5, <3>1
    <3>2. CASE i > k
      <4>1. i - 1 \in 1 .. n - 1 /\ s(i - 1) = i
        BY <1>1, <1>5, <3>2
      <4> QED BY <4>1
    <3> QED BY <1>1, <1>5, <2>4, <3>1, <3>2
  <2> QED BY Zenon, <2>1, <2>2, <2>3, <2>4
<1> HIDE DEF s
<1>8. Listed(new, clock)
  BY <1>6, <1>7 DEF Good, Listed
<1>9. Ordered(new)
  BY <1>6, <1>7 DEF Good, Ordered
<1>10. \A i, j \in DOMAIN l : l[i].h = l[j].h => i = j
  BY Zenon DEF Good, Distinct
<1>11. Distinct(new)
  BY <1>6, <1>7, <1>10 DEF Distinct
<1>12. Near(new, 0)
  BY <1>6, <1>7 DEF Good, Near
<1>13. Good(new, clock, 0)
  BY Zenon, <1>8, <1>9, <1>11, <1>12, FreshGood
<1>14. k \in DOMAIN l /\ l[k].h = h
  BY Zenon, <1>1, <1>5
<1>15. ASSUME NEW g PROVE Has(new, g) <=> g # h /\ Has(l, g)
  <2>1. ASSUME Has(new, g) PROVE g # h /\ Has(l, g)
    <3>1. PICK j \in 1 .. n - 1 : new[j].h = g
      BY Zenon, <1>6, <2>1 DEF Has
    <3>2. s(j) \in DOMAIN l /\ s(j) # k /\ l[s(j)].h = g
      BY <1>6, <1>7, <3>1
    <3> QED BY Zenon, <1>10, <1>14, <3>2 DEF Has
  <2>2. ASSUME g # h, Has(l, g) PROVE Has(new, g)
    <3>1. PICK i \in DOMAIN l : l[i].h = g
      BY Zenon, <2>2 DEF Has
    <3>2. PICK j \in 1 .. n - 1 : s(j) = i
      BY Zenon, <1>7, <1>14, <2>2, <3>1
    <3> QED BY Zenon, <1>6, <3>1, <3>2 DEF Has
  <2> QED BY Zenon, <2>1, <2>2
<1> QED BY Zenon, <1>13, <1>15

\* An entry with another time.
Moved(x, u, v) == [x EXCEPT !.time = u, !.left = v]

\* Only the time changes.
LEMMA MovedFact ==
  ASSUME NEW x \in Entry, NEW u \in Time, NEW v \in Int
  PROVE  /\ Moved(x, u, v) \in Entry /\ Moved(x, u, v).h = x.h
         /\ Moved(x, u, v).time = u /\ Moved(x, u, v).left = v
  BY Zenon DEF Entry, Moved

\* The list counted from now as if its first entry were due (sys_restart_timeouts,
\* timeouts.c:398-411).
LEMMA RestartGood ==
  ASSUME NEW l, now \in Int, Good(l, now, 0), l # <<>>
  PROVE  /\ Good([i \in DOMAIN l |-> Rebased(l[i], Head(l))], now, 0)
         /\ \A g : Has([i \in DOMAIN l |-> Rebased(l[i], Head(l))], g) <=> Has(l, g)
<1> DEFINE b == Head(l)
           new == [i \in DOMAIN l |-> Rebased(l[i], b)]
<1>1. /\ l \in Seq(Entry) /\ Len(l) \in Nat /\ DOMAIN l = 1 .. Len(l)
      /\ \A i \in DOMAIN l : /\ l[i] \in Entry /\ l[i].left \in Int /\ l[i].time \in Time
                             /\ l[i].time = (now + l[i].left) % Period
  BY Zenon, GoodFact
<1>2. 1 \in DOMAIN l /\ b = l[1]
  BY <1>1
<1>3. b \in Entry /\ b.left \in Int /\ b.time \in Time /\ b.time = (now + b.left) % Period
  BY Zenon, <1>1, <1>2
<1> SUFFICES Good(new, now, 0) /\ \A g : Has(new, g) <=> Has(l, g)
  BY Zenon
<1> HIDE DEF b
<1>4. ASSUME NEW x \in Entry, x.time = (now + x.left) % Period
      PROVE  /\ Rebased(x, b) \in Entry /\ Rebased(x, b).h = x.h
             /\ Rebased(x, b).left = x.left - b.left
             /\ Rebased(x, b).time = (now + (x.left - b.left)) % Period
  <2>1. x.left \in Int /\ x.time \in Time /\ x.h \in Timers /\ x.time \in Int /\ b.time \in Int
    BY <1>3, QuarterFact DEF Entry, Time
  <2> DEFINE t == ((x.time - b.time) + now) % Period
             d == x.time - b.time
             c == (now + x.left) - (now + b.left)
  <2>2. d \in Int /\ c \in Int /\ c = x.left - b.left
    BY <1>3, <2>1
  <2>3. d % Period = c % Period
    <3>1. now + x.left \in Int /\ now + b.left \in Int
      BY <1>3, <2>1
    <3> QED BY ZenonT(30), <1>3, <1>4, <3>1, ModDiff
  <2>4. (d + now) % Period = (c + now) % Period
    <3> HIDE DEF d, c
    <3>1. ((d % Period) + now) % Period = (d + now) % Period
      BY Zenon, <2>2, ModAdd
    <3>2. ((c % Period) + now) % Period = (c + now) % Period
      BY <2>2, ModAdd
    <3> QED BY Zenon, <2>3, <3>1, <3>2
  <2>5. c + now = now + (x.left - b.left)
    BY <1>3, <2>1
  <2>6. t = (now + (x.left - b.left)) % Period
    BY Zenon, <2>4, <2>5
  <2>7. t \in Time
    <3>1. d + now \in Int
      BY <2>2
    <3> QED BY Zenon, <3>1, ModFact
  <2> DEFINE left == x.left - b.left
  <2>8. Rebased(x, b) = Moved(x, t, left)
    BY Zenon DEF Rebased, Moved
  <2>9. left \in Int
    BY <1>3, <2>1
  <2> HIDE DEF t, left
  <2>10. /\ Rebased(x, b) \in Entry /\ Rebased(x, b).h = x.h
         /\ Rebased(x, b).time = t /\ Rebased(x, b).left = left
    BY <2>7, <2>8, <2>9, MovedFact
  <2> QED BY <2>6, <2>10 DEF left
<1>5. /\ DOMAIN new = DOMAIN l
      /\ \A i \in DOMAIN l : /\ new[i] \in Entry /\ new[i].h = l[i].h
                             /\ new[i].left = l[i].left - b.left
                             /\ new[i].time = (now + new[i].left) % Period
  BY Zenon, <1>1, <1>4
<1>6. new \in Seq(Entry)
  BY <1>1, <1>5
<1> HIDE DEF new
<1>7. Listed(new, now)
  BY Zenon, <1>5, <1>6 DEF Listed
<1>8. Ordered(new)
  <2> SUFFICES ASSUME NEW i \in DOMAIN l, NEW j \in DOMAIN l, i < j PROVE new[i].left <= new[j].left
    BY Zenon, <1>5 DEF Ordered
  <2>1. l[i].left <= l[j].left /\ l[i].left \in Int /\ l[j].left \in Int
    BY Zenon, <1>1 DEF Good, Ordered
  <2>2. new[i].left = l[i].left - b.left /\ new[j].left = l[j].left - b.left
    BY Zenon, <1>5
  <2> QED BY <1>3, <2>1, <2>2
<1>9. Distinct(new)
  BY Zenon, <1>5 DEF Good, Distinct
<1>10. Near(new, 0)
  <2>1. \A i, j \in DOMAIN l : l[j].left - l[i].left <= 2 * Quarter - 1
    BY Zenon DEF Good, Near
  <2>2. \A i \in DOMAIN l : l[1].left <= l[i].left
    BY <1>1, <1>2 DEF Good, Ordered
  <2>3. Latest \in Nat /\ Quarter \in Nat
    BY Zenon, LateFact, QuarterFact
  <2>4. b.left = l[1].left
    BY Zenon, <1>2
  <2>5. \A i \in DOMAIN new : new[i].left + 0 \in -Latest .. 2 * Quarter - 1
    <3> SUFFICES ASSUME NEW i \in DOMAIN l
                 PROVE  new[i].left + 0 \in -Latest .. 2 * Quarter - 1
      BY Zenon, <1>5
    <3>1. l[i].left - l[1].left <= 2 * Quarter - 1 /\ l[1].left <= l[i].left
      BY Zenon, <1>2, <2>1, <2>2
    <3>2. new[i].left = l[i].left - l[1].left /\ l[i].left \in Int /\ l[1].left \in Int
      BY Zenon, <1>1, <1>2, <1>5, <2>4
    <3> QED BY <2>3, <3>1, <3>2
  <2>6. \A i, j \in DOMAIN new : new[j].left - new[i].left <= 2 * Quarter - 1
    <3> SUFFICES ASSUME NEW i \in DOMAIN l, NEW j \in DOMAIN l
                 PROVE  new[j].left - new[i].left <= 2 * Quarter - 1
      BY Zenon, <1>5
    <3>1. l[j].left - l[i].left <= 2 * Quarter - 1 /\ l[i].left \in Int /\ l[j].left \in Int
      BY Zenon, <1>1, <2>1
    <3>2. new[i].left = l[i].left - b.left /\ new[j].left = l[j].left - b.left
      BY Zenon, <1>5
    <3>3. new[j].left - new[i].left = l[j].left - l[i].left
      BY <1>3, <3>1, <3>2
    <3> QED BY Zenon, <3>1, <3>3
  <2> QED BY Zenon, <2>5, <2>6 DEF Near
<1>11. Good(new, now, 0)
  BY Zenon, <1>7, <1>8, <1>9, <1>10, FreshGood
<1> QED BY Zenon, <1>5, <1>11 DEF Has

\* The first entry is expired (timeouts.c:371) exactly when it was due when the check began.
LEMMA ExpiredFact ==
  ASSUME NEW l, Good(l, now, Elapsed), l # <<>>, now \in Time, check \in Time
  PROVE  Expired(Head(l)) <=> Due(l, 1, Elapsed)
<1> DEFINE e == Elapsed
<1>1. /\ l \in Seq(Entry) /\ Len(l) \in Nat /\ DOMAIN l = 1 .. Len(l) /\ e \in Nat
      /\ \A i \in DOMAIN l : l[i].left \in Int /\ l[i].time = (now + l[i].left) % Period
  BY Zenon, GoodFact
<1>2. 1 \in DOMAIN l /\ Head(l) = l[1]
  BY <1>1
<1>3. now \in Int /\ check \in Int /\ check # Returned
  BY QuarterFact DEF Time, Returned
<1>4. e = (now - check) % Period
  BY Zenon, <1>3 DEF Elapsed
<1> HIDE DEF e
<1>5. check = (now + (0 - e)) % Period
  <2> DEFINE d == now - check
  <2>1. PICK k \in Int : d = k * Period + e
    <3>1. d \in Int
      BY <1>3
    <3> QED BY Zenon, <1>4, <3>1, ModFact
  <2> DEFINE y == now + (0 - e)
  <2>2. y \in Int /\ Period \in Int /\ y = check + k * Period
    BY <1>1, <1>3, <2>1, QuarterFact
  <2>3. y = k * Period + check
    BY <1>3, <2>2
  <2> HIDE DEF y
  <2>4. y % Period = check
    BY Zenon, <2>2, <2>3, ModIs
  <2> QED BY Zenon, <2>4 DEF y
<1>6. l[1].left + e \in -Latest .. 2 * Quarter - 1
  BY Zenon, <1>2 DEF Good, Near, e
<1>7. (0 - e) - l[1].left \in -(2 * Quarter) .. 2 * Quarter - 1
  <2> DEFINE a == l[1].left
  <2>1. a \in Int /\ a + e \in -Latest .. 2 * Quarter - 1
    BY Zenon, <1>1, <1>2, <1>6
  <2>2. Latest \in Nat /\ Latest <= Quarter /\ Quarter \in Nat \ {0}
    BY LateFact, QuarterFact
  <2> HIDE DEF a
  <2>3. (0 - e) - a \in -(2 * Quarter) .. 2 * Quarter - 1
    BY <1>1, <2>1, <2>2
  <2> QED BY Zenon, <2>3 DEF a
<1>8. TIME_LESS_THAN(check, l[1].time) <=> 0 - e < l[1].left
  <2>1. 0 - e \in Int /\ l[1].left \in Int
    BY <1>1, <1>2
  <2>2. TIME_LESS_THAN((now + (0 - e)) % Period, (now + l[1].left) % Period) <=> 0 - e < l[1].left
    BY Zenon, <1>3, <1>7, <2>1, LessFact
  <2> QED BY Zenon, <1>1, <1>2, <1>5, <2>2
<1>9. 0 - e < l[1].left <=> ~(l[1].left + e <= 0)
  BY <1>1, <1>2
<1> QED BY Zenon, <1>2, <1>8, <1>9 DEF Expired, Due, e

\* When the check returns nothing was due at its beginning (timeouts.c:371-373).
LEMMA ReturnGood ==
  ASSUME NEW l, NEW clock, NEW e, Good(l, clock, e), l # <<>> => ~Due(l, 1, e)
  PROVE  Good(l, clock, 0)
<1>1. /\ l \in Seq(Entry) /\ Len(l) \in Nat /\ DOMAIN l = 1 .. Len(l) /\ e \in Nat
      /\ \A i \in DOMAIN l : l[i].left \in Int
  BY Zenon, GoodFact
<1>2. ASSUME NEW i \in DOMAIN l PROVE l[i].left + Others >= 0
  <2>1. 1 \in DOMAIN l /\ l # <<>>
    BY <1>1
  <2>2. l[1].left <= l[i].left
    BY <1>1, <2>1 DEF Good, Ordered
  <2>3. ~Due(l, i, e)
    BY <1>1, <2>1, <2>2 DEF Due
  <2> QED BY Zenon, <2>3 DEF Good, Timely
<1>3. \A i \in DOMAIN l : l[i].left + e \in -Latest .. 2 * Quarter - 1
  BY Zenon DEF Good, Near
<1>4. ASSUME NEW i \in DOMAIN l PROVE l[i].left + 0 \in -Latest .. 2 * Quarter - 1
  <2>1. /\ l[i].left \in Int /\ e \in Nat /\ l[i].left + Others >= 0
        /\ l[i].left + e \in -Latest .. 2 * Quarter - 1
    BY Zenon, <1>1, <1>2, <1>3
  <2>2. Others \in Nat /\ Latest \in Nat /\ Others <= Latest /\ Quarter \in Nat
    BY Zenon, LateFact, QuarterFact
  <2> QED BY <2>1, <2>2
<1>5. Near(l, 0)
  BY Zenon, <1>4 DEF Good, Near
<1> QED BY Zenon, <1>5, FreshGood DEF Good

\* The rest of the list after the handler of its first entry has run for d
\* (timeouts.c:375-388).
LEMMA RestGood ==
  ASSUME NEW l, NEW clock \in Int, NEW e, Good(l, clock, e), l # <<>>, Due(l, 1, e),
         NEW d \in 0 .. MaxHandlerTime
  PROVE  /\ Good(Older(Tail(l), d), (clock + d) % Period, e + d)
         /\ \A g : Has(Older(Tail(l), d), g) <=> g # Head(l).h /\ Has(l, g)
<1> DEFINE K == MEMP_NUM_SYS_TIMEOUT
           t == Tail(l)
           o == Older(t, d)
           n == Len(l)
<1>1. /\ l \in Seq(Entry) /\ n \in Nat /\ DOMAIN l = 1 .. n
      /\ e \in Nat /\ e <= Busy(K)
      /\ \A i \in DOMAIN l : l[i].left \in Int
  BY Zenon, GoodFact
<1>2. n # 0 /\ 1 \in DOMAIN l /\ Head(l) = l[1]
  BY <1>1
<1>3. t \in Seq(Entry) /\ DOMAIN t = 1 .. n - 1 /\ \A i \in 1 .. n - 1 : t[i] = l[i + 1]
  BY <1>1, <1>2
<1>4. K \in Nat /\ MaxHandlerTime \in Nat /\ d \in Int /\ d >= 0 /\ d <= MaxHandlerTime
  BY LateFact
<1> HIDE DEF t
<1>5. Listed(t, clock)
  <2> SUFFICES ASSUME NEW i \in 1 .. n - 1 PROVE t[i].time = (clock + t[i].left) % Period
    BY Zenon, <1>3 DEF Listed
  <2>1. i + 1 \in DOMAIN l /\ t[i] = l[i + 1]
    BY <1>1, <1>3
  <2>2. l[i + 1].time = (clock + l[i + 1].left) % Period
    BY Zenon, <2>1 DEF Good, Listed
  <2> QED BY Zenon, <2>1, <2>2
<1>6. Listed(o, (clock + d) % Period)
  BY Zenon, <1>4, <1>5, OlderListed
<1>7. /\ DOMAIN o = 1 .. n - 1
      /\ \A i \in 1 .. n - 1 : t[i].left \in Int /\ o[i].h = t[i].h /\ o[i].left = t[i].left - d
  <2>1. \A i \in DOMAIN t : t[i].left \in Int
    BY Zenon, <1>3, ListFact
  <2>2. /\ DOMAIN o = DOMAIN t
        /\ \A i \in DOMAIN t : o[i].h = t[i].h /\ o[i].left = t[i].left - d
    BY Zenon, <1>3, <1>4, OlderFact
  <2> HIDE DEF o
  <2> QED BY Zenon, <1>3, <2>1, <2>2
<1> SUFFICES Good(o, (clock + d) % Period, e + d) /\ \A g : Has(o, g) <=> g # l[1].h /\ Has(l, g)
  BY Zenon, <1>2 DEF t
<1> HIDE DEF o, n
<1>8. \A i \in DOMAIN o : /\ i + 1 \in DOMAIN l /\ i \in Int /\ i + 1 # 1
                          /\ o[i].h = l[i + 1].h /\ o[i].left = l[i + 1].left - d
                          /\ l[i + 1].left \in Int
  BY SMTT(30), <1>1, <1>3, <1>7
<1>9. Ordered(o)
  <2> SUFFICES ASSUME NEW i \in DOMAIN o, NEW j \in DOMAIN o, i < j PROVE o[i].left <= o[j].left
    BY Zenon DEF Ordered
  <2>1. i + 1 < j + 1
    BY <1>8
  <2>2. l[i + 1].left <= l[j + 1].left
    BY Zenon, <1>8, <2>1 DEF Good, Ordered
  <2> QED BY <1>4, <1>8, <2>2
<1>10. Distinct(o)
  <2> SUFFICES ASSUME NEW i \in DOMAIN o, NEW j \in DOMAIN o, o[i].h = o[j].h PROVE i = j
    BY Zenon DEF Distinct
  <2>1. i + 1 = j + 1
    BY <1>8 DEF Good, Distinct
  <2> QED BY <1>8, <2>1
<1>11. Near(o, e + d)
  <2>1. ASSUME NEW i \in DOMAIN o PROVE o[i].left + (e + d) \in -Latest .. 2 * Quarter - 1
    <3>1. l[i + 1].left + e \in -Latest .. 2 * Quarter - 1
      BY Zenon, <1>8 DEF Good, Near
    <3>2. o[i].left + (e + d) = l[i + 1].left + e
      BY <1>1, <1>4, <1>8
    <3> QED BY Zenon, <3>1, <3>2
  <2>2. ASSUME NEW i \in DOMAIN o, NEW j \in DOMAIN o
        PROVE  o[j].left - o[i].left <= 2 * Quarter - 1
    <3>1. l[j + 1].left - l[i + 1].left <= 2 * Quarter - 1
      BY Zenon, <1>8 DEF Good, Near
    <3>2. o[j].left - o[i].left = l[j + 1].left - l[i + 1].left
      BY <1>4, <1>8
    <3> QED BY Zenon, <3>1, <3>2
  <2> QED BY Zenon, <2>1, <2>2 DEF Near
<1>12. Timely(o, e + d)
  <2>1. /\ \A i \in DOMAIN l : Due(l, i, e) => e + Busy(i) <= Busy(K)
        /\ \A i, y \in DOMAIN l : ~Due(l, y, e) /\ Due(l, i, e) => l[y].left + Busy(K - 1 - i) >= 0
    BY Zenon DEF Good, Timely
  <2>2. /\ Busy(K) \in Int /\ Busy(1) \in Int /\ Busy(1) = MaxHandlerTime
        /\ Busy(K - 1 - 1) \in Int /\ Busy(K - 1 - 1) = Others - MaxHandlerTime /\ Others \in Nat
    <3>1. K \in Int /\ K - 1 \in Int /\ 1 \in Int /\ K - 1 - 1 \in Int
      BY <1>4
    <3>2. Busy(K) \in Int /\ Busy(1) \in Int /\ Busy(K - 1 - 1) \in Int
      BY Zenon, <3>1, BusyFact
    <3>3. Busy(K - 1 - 1) = Busy(K - 1) - MaxHandlerTime
      BY Zenon, <3>1, BusyFact
    <3>4. Busy(1) = MaxHandlerTime
      BY <1>4 DEF Busy
    <3> QED BY Zenon, <3>2, <3>3, <3>4, LateFact DEF Others
  <2>3. e + d \in 0 .. Busy(K)
    <3>1. e + Busy(1) <= Busy(K)
      BY Zenon, <1>2, <2>1
    <3> QED BY <1>1, <1>4, <2>2, <3>1
  <2>4. ASSUME NEW i \in DOMAIN o
        PROVE  Due(o, i, e + d) <=> Due(l, i + 1, e)
    <3>1. o[i].left + (e + d) = l[i + 1].left + e
      BY <1>1, <1>4, <1>8
    <3> QED BY <3>1 DEF Due
  <2>5. ASSUME NEW i \in DOMAIN o, Due(o, i, e + d) PROVE (e + d) + Busy(i) <= Busy(K)
    <3>1. e + Busy(i + 1) <= Busy(K)
      BY Zenon, <1>8, <2>1, <2>4, <2>5
    <3>2. Busy(i) \in Int /\ Busy(i + 1) = Busy(i) + MaxHandlerTime
      BY Zenon, <1>8, BusyFact
    <3>3. e \in Int /\ Busy(K) \in Int
      BY <1>1, <2>2
    <3>4. e + (Busy(i) + MaxHandlerTime) <= Busy(K)
      BY Zenon, <3>1, <3>2
    <3> QED BY <1>4, <3>2, <3>3, <3>4
  <2>6. ASSUME NEW y \in DOMAIN o, ~Due(o, y, e + d) PROVE o[y].left + Others >= 0
    <3>1. l[y + 1].left + Busy(K - 1 - 1) >= 0
      BY Zenon, <1>2, <1>8, <2>1, <2>4, <2>6
    <3>2. o[y].left = l[y + 1].left - d /\ l[y + 1].left \in Int
      BY Zenon, <1>8
    <3>3. l[y + 1].left + (Others - MaxHandlerTime) >= 0
      BY Zenon, <2>2, <3>1
    <3> DEFINE a == l[y + 1].left
    <3>4. a \in Int /\ Others \in Int /\ a + (Others - MaxHandlerTime) >= 0
      BY <2>2, <3>2, <3>3
    <3> HIDE DEF a
    <3>5. (a - d) + Others >= 0
      BY <1>4, <3>4
    <3> QED BY Zenon, <3>2, <3>5 DEF a
  <2>7. ASSUME NEW y \in DOMAIN o, ~Due(o, y, e + d), NEW i \in DOMAIN o, Due(o, i, e + d)
        PROVE  o[y].left + Busy(K - 1 - i) >= 0
    <3>1. l[y + 1].left + Busy(K - 1 - (i + 1)) >= 0
      BY <1>8, <2>1, <2>4, <2>7
    <3>2. K - 1 - (i + 1) = (K - 1 - i) - 1 /\ K - 1 - i \in Int
      BY <1>4, <1>8
    <3>3. Busy(K - 1 - i) \in Int /\ Busy((K - 1 - i) - 1) = Busy(K - 1 - i) - MaxHandlerTime
      BY Zenon, <3>2, BusyFact
    <3>4. o[y].left = l[y + 1].left - d /\ l[y + 1].left \in Int
      BY Zenon, <1>8
    <3>5. l[y + 1].left + (Busy(K - 1 - i) - MaxHandlerTime) >= 0
      BY <3>1, <3>2, <3>3
    <3> QED BY <1>4, <3>3, <3>4, <3>5
  <2> QED BY Zenon, <2>3, <2>5, <2>6, <2>7 DEF Timely
<1>13. ASSUME NEW g PROVE Has(o, g) <=> g # l[1].h /\ Has(l, g)
  <2>1. \A i, j \in DOMAIN l : l[i].h = l[j].h => i = j
    BY Zenon DEF Good, Distinct
  <2>2. ASSUME Has(o, g) PROVE g # l[1].h /\ Has(l, g)
    <3>1. PICK i \in DOMAIN o : o[i].h = g
      BY Zenon, <2>2 DEF Has
    <3> QED BY <1>2, <1>8, <2>1, <3>1 DEF Has
  <2>3. ASSUME g # l[1].h, Has(l, g) PROVE Has(o, g)
    <3>1. PICK i \in DOMAIN l : l[i].h = g
      BY Zenon, <2>3 DEF Has
    <3>2. i - 1 \in DOMAIN o /\ (i - 1) + 1 = i
      BY <1>1, <1>2, <1>7, <2>3, <3>1
    <3>3. o[i - 1].h = g
      BY Zenon, <1>8, <3>1, <3>2
    <3> QED BY Zenon, <3>2, <3>3 DEF Has
  <2> QED BY <2>2, <2>3
<1> QED BY Zenon, <1>6, <1>9, <1>10, <1>11, <1>12, <1>13 DEF Good

\* The time that the check has taken grows by d.
LEMMA ElapsedFact ==
  ASSUME now \in Time, check \in Time, NEW d \in Nat, NEW e \in Nat,
         e = (now - check) % Period, e + d <= Quarter
  PROVE  (((now + d) % Period) - check) % Period = e + d
<1>1. now \in Int /\ check \in Int
  BY QuarterFact DEF Time
<1> DEFINE a == now + d
           b == 0 - check
           c == now - check
<1>2. a \in Int /\ b \in Int /\ c \in Int /\ a + b = c + d
  BY <1>1
<1>3. ((now + d) % Period) - check = (a % Period) + b
  <2>1. (now + d) % Period \in Time
    BY Zenon, <1>2, ModFact
  <2>2. (now + d) % Period \in Int
    BY <2>1, QuarterFact DEF Time
  <2> QED BY <1>1, <2>2
<1> HIDE DEF a, b
<1>4. ((a % Period) + b) % Period = (a + b) % Period
  BY Zenon, <1>2, ModAdd
<1>5. ((c % Period) + d) % Period = (c + d) % Period
  BY <1>2, ModAdd
<1>6. e + d \in Time
  BY QuarterFact DEF Time
<1>7. (e + d) % Period = e + d
  BY Zenon, <1>6, ModTime
<1> QED BY Zenon, <1>2, <1>3, <1>4, <1>5, <1>7
-----------------------------------------------------------------------------
\* The delays of the stack are less than a quarter of the clock.
LEMMA DelayFact ==
  /\ \A c \in Cyclic : c \in Timers /\ interval_ms[c] \in 0 .. Quarter - 1 /\ interval_ms[c] > 0
  /\ TCP \in Timers /\ TCP_TMR_INTERVAL \in 0 .. Quarter - 1
  /\ \A m \in AppMsecs : m \in 0 .. Quarter - 1 /\ APP \in Timers
  /\ TCP # APP /\ TCP \notin Cyclic /\ APP \notin Cyclic
<1>1. (Period - 1) \div 4 = Quarter - 1 /\ Quarter \in Nat
  BY Zenon, QuarterFact
<1>2. interval_ms \in [Cyclic -> 1 .. Quarter - 1] /\ TCP_TMR_INTERVAL \in 1 .. Quarter - 1
      /\ AppMsecs \subseteq 0 .. Quarter - 1 /\ TCP \notin Cyclic /\ APP \notin Cyclic
  BY Zenon, <1>1, TimeoutsAssumption
<1>3. \A c \in Cyclic : interval_ms[c] \in 1 .. Quarter - 1
  BY Zenon, <1>2
<1>4. AppMsecs # {} => APP \in Timers
  BY Zenon DEF Timers
<1>5. TCP \in Timers /\ \A c \in Cyclic : c \in Timers
  BY Zenon DEF Timers
<1> QED BY <1>1, <1>2, <1>3, <1>4, <1>5 DEF TCP, APP

\* sys_timeout (timeouts.c:287-302) leaves the list good.
LEMMA TimeoutGood ==
  ASSUME NEW l, NEW clock \in Int, NEW e, Good(l, clock, e),
         NEW h \in Timers, ~Has(l, h), NEW msecs \in 0 .. Quarter - 1
  PROVE  /\ Good(sys_timeout(l, clock, msecs, h), clock, e)
         /\ \A g : Has(sys_timeout(l, clock, msecs, h), g) <=> g = h \/ Has(l, g)
<1> DEFINE at == clock + msecs
<1>1. at \in Int /\ at % Period = (clock + msecs) % Period
  BY QuarterFact
<1> HIDE DEF at
<1>2. /\ Good(sys_timeout_abs(l, h, at, msecs), clock, e)
      /\ \A g : Has(sys_timeout_abs(l, h, at, msecs), g) <=> g = h \/ Has(l, g)
  BY Zenon, <1>1, InsertGood
<1> QED BY <1>2 DEF sys_timeout, at

\* A cyclic timer sets itself again (lwip_cyclic_timer, timeouts.c:229-258).
LEMMA CyclicGood ==
  ASSUME NEW l, NEW old \in Int, NEW d \in 0 .. MaxHandlerTime, NEW clock, NEW e, NEW due, NEW left,
         clock = (old + d) % Period, Good(l, clock, e), NEW c \in Cyclic, ~Has(l, c),
         left \in -Quarter .. 0, due = (old + left) % Period
  PROVE  /\ Good(lwip_cyclic_timer(l, c, due, left - d, clock), clock, e)
         /\ \A g : Has(lwip_cyclic_timer(l, c, due, left - d, clock), g) <=> g = c \/ Has(l, g)
<1> DEFINE m == interval_ms[c]
           new == lwip_cyclic_timer(l, c, due, left - d, clock)
<1>1. /\ c \in Timers /\ m \in 0 .. Quarter - 1 /\ m \in Int /\ m > 0
      /\ Quarter \in Nat /\ MaxHandlerTime \in Nat /\ MaxHandlerTime <= Quarter
      /\ d \in Int /\ 0 <= d /\ d <= MaxHandlerTime
      /\ left \in Int /\ -Quarter <= left /\ left <= 0
  BY DelayFact, QuarterFact, LateFact
<1> DEFINE late == TIME_LESS_THAN((due + m) % Period, clock)
           at == due + m
           to == left - d
           a == left + m
<1>2. clock \in Int /\ due \in Int
  <2>1. old + d \in Int /\ old + left \in Int
    BY <1>1
  <2>2. clock \in Time /\ due \in Time
    BY Zenon, <2>1, ModFact
  <2> QED BY <2>2, QuarterFact DEF Time
<1>3. new = IF late THEN sys_timeout(l, clock, m, c) ELSE sys_timeout_abs(l, c, at, to + m)
  BY Zenon DEF lwip_cyclic_timer
<1> HIDE DEF m, new
<1>4. at % Period = (old + a) % Period
  <2> DEFINE y == old + left
  <2>1. y \in Int /\ y + m = old + a
    BY <1>1
  <2> HIDE DEF y
  <2>2. ((y % Period) + m) % Period = (y + m) % Period
    BY <1>1, <2>1, ModAdd
  <2> QED BY <2>1, <2>2 DEF y
<1>5. late <=> a < d
  <2>1. a \in Int /\ a - d \in -(2 * Quarter) .. 2 * Quarter - 1
    BY <1>1
  <2> HIDE DEF a
  <2>2. TIME_LESS_THAN((old + a) % Period, (old + d) % Period) <=> a < d
    BY Zenon, <1>1, <2>1, LessFact
  <2> QED BY Zenon, <1>4, <2>2
<1> HIDE DEF late
<1>6. CASE late
  <2>1. new = sys_timeout(l, clock, m, c)
    BY Zenon, <1>3, <1>6
  <2> QED BY <1>1, <1>2, <2>1, TimeoutGood DEF new
<1>7. CASE ~late
  <2> DEFINE t == to + m
  <2>1. t \in 0 .. Quarter - 1 /\ at \in Int
    BY <1>1, <1>2, <1>5, <1>7
  <2>2. (clock + t) % Period = (old + a) % Period
    <3> DEFINE y == old + d
    <3>1. y \in Int /\ y + t = old + a /\ t \in Int
      BY <1>1
    <3> HIDE DEF y, t
    <3>2. ((y % Period) + t) % Period = (y + t) % Period
      BY Zenon, <3>1, ModAdd
    <3> QED BY Zenon, <3>1, <3>2 DEF y
  <2>3. at % Period = (clock + t) % Period
    BY Zenon, <1>4, <2>2
  <2>4. new = sys_timeout_abs(l, c, at, t)
    BY Zenon, <1>3, <1>7
  <2> HIDE DEF at, t
  <2>5. /\ Good(sys_timeout_abs(l, c, at, t), clock, e)
        /\ \A g : Has(sys_timeout_abs(l, c, at, t), g) <=> g = c \/ Has(l, g)
    BY Zenon, <1>1, <1>2, <2>1, <2>3, InsertGood
  <2> QED BY Zenon, <2>4, <2>5 DEF new
<1> QED BY Zenon, <1>6, <1>7
-----------------------------------------------------------------------------
\* The invariant holds initially.
LEMMA InitIInv == Init => IInv
<1> SUFFICES ASSUME Init PROVE IInv
  BY Zenon
<1>1. Elapsed = 0 /\ check = Returned /\ next_timeout = <<>>
  BY Zenon DEF Init, Elapsed
<1>2. Listed(<<>>, now) /\ Ordered(<<>>) /\ Distinct(<<>>) /\ Near(<<>>, 0)
  BY DEF Listed, Ordered, Distinct, Near
<1>3. Good(next_timeout, now, Elapsed)
  BY Zenon, <1>1, <1>2, FreshGood
<1>4. Complete
  <2>1. \A g : ~Has(<<>>, g)
    BY DEF Has
  <2> QED BY Zenon, <1>1, <2>1 DEF Complete, Init
<1> QED BY Zenon, <1>1, <1>3, <1>4 DEF IInv, Init

\* Steps between the checks: the list changes and the clock stands.
LEMMA QuietStep ==
  ASSUME IInv, check = Returned, check' = check, now' = now,
         unstarted' \subseteq unstarted, tcpip_tcp_timer_active' \in BOOLEAN, pcbs' \in BOOLEAN,
         Good(next_timeout', now, 0),
         \A c \in Cyclic : Has(next_timeout', c) <=> c \notin unstarted',
         Has(next_timeout', TCP) <=> tcpip_tcp_timer_active',
         pcbs' => tcpip_tcp_timer_active'
  PROVE  IInv'
<1>1. Elapsed' = 0
  BY Zenon DEF Elapsed
<1>2. Good(next_timeout, now, Elapsed)'
  BY <1>1
<1>3. Complete'
  BY Zenon DEF Complete, IInv
<1> QED BY Zenon, <1>2, <1>3 DEF IInv

\* What the invariant says outside of sys_check_timeouts.
LEMMA ReturnedFact ==
  ASSUME IInv, check = Returned
  PROVE  /\ Good(next_timeout, now, 0) /\ now \in Int
         /\ \A c \in Cyclic : Has(next_timeout, c) <=> c \notin unstarted
         /\ Has(next_timeout, TCP) <=> tcpip_tcp_timer_active
         /\ pcbs => tcpip_tcp_timer_active
         /\ tcpip_tcp_timer_active \in BOOLEAN /\ pcbs \in BOOLEAN /\ unstarted \subseteq Cyclic
<1>1. Elapsed = 0
  BY Zenon DEF Elapsed
<1>2. now \in Int
  BY QuarterFact DEF IInv, Time
<1> QED BY Zenon, <1>1, <1>2 DEF IInv, Complete

\* Setting a timer that has no entry.
LEMMA SetStep ==
  ASSUME IInv, check = Returned, NEW h \in Timers, ~Has(next_timeout, h),
         NEW msecs \in 0 .. Quarter - 1,
         next_timeout' = sys_timeout(next_timeout, now, msecs, h)
  PROVE  Good(next_timeout', now, 0) /\ \A g : Has(next_timeout', g) <=> g = h \/ Has(next_timeout, g)
<1>1. Good(next_timeout, now, 0) /\ now \in Int
  BY Zenon, ReturnedFact
<1> QED BY Zenon, <1>1, TimeoutGood

\* One pass of the loop of sys_timeouts_init (timeouts.c:264-273).
LEMMA InitStep ==
  ASSUME IInv, NEW c \in Cyclic, sys_timeouts_init(c)
  PROVE  IInv'
<1>1. check = Returned
  BY Zenon DEF IInv, sys_timeouts_init
<1>2. c \in unstarted /\ unstarted' = unstarted \ {c} /\ now' = now /\ check' = check
      /\ tcpip_tcp_timer_active' = tcpip_tcp_timer_active /\ pcbs' = pcbs
      /\ next_timeout' = sys_timeout(next_timeout, now, interval_ms[c], c)
  BY Zenon DEF sys_timeouts_init
<1>3. c \in Timers /\ interval_ms[c] \in 0 .. Quarter - 1 /\ TCP \notin Cyclic
  BY Zenon, DelayFact
<1>4. ~Has(next_timeout, c)
  BY Zenon, <1>1, <1>2, ReturnedFact
<1>5. Good(next_timeout', now, 0) /\ \A g : Has(next_timeout', g) <=> g = c \/ Has(next_timeout, g)
  BY Zenon, <1>1, <1>2, <1>3, <1>4, SetStep
<1> QED BY <1>1, <1>2, <1>3, <1>5, ReturnedFact, QuietStep

\* tcp_timer_needed: the TCP timer is started if it is not running.
LEMMA RegStep ==
  ASSUME IInv, TCP_REG
  PROVE  IInv'
<1>1. check = Returned /\ now' = now /\ check' = check /\ unstarted' = unstarted /\ pcbs' = TRUE
  BY Zenon DEF TCP_REG, Idle
<1>2. CASE tcpip_tcp_timer_active
  <2>1. next_timeout' = next_timeout /\ tcpip_tcp_timer_active' = tcpip_tcp_timer_active
    BY Zenon, <1>2 DEF TCP_REG, tcp_timer_needed
  <2> QED BY Zenon, <1>1, <1>2, <2>1, ReturnedFact, QuietStep
<1>3. CASE ~tcpip_tcp_timer_active
  <2>1. next_timeout' = sys_timeout(next_timeout, now, TCP_TMR_INTERVAL, TCP)
        /\ tcpip_tcp_timer_active' = TRUE
    BY Zenon, <1>3 DEF TCP_REG, tcp_timer_needed
  <2>2. TCP \in Timers /\ TCP_TMR_INTERVAL \in 0 .. Quarter - 1 /\ TCP \notin Cyclic
    BY Zenon, DelayFact
  <2>3. ~Has(next_timeout, TCP)
    BY Zenon, <1>1, <1>3, ReturnedFact
  <2>4. Good(next_timeout', now, 0) /\ \A g : Has(next_timeout', g) <=> g = TCP \/ Has(next_timeout, g)
    BY Zenon, <1>1, <2>1, <2>2, <2>3, SetStep
  <2> QED BY <1>1, <2>1, <2>2, <2>4, ReturnedFact, QuietStep
<1> QED BY Zenon, <1>2, <1>3

\* The last connection goes, the TCP timer is left to stop by itself.
LEMMA RmvStep ==
  ASSUME IInv, TCP_RMV
  PROVE  IInv'
<1>1. /\ check = Returned /\ now' = now /\ check' = check /\ unstarted' = unstarted
      /\ pcbs' = FALSE /\ next_timeout' = next_timeout
      /\ tcpip_tcp_timer_active' = tcpip_tcp_timer_active
  BY Zenon DEF TCP_RMV, Idle
<1> QED BY Zenon, <1>1, ReturnedFact, QuietStep

\* The application starts its timer.
LEMMA AppStep ==
  ASSUME IInv, NEW msecs \in AppMsecs, AppTimeout(msecs)
  PROVE  IInv'
<1>1. /\ check = Returned /\ now' = now /\ check' = check /\ unstarted' = unstarted /\ pcbs' = pcbs
      /\ next_timeout' = sys_timeout(next_timeout, now, msecs, APP)
      /\ tcpip_tcp_timer_active' = tcpip_tcp_timer_active /\ ~Has(next_timeout, APP)
  BY Zenon DEF AppTimeout, Idle, Has
<1>2. APP \in Timers /\ msecs \in 0 .. Quarter - 1 /\ APP \notin Cyclic /\ TCP # APP
  BY Zenon, DelayFact
<1>3. Good(next_timeout', now, 0) /\ \A g : Has(next_timeout', g) <=> g = APP \/ Has(next_timeout, g)
  BY Zenon, <1>1, <1>2, SetStep
<1> QED BY Zenon, <1>1, <1>2, <1>3, ReturnedFact, QuietStep

\* The application stops its timer.
LEMMA UntimeoutStep ==
  ASSUME IInv, sys_untimeout(APP)
  PROVE  IInv'
<1> DEFINE k == Min({i \in DOMAIN next_timeout : next_timeout[i].h = APP})
<1>1. /\ check = Returned /\ now' = now /\ check' = check /\ unstarted' = unstarted /\ pcbs' = pcbs
      /\ tcpip_tcp_timer_active' = tcpip_tcp_timer_active /\ Has(next_timeout, APP)
      /\ next_timeout' = Without(next_timeout, k)
  BY Zenon DEF sys_untimeout, Idle, Has, Without
<1>2. APP \notin Cyclic /\ TCP # APP
  BY Zenon, DelayFact
<1>3. Good(next_timeout, now, 0)
  BY Zenon, <1>1, ReturnedFact
<1>4. Good(next_timeout', now, 0) /\ \A g : Has(next_timeout', g) <=> g # APP /\ Has(next_timeout, g)
  BY Zenon, <1>1, <1>3, RemoveGood
<1> QED BY Zenon, <1>1, <1>2, <1>4, ReturnedFact, QuietStep

\* sys_restart_timeouts (timeouts.c:403-420): the first entry is due now.
LEMMA RestartStep ==
  ASSUME IInv, sys_restart_timeouts
  PROVE  IInv'
<1>1. /\ check = Returned /\ now' = now /\ check' = check /\ unstarted' = unstarted /\ pcbs' = pcbs
      /\ next_timeout # <<>> /\ tcpip_tcp_timer_active' = tcpip_tcp_timer_active
      /\ next_timeout' = [i \in DOMAIN next_timeout |-> Rebased(next_timeout[i], Head(next_timeout))]
  BY Zenon DEF sys_restart_timeouts, Idle
<1>2. Good(next_timeout, now, 0) /\ now \in Int
  BY Zenon, <1>1, ReturnedFact
<1>3. Good(next_timeout', now, 0) /\ \A g : Has(next_timeout', g) <=> Has(next_timeout, g)
  BY <1>1, <1>2, RestartGood
<1> QED BY Zenon, <1>1, <1>3, ReturnedFact, QuietStep

\* The clock goes on while nothing is late by more than MaxLate.
LEMMA TickStep ==
  ASSUME IInv, Tick
  PROVE  IInv'
<1>1. /\ check = Returned /\ check' = check /\ unstarted' = unstarted /\ pcbs' = pcbs
      /\ tcpip_tcp_timer_active' = tcpip_tcp_timer_active
      /\ now' = (now + 1) % Period /\ next_timeout' = Older(next_timeout, 1)
      /\ next_timeout # <<>> => Head(next_timeout).left > -MaxLate
  BY Zenon DEF Tick
<1>2. Good(next_timeout, now, 0) /\ now \in Int
  BY Zenon, <1>1, ReturnedFact
<1>3. Good(next_timeout', now', 0)
  BY <1>1, <1>2, TickGood
<1>4. now' \in Time
  <2>1. now + 1 \in Int
    BY <1>2
  <2> QED BY <1>1, <2>1, ModFact
<1>5. Elapsed' = 0
  BY Zenon, <1>1 DEF Elapsed
<1>6. \A g : Has(next_timeout', g) <=> Has(next_timeout, g)
  <2>1. next_timeout \in Seq(Entry)
    BY Zenon, <1>2 DEF Good, Listed
  <2>2. /\ DOMAIN next_timeout' = DOMAIN next_timeout
        /\ \A i \in DOMAIN next_timeout : next_timeout'[i].h = next_timeout[i].h
    BY <1>1, <2>1, OlderFact
  <2> QED BY Zenon, <2>2 DEF Has
<1>7. Complete'
  BY Zenon, <1>1, <1>6 DEF Complete, IInv
<1> QED BY <1>1, <1>3, <1>4, <1>5, <1>7 DEF IInv

\* sys_check_timeouts begins and reads the clock once.
LEMMA CheckStep ==
  ASSUME IInv, sys_check_timeouts
  PROVE  IInv'
<1>1. /\ check = Returned /\ check' = now /\ unstarted' = unstarted /\ unstarted = {} /\ pcbs' = pcbs
      /\ tcpip_tcp_timer_active' = tcpip_tcp_timer_active
      /\ now' = now /\ next_timeout' = next_timeout
  BY Zenon DEF sys_check_timeouts, Idle
<1>2. Good(next_timeout, now, 0) /\ now \in Int /\ now \in Time
  BY <1>1, ReturnedFact DEF IInv
<1>3. Elapsed' = 0
  <2>1. now - now = 0 /\ 0 \in Time
    BY <1>2, QuarterFact DEF Time
  <2>2. 0 % Period = 0
    BY Zenon, <2>1, ModTime
  <2> QED BY <1>1, <2>1, <2>2 DEF Elapsed
<1>4. Complete'
  BY Zenon, <1>1 DEF Complete, IInv
<1> QED BY <1>1, <1>2, <1>3, <1>4 DEF IInv

\* What the invariant says inside of sys_check_timeouts.
LEMMA CheckingFact ==
  ASSUME IInv, check # Returned
  PROVE  /\ now \in Time /\ check \in Time /\ now \in Int /\ unstarted = {}
         /\ Elapsed = (now - check) % Period
         /\ Good(next_timeout, now, Elapsed)
         /\ next_timeout # <<>> => (Expired(Head(next_timeout)) <=> Due(next_timeout, 1, Elapsed))
<1>1. now \in Time /\ check \in Time /\ now \in Int /\ unstarted = {}
  BY QuarterFact DEF IInv, Time
<1>2. Elapsed = (now - check) % Period
  BY Zenon DEF Elapsed
<1>3. Good(next_timeout, now, Elapsed)
  BY Zenon DEF IInv
<1> QED BY <1>1, <1>2, <1>3, ExpiredFact

\* sys_check_timeouts returns, no entry is due at the time it read.
LEMMA CheckReturnStep ==
  ASSUME IInv, CheckReturn
  PROVE  IInv'
<1>1. /\ check # Returned /\ check' = Returned /\ unstarted' = unstarted /\ pcbs' = pcbs
      /\ tcpip_tcp_timer_active' = tcpip_tcp_timer_active
      /\ now' = now /\ next_timeout' = next_timeout
      /\ ~(next_timeout # <<>> /\ Expired(Head(next_timeout)))
  BY Zenon DEF CheckReturn
<1>2. Good(next_timeout, now, 0)
  BY Zenon, <1>1, CheckingFact, ReturnGood
<1>3. Elapsed' = 0
  BY Zenon, <1>1 DEF Elapsed
<1>4. Complete'
  BY Zenon, <1>1 DEF Complete, IInv
<1> QED BY <1>1, <1>2, <1>3, <1>4 DEF IInv

\* sys_check_timeouts calls the handler of the first entry, whose time has come.
LEMMA CallStep ==
  ASSUME IInv, NEW d \in 0 .. MaxHandlerTime, CallHandler(d)
  PROVE  IInv' /\ Head(next_timeout).left <= 0
<1> DEFINE l == next_timeout
           e == Elapsed
           x == Head(l)
           clock == (now + d) % Period
           rest == Older(Tail(l), d)
<1>1. /\ check # Returned /\ l # <<>> /\ Expired(x) /\ now' = clock
      /\ check' = check /\ unstarted' = unstarted
      /\ \/ /\ x.h \in Cyclic
            /\ next_timeout' = lwip_cyclic_timer(rest, x.h, x.time, x.left - d, clock)
            /\ tcpip_tcp_timer_active' = tcpip_tcp_timer_active /\ pcbs' = pcbs
         \/ /\ x.h = TCP /\ pcbs' \in BOOLEAN
            /\ next_timeout' = IF pcbs' THEN sys_timeout(rest, clock, TCP_TMR_INTERVAL, TCP)
                               ELSE rest
            /\ tcpip_tcp_timer_active' = pcbs'
         \/ /\ x.h = APP /\ next_timeout' = rest
            /\ tcpip_tcp_timer_active' = tcpip_tcp_timer_active /\ pcbs' = pcbs
  BY Zenon DEF CallHandler
<1>2. /\ now \in Time /\ check \in Time /\ now \in Int /\ unstarted = {}
      /\ e = (now - check) % Period /\ Good(l, now, e) /\ Due(l, 1, e)
  BY Zenon, <1>1, CheckingFact
<1>3. /\ e \in Nat /\ 1 \in DOMAIN l /\ x = l[1] /\ x.left \in Int
      /\ x.time = (now + x.left) % Period /\ -Quarter <= x.left
  <2>1. /\ l \in Seq(Entry) /\ Len(l) \in Nat /\ DOMAIN l = 1 .. Len(l) /\ e \in Nat
        /\ \A i \in DOMAIN l : /\ l[i].left \in Int /\ l[i].time = (now + l[i].left) % Period
                               /\ l[i].left \in -Quarter .. 2 * Quarter - 1
    BY Zenon, <1>2, GoodFact
  <2>2. 1 \in DOMAIN l /\ x = l[1]
    BY <1>1, <2>1
  <2> QED BY <2>1, <2>2, QuarterFact
<1>4. x.left <= 0
  BY <1>2, <1>3 DEF Due
<1>5. Good(rest, clock, e + d) /\ \A g : Has(rest, g) <=> g # x.h /\ Has(l, g)
  BY Zenon, <1>1, <1>2, RestGood
<1>6. clock \in Time /\ clock \in Int
  <2>1. now + d \in Int
    BY <1>2, LateFact
  <2>2. clock \in Time
    BY Zenon, <2>1, ModFact
  <2> QED BY <2>2, QuarterFact DEF Time
<1>7. Elapsed' = e + d
  <2>1. e + d <= Quarter /\ d \in Nat
    <3>1. e + d \in Nat /\ e + d <= Busy(MEMP_NUM_SYS_TIMEOUT) /\ d \in Nat
      BY <1>5, GoodFact, LateFact
    <3>2. Busy(MEMP_NUM_SYS_TIMEOUT) \in Int /\ Busy(MEMP_NUM_SYS_TIMEOUT) <= Quarter
      BY LateFact, BusyFact
    <3> QED BY <3>1, <3>2, QuarterFact
  <2>2. (clock - check) % Period = e + d
    BY Zenon, <1>2, <1>3, <2>1, ElapsedFact
  <2> QED BY Zenon, <1>1, <2>2 DEF Elapsed
<1>8. Has(l, x.h) /\ ~Has(rest, x.h)
  BY Zenon, <1>3, <1>5 DEF Has
<1>9. /\ \A c \in Cyclic : Has(l, c)
      /\ Has(l, TCP) <=> tcpip_tcp_timer_active
      /\ pcbs => tcpip_tcp_timer_active
      /\ tcpip_tcp_timer_active \in BOOLEAN /\ pcbs \in BOOLEAN
  BY Zenon, <1>2 DEF IInv, Complete
<1>10. /\ TCP \in Timers /\ TCP_TMR_INTERVAL \in 0 .. Quarter - 1
       /\ TCP \notin Cyclic /\ APP \notin Cyclic /\ TCP # APP
  BY Zenon, DelayFact
<1> SUFFICES IInv'
  BY Zenon, <1>4
<1> HIDE DEF rest, clock, e, x
<1>11. ASSUME Good(next_timeout', clock, e + d), \A c \in Cyclic : Has(next_timeout', c),
              Has(next_timeout', TCP) <=> tcpip_tcp_timer_active',
              pcbs' => tcpip_tcp_timer_active',
              tcpip_tcp_timer_active' \in BOOLEAN, pcbs' \in BOOLEAN
       PROVE  IInv'
  <2>1. Good(next_timeout', now', Elapsed')
    BY Zenon, <1>1, <1>7, <1>11
  <2>2. Complete'
    BY Zenon, <1>1, <1>2, <1>11 DEF Complete
  <2> QED BY Zenon, <1>1, <1>2, <1>6, <1>11, <2>1, <2>2 DEF IInv
<1>12. CASE /\ x.h \in Cyclic
            /\ next_timeout' = lwip_cyclic_timer(rest, x.h, x.time, x.left - d, clock)
            /\ tcpip_tcp_timer_active' = tcpip_tcp_timer_active /\ pcbs' = pcbs
  <2>1. x.left \in -Quarter .. 0
    BY <1>3, <1>4, QuarterFact
  <2>2. clock = (now + d) % Period
    BY Zenon DEF clock
  <2>3. Good(next_timeout', clock, e + d) /\ \A g : Has(next_timeout', g) <=> g = x.h \/ Has(rest, g)
    <3> DEFINE c == x.h
               t == x.time
               left == x.left
               f == e + d
    <3>1. /\ c \in Cyclic /\ ~Has(rest, c) /\ left \in -Quarter .. 0 /\ now \in Int
          /\ t = (now + left) % Period /\ clock = (now + d) % Period /\ Good(rest, clock, f)
      BY <1>2, <1>3, <1>5, <1>8, <1>12, <2>1, <2>2
    <3>2. next_timeout' = lwip_cyclic_timer(rest, c, t, left - d, clock)
      BY Zenon, <1>12
    <3> HIDE DEF c, t, left, f
    <3>3. /\ Good(lwip_cyclic_timer(rest, c, t, left - d, clock), clock, f)
          /\ \A g : Has(lwip_cyclic_timer(rest, c, t, left - d, clock), g) <=> g = c \/ Has(rest, g)
      BY ZenonT(30), <3>1, CyclicGood
    <3> QED BY Zenon, <3>2, <3>3 DEF c, f
  <2>4. \A g : Has(next_timeout', g) <=> Has(l, g)
    BY Zenon, <1>5, <1>8, <2>3
  <2> QED BY <1>9, <1>11, <1>12, <2>3, <2>4
<1>13. CASE /\ x.h = TCP /\ pcbs' \in BOOLEAN
            /\ next_timeout' = IF pcbs' THEN sys_timeout(rest, clock, TCP_TMR_INTERVAL, TCP)
                               ELSE rest
            /\ tcpip_tcp_timer_active' = pcbs'
  <2>1. CASE pcbs'
    <3>1. Good(next_timeout', clock, e + d) /\ \A g : Has(next_timeout', g) <=> g = TCP \/ Has(rest, g)
      BY <1>5, <1>6, <1>8, <1>10, <1>13, <2>1, TimeoutGood
    <3> QED BY <1>5, <1>9, <1>10, <1>11, <1>13, <2>1, <3>1
  <2>2. CASE ~pcbs'
    <3>1. next_timeout' = rest
      BY Zenon, <1>13, <2>2
    <3> QED BY <1>5, <1>8, <1>9, <1>10, <1>11, <1>13, <2>2, <3>1
  <2> QED BY Zenon, <2>1, <2>2
<1>14. CASE /\ x.h = APP /\ next_timeout' = rest
            /\ tcpip_tcp_timer_active' = tcpip_tcp_timer_active /\ pcbs' = pcbs
  BY Zenon, <1>5, <1>9, <1>10, <1>11, <1>14
<1> QED BY <1>1, <1>12, <1>13, <1>14
-----------------------------------------------------------------------------
\* Every step keeps the invariant.
LEMMA NextIInv == IInv /\ [Next]_vars => IInv'
<1> SUFFICES ASSUME IInv, [Next]_vars PROVE IInv'
  BY Zenon
<1>1. CASE UNCHANGED vars
  BY Zenon, <1>1 DEF vars, IInv, Complete, Elapsed
<1>2. CASE \E c \in Cyclic : sys_timeouts_init(c)
  BY Zenon, <1>2, InitStep
<1>3. CASE Tick
  BY Zenon, <1>3, TickStep
<1>4. CASE TCP_REG
  BY <1>4, RegStep
<1>5. CASE TCP_RMV
  BY Zenon, <1>5, RmvStep
<1>6. CASE \E msecs \in AppMsecs : AppTimeout(msecs)
  BY Zenon, <1>6, AppStep
<1>7. CASE sys_untimeout(APP)
  BY <1>7, UntimeoutStep
<1>8. CASE sys_restart_timeouts
  BY Zenon, <1>8, RestartStep
<1>9. CASE sys_check_timeouts
  BY Zenon, <1>9, CheckStep
<1>10. CASE CheckReturn
  BY Zenon, <1>10, CheckReturnStep
<1>11. CASE \E d \in 0 .. MaxHandlerTime : CallHandler(d)
  BY Zenon, <1>11, CallStep
<1> QED BY <1>1, <1>2, <1>3, <1>4, <1>5, <1>6, <1>7, <1>8, <1>9, <1>10, <1>11 DEF Next

\* The inductive invariant holds throughout.
LEMMA IInvHolds == Spec => []IInv
  BY InitIInv, NextIInv, PTL DEF Spec
-----------------------------------------------------------------------------
\* The number of the entries of a timer.
LEMMA EntriesFact ==
  ASSUME Distinct(next_timeout), NEW h
  PROVE  Cardinality(Entries(h)) = IF Has(next_timeout, h) THEN 1 ELSE 0
<1>1. CASE Has(next_timeout, h)
  <2>1. PICK i \in DOMAIN next_timeout : next_timeout[i].h = h
    BY Zenon, <1>1 DEF Has
  <2>2. Entries(h) = {i}
    BY Zenon, <2>1 DEF Entries, Distinct
  <2>3. Cardinality({i}) = 1
    BY Zenon, FS_Singleton
  <2> QED BY Zenon, <1>1, <2>2, <2>3
<1>2. CASE ~Has(next_timeout, h)
  <2>1. Entries(h) = {}
    BY Zenon, <1>2 DEF Entries, Has
  <2> QED BY Zenon, <1>2, <2>1, FS_EmptySet
<1> QED BY Zenon, <1>1, <1>2

\* What sys_timeouts_sleeptime (timeouts.c:418-443) returns is the true time.
LEMMA SleepFact ==
  ASSUME NEW e, Good(next_timeout, now, e), now \in Time
  PROVE  SleepIsTrue
<1> SUFFICES ASSUME next_timeout # <<>>
             PROVE  sys_timeouts_sleeptime =
                      (IF Head(next_timeout).left <= 0 THEN 0 ELSE Head(next_timeout).left)
  BY Zenon DEF SleepIsTrue
<1> DEFINE x == Head(next_timeout)
           left == x.left
           first == x.time
<1>1. left \in Int /\ first = (now + left) % Period /\ left \in -Quarter .. 2 * Quarter - 1
  <2>1. /\ next_timeout \in Seq(Entry) /\ Len(next_timeout) \in Nat
        /\ DOMAIN next_timeout = 1 .. Len(next_timeout)
        /\ \A i \in DOMAIN next_timeout :
             /\ next_timeout[i].left \in Int
             /\ next_timeout[i].time = (now + next_timeout[i].left) % Period
             /\ next_timeout[i].left \in -Quarter .. 2 * Quarter - 1
    BY Zenon, GoodFact
  <2>2. 1 \in DOMAIN next_timeout /\ x = next_timeout[1]
    BY <2>1
  <2> QED BY Zenon, <2>1, <2>2
<1>2. now \in Int /\ Quarter \in Nat \ {0} /\ Period = 4 * Quarter
  BY QuarterFact DEF Time
<1> SUFFICES (IF TIME_LESS_THAN(first, now) THEN 0 ELSE (first - now) % Period)
             = (IF left <= 0 THEN 0 ELSE left)
  BY Zenon DEF sys_timeouts_sleeptime
<1> HIDE DEF x, left, first
<1>3. now = (now + 0) % Period /\ now = now % Period
  <2>1. now % Period = now
    BY Zenon, ModTime
  <2>2. now + 0 = now
    BY <1>2
  <2> QED BY Zenon, <2>1, <2>2
<1>4. TIME_LESS_THAN(first, now) <=> left < 0
  <2> DEFINE z == 0
  <2>1. z \in Int /\ left - z \in -(2 * Quarter) .. 2 * Quarter - 1
    BY <1>1, <1>2
  <2> HIDE DEF z
  <2>2. TIME_LESS_THAN((now + left) % Period, (now + z) % Period) <=> left < z
    BY Zenon, <1>1, <1>2, <2>1, LessFact
  <2> QED BY Zenon, <1>1, <1>3, <2>2 DEF z
<1>5. ASSUME left >= 0 PROVE (first - now) % Period = left
  <2> DEFINE a == now + left
  <2>1. a \in Int /\ a - now = left
    BY <1>1, <1>2
  <2> HIDE DEF a
  <2>2. ((a % Period) - (now % Period)) % Period = (a - now) % Period
    BY Zenon, <1>2, <2>1, ModDiff
  <2>3. left \in Time
    BY <1>1, <1>2, <1>5 DEF Time
  <2>4. left % Period = left
    BY Zenon, <2>3, ModTime
  <2> QED BY Zenon, <1>1, <1>3, <2>1, <2>2, <2>4 DEF a
<1> QED BY <1>1, <1>4, <1>5

\* The invariant implies what the run checks.
LEMMA IInvTrue == IInv => TimersTrue
<1> SUFFICES ASSUME IInv PROVE TimersTrue
  BY Zenon
<1> DEFINE l == next_timeout
<1>1. Good(l, now, Elapsed) /\ now \in Time
  BY Zenon DEF IInv
<1>2. /\ Len(l) <= MEMP_NUM_SYS_TIMEOUT
      /\ \A i \in DOMAIN l : /\ l[i].h \in Timers /\ l[i].time \in Time /\ l[i].left \in Int
                             /\ l[i].left \in -Quarter .. 2 * Quarter - 1
  BY Zenon, <1>1, GoodFact
<1>3. TypeOK
  <2>1. Quarter \in Nat \ {0} /\ Period \div 2 = 2 * Quarter
    BY Zenon, QuarterFact
  <2>2. \A i \in DOMAIN l : l[i].left \in 1 - Period \div 2 .. Period \div 2 - 1
    BY <1>2, <2>1
  <2> QED BY Zenon, <1>2, <2>2 DEF IInv, TypeOK
<1>4. InTrueOrder
  BY Zenon, <1>1 DEF Good, Ordered, InTrueOrder
<1>5. SleepIsTrue
  BY Zenon, <1>1, SleepFact
<1>6. OneEach
  <2>1. \A h : Cardinality(Entries(h)) = IF Has(l, h) THEN 1 ELSE 0
    BY Zenon, <1>1, EntriesFact DEF Good
  <2> QED BY Zenon, <2>1 DEF IInv, Complete, OneEach
<1> QED BY Zenon, <1>3, <1>4, <1>5, <1>6 DEF TimersTrue

\* For every clock, set of cyclic timers, interval and delay below a quarter of the clock:
\* the list of timeouts is complete, its entries are in the order in which they are really
\* due although only remainders are compared, and sys_timeouts_sleeptime returns the true
\* time to the first one (timeouts.c:73, 179-221, 398-443).
THEOREM TimersSafe == Spec => []TimersTrue
  BY IInvHolds, IInvTrue, PTL

\* sys_check_timeouts calls no handler before its time, whatever the earlier handlers of
\* the same call have taken and set (timeouts.c:358-396).
THEOREM CallsOnTime == Spec => NeverEarly
<1> DEFINE A == check # Returned /\ next_timeout' # next_timeout => Head(next_timeout).left <= 0
<1>1. IInv /\ [Next]_vars => [A]_vars
  <2> SUFFICES ASSUME IInv, Next, check # Returned, next_timeout' # next_timeout
               PROVE  Head(next_timeout).left <= 0
    BY Zenon DEF vars
  <2>1. unstarted = {} /\ ~Idle
    BY Zenon DEF IInv, Idle
  <2>2. \E d \in 0 .. MaxHandlerTime : CallHandler(d)
    BY Zenon, <2>1 DEF Next, sys_timeouts_init, Tick, TCP_REG, TCP_RMV, AppTimeout, sys_untimeout,
               sys_restart_timeouts, sys_check_timeouts, CheckReturn
  <2> QED BY Zenon, <2>2, CallStep
<1>2. Spec => [][A]_vars
  BY IInvHolds, <1>1, PTL DEF Spec
<1> QED BY Zenon, <1>2 DEF NeverEarly
=============================================================================
