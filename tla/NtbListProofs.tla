--------------------------- MODULE NtbListProofs ---------------------------
(* Safety of push_ntb and pop_ntb for every list size that keeps the index
   arithmetic inside the array.                                            *)
EXTENDS NtbListSpec, TLAPS

ListInv == ListTypeOK /\ Occupancy

\* The next index is a visited slot again, beyond the current one unless the
\* current one is the last slot, and no visited slot lies in between.
LEMMA NextIndexVisited ==
  ASSUME NEW i \in Visited
  PROVE  /\ NextIndex(i, NCM_NTB_N) \in Visited
         /\ i = LastSlot => NextIndex(i, NCM_NTB_N) = i
         /\ i # LastSlot => i < NextIndex(i, NCM_NTB_N)
         /\ \A j \in Visited : i < j => NextIndex(i, NCM_NTB_N) <= j
<1>1. i \in {0, 1, 3, 7, 15} /\ i \in 0 .. NCM_NTB_N - 1
  BY DEF Visited, Slots
<1>2. CASE NCM_NTB_N = 1
  BY <1>1, <1>2 DEF Visited, Slots, NextIndex, LastSlot
<1>3. CASE NCM_NTB_N = 2
  BY <1>1, <1>3 DEF Visited, Slots, NextIndex, LastSlot
<1>4. CASE NCM_NTB_N = 4
  BY <1>1, <1>4 DEF Visited, Slots, NextIndex, LastSlot
<1>5. CASE NCM_NTB_N = 8
  BY <1>1, <1>5 DEF Visited, Slots, NextIndex, LastSlot
<1>6. CASE NCM_NTB_N = 16
  BY <1>1, <1>6 DEF Visited, Slots, NextIndex, LastSlot
<1>7. QED
  BY <1>2, <1>3, <1>4, <1>5, <1>6, NtbNAssumption

\* The zeroed list of net_init satisfies the invariant.
LEMMA ListInvInit == ListInit => ListInv
<1>1. 0 \in Slots /\ 0 \in Visited /\ LastSlot \in Slots
  BY NtbNAssumption DEF Slots, Visited, LastSlot
<1> SUFFICES ASSUME ListInit
             PROVE  ListInv
  OBVIOUS
<1>2. list = EmptyList /\ popped = NULL
  BY DEF ListInit
<1>3. pushed \in BOOLEAN
  BY Zenon DEF ListInit
<1>4. EmptyList \in ntb_list_t
  BY <1>1 DEF EmptyList, ntb_list_t, NtbPtr
<1>5. Occupancy
  BY <1>1, <1>2, NtbNAssumption DEF Occupancy, EmptyList, Slots
<1>6. QED
  BY <1>2, <1>3, <1>4, <1>5, Zenon DEF ListInv, ListTypeOK, NtbPtr

\* push_ntb and pop_ntb keep the invariant, refused or not.
LEMMA ListInvStep == ListInv /\ [ListNext]_listVars => ListInv'
<1> SUFFICES ASSUME ListInv, [ListNext]_listVars
             PROVE  ListInv'
  OBVIOUS
<1> DEFINE front == list.list_front
           back  == list.list_back
<1>0. /\ list \in ntb_list_t /\ popped \in NtbPtr
      /\ front \in Visited /\ back \in Visited /\ front \in Slots /\ back \in Slots
      /\ LastSlot \in Slots /\ LastSlot \in Int /\ front \in Int /\ back \in Int
      /\ \A i \in Visited : i \in Slots
      /\ \A i \in Slots : i \in Int /\ i <= LastSlot
      /\ list.ntb_list \in [Slots -> NtbPtr]
  BY NtbNAssumption DEF ListInv, ListTypeOK, Occupancy, ntb_list_t, Slots, Visited, LastSlot
<1>1. ASSUME NEW ntb \in NtbPtr, Push(ntb)
      PROVE  ListInv'
  <2>1. pushed' \in BOOLEAN /\ popped' = popped
    BY <1>1, Zenon DEF Push, CanPush
  <2>2. CASE CanPush(list, ntb)
    <3>1. /\ list'.ntb_list = [list.ntb_list EXCEPT ![back] = ntb]
          /\ list'.list_front = front
          /\ list'.list_back = NextIndex(back, NCM_NTB_N)
          /\ list' \in ntb_list_t
      BY <1>0, <1>1, <2>2, NextIndexVisited DEF Push, push_ntb, ntb_list_t
    <3> DEFINE next == NextIndex(back, NCM_NTB_N)
    <3>a. /\ next \in Visited /\ next \in Int
          /\ back = LastSlot => next = back
          /\ back # LastSlot => back < next
          /\ \A j \in Visited : back < j => next <= j
      BY <1>0, NextIndexVisited
    <3>b. ntb # NULL /\ list.ntb_list[back] = NULL
      BY <2>2 DEF CanPush
    <3> HIDE DEF next
    <3>2. Occupancy'
      <4>1. /\ list'.list_front \in Visited /\ list'.list_back \in Visited
            /\ list'.list_front <= list'.list_back
        BY <1>0, <3>1, <3>a DEF ListInv, Occupancy, next
      <4>2. ASSUME NEW i \in Slots, i # LastSlot
            PROVE  list'.ntb_list[i] # NULL
                     <=> i \in Visited /\ list'.list_front <= i /\ i < list'.list_back
        BY <1>0, <3>1, <3>a, <3>b, <4>2 DEF ListInv, Occupancy, next
      <4>3. list'.list_back # LastSlot => list'.ntb_list[LastSlot] = NULL
        BY <1>0, <3>1, <3>a DEF ListInv, Occupancy, next
      <4>4. QED
        BY <4>1, <4>2, <4>3 DEF Occupancy
    <3>3. QED
      BY <1>0, <2>1, <3>1, <3>2, Zenon DEF ListInv, ListTypeOK
  <2>3. CASE ~CanPush(list, ntb)
    <3>1. list' = list
      BY <1>1, <2>3 DEF Push, push_ntb
    <3>2. QED
      BY <1>0, <2>1, <3>1, Zenon DEF ListInv, ListTypeOK, Occupancy
  <2>4. QED
    BY <2>2, <2>3
<1>2. ASSUME Pop
      PROVE  ListInv'
  <2>1. pushed' \in BOOLEAN
    BY <1>2, Zenon DEF Pop, ListInv, ListTypeOK
  <2>2. popped' \in NtbPtr
    BY <1>0, <1>2 DEF Pop, Popped, ntb_list_t
  <2>3. CASE Popped(list) # NULL
    <3>1. /\ list'.ntb_list = [list.ntb_list EXCEPT ![front] = NULL]
          /\ list'.list_front = NextIndex(front, NCM_NTB_N)
          /\ list'.list_back = back
          /\ list' \in ntb_list_t
      BY <1>0, <1>2, <2>3, NextIndexVisited DEF Pop, pop_ntb, ntb_list_t, NtbPtr
    <3>2. front < back \/ front = LastSlot
      BY <1>0, <2>3 DEF Popped, ListInv, Occupancy
    <3> DEFINE next == NextIndex(front, NCM_NTB_N)
    <3>a. /\ next \in Visited /\ next \in Int
          /\ front = LastSlot => next = front
          /\ front # LastSlot => front < next
          /\ \A j \in Visited : front < j => next <= j
      BY <1>0, NextIndexVisited
    <3> HIDE DEF next
    <3>3. Occupancy'
      <4>1. /\ list'.list_front \in Visited /\ list'.list_back \in Visited
            /\ list'.list_front <= list'.list_back
        BY <1>0, <3>1, <3>2, <3>a DEF ListInv, Occupancy, next
      <4>2. ASSUME NEW i \in Slots, i # LastSlot
            PROVE  list'.ntb_list[i] # NULL
                     <=> i \in Visited /\ list'.list_front <= i /\ i < list'.list_back
        BY <1>0, <3>1, <3>2, <3>a, <4>2 DEF ListInv, Occupancy, next
      <4>3. list'.list_back # LastSlot => list'.ntb_list[LastSlot] = NULL
        BY <1>0, <3>1, <3>2, <3>a DEF ListInv, Occupancy, next
      <4>4. QED
        BY <4>1, <4>2, <4>3 DEF Occupancy
    <3>4. QED
      BY <2>1, <2>2, <3>1, <3>3, Zenon DEF ListInv, ListTypeOK
  <2>4. CASE Popped(list) = NULL
    <3>1. list' = list
      BY <1>2, <2>4 DEF Pop, pop_ntb
    <3>2. QED
      BY <1>0, <2>1, <2>2, <3>1, Zenon DEF ListInv, ListTypeOK, Occupancy
  <2>5. QED
    BY <2>3, <2>4
<1>3. CASE UNCHANGED listVars
  BY <1>3 DEF ListInv, ListTypeOK, Occupancy, listVars
<1>4. QED
  BY <1>1, <1>2, <1>3 DEF ListNext

\* The slot at list_front is occupied as long as any slot is.
LEMMA ListInvNull == ListInv => NullMeansEmpty
<1> SUFFICES ASSUME ListInv, Popped(list) = NULL
             PROVE  \A i \in Slots : list.ntb_list[i] = NULL
  BY DEF NullMeansEmpty, Held
<1>1. /\ list.list_front \in Int /\ list.list_back \in Int /\ LastSlot \in Int
      /\ list.list_front \in Slots /\ list.list_back \in Slots
      /\ \A i \in Slots : i \in Int /\ i <= LastSlot
  BY NtbNAssumption DEF ListInv, Occupancy, Visited, Slots, LastSlot
<1>2. list.list_front = list.list_back
  BY <1>1 DEF ListInv, Occupancy, Popped
<1>3. QED
  BY <1>1, <1>2 DEF ListInv, Occupancy, Popped

\* Whatever the calls, both indices of a list stay inside its array, the
\* occupied slots are the visited ones from front to back, and pop_ntb answers
\* NULL only for an empty list (struct.c:42-90).
THEOREM ListSafe == ListSpec => []QueueOK
<1>1. ListSpec => []ListInv
  BY ListInvInit, ListInvStep, PTL DEF ListSpec
<1>2. ListInv => QueueOK
  BY ListInvNull DEF ListInv, QueueOK
<1>3. QED
  BY <1>1, <1>2, PTL

-----------------------------------------------------------------------------
\* The order of the slots, as numbers.
LEMMA OrderFact ==
  /\ Order[1] = 0 /\ Order[2] = 1 /\ Order[3] = 3 /\ Order[4] = 7 /\ Order[5] = 15
  /\ Visit(0) = 1 /\ Visit(1) = 2 /\ Visit(3) = 3 /\ Visit(7) = 4 /\ Visit(15) = 5
<1>1. Order[1] = 0 /\ Order[2] = 1 /\ Order[3] = 3 /\ Order[4] = 7 /\ Order[5] = 15
  BY DEF Order
<1>2. 1 .. 5 = {1, 2, 3, 4, 5}
  OBVIOUS
<1> HIDE DEF Order
<1>3. Visit(0) = 1
  BY <1>1, <1>2 DEF Visit
<1>4. Visit(1) = 2
  BY <1>1, <1>2 DEF Visit
<1>5. Visit(3) = 3
  BY <1>1, <1>2 DEF Visit
<1>6. Visit(7) = 4
  BY <1>1, <1>2 DEF Visit
<1>7. Visit(15) = 5
  BY <1>1, <1>2 DEF Visit
<1> QED BY <1>1, <1>3, <1>4, <1>5, <1>6, <1>7

\* The place of a visited slot, which grows with the slot, and by one at each move.
LEMMA PlaceFact ==
  ASSUME NEW i \in Visited
  PROVE  /\ Visit(i) \in 1 .. 5 /\ Order[Visit(i)] = i /\ i \in Int
         /\ i # LastSlot => Visit(NextIndex(i, NCM_NTB_N)) = Visit(i) + 1
         /\ \A j \in Visited : i < j <=> Visit(i) < Visit(j)
         /\ \A j \in Visited : i = j <=> Visit(i) = Visit(j)
         /\ \A k \in 1 .. Visit(i) : Order[k] \in Visited /\ Visit(Order[k]) = k
<1>1. i \in {0, 1, 3, 7, 15} /\ i \in 0 .. NCM_NTB_N - 1
  BY DEF Visited, Slots
<1>2. /\ Visit(i) \in 1 .. 5 /\ Order[Visit(i)] = i /\ i \in Int
  BY <1>1, OrderFact
<1>3. ASSUME i # LastSlot PROVE Visit(NextIndex(i, NCM_NTB_N)) = Visit(i) + 1
  <2>1. NextIndex(i, NCM_NTB_N) = 2 * i + 1
    <3>1. i < NCM_NTB_N - 1 /\ NCM_NTB_N \in {1, 2, 4, 8, 16}
      BY <1>1, <1>3, NtbNAssumption DEF LastSlot
    <3>2. (i + 1) % NCM_NTB_N = i + 1
      BY <1>1, <3>1
    <3> QED BY <1>1, <3>2 DEF NextIndex
  <2>2. i \in {0, 1, 3, 7}
    BY <1>1, <1>3, NtbNAssumption DEF LastSlot
  <2> QED BY <2>1, <2>2, OrderFact
<1>4. \A j \in Visited : (i < j <=> Visit(i) < Visit(j)) /\ (i = j <=> Visit(i) = Visit(j))
  BY <1>1, OrderFact DEF Visited
<1>5. ASSUME NEW k \in 1 .. Visit(i) PROVE Order[k] \in Visited /\ Visit(Order[k]) = k
  <2>1. k \in {1, 2, 3, 4, 5} /\ k <= Visit(i)
    BY <1>2
  <2>2. Visit(Order[k]) = k /\ Order[k] \in {0, 1, 3, 7, 15}
    BY <2>1, OrderFact
  <2>3. Order[k] <= i
    BY <1>1, <2>1, OrderFact
  <2>4. Order[k] \in Slots
    BY <1>1, <2>2, <2>3, NtbNAssumption DEF Slots
  <2> QED BY <2>2, <2>4 DEF Visited
<1> QED BY <1>2, <1>3, <1>4, <1>5

\* A function that extends another one by one place appends to it.
LEMMA AppendIs ==
  ASSUME NEW S, NEW n \in Nat, NEW s \in [1 .. n -> S], NEW u \in [1 .. n + 1 -> S],
         NEW e, u[n + 1] = e, \A k \in 1 .. n : u[k] = s[k]
  PROVE  u = Append(s, e)
<1>1. e \in S /\ s \in Seq(S) /\ u \in Seq(S) /\ Len(s) = n /\ Len(u) = n + 1
  <2>1. s \in Seq(S) /\ u \in Seq(S)
    BY DEF Seq
  <2> QED BY <2>1
<1>2. Append(s, e) \in Seq(S) /\ Len(Append(s, e)) = n + 1
  BY <1>1
<1>3. \A k \in 1 .. n + 1 : Append(s, e)[k] = u[k]
  BY <1>1
<1> QED BY <1>1, <1>2, <1>3

\* A function that is another one shifted by one place is its tail.
LEMMA TailIs ==
  ASSUME NEW S, NEW n \in Nat \ {0}, NEW s \in [1 .. n -> S], NEW u \in [1 .. n - 1 -> S],
         \A k \in 1 .. n - 1 : u[k] = s[k + 1]
  PROVE  s # <<>> /\ s[1] = Head(s) /\ u = Tail(s)
<1>1. s \in Seq(S) /\ u \in Seq(S) /\ Len(s) = n /\ Len(u) = n - 1
  <2>1. n - 1 \in Nat
    OBVIOUS
  <2>2. s \in Seq(S) /\ u \in Seq(S)
    BY <2>1 DEF Seq
  <2> QED BY <2>1, <2>2
<1>2. s # <<>> /\ Head(s) = s[1]
  BY <1>1
<1>3. Tail(s) \in Seq(S) /\ Len(Tail(s)) = n - 1
  BY <1>1, <1>2
<1>4. \A k \in 1 .. n - 1 : Tail(s)[k] = u[k]
  BY <1>1, <1>2
<1> QED BY <1>1, <1>2, <1>3, <1>4

\* ListInv as a predicate of the list, and the ends of the queue that it holds.
ListOK(l) ==
  /\ l \in ntb_list_t /\ l.ntb_list \in [Slots -> NtbPtr]
  /\ l.list_front \in Visited /\ l.list_back \in Visited /\ l.list_front <= l.list_back
  /\ \A i \in Slots : i # LastSlot =>
       (l.ntb_list[i] # NULL <=> i \in Visited /\ l.list_front <= i /\ i < l.list_back)
  /\ l.list_back # LastSlot => l.ntb_list[LastSlot] = NULL

First(l) == Visit(l.list_front)
End(l) == Visit(l.list_back) + IF l.ntb_list[l.list_back] = NULL THEN 0 ELSE 1
Queue(l) == [k \in 1 .. End(l) - First(l) |-> l.ntb_list[Order[First(l) + k - 1]]]

\* The invariant and the refinement mapping, before and after a step, in those terms.
LEMMA ListInvOK == /\ ListInv => ListOK(list)
                   /\ ListInv' => ListOK(list')
                   /\ Contents = Queue(list) /\ Contents' = Queue(list')
  BY DEF ListInv, ListTypeOK, Occupancy, ntb_list_t, ListOK, Contents, Queue, First, End

\* The queue has nothing if and only if pop_ntb finds nothing.
LEMMA EndsFact ==
  ASSUME NEW l, ListOK(l)
  PROVE  /\ First(l) \in 1 .. 5 /\ End(l) \in 1 .. 6 /\ First(l) <= End(l)
         /\ First(l) = End(l) <=> Popped(l) = NULL
         /\ \A k \in First(l) .. End(l) - 1 : Order[k] \in Slots
         /\ Queue(l) \in [1 .. End(l) - First(l) -> NtbPtr]
<1> DEFINE f == l.list_front
           b == l.list_back
<1>1. /\ l.ntb_list \in [Slots -> NtbPtr] /\ f \in Visited /\ b \in Visited /\ f <= b
      /\ Visited \subseteq Slots /\ f \in Slots /\ b \in Slots
  BY DEF ListOK, Visited
<1>2. Visit(f) \in 1 .. 5 /\ Visit(b) \in 1 .. 5 /\ f \in Int /\ b \in Int
  BY <1>1, PlaceFact
<1>3. Visit(f) <= Visit(b) /\ (f = b <=> Visit(f) = Visit(b))
  BY <1>1, <1>2, PlaceFact
<1>4. First(l) \in 1 .. 5 /\ End(l) \in 1 .. 6 /\ First(l) <= End(l)
  BY <1>2, <1>3 DEF First, End
<1>5. First(l) = End(l) <=> Popped(l) = NULL
  <2>1. CASE f = b
    BY <1>2, <2>1 DEF First, End, Popped
  <2>2. CASE f # b
    <3>1. f < b /\ Visit(f) < Visit(b)
      BY <1>1, <1>2, <1>3, <2>2
    <3>2. f # LastSlot
      BY <1>1, <1>2, <3>1, NtbNAssumption DEF Slots, LastSlot
    <3>3. Popped(l) # NULL
      BY <1>1, <1>2, <3>1, <3>2 DEF ListOK, Popped
    <3> QED BY <1>2, <3>1, <3>3 DEF First, End
  <2> QED BY <2>1, <2>2
<1>6. \A k \in First(l) .. End(l) - 1 : Order[k] \in Slots
  <2>1. \A k \in 1 .. Visit(b) : Order[k] \in Visited
    BY <1>1, PlaceFact
  <2>2. \A k \in First(l) .. End(l) - 1 : k \in 1 .. Visit(b)
    BY <1>2, <1>4 DEF End
  <2> QED BY <1>1, <2>1, <2>2
<1>8. \A k \in 1 .. End(l) - First(l) : l.ntb_list[Order[First(l) + k - 1]] \in NtbPtr
  <2> SUFFICES ASSUME NEW k \in 1 .. End(l) - First(l)
               PROVE  l.ntb_list[Order[First(l) + k - 1]] \in NtbPtr
    OBVIOUS
  <2>1. First(l) + k - 1 \in First(l) .. End(l) - 1
    BY <1>4
  <2> QED BY <1>1, <1>6, <2>1
<1> QED BY <1>4, <1>5, <1>6, <1>8 DEF Queue

\* push_ntb appends: list_back moves on, or its slot, the last one, is now occupied.
LEMMA PushAppends ==
  ASSUME NEW l, ListOK(l), NEW ntb \in NtbPtr, CanPush(l, ntb), ListOK(push_ntb(l, ntb))
  PROVE  Queue(push_ntb(l, ntb)) = Append(Queue(l), ntb)
<1> DEFINE m == push_ntb(l, ntb)
           b == l.list_back
           next == NextIndex(b, NCM_NTB_N)
           n == End(l) - First(l)
<1>1. /\ l \in ntb_list_t /\ l.ntb_list \in [Slots -> NtbPtr] /\ b \in Visited /\ b \in Slots
      /\ ntb # NULL /\ l.ntb_list[b] = NULL
  BY DEF ListOK, Visited, CanPush
<1>2. /\ m.ntb_list = [l.ntb_list EXCEPT ![b] = ntb]
      /\ m.list_front = l.list_front /\ m.list_back = next
  BY <1>1 DEF push_ntb, ntb_list_t
<1>3. /\ next \in Visited /\ next \in Slots /\ Visit(b) \in 1 .. 5 /\ Order[Visit(b)] = b
      /\ b = LastSlot => next = b
      /\ b # LastSlot => Visit(next) = Visit(b) + 1 /\ b < next /\ b \in Int /\ next \in Int
  BY <1>1, NextIndexVisited, PlaceFact DEF Visited
<1>4. ListOK(m)
  OBVIOUS
<1> HIDE DEF m, next
<1>5. First(m) = First(l) /\ End(l) = Visit(b)
  BY <1>1, <1>2, <1>3 DEF First, End
<1>6. End(m) = Visit(b) + 1
  <2>1. CASE b = LastSlot
    <3>1. m.list_back = b /\ m.ntb_list[b] # NULL
      BY <1>1, <1>2, <1>3, <2>1
    <3> QED BY <1>3, <3>1 DEF End
  <2>2. CASE b # LastSlot
    <3>1. l.ntb_list[next] = NULL
      <4>1. CASE next = LastSlot
        BY <2>2, <4>1 DEF ListOK
      <4>2. CASE next # LastSlot
        BY <1>3, <2>2, <4>2 DEF ListOK
      <4> QED BY <4>1, <4>2
    <3>2. m.ntb_list[next] = NULL
      BY <1>1, <1>2, <1>3, <2>2, <3>1
    <3> QED BY <1>2, <1>3, <2>2, <3>2 DEF End
  <2> QED BY <2>1, <2>2
<1>7. /\ First(l) \in 1 .. 5 /\ End(l) \in 1 .. 6 /\ First(l) <= End(l)
      /\ \A k \in First(l) .. End(l) - 1 : Order[k] \in Slots
      /\ Queue(l) \in [1 .. n -> NtbPtr]
  BY EndsFact
<1>8. Queue(m) \in [1 .. End(m) - First(m) -> NtbPtr]
  BY <1>4, EndsFact
<1>9. n \in Nat /\ End(m) - First(m) = n + 1 /\ First(m) + (n + 1) - 1 = Visit(b)
  BY <1>5, <1>6, <1>7
<1>10. Queue(m)[n + 1] = ntb
  <2>1. n + 1 \in 1 .. End(m) - First(m)
    BY <1>9
  <2>2. Queue(m)[n + 1] = m.ntb_list[Order[First(m) + (n + 1) - 1]]
    BY <2>1 DEF Queue
  <2> QED BY <1>1, <1>2, <1>3, <1>9, <2>2
<1>11. ASSUME NEW k \in 1 .. n PROVE Queue(m)[k] = Queue(l)[k]
  <2>1. k \in 1 .. End(m) - First(m) /\ k \in 1 .. End(l) - First(l)
    BY <1>9
  <2>2. /\ Queue(m)[k] = m.ntb_list[Order[First(l) + k - 1]]
        /\ Queue(l)[k] = l.ntb_list[Order[First(l) + k - 1]]
    BY <1>5, <2>1 DEF Queue
  <2>3. First(l) + k - 1 \in First(l) .. End(l) - 1 /\ First(l) + k - 1 \in 1 .. Visit(b)
        /\ First(l) + k - 1 # Visit(b)
    BY <1>5, <1>7
  <2>4. Order[First(l) + k - 1] \in Slots /\ Order[First(l) + k - 1] # b
    BY <1>1, <1>7, <2>3, PlaceFact
  <2> QED BY <1>1, <1>2, <2>2, <2>4
<1> HIDE DEF n
<1>12. Queue(m) = Append(Queue(l), ntb)
  BY <1>7, <1>8, <1>9, <1>10, <1>11, AppendIs
<1> QED BY <1>12 DEF m

\* pop_ntb takes the head: list_front moves on, or its slot, the last one, is now free.
LEMMA PopTakes ==
  ASSUME NEW l, ListOK(l), Popped(l) # NULL, ListOK(pop_ntb(l))
  PROVE  Queue(l) # <<>> /\ Popped(l) = Head(Queue(l)) /\ Queue(pop_ntb(l)) = Tail(Queue(l))
<1> DEFINE m == pop_ntb(l)
           f == l.list_front
           b == l.list_back
           next == NextIndex(f, NCM_NTB_N)
           n == End(l) - First(l)
<1>1. /\ l \in ntb_list_t /\ l.ntb_list \in [Slots -> NtbPtr] /\ f \in Visited /\ f \in Slots
      /\ b \in Visited /\ b \in Slots /\ f <= b /\ f \in Int /\ b \in Int /\ l.ntb_list[f] # NULL
  BY PlaceFact DEF ListOK, Visited, Popped
<1>2. /\ m.ntb_list = [l.ntb_list EXCEPT ![f] = NULL]
      /\ m.list_front = next /\ m.list_back = b
  BY <1>1 DEF pop_ntb, ntb_list_t
<1>3. /\ Visit(f) \in 1 .. 5 /\ Order[Visit(f)] = f /\ Visit(b) \in 1 .. 5
      /\ f = LastSlot => next = f
      /\ f # LastSlot => Visit(next) = Visit(f) + 1
  BY <1>1, NextIndexVisited, PlaceFact
<1>4. ListOK(m)
  OBVIOUS
<1> HIDE DEF m, next
<1>5. /\ First(l) \in 1 .. 5 /\ End(l) \in 1 .. 6 /\ First(l) <= End(l) /\ First(l) # End(l)
      /\ \A k \in First(l) .. End(l) - 1 : Order[k] \in Slots
      /\ Queue(l) \in [1 .. n -> NtbPtr]
  BY EndsFact
<1>6. Queue(m) \in [1 .. End(m) - First(m) -> NtbPtr]
  BY <1>4, EndsFact
<1>7. n \in Nat \ {0} /\ First(l) + 1 - 1 = Visit(f)
  BY <1>3, <1>5 DEF First
<1>8. Queue(l)[1] = Popped(l)
  <2>1. Queue(l)[1] = l.ntb_list[Order[First(l) + 1 - 1]]
    BY <1>7 DEF Queue
  <2> QED BY <1>3, <1>7, <2>1 DEF Popped
<1>9. CASE f = LastSlot
  <2>1. f = b
    BY <1>1, <1>9, NtbNAssumption DEF Slots, LastSlot
  <2>2. n = 1 /\ End(m) - First(m) = 0
    BY <1>1, <1>2, <1>3, <1>9, <2>1 DEF First, End
  <2>3. \A k \in 1 .. n - 1 : Queue(m)[k] = Queue(l)[k + 1]
    BY <2>2
  <2>4. Queue(m) \in [1 .. n - 1 -> NtbPtr]
    BY <1>6, <2>2
  <2> HIDE DEF n
  <2>5. Queue(l) # <<>> /\ Queue(l)[1] = Head(Queue(l)) /\ Queue(m) = Tail(Queue(l))
    BY <1>5, <1>7, <2>3, <2>4, TailIs
  <2> QED BY <1>8, <2>5 DEF m
<1>10. CASE f # LastSlot
  <2>1. f # b
    BY <1>1, <1>10 DEF ListOK
  <2>2. First(m) = First(l) + 1 /\ End(m) = End(l)
    BY <1>1, <1>2, <1>3, <1>10, <2>1 DEF First, End
  <2>3. End(m) - First(m) = n - 1
    BY <1>5, <2>2
  <2>4. ASSUME NEW k \in 1 .. n - 1 PROVE Queue(m)[k] = Queue(l)[k + 1]
    <3>1. k \in 1 .. End(m) - First(m) /\ k + 1 \in 1 .. End(l) - First(l)
      BY <1>5, <1>7, <2>3
    <3> DEFINE j == First(l) + k
    <3>2. First(m) + k - 1 = j /\ First(l) + (k + 1) - 1 = j
      BY <1>5, <2>2
    <3>3. Queue(m)[k] = m.ntb_list[Order[j]] /\ Queue(l)[k + 1] = l.ntb_list[Order[j]]
      BY <3>1, <3>2 DEF Queue
    <3>4. j \in First(l) .. End(l) - 1 /\ j # Visit(f)
      BY <1>5, <1>7
    <3>5. Order[j] \in Slots
      BY <1>5, <3>4
    <3>6. Order[j] # f
      <4>1. Visit(Order[j]) = j
        BY <1>5, <3>4, OrderFact
      <4> QED BY <3>4, <4>1
    <3> QED BY <1>1, <1>2, <3>3, <3>5, <3>6
  <2>5. Queue(m) \in [1 .. n - 1 -> NtbPtr]
    BY <1>6, <2>3
  <2> HIDE DEF n
  <2>6. Queue(l) # <<>> /\ Queue(l)[1] = Head(Queue(l)) /\ Queue(m) = Tail(Queue(l))
    BY <1>5, <1>7, <2>4, <2>5, TailIs
  <2> QED BY <1>8, <2>6 DEF m
<1> QED BY <1>9, <1>10

\* A list has an empty queue exactly when pop_ntb finds nothing at list_front.
LEMMA EmptyQueue ==
  ASSUME NEW l, ListOK(l)
  PROVE  Queue(l) = <<>> <=> Popped(l) = NULL
<1>1. CASE Popped(l) = NULL
  <2>1. End(l) - First(l) = 0
    BY <1>1, EndsFact
  <2>2. Queue(l) \in [1 .. 0 -> NtbPtr]
    BY <2>1, EndsFact
  <2>3. Queue(l) \in Seq(NtbPtr) /\ Len(Queue(l)) = 0
    BY <2>2 DEF Seq
  <2> QED BY <1>1, <2>3
<1>2. CASE Popped(l) # NULL
  <2>1. End(l) - First(l) \in Nat \ {0}
    BY <1>2, EndsFact
  <2> DEFINE n == End(l) - First(l)
  <2>2. Queue(l) \in [1 .. n -> NtbPtr]
    BY EndsFact
  <2> HIDE DEF n
  <2>3. n \in Nat \ {0}
    BY <2>1 DEF n
  <2>4. Queue(l) \in Seq(NtbPtr) /\ Len(Queue(l)) = n
    BY <2>2, <2>3 DEF Seq
  <2> QED BY <1>2, <2>3, <2>4
<1> QED BY <1>1, <1>2

\* A push is refused for NULL or for a list that holds something.
LEMMA RefusedPush ==
  ASSUME NEW l, ListOK(l), NEW ntb \in NtbPtr, ~CanPush(l, ntb)
  PROVE  ntb = NULL \/ Queue(l) # <<>>
<1> SUFFICES ASSUME ntb # NULL PROVE Popped(l) # NULL
  BY EmptyQueue
<1>1. l.ntb_list[l.list_back] # NULL
  BY DEF CanPush
<1>2. End(l) = Visit(l.list_back) + 1
  BY <1>1 DEF End
<1>3. /\ l.list_front \in Visited /\ l.list_back \in Visited /\ l.list_front <= l.list_back
      /\ l.list_front \in Int /\ l.list_back \in Int
  BY PlaceFact DEF ListOK
<1>4. /\ Visit(l.list_front) <= Visit(l.list_back)
      /\ Visit(l.list_front) \in 1 .. 5 /\ Visit(l.list_back) \in 1 .. 5
  BY <1>3, PlaceFact
<1>5. First(l) # End(l)
  BY <1>2, <1>4 DEF First
<1> QED BY <1>5, EndsFact

\* A step of the list is a step of the FIFO.
LEMMA ListSteps == ListInv /\ ListInv' /\ [ListNext]_listVars => [Fifo!Next]_Fifo!vars
<1> SUFFICES ASSUME ListInv, ListInv', [ListNext]_listVars
             PROVE  [Fifo!Next]_Fifo!vars
  OBVIOUS
<1>0. ListOK(list) /\ ListOK(list') /\ Contents = Queue(list) /\ Contents' = Queue(list')
  BY ListInvOK
<1>1. ASSUME NEW ntb \in NtbPtr, Push(ntb) PROVE Fifo!Push(ntb)
  <2>1. list' = push_ntb(list, ntb) /\ popped' = popped
    BY <1>1 DEF Push
  <2>2. CASE CanPush(list, ntb)
    <3>1. Contents' = Append(Contents, ntb)
      BY <1>0, <2>1, <2>2, PushAppends
    <3>2. pushed' = TRUE /\ ntb # NULL
      BY <1>1, <2>2, Zenon DEF Push, CanPush
    <3> QED BY <2>1, <3>1, <3>2, Zenon DEF Fifo!Push
  <2>3. CASE ~CanPush(list, ntb)
    <3>1. list' = list
      BY <2>1, <2>3 DEF push_ntb
    <3>2. Contents' = Contents
      BY <1>0, <3>1
    <3>3. pushed' = FALSE
      BY <1>1, <2>3, Zenon DEF Push, CanPush
    <3>4. ntb = NULL \/ Contents # <<>>
      BY <1>0, <2>3, RefusedPush
    <3> QED BY <2>1, <3>2, <3>3, <3>4, Zenon DEF Fifo!Push
  <2> QED BY <2>2, <2>3
<1>2. ASSUME Pop PROVE Fifo!Pop
  <2>1. list' = pop_ntb(list) /\ popped' = Popped(list) /\ pushed' = pushed
    BY <1>2 DEF Pop
  <2>2. CASE Popped(list) # NULL
    <3>1. Contents # <<>> /\ popped' = Head(Contents) /\ Contents' = Tail(Contents)
      BY <1>0, <2>1, <2>2, PopTakes
    <3> QED BY <2>1, <3>1, Zenon DEF Fifo!Pop
  <2>3. CASE Popped(list) = NULL
    <3>1. list' = list
      BY <2>1, <2>3 DEF pop_ntb
    <3>2. Contents = <<>> /\ Contents' = Contents
      BY <1>0, <2>3, <3>1, EmptyQueue
    <3> QED BY <2>1, <2>3, <3>2, Zenon DEF Fifo!Pop
  <2> QED BY <2>2, <2>3
<1>3. CASE UNCHANGED listVars
  <2>1. Contents' = Contents
    BY <1>0, <1>3 DEF listVars
  <2> QED BY <1>3, <2>1, Zenon DEF listVars, Fifo!vars
<1>4. ASSUME ListNext PROVE Fifo!Next
  <2>1. CASE \E ntb \in NtbPtr : Push(ntb)
    BY <1>1, <2>1, Zenon DEF Fifo!Next, NtbPtr
  <2>2. CASE Pop
    BY <1>2, <2>2 DEF Fifo!Next
  <2> QED BY <1>4, <2>1, <2>2 DEF ListNext
<1> QED BY <1>3, <1>4

\* The zeroed list is the empty FIFO.
LEMMA ListStarts == ListInit => Fifo!Init
<1> SUFFICES ASSUME ListInit PROVE Fifo!Init
  OBVIOUS
<1>1. ListOK(list) /\ Contents = Queue(list)
  BY ListInvInit, ListInvOK
<1>2. Popped(list) = NULL
  <2>1. 0 \in Slots
    BY NtbNAssumption DEF Slots
  <2> QED BY <2>1 DEF ListInit, EmptyList, Popped
<1>3. Contents = <<>>
  BY <1>1, <1>2, EmptyQueue
<1> QED BY <1>3, Zenon DEF ListInit, Fifo!Init

\* push_ntb and pop_ntb implement a FIFO, for every size of the list: no NTB is lost,
\* duplicated or overtaken, whatever the calls, and a refused push changes nothing
\* (struct.c:42-90).
THEOREM ListImplements == ListSpec => ImplementsFifo
<1>1. ListSpec => []ListInv
  BY ListInvInit, ListInvStep, PTL DEF ListSpec
<1>2. QED
  BY <1>1, ListStarts, ListSteps, PTL DEF ListSpec, ImplementsFifo, Fifo!Spec
=============================================================================
