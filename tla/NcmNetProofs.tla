--------------------------- MODULE NcmNetProofs ---------------------------
(***************************************************************************)
(* The receive half, for any number of blocks and of datagrams in a block: *)
(* NcmRx keeps RxTypeOK, NoWriteWhileRead and FramesKept.  The proof rests *)
(* on a fact of its own interest: no second block is ever received,        *)
(* because rx_usbd_ntb is never set back to NULL.                          *)
(*                                                                         *)
(* Then the whole class: it does to the transmit half what NcmTx allows    *)
(* and to the receive half what NcmRx allows, so that the theorems about   *)
(* either half hold when the handlers of net.c interleave the two.         *)
(***************************************************************************)
EXTENDS NcmNet, NcmTxProofs

rx_t ==
  [free : ntb_list_t, wait : ntb_list_t, usbd : NtbPtr, user : NtbPtr,
   index : 0 .. MaxDatagrams - 1,
   ntb : [Ntbs -> [block : 0 .. MaxBlocks, count : 0 .. MaxDatagrams]]]

\* Before the first block: nothing waits and nothing is read.
Unread(r) == r.wait = EmptyList /\ r.user = NULL /\ r.index = 0

\* After it: the NTB of block 1 stays with the user, and with the USB driver.
Reading(r) ==
  /\ \A i \in Slots : r.wait.ntb_list[i] = NULL
  /\ r.usbd # NULL /\ r.user # NULL
  /\ r.ntb[r.user].block = 1
  /\ r.index < r.ntb[r.user].count

\* Datagram k was taken last; the next one is k + 1, or k again if it is the last.
TakenUpTo(r, k) == r.index = k + 1 \/ (r.index = k /\ k + 1 = r.ntb[r.user].count)

\* Before and after the first block.
Phase0 ==
  /\ blocks = 0 /\ Unread(rx)
  /\ received_frame = NoFrame /\ last = NoFrame
  /\ out_transfer => rx.usbd # NULL

Phase1 ==
  /\ blocks = 1 /\ Reading(rx)
  /\ \E k \in 0 .. MaxDatagrams - 1 : last = <<1, k>> /\ TakenUpTo(rx, k)
  /\ ~out_transfer

\* The inductive invariant.
RxInv ==
  /\ interface_active \in AltSettings
  /\ rx \in rx_t
  /\ out_transfer \in BOOLEAN
  /\ blocks \in 0 .. MaxBlocks
  /\ received_frame \in Frames \cup {NoFrame}
  /\ serviced \subseteq Frames
  /\ servicing \in BOOLEAN
  /\ servicing => received_frame # NoFrame /\ received_frame \in serviced
  /\ Phase0 \/ Phase1

-----------------------------------------------------------------------------
\* The numbers: two NTBs, two slots, and the step of an index.
LEMMA RxTwo ==
  /\ Slots = {0, 1} /\ Ntbs = {0, 1} /\ NtbPtr = {0, 1, NULL} /\ NULL \notin {0, 1}
  /\ NextIndex(0, NCM_NTB_N) = 1 /\ NextIndex(1, NCM_NTB_N) = 1
  BY TwoNtbs, NullAssumption DEF Slots, Ntbs, NtbPtr, NextIndex

\* push_ntb and pop_ntb leave a list.
LEMMA ListCalls ==
  ASSUME NEW l \in ntb_list_t, NEW n \in NtbPtr
  PROVE  push_ntb(l, n) \in ntb_list_t /\ pop_ntb(l) \in ntb_list_t /\ Popped(l) \in NtbPtr
  <1>1. /\ l.ntb_list \in [Slots -> NtbPtr] /\ l.list_front \in Slots /\ l.list_back \in Slots
        /\ NULL \in NtbPtr
    BY RxTwo DEF ntb_list_t
  <1>2. NextIndex(l.list_front, NCM_NTB_N) \in Slots /\ NextIndex(l.list_back, NCM_NTB_N) \in Slots
    BY <1>1, RxTwo
  <1> QED
    BY <1>1, <1>2 DEF ntb_list_t, push_ntb, pop_ntb, Popped

\* An empty list stays empty when popped, and after one push and one pop.
LEMMA EmptyListFact ==
  /\ EmptyList \in ntb_list_t
  /\ Popped(EmptyList) = NULL
  /\ pop_ntb(EmptyList) = EmptyList
  BY RxTwo DEF EmptyList, ntb_list_t, Popped, pop_ntb

\* An NTB that is pushed onto the empty list comes back from it and leaves it empty.
LEMMA PushPop ==
  ASSUME NEW n \in Ntbs
  PROVE  /\ Popped(push_ntb(EmptyList, n)) = n
         /\ \A i \in Slots : pop_ntb(push_ntb(EmptyList, n)).ntb_list[i] = NULL
  <1>1. push_ntb(EmptyList, n) = [ntb_list |-> [EmptyList.ntb_list EXCEPT ![0] = n],
                                  list_front |-> 0, list_back |-> 1]
    BY RxTwo DEF EmptyList, push_ntb, CanPush
  <1> HIDE DEF push_ntb
  <1> QED
    BY <1>1, RxTwo DEF EmptyList, Popped, pop_ntb

\* The fields of a record of rx_t.
LEMMA RxFields ==
  ASSUME NEW r \in rx_t
  PROVE  /\ r.free \in ntb_list_t /\ r.wait \in ntb_list_t
         /\ r.usbd \in NtbPtr /\ r.user \in NtbPtr
         /\ r.index \in 0 .. MaxDatagrams - 1
         /\ r.ntb \in [Ntbs -> [block : 0 .. MaxBlocks, count : 0 .. MaxDatagrams]]
  BY DEF rx_t

-----------------------------------------------------------------------------
\* Before the first block rx_update_user_ntb finds nothing.
LEMMA UpdateUnread ==
  ASSUME NEW r \in rx_t, Unread(r), NEW slot
  PROVE  /\ ~Takes(Fetch(r), slot)
         /\ rx_update_user_ntb(r, slot) \in rx_t
         /\ Unread(rx_update_user_ntb(r, slot))
         /\ rx_update_user_ntb(r, slot).usbd = r.usbd
  <1>1. Fetch(r) = [r EXCEPT !.user = NULL, !.wait = EmptyList, !.index = 0]
    BY EmptyListFact DEF Fetch, Unread
  <1>2. NULL \in NtbPtr /\ 0 \in 0 .. MaxDatagrams - 1
    BY RxTwo, RxAssumption
  <1> DEFINE f == [r EXCEPT !.user = NULL, !.wait = EmptyList, !.index = 0]
  <1>3. f \in rx_t /\ f.user = NULL /\ f.wait = EmptyList /\ f.index = 0 /\ f.usbd = r.usbd
    BY <1>2, EmptyListFact DEF rx_t
  <1> HIDE DEF f
  <1>4. ~Takes(f, slot)
    BY <1>3 DEF Takes
  <1> QED
    BY <1>1, <1>3, <1>4 DEF rx_update_user_ntb, Unread, f

\* While a block is read, rx_update_user_ntb takes one datagram if the slot is empty.
LEMMA UpdateReading ==
  ASSUME NEW r \in rx_t, Reading(r), NEW slot
  PROVE  /\ Fetch(r) = r
         /\ Takes(r, slot) <=> slot = NoFrame
         /\ rx_update_user_ntb(r, slot) \in rx_t
         /\ Reading(rx_update_user_ntb(r, slot))
         /\ slot # NoFrame => rx_update_user_ntb(r, slot) = r
         /\ slot = NoFrame => TakenUpTo(rx_update_user_ntb(r, slot), r.index)
  <1>1. Fetch(r) = r /\ (Takes(r, slot) <=> slot = NoFrame)
    BY DEF Fetch, Takes, Reading
  <1>2. CASE slot # NoFrame
    BY <1>1, <1>2 DEF rx_update_user_ntb
  <1>3. CASE slot = NoFrame
    <2>1. rx_update_user_ntb(r, slot) = Step(r)
      BY <1>1, <1>3 DEF rx_update_user_ntb
    <2>2. /\ r.user \in Ntbs /\ r.index \in Int /\ r.index + 1 \in Int /\ MaxDatagrams \in Int
          /\ r.index >= 0
          /\ r.ntb[r.user].count \in Int /\ r.ntb[r.user].count <= MaxDatagrams
          /\ r.index < r.ntb[r.user].count
      BY RxFields, RxAssumption DEF Reading, NtbPtr
    <2>3. CASE r.index + 1 < r.ntb[r.user].count
      <3> DEFINE u == [r EXCEPT !.index = r.index + 1]
      <3>1. r.index + 1 \in 0 .. MaxDatagrams - 1
        BY <2>2, <2>3
      <3>2. Step(r) = u
        BY <2>3 DEF Step
      <3>3. /\ u \in rx_t
            /\ u.index = r.index + 1 /\ u.wait = r.wait /\ u.usbd = r.usbd
            /\ u.user = r.user /\ u.ntb = r.ntb
        BY <3>1 DEF rx_t
      <3> HIDE DEF u
      <3> QED
        BY <1>1, <1>3, <2>1, <2>3, <3>2, <3>3 DEF Reading, TakenUpTo
    <2>4. CASE ~(r.index + 1 < r.ntb[r.user].count)
      <3> DEFINE free == push_ntb(r.free, r.user)
                 u == [r EXCEPT !.free = free]
      <3>1. free \in ntb_list_t
        BY RxFields, ListCalls
      <3>2. Step(r) = u
        BY <2>4 DEF Step
      <3> HIDE DEF free
      <3>3. /\ u \in rx_t
            /\ u.index = r.index /\ u.wait = r.wait /\ u.usbd = r.usbd
            /\ u.user = r.user /\ u.ntb = r.ntb
        BY <3>1 DEF rx_t
      <3>4. r.index + 1 = r.ntb[r.user].count
        BY <2>2, <2>4
      <3> HIDE DEF u
      <3> QED
        BY <1>1, <1>3, <2>1, <3>2, <3>3, <3>4 DEF Reading, TakenUpTo
    <2> QED
      BY <2>3, <2>4
  <1> QED
    BY <1>2, <1>3

\* rx_try_start changes the free list and the NTB of the USB driver only; when the
\* USB driver holds an NTB it changes nothing.
LEMMA StartReception ==
  ASSUME NEW r \in rx_t, NEW pending, rx_try_start(r, pending)
  PROVE  /\ rx' \in rx_t
         /\ rx'.wait = r.wait /\ rx'.user = r.user /\ rx'.index = r.index /\ rx'.ntb = r.ntb
         /\ r.usbd # NULL => rx' = r /\ out_transfer' = pending
         /\ r.usbd = NULL => out_transfer' = pending \/ rx'.usbd # NULL
  <1>1. CASE ~Starts(r)
    BY <1>1 DEF rx_try_start
  <1>2. CASE Starts(r)
    <2> DEFINE usbd == Popped(r.free)
               rest == pop_ntb(r.free)
               back == push_ntb(rest, usbd)
               taken == [r EXCEPT !.usbd = usbd, !.free = rest]
               refused == [r EXCEPT !.usbd = usbd, !.free = back]
    <2>1. usbd # NULL /\ usbd \in NtbPtr /\ rest \in ntb_list_t /\ back \in ntb_list_t /\ r.usbd = NULL
      BY <1>2, RxFields, ListCalls DEF Starts
    <2>2. rx' = taken \/ (rx' = refused /\ out_transfer' = pending)
      BY <1>2 DEF rx_try_start, rx_t
    <2> HIDE DEF usbd, rest, back
    <2>3. /\ taken \in rx_t /\ taken.usbd = usbd
          /\ taken.wait = r.wait /\ taken.user = r.user /\ taken.index = r.index /\ taken.ntb = r.ntb
      BY <2>1 DEF rx_t
    <2>4. /\ refused \in rx_t /\ refused.usbd = usbd
          /\ refused.wait = r.wait /\ refused.user = r.user /\ refused.index = r.index
          /\ refused.ntb = r.ntb
      BY <2>1 DEF rx_t
    <2> HIDE DEF taken, refused
    <2> QED
      BY <2>1, <2>2, <2>3, <2>4
  <1> QED
    BY <1>1, <1>2

-----------------------------------------------------------------------------
\* Before the first block net_rx_renew can only start a reception.
LEMMA RenewUnread ==
  ASSUME rx \in rx_t, Unread(rx), NEW slot, NEW pending, Renew(rx, slot, pending)
  PROVE  /\ rx' \in rx_t /\ Unread(rx')
         /\ last' = last /\ received_frame' = slot
         /\ rx'.usbd # NULL \/ (out_transfer' = pending /\ rx.usbd = NULL)
  <1> DEFINE u == rx_update_user_ntb(rx, slot)
  <1>1. ~Takes(Fetch(rx), slot) /\ u \in rx_t /\ Unread(u) /\ u.usbd = rx.usbd
    BY UpdateUnread
  <1>2. rx_try_start(u, pending) /\ net_rx_cb(rx, slot)
    BY DEF Renew
  <1>3. last' = last /\ received_frame' = slot
    BY <1>1, <1>2 DEF net_rx_cb
  <1> HIDE DEF u
  <1> QED
    BY <1>1, <1>2, <1>3, StartReception DEF Unread

\* While a block is read net_rx_renew takes one datagram if the slot is empty.
LEMMA RenewReading ==
  ASSUME NEW r \in rx_t, Reading(r), NEW slot, NEW pending, Renew(r, slot, pending)
  PROVE  /\ rx' \in rx_t /\ Reading(rx') /\ out_transfer' = pending
         /\ slot # NoFrame => rx' = r /\ last' = last /\ received_frame' = slot
         /\ slot = NoFrame => /\ TakenUpTo(rx', r.index)
                              /\ last' = <<1, r.index>>
                              /\ received_frame' \in {<<1, r.index>>, NoFrame}
  <1> DEFINE u == rx_update_user_ntb(r, slot)
  <1>1. /\ Fetch(r) = r /\ (Takes(r, slot) <=> slot = NoFrame)
        /\ u \in rx_t /\ Reading(u)
        /\ slot # NoFrame => u = r
        /\ slot = NoFrame => TakenUpTo(u, r.index)
    BY UpdateReading
  <1>2. rx_try_start(u, pending) /\ net_rx_cb(r, slot)
    BY DEF Renew
  <1>3. Current(r) = <<1, r.index>>
    BY DEF Current, Reading
  <1>4. /\ slot # NoFrame => last' = last /\ received_frame' = slot
        /\ slot = NoFrame => last' = <<1, r.index>> /\ received_frame' \in {<<1, r.index>>, NoFrame}
    BY <1>1, <1>2, <1>3 DEF net_rx_cb
  <1> HIDE DEF u
  <1>5. rx' = u /\ out_transfer' = pending
    BY <1>1, <1>2, StartReception DEF Reading
  <1> QED
    BY <1>1, <1>4, <1>5

\* The first block goes through the wait list to the user at once, and its first
\* datagram is taken.
LEMMA FirstBlock ==
  ASSUME rx \in rx_t, Unread(rx), rx.usbd # NULL, MaxBlocks \in Nat \ {0},
         NEW count \in 1 .. MaxDatagrams,
         Renew([rx EXCEPT !.ntb[rx.usbd] = [block |-> 1, count |-> count],
                          !.wait = push_ntb(@, rx.usbd)], NoFrame, FALSE)
  PROVE  /\ rx' \in rx_t /\ Reading(rx') /\ TakenUpTo(rx', 0)
         /\ last' = <<1, 0>> /\ received_frame' \in {<<1, 0>>, NoFrame}
         /\ out_transfer' = FALSE
  <1> DEFINE n == rx.usbd
             new == [block |-> 1, count |-> count]
             all == [rx.ntb EXCEPT ![n] = new]
             queued == push_ntb(EmptyList, n)
             rest == pop_ntb(queued)
             r == [rx EXCEPT !.ntb = all, !.wait = queued]
             f == [rx EXCEPT !.ntb = all, !.wait = rest, !.user = n, !.index = 0]
  <1>1. n \in Ntbs /\ n \in NtbPtr /\ n # NULL
    BY RxFields DEF NtbPtr
  <1>2. new \in [block : 0 .. MaxBlocks, count : 0 .. MaxDatagrams] /\ new.block = 1 /\ 0 < new.count
    BY RxAssumption
  <1>3. Renew(r, NoFrame, FALSE)
    BY DEF Unread, rx_t
  <1> HIDE DEF new
  <1>4. all \in [Ntbs -> [block : 0 .. MaxBlocks, count : 0 .. MaxDatagrams]] /\ all[n] = new
    BY <1>1, <1>2, RxFields
  <1>5. /\ queued \in ntb_list_t /\ rest \in ntb_list_t /\ Popped(queued) = n
        /\ \A i \in Slots : rest.ntb_list[i] = NULL
    BY <1>1, EmptyListFact, ListCalls, PushPop
  <1> HIDE DEF all, queued
  <1>6. r.user = NULL /\ r.wait = queued
    BY DEF Unread, rx_t
  <1>7. Fetch(r) = f
    BY <1>5, <1>6 DEF Fetch, rx_t
  <1> HIDE DEF rest
  <1>8. 0 \in 0 .. MaxDatagrams - 1
    BY RxAssumption
  <1>9. /\ f \in rx_t /\ f.usbd = n /\ f.user = n /\ f.index = 0 /\ f.ntb = all /\ f.wait = rest
    BY <1>1, <1>4, <1>5, <1>8 DEF rx_t
  <1> HIDE DEF f, r
  <1>10. Reading(f)
    BY <1>1, <1>2, <1>4, <1>5, <1>9 DEF Reading
  <1>11. Fetch(f) = f
    BY <1>10, <1>9, UpdateReading
  <1>12. Renew(f, NoFrame, FALSE)
    BY <1>3, <1>7, <1>11 DEF Renew, net_rx_cb, rx_update_user_ntb
  <1> QED
    BY <1>9, <1>10, <1>12, RenewReading

-----------------------------------------------------------------------------
\* What FramesKept says of one step.
KeptStep ==
  /\ Follows(last, last')
  /\ received_frame \notin {NoFrame, received_frame'} => Serviced

\* The frames of block 1.
LEMMA FrameFact ==
  ASSUME MaxBlocks \in Nat \ {0}, NEW k \in 0 .. MaxDatagrams - 1
  PROVE  <<1, k>> \in Frames
  BY DEF Frames

\* The initial state satisfies the invariant.
LEMMA RxInvInit == RxInit => RxInv
  <1> SUFFICES ASSUME RxInit PROVE RxInv
    OBVIOUS
  <1>1. AllFree \in ntb_list_t
    BY EmptyListFact, ListCalls, RxTwo DEF AllFree
  <1> HIDE DEF AllFree
  <1>2. [n \in Ntbs |-> [block |-> 0, count |-> 0]]
          \in [Ntbs -> [block : 0 .. MaxBlocks, count : 0 .. MaxDatagrams]]
    BY RxAssumption
  <1>3. NULL \in NtbPtr /\ 0 \in 0 .. MaxDatagrams - 1 /\ 0 \in 0 .. MaxBlocks
    BY RxTwo, RxAssumption
  <1>4. rx \in rx_t
    BY <1>1, <1>2, <1>3, EmptyListFact DEF RxInit, rx_t
  <1>5. Unread(rx)
    BY DEF RxInit, Unread
  <1>6. ~out_transfer /\ out_transfer \in BOOLEAN /\ ~servicing /\ servicing \in BOOLEAN
    BY Zenon DEF RxInit
  <1> QED
    BY <1>3, <1>4, <1>5, <1>6 DEF RxInit, RxInv, Phase0, AltSettings

\* A call that renews the reception while block 1 is read: what becomes of the
\* frames, for a slot that is as it was or was just emptied.
LEMMA RenewKeeps ==
  ASSUME RxInv, Phase1, NEW slot \in {received_frame, NoFrame}, Renew(rx, slot, out_transfer),
         blocks' = blocks
  PROVE  /\ rx' \in rx_t /\ Phase1' /\ received_frame' \in Frames \cup {NoFrame}
         /\ Follows(last, last')
         /\ slot # NoFrame => received_frame' = slot
  <1>1. PICK k \in 0 .. MaxDatagrams - 1 : last = <<1, k>> /\ TakenUpTo(rx, k)
    BY DEF Phase1
  <1>2. rx \in rx_t /\ Reading(rx) /\ ~out_transfer /\ blocks = 1 /\ MaxBlocks \in Nat \ {0}
    BY RxAssumption DEF RxInv, Phase1
  <1>3. /\ rx' \in rx_t /\ Reading(rx') /\ out_transfer' = out_transfer
        /\ slot # NoFrame => rx' = rx /\ last' = last /\ received_frame' = slot
        /\ slot = NoFrame => /\ TakenUpTo(rx', rx.index)
                             /\ last' = <<1, rx.index>>
                             /\ received_frame' \in {<<1, rx.index>>, NoFrame}
    BY <1>2, RenewReading
  <1>4. rx.index \in 0 .. MaxDatagrams - 1
    BY <1>2, RxFields
  <1>5. CASE slot # NoFrame
    BY <1>1, <1>2, <1>3, <1>5 DEF Phase1, Follows, RxInv
  <1>6. CASE slot = NoFrame
    <2>1. <<1, rx.index>> \in Frames
      BY <1>2, <1>4, FrameFact
    <2>2. Phase1'
      BY <1>2, <1>3, <1>4, <1>6 DEF Phase1
    <2>3. rx.index = k + 1 \/ rx.index = k
      BY <1>1 DEF TakenUpTo
    <2>4. last[1] = 1 /\ last[2] = k
      BY <1>1
    <2>5. Follows(last, last')
      BY <1>1, <1>3, <1>6, <2>3, <2>4 DEF Follows
    <2> QED
      BY <1>3, <1>6, <2>1, <2>2, <2>5
  <1> QED
    BY <1>5, <1>6

\* Every step keeps the invariant and the frames.
LEMMA RxInvStep == RxInv /\ [RxNext]_rxVars => RxInv' /\ KeptStep
  <1> SUFFICES ASSUME RxInv, [RxNext]_rxVars PROVE RxInv' /\ KeptStep
    OBVIOUS
  <1>0. /\ rx \in rx_t /\ blocks \in 0 .. MaxBlocks
        /\ received_frame \in Frames \cup {NoFrame} /\ serviced \subseteq Frames
        /\ interface_active \in AltSettings /\ out_transfer \in BOOLEAN
        /\ servicing \in BOOLEAN
        /\ servicing => received_frame # NoFrame /\ received_frame \in serviced
        /\ Phase0 \/ Phase1
    BY DEF RxInv
  <1>1. CASE net_rx_renew
    <2> USE <1>1 DEF net_rx_renew
    <2>1. CASE Phase0
      <3>1. /\ rx' \in rx_t /\ Unread(rx') /\ last' = last /\ received_frame' = received_frame
            /\ rx'.usbd # NULL \/ (out_transfer' = out_transfer /\ rx.usbd = NULL)
        BY <1>0, <2>1, RenewUnread DEF Phase0
      <3>2. out_transfer' \in BOOLEAN
        BY <1>0, Zenon DEF Renew, rx_try_start
      <3>3. Phase0'
        BY <2>1, <3>1 DEF Phase0
      <3> QED
        BY <1>0, <3>1, <3>2, <3>3 DEF KeptStep, Follows, RxInv
    <2>2. CASE Phase1
      <3>1. /\ rx' \in rx_t /\ Phase1' /\ received_frame' \in Frames \cup {NoFrame}
            /\ Follows(last, last')
            /\ received_frame # NoFrame => received_frame' = received_frame
        BY <2>2, RenewKeeps
      <3>2. out_transfer' \in BOOLEAN
        BY <1>0, Zenon DEF Renew, rx_try_start
      <3> QED
        BY <1>0, <3>1, <3>2 DEF KeptStep, RxInv
    <2> QED
      BY <1>0, <2>1, <2>2
  <1>2. CASE service_traffic
    <2> USE <1>2 DEF service_traffic
    <2>1. Phase1
      BY <1>0 DEF Phase0
    <2>2. Phase1'
      BY <2>1 DEF Phase1
    <2>3. serviced' \subseteq Frames /\ received_frame \in serviced'
      BY <1>0
    <2>4. servicing' \in BOOLEAN
      BY Zenon
    <2> QED
      BY <1>0, <2>2, <2>3, <2>4 DEF KeptStep, Follows, RxInv
  <1>7. CASE service_traffic_done
    <2> USE <1>7 DEF service_traffic_done
    <2>1. Phase1
      BY <1>0 DEF Phase0
    <2>2. /\ rx' \in rx_t /\ Phase1' /\ received_frame' \in Frames \cup {NoFrame}
          /\ Follows(last, last')
      BY <2>1, RenewKeeps
    <2>3. out_transfer' \in BOOLEAN
      BY <1>0, Zenon DEF Renew, rx_try_start
    <2>4. ~servicing' /\ servicing' \in BOOLEAN
      BY Zenon
    <2>5. KeptStep
      BY <1>0, <2>2, <2>4 DEF KeptStep, Serviced
    <2> QED
      BY <1>0, <2>2, <2>3, <2>4, <2>5 DEF RxInv
  <1>3. ASSUME NEW count \in 1 .. MaxDatagrams, RxTransferOut(count)
        PROVE  RxInv' /\ KeptStep
    <2> USE <1>3 DEF RxTransferOut
    <2>1. Phase0 /\ rx.usbd # NULL
      BY <1>0 DEF Phase0, Phase1
    <2>2. blocks' = 1 /\ MaxBlocks \in Nat \ {0} /\ received_frame = NoFrame /\ last = NoFrame /\ Unread(rx)
      BY <2>1, RxAssumption, SMTT(30) DEF Phase0
    <2>3. /\ rx' \in rx_t /\ Reading(rx') /\ TakenUpTo(rx', 0)
          /\ last' = <<1, 0>> /\ received_frame' \in {<<1, 0>>, NoFrame}
          /\ out_transfer' = FALSE
      BY <1>0, <2>1, <2>2, FirstBlock
    <2>4. 0 \in 0 .. MaxDatagrams - 1
      BY RxAssumption
    <2>5. <<1, 0>> \in Frames
      BY <2>2, <2>4, FrameFact
    <2>6. Phase1'
      BY <2>2, <2>3, <2>4 DEF Phase1
    <2>7. KeptStep
      BY <2>2, <2>3 DEF KeptStep, Follows, NoFrame
    <2>8. out_transfer' \in BOOLEAN
      BY <2>3, Zenon
    <2> QED
      BY <1>0, <2>2, <2>3, <2>5, <2>6, <2>7, <2>8 DEF RxInv
  <1>4. CASE RxTransferIn
    <2> USE <1>4 DEF RxTransferIn
    <2> DEFINE free == push_ntb(rx.free, rx.usbd)
    <2>1. free \in ntb_list_t /\ rx' = [rx EXCEPT !.free = free]
      BY <1>0, RxFields, ListCalls
    <2> HIDE DEF free
    <2>2. /\ rx' \in rx_t /\ rx'.wait = rx.wait /\ rx'.user = rx.user /\ rx'.index = rx.index
          /\ rx'.ntb = rx.ntb /\ rx'.usbd = rx.usbd
      BY <1>0, <2>1 DEF rx_t
    <2>3. Phase0' \/ Phase1'
      BY <1>0, <2>2 DEF Phase0, Phase1, Unread, Reading, TakenUpTo
    <2> QED
      BY <1>0, <2>2, <2>3 DEF KeptStep, Follows, RxInv
  <1>5. ASSUME NEW alt \in AltSettings, RxSetInterface(alt)
        PROVE  RxInv' /\ KeptStep
    <2> USE <1>5 DEF RxSetInterface
    <2>1. CASE alt = 0
      BY <1>0, <2>1 DEF KeptStep, Follows, RxInv, Phase0, Phase1
    <2>2. CASE alt # 0 /\ Phase0
      <3>1. /\ ~Takes(Fetch(rx), received_frame)
            /\ rx' \in rx_t /\ Unread(rx') /\ rx'.usbd = rx.usbd
        BY <1>0, <2>2, UpdateUnread DEF Phase0
      <3>2. last' = last /\ received_frame' = received_frame
        BY <2>2, <3>1 DEF net_rx_cb
      <3>3. Phase0'
        BY <2>2, <3>1, <3>2 DEF Phase0
      <3> QED
        BY <1>0, <3>1, <3>2, <3>3 DEF KeptStep, Follows, RxInv
    <2>3. CASE alt # 0 /\ Phase1
      <3>1. Renew(rx, received_frame, out_transfer)
        <4>1. rx' = rx_update_user_ntb(rx, received_frame) /\ net_rx_cb(rx, received_frame)
          BY <2>3
        <4>2. Reading(rx')
          BY <1>0, <2>3, <4>1, UpdateReading DEF Phase1
        <4>3. ~Starts(rx')
          BY <4>2 DEF Starts, Reading
        <4> QED
          BY <4>1, <4>3 DEF Renew, rx_try_start
      <3>2. /\ rx' \in rx_t /\ Phase1' /\ received_frame' \in Frames \cup {NoFrame}
            /\ Follows(last, last')
            /\ received_frame # NoFrame => received_frame' = received_frame
        BY <2>3, <3>1, RenewKeeps
      <3> QED
        BY <1>0, <3>2 DEF KeptStep, RxInv
    <2> QED
      BY <1>0, <2>1, <2>2, <2>3
  <1>6. CASE UNCHANGED rxVars
    BY <1>0, <1>6 DEF rxVars, rxOwn, KeptStep, Follows, RxInv, Phase0, Phase1
  <1> QED
    BY <1>1, <1>2, <1>3, <1>4, <1>5, <1>6, <1>7, Zenon DEF RxNext

\* The invariant implies the properties of a state.
LEMMA RxInvImplies == RxInv => RxTypeOK /\ NoWriteWhileRead /\ blocks <= 1
  <1> SUFFICES ASSUME RxInv PROVE RxTypeOK /\ NoWriteWhileRead /\ blocks <= 1
    OBVIOUS
  <1>1. last \in Frames \cup {NoFrame}
    BY RxAssumption, FrameFact DEF RxInv, Phase0, Phase1
  <1>6. {out_transfer, servicing} \subseteq BOOLEAN
    BY Zenon DEF RxInv
  <1>2. RxTypeOK
    BY <1>1, <1>6, Zenon DEF RxInv, RxTypeOK, rx_t
  <1>3. Held(EmptyList) = {}
    BY DEF Held, EmptyList
  <1>4. NoWriteWhileRead
    BY <1>3 DEF RxInv, Phase0, Phase1, Unread, NoWriteWhileRead
  <1>5. blocks <= 1
    BY DEF RxInv, Phase0, Phase1
  <1> QED
    BY <1>2, <1>4, <1>5

\* Whatever the order of completions, SET_INTERFACE and calls of net_rx_renew, the
\* fields keep their types and the USB driver does not write into an NTB that waits
\* or is read (rx.c:20-49, net.c:67).
THEOREM RxSafe == RxSpec => [](RxTypeOK /\ NoWriteWhileRead)
  BY RxInvInit, RxInvStep, RxInvImplies, PTL DEF RxSpec

\* No second block is ever received: rx_usbd_ntb keeps pointing to the first NTB, so
\* rx_try_start does not start again (rx.c:46, net.c:64-72).
THEOREM OneBlock == RxSpec => [](blocks <= 1)
  BY RxInvInit, RxInvStep, RxInvImplies, PTL DEF RxSpec

\* The datagrams of the block are taken in the order of its table, none is passed
\* over, and a stored frame stays until lwIP is done with it
\* (rx.c:26-39, main.c:117, 145-152).
THEOREM RxKept == RxSpec => FramesKept
  <1>1. RxInv /\ [RxNext]_rxVars => [Follows(last, last')]_rxVars
    BY RxInvStep DEF KeptStep
  <1>2. RxInv /\ [RxNext]_rxVars =>
          [received_frame \notin {NoFrame, received_frame'} => Serviced]_rxVars
    BY RxInvStep DEF KeptStep
  <1> QED
    BY <1>1, <1>2, RxInvInit, RxInvStep, PTL
    DEF RxSpec, FramesKept, TakenInOrder, StoredIsServiced

-----------------------------------------------------------------------------
\* tx_notification leaves its state where it may begin again, and the driver does not
\* hold more transfers than its queue.
LEMMA NotifyStep ==
  ASSUME NotifyTypeOK, NEW force_next, NEW pending \in 0 .. NotifyDepth,
         tx_notification(force_next, pending)
  PROVE  NotifyTypeOK'
  BY NotifyAssumption DEF NotifyTypeOK, tx_notification

\* The initial states are initial states of both halves.
LEMMA NetInitHalves == NetInit => TxInit /\ RxInit /\ NotifyTypeOK
  BY NotifyAssumption DEF NetInit, NotifyTypeOK

\* A step of the class is a step of the transmit half, or leaves it alone.
LEMMA StepTransmit == [NetNext]_netVars => [TxNext]_txVars
  <1> SUFFICES ASSUME [NetNext]_netVars PROVE [TxNext]_txVars
    OBVIOUS
  <1>1. CASE net_user
    <2>1. CASE \E size \in DatagramSizes : link_output_app(size)
      BY <2>1 DEF link_output_app, TxNext
    <2>2. CASE link_output_app_tx
      BY <2>2 DEF link_output_app_tx, TxNext
    <2>5. CASE link_output_app_inactive
      BY <2>5 DEF link_output_app_inactive, txVars
    <2>3. CASE net_rx_renew /\ UNCHANGED txOwn
      BY <2>3 DEF net_rx_renew, txVars
    <2>4. CASE ServiceLoop
      BY <2>4 DEF ServiceLoop, service_traffic, txVars
    <2>6. CASE ServiceReturns
      BY <2>6 DEF ServiceReturns, service_traffic_done, txVars
    <2> QED
      BY <1>1, <2>1, <2>2, <2>3, <2>4, <2>5, <2>6 DEF net_user
  <1>2. CASE net_usb_transfer_in
    BY <1>2 DEF net_usb_transfer_in, TxNext
  <1>3. CASE net_usb_transfer_out
    BY <1>3 DEF net_usb_transfer_out, RxTransferOut, txVars
  <1>4. CASE net_usb_transfer_notify
    BY <1>4 DEF net_usb_transfer_notify, txVars
  <1>5. CASE \E alt \in AltSettings : set_interface(alt)
    BY <1>5 DEF set_interface, TxNext
  <1>6. CASE UNCHANGED netVars
    BY <1>6 DEF netVars, txVars
  <1> QED
    BY <1>1, <1>2, <1>3, <1>4, <1>5, <1>6 DEF NetNext

\* The same for the receive half.
LEMMA StepReceive == [NetNext]_netVars => [RxNext]_rxVars
  <1> SUFFICES ASSUME [NetNext]_netVars PROVE [RxNext]_rxVars
    OBVIOUS
  <1>1. CASE net_user
    <2>1. CASE \E size \in DatagramSizes : link_output_app(size)
      BY <2>1 DEF link_output_app, net_can_tx, rxVars
    <2>2. CASE link_output_app_tx
      BY <2>2 DEF link_output_app_tx, net_tx, rxVars
    <2>5. CASE link_output_app_inactive
      BY <2>5 DEF link_output_app_inactive, rxVars
    <2>3. CASE net_rx_renew
      BY <2>3 DEF RxNext
    <2>4. CASE ServiceLoop
      BY <2>4 DEF ServiceLoop, RxNext
    <2>6. CASE ServiceReturns
      BY <2>6 DEF ServiceReturns, RxNext
    <2> QED
      BY <1>1, <2>1, <2>2, <2>3, <2>4, <2>5, <2>6 DEF net_user
  <1>2. CASE net_usb_transfer_in
    BY <1>2 DEF net_usb_transfer_in, RxNext
  <1>3. CASE net_usb_transfer_out
    BY <1>3 DEF net_usb_transfer_out, RxNext
  <1>4. CASE net_usb_transfer_notify
    BY <1>4 DEF net_usb_transfer_notify, rxVars
  <1>5. CASE \E alt \in AltSettings : set_interface(alt)
    BY <1>5 DEF set_interface, RxNext
  <1>6. CASE UNCHANGED netVars
    BY <1>6 DEF netVars, rxVars
  <1> QED
    BY <1>1, <1>2, <1>3, <1>4, <1>5, <1>6 DEF NetNext

\* A step keeps the state of the notifications.
LEMMA StepNotify == NotifyTypeOK /\ [NetNext]_netVars => NotifyTypeOK'
  <1> SUFFICES ASSUME NotifyTypeOK, [NetNext]_netVars PROVE NotifyTypeOK'
    OBVIOUS
  <1>1. CASE UNCHANGED notifyVars
    BY <1>1 DEF notifyVars, NotifyTypeOK
  <1>2. CASE net_usb_transfer_notify
    <2>1. notify_transfers - 1 \in 0 .. NotifyDepth
      BY <1>2, NotifyAssumption DEF net_usb_transfer_notify, NotifyTypeOK
    <2> QED
      BY <1>2, <2>1, NotifyStep DEF net_usb_transfer_notify
  <1>3. ASSUME NEW alt \in AltSettings, set_interface(alt)
        PROVE  NotifyTypeOK'
    <2>1. UNCHANGED notifyVars \/ tx_notification(FALSE, notify_transfers)
      BY <1>3 DEF set_interface
    <2>2. notify_transfers \in 0 .. NotifyDepth
      BY DEF NotifyTypeOK
    <2> QED
      BY <1>1, <2>1, <2>2, NotifyStep
  <1>4. \/ UNCHANGED notifyVars
        \/ net_usb_transfer_notify
        \/ \E alt \in AltSettings : set_interface(alt)
    BY DEF NetNext, net_user, link_output_app, link_output_app_tx, link_output_app_inactive,
           ServiceLoop, ServiceReturns, net_usb_transfer_in, net_usb_transfer_out, netVars
  <1> QED
    BY <1>1, <1>2, <1>3, <1>4

-----------------------------------------------------------------------------
\* The handlers of net.c do to the transmit half only what NcmTx allows.
LEMMA NetTransmits == NetSpec => TxSpec
  BY NetInitHalves, StepTransmit, PTL DEF NetSpec, TxSpec

\* The same for the receive half.
LEMMA NetReceives == NetSpec => RxSpec
  BY NetInitHalves, StepReceive, PTL DEF NetSpec, RxSpec

\* Over all calls of the class every transmit NTB has one owner, what net_can_tx promised
\* holds when net_tx runs, the USB driver does not write what is read, and the
\* notifications come to rest where they may begin again (net.c:62-112, tx.c:13-94).
THEOREM NetSafe == NetSpec => [](NetOK /\ OneOwner /\ PromiseHolds)
  <1>1. NetSpec => []NotifyTypeOK
    BY NetInitHalves, StepNotify, PTL DEF NetSpec
  <1> QED
    BY <1>1, NetTransmits, NetReceives, TxSafe, RxSafe, PTL DEF NetOK

\* No call of the class changes an NTB that is being sent, passes over a received
\* datagram or overwrites a stored frame.
THEOREM NetKept == NetSpec => SendingIsFrozen /\ FramesKept
  BY NetTransmits, NetReceives, TxFrozen, RxKept, PTL

\* What net_can_tx promised still holds when net_tx runs, over all calls of the class:
\* the frame is neither dropped (net.c:28) nor reported as an overflow (net.c:37).
THEOREM NetPromise == NetSpec => []PromiseHolds
  BY NetSafe, PTL

\* Over all calls of the class every NTB that is sent or waits is laid out from header to
\* datagrams, and the NTBs leave in the order of their sequence numbers
\* (net.c:33-40, tx.c:64-92).
THEOREM NetOrdered == NetSpec => []Outgoing
  BY NetTransmits, TxOrdered, PTL
=============================================================================
