---------------------------- MODULE NcmTxProofs ----------------------------
(***************************************************************************)
(* The ownership of transmit NTBs, for every NTB size, number of datagrams *)
(* and set of frame lengths: NcmTx keeps TxTypeOK, OneOwner, PromiseHolds  *)
(* and SendingIsFrozen; and what goes out is laid out and in sequence,     *)
(* Outgoing.                                                               *)
(***************************************************************************)
EXTENDS NcmTx, TLAPS

\* A list of two slots: slot 0 is occupied while list_front is behind list_back,
\* slot 1 only once list_back has come to it.
ListOK(l) ==
  /\ l \in ntb_list_t
  /\ l.list_front <= l.list_back
  /\ l.ntb_list[0] # NULL <=> l.list_front = 0 /\ l.list_back = 1
  /\ l.list_back = 0 => l.ntb_list[1] = NULL

\* OneOwner, without sets: no NTB is lost, and no two places hold the same one.
Kept(t) ==
  \A n \in Ntbs :
    \/ \E i \in Slots : t.free.ntb_list[i] = n \/ t.wait.ntb_list[i] = n
    \/ t.usbd = n
    \/ t.user = n

Apart(t) ==
  /\ \A i, j \in Slots : t.free.ntb_list[i] = t.free.ntb_list[j] /\ i # j => t.free.ntb_list[i] = NULL
  /\ \A i, j \in Slots : t.wait.ntb_list[i] = t.wait.ntb_list[j] /\ i # j => t.wait.ntb_list[i] = NULL
  /\ \A i, j \in Slots : t.free.ntb_list[i] = t.wait.ntb_list[j] => t.free.ntb_list[i] = NULL
  /\ \A i \in Slots : t.free.ntb_list[i] = t.usbd => t.usbd = NULL
  /\ \A i \in Slots : t.free.ntb_list[i] = t.user => t.user = NULL
  /\ \A i \in Slots : t.wait.ntb_list[i] = t.usbd => t.usbd = NULL
  /\ \A i \in Slots : t.wait.ntb_list[i] = t.user => t.user = NULL
  /\ t.usbd = t.user => t.user = NULL

\* What holds of the transmit fields of ncm_if before and after every call.
Sound(t) == t \in tx_t /\ ListOK(t.free) /\ ListOK(t.wait) /\ Kept(t) /\ Apart(t)

-----------------------------------------------------------------------------
\* The numbers: two NTBs, two slots.
LEMMA Two == Slots = {0, 1} /\ Ntbs = {0, 1} /\ NCM_NTB_N = 2 /\ NULL \notin {0, 1}
  BY TwoNtbs, NullAssumption DEF Slots, Ntbs

\* An index goes from 0 to 1 and stays there.
LEMMA NextIndexTwo == NextIndex(0, NCM_NTB_N) = 1 /\ NextIndex(1, NCM_NTB_N) = 1
  BY Two DEF NextIndex

\* push_ntb fills one empty slot.
LEMMA PushFact ==
  ASSUME NEW l, ListOK(l), NEW n \in Ntbs, CanPush(l, n)
  PROVE  /\ ListOK(push_ntb(l, n))
         /\ \E s \in Slots : /\ l.ntb_list[s] = NULL
                             /\ push_ntb(l, n).ntb_list = [l.ntb_list EXCEPT ![s] = n]
<1>1. /\ l.ntb_list \in [Slots -> NtbPtr] /\ l.list_front \in {0, 1} /\ l.list_back \in {0, 1}
      /\ l = [ntb_list |-> l.ntb_list, list_front |-> l.list_front, list_back |-> l.list_back]
  BY Zenon, Two DEF ListOK, ntb_list_t
<1>2. push_ntb(l, n) = [ntb_list |-> [l.ntb_list EXCEPT ![l.list_back] = n],
                        list_front |-> l.list_front, list_back |-> 1]
  BY Zenon, <1>1, NextIndexTwo DEF push_ntb
<1>3. n # NULL /\ n \in NtbPtr /\ l.ntb_list[l.list_back] = NULL
  BY Zenon, Two DEF CanPush, NtbPtr
<1>4. push_ntb(l, n) \in ntb_list_t
  BY <1>1, <1>2, <1>3, Two DEF ntb_list_t
<1>5. ListOK(push_ntb(l, n))
  BY <1>1, <1>2, <1>3, <1>4, Two DEF ListOK
<1>6. l.list_back \in Slots
  BY Zenon, <1>1, Two
<1>7. push_ntb(l, n).ntb_list = [l.ntb_list EXCEPT ![l.list_back] = n]
  BY <1>2
<1> HIDE DEF push_ntb
<1> QED BY Zenon, <1>3, <1>5, <1>6, <1>7

\* pop_ntb clears the slot whose NTB it returns.
LEMMA PopFact ==
  ASSUME NEW l, ListOK(l)
  PROVE  /\ ListOK(pop_ntb(l))
         /\ Popped(l) \in NtbPtr
         /\ \E s \in Slots : /\ l.ntb_list[s] = Popped(l)
                             /\ pop_ntb(l).ntb_list = [l.ntb_list EXCEPT ![s] = NULL]
<1>1. /\ l.ntb_list \in [Slots -> NtbPtr] /\ l.list_front \in {0, 1} /\ l.list_back \in {0, 1}
      /\ l = [ntb_list |-> l.ntb_list, list_front |-> l.list_front, list_back |-> l.list_back]
  BY Zenon, Two DEF ListOK, ntb_list_t
<1>2. CASE Popped(l) = NULL
  <2>1. pop_ntb(l) = l /\ l.ntb_list = [l.ntb_list EXCEPT ![l.list_front] = NULL]
    BY Zenon, <1>1, <1>2, Two DEF pop_ntb, Popped
  <2> QED BY Zenon, <1>1, <1>2, <2>1, Two DEF Popped, NtbPtr
<1>3. CASE Popped(l) # NULL
  <2>1. pop_ntb(l) = [ntb_list |-> [l.ntb_list EXCEPT ![l.list_front] = NULL],
                      list_front |-> 1, list_back |-> l.list_back]
    BY Zenon, <1>1, <1>3, NextIndexTwo DEF pop_ntb
  <2>2. pop_ntb(l) \in ntb_list_t
    BY <1>1, <2>1, Two DEF ntb_list_t, NtbPtr
  <2>3. l.list_back = 1
    BY Zenon, <1>1, <1>3, Two DEF ListOK, Popped
  <2>4. ListOK(pop_ntb(l))
    BY <1>1, <2>1, <2>2, <2>3, Two DEF ListOK
  <2> QED BY <1>1, <2>1, <2>4, Two DEF Popped
<1> QED BY Zenon, <1>2, <1>3

-----------------------------------------------------------------------------
\* A record with the same places is as sound.
SamePlaces(t, u) == u.free = t.free /\ u.wait = t.wait /\ u.usbd = t.usbd /\ u.user = t.user

\* What holds of the places does not depend on the contents of the NTBs.
LEMMA SamePlacesSound ==
  ASSUME NEW t, Sound(t), NEW u \in tx_t, SamePlaces(t, u)
  PROVE  Sound(u)
  BY DEF Sound, SamePlaces, Kept, Apart

\* The header of a new NTB has the type of an NTB and no datagrams.
LEMMA HeaderFact ==
  /\ HeaderSize \in Nat
  /\ \A q \in Nat : [wSequence |-> q, wBlockLength |-> HeaderSize, ndp_datagram |-> ZeroTable] \in ntb_def_t
<1>1. NCM_MAX_DATAGRAMS_PER_NTB \in Nat
  BY TxAssumption
<1>2. HeaderSize \in Nat
  BY <1>1 DEF HeaderSize
<1>3. ZeroTable \in [Entries -> [wDatagramIndex : Nat, wDatagramLength : Nat]]
  BY Zenon DEF ZeroTable
<1> HIDE DEF HeaderSize, ZeroTable
<1> QED BY <1>2, <1>3 DEF ntb_def_t

\* The fields of a record of tx_t.
LEMMA TxFields ==
  ASSUME NEW t \in tx_t
  PROVE  /\ t.free \in ntb_list_t /\ t.wait \in ntb_list_t
         /\ t.usbd \in NtbPtr /\ t.user \in NtbPtr
         /\ t.index \in 0 .. NCM_MAX_DATAGRAMS_PER_NTB /\ t.seq \in Nat
         /\ t.ntb \in [Ntbs -> ntb_def_t]
  BY Zenon DEF tx_t

\* Populate (tx.c:64-75) touches the user NTB only.
Populated(t, p) ==
  /\ Sound(p) /\ SamePlaces(t, p)
  /\ p.index = 0 /\ p.seq = (t.seq + 1) % 65536
  /\ p.ntb[t.user] = [wSequence |-> t.seq, wBlockLength |-> HeaderSize, ndp_datagram |-> ZeroTable]
  /\ p.ntb[t.user].wBlockLength = HeaderSize
  /\ \A n \in Ntbs \ {t.user} : p.ntb[n] = t.ntb[n]

\* What that says of the record that it leaves.
LEMMA PopulateFact ==
  ASSUME NEW t, Sound(t), t.user # NULL
  PROVE  Populated(t, Populate(t))
<1> DEFINE new == [wSequence |-> t.seq, wBlockLength |-> HeaderSize, ndp_datagram |-> ZeroTable]
<1> DEFINE next == (t.seq + 1) % 65536
<1> DEFINE all == [t.ntb EXCEPT ![t.user] = new]
<1>1. t \in tx_t /\ t.user \in Ntbs
  BY Zenon, TxFields DEF Sound, NtbPtr
<1>2. t.seq \in Nat /\ t.ntb \in [Ntbs -> ntb_def_t]
  BY Zenon, <1>1, TxFields
<1>3. new \in ntb_def_t /\ new.wBlockLength = HeaderSize
  BY <1>2, HeaderFact
<1>4. next \in Nat /\ 0 \in 0 .. NCM_MAX_DATAGRAMS_PER_NTB
  BY <1>2, TxAssumption
<1>5. Populate(t) = [t EXCEPT !.index = 0, !.seq = next, !.ntb = all]
  BY <1>1 DEF Populate, tx_t
<1> HIDE DEF new
<1>6. all \in [Ntbs -> ntb_def_t] /\ all[t.user] = new
      /\ \A n \in Ntbs \ {t.user} : all[n] = t.ntb[n]
  BY Zenon, <1>1, <1>2, <1>3
<1> HIDE DEF all, next
<1>7. [t EXCEPT !.index = 0, !.seq = next, !.ntb = all] \in tx_t
  BY Zenon, <1>1, <1>4, <1>6 DEF tx_t
<1>8. /\ SamePlaces(t, Populate(t)) /\ Populate(t).index = 0 /\ Populate(t).ntb = all
      /\ Populate(t).seq = next
  BY <1>1, <1>5 DEF SamePlaces, tx_t
<1>9. Populate(t).seq = (t.seq + 1) % 65536
  BY <1>8 DEF next
<1>10. Populate(t).ntb[t.user] = [wSequence |-> t.seq, wBlockLength |-> HeaderSize,
                                  ndp_datagram |-> ZeroTable]
  BY Zenon, <1>6, <1>8 DEF new
<1> QED BY <1>3, <1>5, <1>6, <1>7, <1>8, <1>9, <1>10, SamePlacesSound DEF Populated

\* The steps of tx_accept_user_ntb before Populate (tx.c:50-57): the user NTB goes to
\* the wait list and an NTB of the free list, if any, takes its place.
LEMMA NextUserNtbFact ==
  ASSUME NEW t, Sound(t), UserNtbQueued(t)
  PROVE  /\ Sound(NextUserNtb(t))
         /\ NextUserNtb(t).user = Popped(t.free)
         /\ NextUserNtb(t).usbd = t.usbd
         /\ NextUserNtb(t).ntb = t.ntb
         /\ NextUserNtb(t).index = t.index /\ NextUserNtb(t).seq = t.seq
         /\ NextUserNtb(t).free = pop_ntb(t.free)
         /\ NextUserNtb(t).wait = IF t.user = NULL THEN t.wait ELSE push_ntb(t.wait, t.user)
<1> DEFINE w == IF t.user = NULL THEN t.wait ELSE push_ntb(t.wait, t.user)
           f == pop_ntb(t.free)
           u == Popped(t.free)
           v == [t EXCEPT !.wait = w, !.user = u, !.free = f]
<1>1. t \in tx_t /\ ListOK(t.free) /\ ListOK(t.wait) /\ Kept(t) /\ Apart(t)
  BY Zenon DEF Sound
<1>2. NextUserNtb(t) = v
  BY Zenon, <1>1 DEF NextUserNtb, tx_t
<1>3. ListOK(f) /\ u \in NtbPtr
  BY Zenon, <1>1, PopFact
<1>4. PICK s \in Slots : t.free.ntb_list[s] = u /\ f.ntb_list = [t.free.ntb_list EXCEPT ![s] = NULL]
  BY Zenon, <1>1, PopFact
<1>5. t.user \in NtbPtr
  BY Zenon, <1>1, TxFields
<1>6. ListOK(w) /\ \E q \in Slots : /\ t.user # NULL => t.wait.ntb_list[q] = NULL
                                    /\ w.ntb_list = IF t.user = NULL THEN t.wait.ntb_list
                                                    ELSE [t.wait.ntb_list EXCEPT ![q] = t.user]
  <2>1. CASE t.user = NULL
    BY Zenon, <1>1, <2>1, Two
  <2>2. CASE t.user # NULL
    BY Zenon, <1>1, <1>5, <2>2, PushFact DEF UserNtbQueued, NtbPtr
  <2> QED BY Zenon, <2>1, <2>2
<1>7. PICK q \in Slots : /\ t.user # NULL => t.wait.ntb_list[q] = NULL
                         /\ w.ntb_list = IF t.user = NULL THEN t.wait.ntb_list
                                         ELSE [t.wait.ntb_list EXCEPT ![q] = t.user]
  BY Zenon, <1>6
<1> HIDE DEF w, f, u
<1>8. w \in ntb_list_t /\ f \in ntb_list_t
  BY Zenon, <1>3, <1>6 DEF ListOK
<1>9. v \in tx_t
  BY Zenon, <1>1, <1>3, <1>8 DEF tx_t
<1>10. /\ v.free = f /\ v.wait = w /\ v.user = u /\ v.usbd = t.usbd /\ v.ntb = t.ntb
       /\ v.index = t.index /\ v.seq = t.seq
  BY Zenon, <1>1 DEF tx_t
<1>11. t.free.ntb_list \in [Slots -> NtbPtr] /\ t.wait.ntb_list \in [Slots -> NtbPtr]
  BY Zenon, <1>1 DEF ListOK, ntb_list_t
<1> HIDE DEF v
<1>12. Kept(v)
  BY <1>1, <1>4, <1>5, <1>7, <1>10, <1>11, NullAssumption DEF Kept
<1>13. Apart(v)
  BY SMTT(20), <1>1, <1>4, <1>5, <1>7, <1>10, <1>11, NullAssumption DEF Apart
<1>14. Sound(v)
  BY Zenon, <1>3, <1>6, <1>9, <1>10, <1>12, <1>13 DEF Sound
<1> QED BY Zenon, <1>2, <1>10, <1>14 DEF u, w, f

\* tx_accept_user_ntb leaves the NTB of the USB driver alone, and a fresh user NTB
\* when it answers true.
LEMMA AcceptFact ==
  ASSUME NEW t, Sound(t)
  PROVE  LET a == tx_accept_user_ntb(t) IN
           /\ Sound(a)
           /\ a.usbd = t.usbd
           /\ \A n \in Ntbs : n = t.usbd => a.ntb[n] = t.ntb[n]
           /\ Accepts(t) => /\ a.user # NULL /\ a.index = 0
                            /\ a.ntb[a.user].wBlockLength = HeaderSize
<1> DEFINE v == NextUserNtb(t)
<1>1. ASSUME UserNtbQueued(t)
      PROVE  Sound(v) /\ v.user = Popped(t.free) /\ v.usbd = t.usbd /\ v.ntb = t.ntb
  BY Zenon, <1>1, NextUserNtbFact
<1> HIDE DEF v
<1>2. CASE Accepts(t)
  <2>1. UserNtbQueued(t) /\ Popped(t.free) # NULL
    BY Zenon, <1>2 DEF Accepts
  <2>2. Sound(v) /\ v.user # NULL /\ v.usbd = t.usbd /\ v.ntb = t.ntb
    BY Zenon, <1>1, <2>1
  <2>3. tx_accept_user_ntb(t) = Populate(v)
    BY Zenon, <1>2 DEF tx_accept_user_ntb, v
  <2>4. Populated(v, Populate(v))
    BY Zenon, <2>2, PopulateFact
  <2>5. v.usbd # v.user
    BY Zenon, <2>2 DEF Sound, Apart
  <2> DEFINE p == Populate(v)
  <2> HIDE DEF p
  <2>6. Populated(v, p) /\ tx_accept_user_ntb(t) = p
    BY <2>3, <2>4 DEF p
  <2>7. /\ Sound(p) /\ SamePlaces(v, p) /\ p.index = 0 /\ p.ntb[v.user].wBlockLength = HeaderSize
        /\ \A n \in Ntbs \ {v.user} : p.ntb[n] = v.ntb[n]
    BY <2>6 DEF Populated
  <2> QED BY Zenon, <2>2, <2>5, <2>6, <2>7 DEF SamePlaces
<1>3. CASE ~Accepts(t) /\ UserNtbQueued(t)
  <2>1. tx_accept_user_ntb(t) = v
    BY Zenon, <1>3 DEF tx_accept_user_ntb, v
  <2> QED BY Zenon, <1>1, <1>3, <2>1
<1>4. CASE ~Accepts(t) /\ ~UserNtbQueued(t)
  BY Zenon, <1>4 DEF tx_accept_user_ntb
<1> QED BY Zenon, <1>2, <1>3, <1>4

\* The oldest waiting NTB goes to a USB driver that holds none.
LEMMA StartWaitingFact ==
  ASSUME NEW t, Sound(t), t.usbd = NULL
  PROVE  Sound(StartWaiting(t)) /\ StartWaiting(t).ntb = t.ntb
         /\ StartWaiting(t).user = t.user /\ StartWaiting(t).index = t.index
         /\ StartWaiting(t).free = t.free /\ StartWaiting(t).seq = t.seq
         /\ StartWaiting(t).usbd = Popped(t.wait) /\ StartWaiting(t).wait = pop_ntb(t.wait)
<1> DEFINE w == pop_ntb(t.wait)
           u == Popped(t.wait)
           v == [t EXCEPT !.usbd = u, !.wait = w]
<1>1. t \in tx_t /\ ListOK(t.free) /\ ListOK(t.wait) /\ Kept(t) /\ Apart(t)
  BY Zenon DEF Sound
<1>2. StartWaiting(t) = v
  BY Zenon, <1>1 DEF StartWaiting, tx_t
<1>3. ListOK(w) /\ u \in NtbPtr
  BY Zenon, <1>1, PopFact
<1>4. PICK s \in Slots : t.wait.ntb_list[s] = u /\ w.ntb_list = [t.wait.ntb_list EXCEPT ![s] = NULL]
  BY Zenon, <1>1, PopFact
<1> HIDE DEF w, u
<1>5. v \in tx_t
  BY Zenon, <1>1, <1>3 DEF tx_t, ListOK
<1>6. /\ v.free = t.free /\ v.wait = w /\ v.user = t.user /\ v.usbd = u /\ v.ntb = t.ntb
      /\ v.index = t.index /\ v.seq = t.seq
  BY Zenon, <1>1 DEF tx_t
<1>7. t.wait.ntb_list \in [Slots -> NtbPtr]
  BY Zenon, <1>1 DEF ListOK, ntb_list_t
<1> HIDE DEF v
<1>8. Kept(v)
  BY <1>1, <1>4, <1>6, <1>7, NullAssumption DEF Kept
<1>9. Apart(v)
  BY <1>1, <1>4, <1>6, <1>7, NullAssumption DEF Apart
<1>10. Sound(v)
  BY Zenon, <1>1, <1>3, <1>5, <1>6, <1>8, <1>9 DEF Sound
<1> QED BY Zenon, <1>2, <1>6, <1>10 DEF u, w

\* The user NTB goes to a USB driver that holds none.
LEMMA StartUserFact ==
  ASSUME NEW t, Sound(t), t.usbd = NULL
  PROVE  /\ Sound(StartUser(t)) /\ StartUser(t).ntb = t.ntb
         /\ StartUser(t).free = t.free /\ StartUser(t).wait = t.wait
         /\ StartUser(t).user = NULL /\ StartUser(t).usbd = t.user
         /\ StartUser(t).seq = t.seq
<1> DEFINE v == [t EXCEPT !.usbd = t.user, !.user = NULL]
<1>1. t \in tx_t /\ ListOK(t.free) /\ ListOK(t.wait) /\ Kept(t) /\ Apart(t)
  BY Zenon DEF Sound
<1>2. StartUser(t) = v
  BY Zenon DEF StartUser
<1>3. v \in tx_t
  BY Zenon, <1>1, TxFields DEF tx_t, NtbPtr
<1>4. /\ v.free = t.free /\ v.wait = t.wait /\ v.user = NULL /\ v.usbd = t.user /\ v.ntb = t.ntb
      /\ v.seq = t.seq
  BY Zenon, <1>1 DEF tx_t
<1> HIDE DEF v
<1>5. Kept(v)
  BY Zenon, <1>1, <1>4, NullAssumption DEF Kept
<1>6. Apart(v)
  BY <1>1, <1>4, NullAssumption DEF Apart
<1> QED BY Zenon, <1>1, <1>2, <1>3, <1>4, <1>5, <1>6 DEF Sound

\* tx_try_start moves an NTB and changes none; it does nothing while the USB driver
\* holds one.
LEMMA StartFact ==
  ASSUME NEW t, Sound(t), NEW active
  PROVE  /\ Sound(tx_try_start(t, active))
         /\ tx_try_start(t, active).ntb = t.ntb
         /\ t.usbd # NULL => tx_try_start(t, active) = t
<1>1. CASE t.usbd # NULL \/ active # 1
  BY Zenon, <1>1 DEF tx_try_start
<1>2. CASE ~(t.usbd # NULL \/ active # 1)
  BY Zenon, <1>2, StartWaitingFact, StartUserFact DEF tx_try_start
<1> QED BY Zenon, <1>1, <1>2

\* What adding a datagram of this size as the k-th one does to an NTB.
Appended(ntb, k, size, new) ==
  /\ new.wSequence = ntb.wSequence
  /\ new.wBlockLength = (ntb.wBlockLength + Padded(size)) % 65536
  /\ new.ndp_datagram[k].wDatagramIndex = ntb.wBlockLength
  /\ new.ndp_datagram[k].wDatagramLength = size
  /\ \A i \in Entries \ {k} : new.ndp_datagram[i] = ntb.ndp_datagram[i]

\* Adding a datagram (net.c:31-36) touches the user NTB only, and the table entry
\* that it takes is not the last one.
LEMMA AppendFact ==
  ASSUME NEW t, Sound(t), t.user # NULL, t.index < NCM_MAX_DATAGRAMS_PER_NTB,
         NEW size \in DatagramSizes
  PROVE  /\ Sound(Append1(t, size)) /\ SamePlaces(t, Append1(t, size))
         /\ \A n \in Ntbs \ {t.user} : Append1(t, size).ntb[n] = t.ntb[n]
         /\ Append1(t, size).index = t.index + 1 /\ Append1(t, size).seq = t.seq
         /\ Appended(t.ntb[t.user], t.index, size, Append1(t, size).ntb[t.user])
<1> DEFINE at == t.ntb[t.user].wBlockLength
           len == (at + Padded(size)) % 65536
           entry == [wDatagramIndex |-> at, wDatagramLength |-> size]
           new == [t.ntb[t.user] EXCEPT !.ndp_datagram[t.index] = entry, !.wBlockLength = len]
           all == [t.ntb EXCEPT ![t.user] = new]
           idx == t.index + 1
           v == [t EXCEPT !.ntb = all, !.index = idx]
<1>1. t \in tx_t /\ t.user \in Ntbs
  BY TxFields DEF Sound, NtbPtr
<1>2. /\ t.ntb \in [Ntbs -> ntb_def_t] /\ t.ntb[t.user] \in ntb_def_t
      /\ t.index \in Entries /\ idx \in 0 .. NCM_MAX_DATAGRAMS_PER_NTB
  BY <1>1, TxFields, TxAssumption DEF Entries
<1>3. at \in Nat /\ size \in Nat
  BY <1>2, TxAssumption DEF ntb_def_t
<1>4. len \in Nat
  BY <1>3 DEF Padded, ALIGN_OFFSET
<1>5. Append1(t, size) = v
  BY <1>1, <1>2 DEF Append1, tx_t, ntb_def_t
<1> HIDE DEF len
<1>6. entry \in [wDatagramIndex : Nat, wDatagramLength : Nat]
  BY Zenon, <1>3
<1>10. entry.wDatagramIndex = at /\ entry.wDatagramLength = size
  BY Zenon
<1> HIDE DEF entry, at
<1>7. new \in ntb_def_t
  BY Zenon, <1>2, <1>4, <1>6 DEF ntb_def_t
<1>11. /\ new.wSequence = t.ntb[t.user].wSequence /\ new.wBlockLength = len
       /\ new.ndp_datagram[t.index] = entry
       /\ \A i \in Entries \ {t.index} : new.ndp_datagram[i] = t.ntb[t.user].ndp_datagram[i]
  BY <1>2 DEF ntb_def_t
<1>12. Appended(t.ntb[t.user], t.index, size, new)
  BY <1>10, <1>11 DEF Appended, len, at
<1> HIDE DEF new, idx
<1>8. all \in [Ntbs -> ntb_def_t] /\ (\A n \in Ntbs \ {t.user} : all[n] = t.ntb[n])
      /\ all[t.user] = new
  BY Zenon, <1>1, <1>2, <1>7
<1> HIDE DEF all
<1>9. v \in tx_t /\ SamePlaces(t, v) /\ v.ntb = all /\ v.index = idx /\ v.seq = t.seq
  BY Zenon, <1>1, <1>2, <1>8 DEF tx_t, SamePlaces
<1> HIDE DEF v
<1> QED BY Zenon, <1>5, <1>8, <1>9, <1>12, SamePlacesSound DEF idx

\* A frame whose room was promised has a length that lwIP hands over.
LEMMA PaddedFact == \A s \in DatagramSizes : s \in Nat /\ s # 0 /\ Padded(s) \in Nat
<1> TAKE s \in DatagramSizes
<1>1. s \in Nat /\ s # 0
  BY TxAssumption
<1> QED BY <1>1 DEF Padded, ALIGN_OFFSET

-----------------------------------------------------------------------------
\* The inductive invariant.  The USB driver's pointer is never cleared, so that a
\* transfer in progress is one of an NTB that the driver holds.
TxInv ==
  /\ interface_active \in AltSettings
  /\ Sound(tx)
  /\ allowed \in DatagramSizes \cup {0}
  /\ in_transfer \in {"none", "ntb", "zlp"}
  /\ PromiseHolds
  /\ in_transfer # "none" => tx.usbd # NULL

\* The free list that net_init leaves (net.c:50-59).
LEMMA AllFreeFact ==
  /\ AllFree.ntb_list[0] = 0 /\ AllFree.ntb_list[1] = 1 /\ AllFree.list_front = 0
  /\ ListOK(AllFree)
<1> DEFINE e == [i \in Slots |-> NULL]
           one == push_ntb(EmptyList, 0)
<1>2. one = [ntb_list |-> [e EXCEPT ![0] = 0], list_front |-> 0, list_back |-> 1]
  BY Zenon, Two, NextIndexTwo DEF push_ntb, CanPush, EmptyList
<1>3. AllFree = [ntb_list |-> [[e EXCEPT ![0] = 0] EXCEPT ![1] = 1],
                 list_front |-> 0, list_back |-> 1]
  <2>1. AllFree = push_ntb(one, 1)
    BY Zenon DEF AllFree
  <2> HIDE DEF one
  <2>2. one.ntb_list[1] = NULL /\ 1 # NULL
    BY <1>2, Two
  <2> QED BY Zenon, <1>2, <2>1, <2>2, Two, NextIndexTwo DEF push_ntb, CanPush
<1> QED
  BY <1>3, Two DEF ListOK, ntb_list_t, NtbPtr

\* net_init: both NTBs are free.
LEMMA TxInvInit == TxInit => TxInv
<1> SUFFICES ASSUME TxInit PROVE TxInv
  BY Zenon
<1>1. EmptyList \in ntb_list_t /\ ListOK(EmptyList) /\ EmptyList.list_back = 0
      /\ EmptyList.ntb_list = [i \in Slots |-> NULL]
  BY Two DEF EmptyList, ntb_list_t, ListOK, NtbPtr
<1>4. AllFree.ntb_list[0] = 0 /\ AllFree.ntb_list[1] = 1 /\ ListOK(AllFree)
  BY Zenon, AllFreeFact
<1>5. [wSequence |-> 0, wBlockLength |-> 0, ndp_datagram |-> ZeroTable] \in ntb_def_t
  BY DEF ntb_def_t, ZeroTable
<1>6. tx \in tx_t
  BY <1>1, <1>4, <1>5, TxAssumption DEF TxInit, tx_t, ListOK, NtbPtr
<1>7. tx.free = AllFree /\ tx.wait = EmptyList /\ tx.usbd = NULL /\ tx.user = NULL
  BY Zenon DEF TxInit
<1> HIDE DEF AllFree, EmptyList
<1>8. Kept(tx) /\ Apart(tx)
  BY <1>1, <1>4, <1>7, Two DEF Kept, Apart
<1> QED BY Zenon, <1>1, <1>4, <1>6, <1>7, <1>8 DEF TxInit, TxInv, Sound, PromiseHolds, AltSettings

\* What every step does to the NTB of the USB driver: it stays there, unchanged.
Frozen == tx.usbd # NULL => tx'.usbd = tx.usbd /\ tx'.ntb[tx.usbd] = tx.ntb[tx.usbd]

\* A transfer is started only for an NTB that has just come to the USB driver.
LEMMA TransferFact ==
  ASSUME TxInv, Frozen,
         NEW before \in {"none", in_transfer}, TransferStarted(before)
  PROVE  in_transfer' \in {"none", "ntb", "zlp"} /\ (in_transfer' # "none" => tx'.usbd # NULL)
<1>1. CASE tx'.usbd # tx.usbd
  BY Zenon, <1>1 DEF Frozen, TransferStarted
<1>2. CASE tx'.usbd = tx.usbd
  BY Zenon, <1>2 DEF TxInv, TransferStarted
<1> QED BY Zenon, <1>1, <1>2

\* net_can_tx (net.c:15-24).
LEMMA NetCanTxStep ==
  ASSUME TxInv, NEW size \in DatagramSizes, net_can_tx(size)
  PROVE  TxInv' /\ Frozen
<1> DEFINE a == tx_accept_user_ntb(tx)
<1>1. Sound(tx) /\ tx.usbd \in NtbPtr /\ interface_active \in AltSettings
  BY Zenon, TxFields DEF TxInv, Sound
<1>2. /\ Sound(a) /\ a.usbd = tx.usbd
      /\ \A n \in Ntbs : n = tx.usbd => a.ntb[n] = tx.ntb[n]
      /\ Accepts(tx) => a.user # NULL /\ a.index = 0 /\ a.ntb[a.user].wBlockLength = HeaderSize
  BY <1>1, AcceptFact
<1>3. size \in Nat /\ size # 0 /\ HeaderSize + Padded(size) <= NCM_NTB_MAX_SIZE
      /\ NCM_MAX_DATAGRAMS_PER_NTB \in Nat \ {0}
  BY PaddedFact, TxAssumption
<1>4. TransferStarted(in_transfer) /\ interface_active' = interface_active
  BY Zenon DEF net_can_tx
<1>5. Sound(tx') /\ Frozen /\ PromiseHolds' /\ allowed' \in {size, 0}
  <2>1. CASE tx_datagram_fits_user_ntb(tx, size) /\ allowed' = size /\ tx' = tx
    BY Zenon, <1>1, <1>3, <2>1 DEF tx_datagram_fits_user_ntb, PromiseHolds, Frozen
  <2>2. CASE Accepts(tx) /\ allowed' = size /\ tx' = a
    <3> HIDE DEF a
    <3>1. Sound(tx') /\ Frozen
      BY Zenon, <1>1, <1>2, <2>2 DEF Frozen, NtbPtr
    <3>2. PromiseHolds'
      BY <1>2, <1>3, <2>2 DEF PromiseHolds
    <3> QED BY Zenon, <2>2, <3>1, <3>2
  <2>3. CASE allowed' = 0 /\ tx' = tx_try_start(a, interface_active)
    <3> HIDE DEF a
    <3>1. /\ Sound(tx') /\ tx'.ntb = a.ntb
          /\ a.usbd # NULL => tx' = a
      BY Zenon, <1>2, <2>3, StartFact
    <3>2. Frozen
      BY Zenon, <1>1, <1>2, <3>1 DEF Frozen, NtbPtr
    <3> QED BY Zenon, <2>3, <3>1, <3>2 DEF PromiseHolds
  <2> QED BY Zenon, <2>1, <2>2, <2>3 DEF net_can_tx
<1>6. in_transfer' \in {"none", "ntb", "zlp"} /\ (in_transfer' # "none" => tx'.usbd # NULL)
  BY Zenon, <1>4, <1>5, TransferFact
<1> QED BY Zenon, <1>1, <1>4, <1>5, <1>6 DEF TxInv

\* net_tx (net.c:26-42).
LEMMA NetTxStep ==
  ASSUME TxInv, net_tx
  PROVE  TxInv' /\ Frozen
<1> DEFINE added == Append1(tx, allowed)
<1>1. /\ Sound(tx) /\ tx.usbd \in NtbPtr /\ interface_active \in AltSettings
      /\ allowed \in DatagramSizes
      /\ tx.user # NULL /\ tx.index < NCM_MAX_DATAGRAMS_PER_NTB
  BY Zenon, TxFields DEF TxInv, Sound, net_tx, PromiseHolds
<1>2. /\ Sound(added) /\ SamePlaces(tx, added)
      /\ \A n \in Ntbs \ {tx.user} : added.ntb[n] = tx.ntb[n]
  BY Zenon, <1>1, AppendFact
<1>3. /\ TransferStarted(in_transfer) /\ interface_active' = interface_active
      /\ allowed' = 0
      /\ tx' = added \/ tx' = tx_try_start(added, interface_active)
  BY Zenon, <1>1 DEF net_tx
<1> HIDE DEF added
<1>4. /\ Sound(tx') /\ tx'.ntb = added.ntb
      /\ added.usbd # NULL => tx' = added
  BY Zenon, <1>2, <1>3, StartFact
<1>5. tx.usbd # NULL => tx.usbd \in Ntbs /\ tx.usbd # tx.user
  BY Zenon, <1>1 DEF Sound, Apart, NtbPtr
<1>6. Frozen
  BY Zenon, <1>2, <1>4, <1>5 DEF Frozen, SamePlaces
<1>7. in_transfer' \in {"none", "ntb", "zlp"} /\ (in_transfer' # "none" => tx'.usbd # NULL)
  BY Zenon, <1>3, <1>6, TransferFact
<1> QED BY Zenon, <1>1, <1>3, <1>4, <1>6, <1>7 DEF TxInv, PromiseHolds

\* The completion of an IN transfer (net.c, net_usb_transfer): the USB driver keeps
\* its NTB, so that tx_try_start finds nothing to do.
LEMMA TxTransferInStep ==
  ASSUME TxInv, TxTransferIn
  PROVE  TxInv' /\ Frozen
<1>1. Sound(tx) /\ tx.usbd # NULL
  BY Zenon DEF TxInv, TxTransferIn
<1>2. tx' = tx /\ in_transfer' \in {"zlp", "none"}
  BY Zenon, <1>1, StartFact DEF TxTransferIn, TransferStarted
<1> QED BY Zenon, <1>1, <1>2 DEF TxInv, TxTransferIn, PromiseHolds, Frozen

\* Every step keeps the invariant and the NTB of the USB driver.
LEMMA TxInvStep == TxInv /\ [TxNext]_txVars => TxInv' /\ Frozen
<1> SUFFICES ASSUME TxInv, [TxNext]_txVars PROVE TxInv' /\ Frozen
  BY Zenon
<1>1. ASSUME NEW size \in DatagramSizes, net_can_tx(size) PROVE TxInv' /\ Frozen
  BY Zenon, <1>1, NetCanTxStep
<1>2. CASE net_tx
  BY Zenon, <1>2, NetTxStep
<1>3. CASE TxTransferIn
  BY Zenon, <1>3, TxTransferInStep
<1>4. ASSUME NEW alt \in AltSettings, TxSetInterface(alt) PROVE TxInv' /\ Frozen
  BY Zenon, <1>4 DEF TxInv, TxSetInterface, txOwn, PromiseHolds, Frozen
<1>5. CASE UNCHANGED txVars
  BY Zenon, <1>5 DEF TxInv, txVars, txOwn, PromiseHolds, Frozen
<1> QED BY Zenon, <1>1, <1>2, <1>3, <1>4, <1>5 DEF TxNext

\* No NTB lost and none in two places is what OneOwner says with sets.
LEMMA OneOwnerFact == Sound(tx) => OneOwner
<1> SUFFICES ASSUME Sound(tx), NEW n \in Ntbs
             PROVE  \E h \in Holders(n) : Holders(n) = {h}
  BY Zenon DEF OneOwner
<1>1. Kept(tx) /\ Apart(tx) /\ n # NULL
  BY Zenon, NullAssumption DEF Sound
<1>2. \A h : h \in Holders(n) <=>
         \/ \E i \in Slots : h = <<"free", i>> /\ tx.free.ntb_list[i] = n
         \/ \E i \in Slots : h = <<"wait", i>> /\ tx.wait.ntb_list[i] = n
         \/ h = <<"usbd", 0>> /\ tx.usbd = n
         \/ h = <<"user", 0>> /\ tx.user = n
  BY Zenon DEF Holders
<1>3. \E h : h \in Holders(n)
  BY Zenon, <1>1, <1>2 DEF Kept
<1>4. \A g, h : g \in Holders(n) /\ h \in Holders(n) => g = h
  BY <1>1, <1>2 DEF Apart
<1> QED BY Zenon, <1>3, <1>4

\* For every NTB size, number of datagrams and set of frame lengths that fit: the
\* fields keep their types, every transmit NTB is in exactly one place, and what
\* net_can_tx promised holds until net_tx runs (tx.c, net.c:15-42).
THEOREM TxSafe == TxSpec => [](TxTypeOK /\ OneOwner /\ PromiseHolds)
<1>1. TxInv => TxTypeOK /\ OneOwner /\ PromiseHolds
  BY Zenon, OneOwnerFact DEF TxInv, TxTypeOK, Sound
<1>2. TxSpec => []TxInv
  BY TxInvInit, TxInvStep, PTL DEF TxSpec
<1> QED BY <1>1, <1>2, PTL

\* An NTB that the USB driver is sending is not changed by any later call: a new
\* NTB comes from the free list and a datagram goes to the user NTB (tx.c:57-75,
\* net.c:31-36).
THEOREM TxFrozen == TxSpec => SendingIsFrozen
<1>1. TxInv /\ [TxNext]_txVars
        => [in_transfer = "ntb" => tx'.ntb[tx.usbd] = tx.ntb[tx.usbd]]_txVars
  BY Zenon, TxInvStep DEF TxInv, Frozen
<1>2. TxSpec => []TxInv
  BY TxInvInit, TxInvStep, PTL DEF TxSpec
<1> QED BY <1>1, <1>2, PTL DEF TxSpec, SendingIsFrozen

-----------------------------------------------------------------------------
\* The NTBs are taken from the free list in the order of their numbers, and none ever
\* comes back to it (only net_init pushes onto tx_free_ntb, net.c:56), so that an NTB that
\* is in use has its own number as its sequence number.
Numbered(t) ==
  /\ t.seq \in 0 .. 2
  /\ t.free.list_front = IF t.seq = 0 THEN 0 ELSE 1
  /\ \A i \in Slots : t.free.ntb_list[i] = IF i < t.seq THEN NULL ELSE i
  /\ \A n \in Ntbs : n < t.seq => t.ntb[n].wSequence = n

\* InSequence in terms of these numbers.
Ordered(t) ==
  /\ t.user # NULL => t.user = t.seq - 1
  /\ \A i, j \in Slots :
       i < j /\ t.wait.ntb_list[i] # NULL /\ t.wait.ntb_list[j] # NULL
         => t.wait.ntb_list[i] < t.wait.ntb_list[j]
  /\ \A i \in Slots : t.usbd # NULL /\ t.wait.ntb_list[i] # NULL => t.usbd < t.wait.ntb_list[i]

\* Layout.
Waits(t, n) == \E i \in Slots : t.wait.ntb_list[i] = n

Laid(t) ==
  /\ t.user # NULL => LaidOut(t.ntb[t.user], t.index)
  /\ \A n \in Ntbs : n = t.usbd \/ Waits(t, n)
       => \E k \in 1 .. NCM_MAX_DATAGRAMS_PER_NTB : LaidOut(t.ntb[n], k)

-----------------------------------------------------------------------------
\* push_ntb fills the slot of list_back and pop_ntb clears the one of list_front.
LEMMA SlotFacts ==
  ASSUME NEW l, ListOK(l)
  PROVE  /\ l.list_front \in Slots /\ l.list_back \in Slots
         /\ \A n \in Ntbs : CanPush(l, n) =>
              push_ntb(l, n).ntb_list = [l.ntb_list EXCEPT ![l.list_back] = n]
         /\ pop_ntb(l).ntb_list = [l.ntb_list EXCEPT ![l.list_front] = NULL]
         /\ Popped(l) # NULL => pop_ntb(l).list_front = 1
<1>1. /\ l.ntb_list \in [Slots -> NtbPtr] /\ l.list_front \in {0, 1} /\ l.list_back \in {0, 1}
      /\ l = [ntb_list |-> l.ntb_list, list_front |-> l.list_front, list_back |-> l.list_back]
  BY Zenon, Two DEF ListOK, ntb_list_t
<1>2. l.list_front \in Slots /\ l.list_back \in Slots
  BY Zenon, <1>1, Two
<1>3. \A n \in Ntbs : CanPush(l, n) =>
        push_ntb(l, n).ntb_list = [l.ntb_list EXCEPT ![l.list_back] = n]
  BY Zenon, <1>1 DEF push_ntb
<1>4. CASE Popped(l) = NULL
  <2>1. pop_ntb(l) = l /\ l.ntb_list = [l.ntb_list EXCEPT ![l.list_front] = NULL]
    BY Zenon, <1>1, <1>4, Two DEF pop_ntb, Popped
  <2> QED BY Zenon, <1>2, <1>3, <1>4, <2>1
<1>5. CASE Popped(l) # NULL
  <2>1. pop_ntb(l) = [ntb_list |-> [l.ntb_list EXCEPT ![l.list_front] = NULL],
                      list_front |-> 1, list_back |-> l.list_back]
    BY Zenon, <1>1, <1>5, NextIndexTwo DEF pop_ntb
  <2> QED BY <1>2, <1>3, <2>1
<1> QED BY Zenon, <1>4, <1>5

\* An NTB that is not free is one that has been numbered.
LEMMA TakenFact ==
  ASSUME NEW t, Sound(t), Numbered(t)
  PROVE  \A n \in Ntbs : n = t.user \/ n = t.usbd \/ Waits(t, n) => n < t.seq
  BY Two DEF Sound, Apart, Numbered, Waits

\* A padded length is a multiple of 4, and so is the length of the header.
LEMMA FourFact ==
  /\ HeaderSize % 4 = 0
  /\ \A s \in DatagramSizes : Padded(s) % 4 = 0
<1>1. HeaderSize % 4 = 0
  <2>1. NCM_MAX_DATAGRAMS_PER_NTB \in Nat
    BY TxAssumption
  <2> QED BY <2>1 DEF HeaderSize
<1>2. \A s \in DatagramSizes : Padded(s) % 4 = 0
  <2> TAKE s \in DatagramSizes
  <2>1. s \in Nat
    BY TxAssumption
  <2> QED BY <2>1 DEF Padded, ALIGN_OFFSET
<1> QED BY Zenon, <1>1, <1>2

\* An NTB as Populate leaves it has no datagrams.
LEMMA EmptyLaidOut ==
  ASSUME NEW ntb \in ntb_def_t, ntb.wBlockLength = HeaderSize, ntb.ndp_datagram = ZeroTable,
         HeaderSize <= NCM_NTB_MAX_SIZE
  PROVE  LaidOut(ntb, 0)
  BY DEF LaidOut

\* One datagram more keeps the table: the new entry begins where the block ended, on a
\* multiple of 4, and the entries behind it are still zero.
LEMMA AppendLaidOut ==
  ASSUME NEW ntb \in ntb_def_t, NEW new \in ntb_def_t, NEW k \in Nat,
         k < NCM_MAX_DATAGRAMS_PER_NTB, LaidOut(ntb, k),
         NEW size \in DatagramSizes, Appended(ntb, k, size, new),
         ntb.wBlockLength + Padded(size) <= NCM_NTB_MAX_SIZE
  PROVE  LaidOut(new, k + 1)
<1> DEFINE N == NCM_MAX_DATAGRAMS_PER_NTB
           at(i) == IF i = k THEN ntb.wBlockLength ELSE ntb.ndp_datagram[i].wDatagramIndex
           new_at(i) == IF i = k + 1 THEN new.wBlockLength ELSE new.ndp_datagram[i].wDatagramIndex
           len(i) == ntb.ndp_datagram[i].wDatagramLength
<1>1. /\ N \in Nat /\ NCM_NTB_MAX_SIZE \in Nat /\ NCM_NTB_MAX_SIZE < 65536
      /\ ntb.wBlockLength \in Nat /\ new.wBlockLength \in Nat
      /\ \A i \in 0 .. N : ntb.ndp_datagram[i].wDatagramIndex \in Nat
  <2>1. ntb.ndp_datagram \in [0 .. N -> [wDatagramIndex : Nat, wDatagramLength : Nat]]
    BY Zenon DEF ntb_def_t, Entries
  <2>2. \A i \in 0 .. N : ntb.ndp_datagram[i].wDatagramIndex \in Nat
    BY Zenon, <2>1
  <2> QED BY <2>2, TxAssumption DEF ntb_def_t
<1>2. /\ new.wBlockLength = ntb.wBlockLength + Padded(size)
      /\ new.ndp_datagram[k].wDatagramIndex = ntb.wBlockLength
      /\ new.ndp_datagram[k].wDatagramLength = size
      /\ \A i \in 0 .. N : i # k => new.ndp_datagram[i] = ntb.ndp_datagram[i]
  BY <1>1, PaddedFact DEF Appended, Entries
<1>3. /\ at(0) = HeaderSize
      /\ \A i \in 0 .. k - 1 : len(i) \in DatagramSizes /\ at(i) % 4 = 0
                               /\ at(i + 1) = at(i) + Padded(len(i))
      /\ \A i \in k .. N : ntb.ndp_datagram[i] = ZeroTable[i]
  BY Zenon DEF LaidOut
<1>4. at(k) % 4 = 0
  <2>1. CASE k = 0
    BY Zenon, <1>3, <2>1, FourFact
  <2>2. CASE k > 0
    <3>1. k - 1 \in 0 .. k - 1 /\ k - 1 \in 0 .. N /\ (k - 1) + 1 = k
      BY <1>1, <2>2
    <3>2. len(k - 1) \in DatagramSizes /\ at(k - 1) % 4 = 0 /\ at(k) = at(k - 1) + Padded(len(k - 1))
      BY <1>3, <3>1
    <3>3. at(k - 1) \in Nat /\ Padded(len(k - 1)) \in Nat /\ Padded(len(k - 1)) % 4 = 0
      BY <1>1, <3>1, <3>2, PaddedFact, FourFact
    <3> HIDE DEF at, len
    <3> QED BY <3>2, <3>3
  <2> QED BY <2>1, <2>2
<1>5. \A i \in 0 .. k : new_at(i) = at(i)
  BY <1>1, <1>2
<1>6. new_at(k + 1) = at(k) + Padded(size)
  BY <1>2
<1>7. \A i \in 0 .. k - 1 : new.ndp_datagram[i].wDatagramLength = len(i)
  BY <1>1, <1>2
<1>8. \A i \in k + 1 .. N : new.ndp_datagram[i] = ZeroTable[i]
  BY <1>1, <1>2, <1>3
<1>9. new_at(0) = HeaderSize
  BY <1>3, <1>5
<1>10. ASSUME NEW i \in 0 .. k
       PROVE  /\ new.ndp_datagram[i].wDatagramLength \in DatagramSizes
              /\ new_at(i) % 4 = 0
              /\ new_at(i + 1) = new_at(i) + Padded(new.ndp_datagram[i].wDatagramLength)
  <2> HIDE DEF at, new_at, len
  <2>1. CASE i = k
    BY Zenon, <1>2, <1>4, <1>5, <1>6, <2>1
  <2>2. CASE i # k
    <3>1. i \in 0 .. k - 1 /\ i + 1 \in 0 .. k
      BY <2>2
    <3> QED BY Zenon, <3>1, <1>3, <1>5, <1>7
  <2> QED BY Zenon, <2>1, <2>2
<1>11. new.wBlockLength <= NCM_NTB_MAX_SIZE
  BY Zenon, <1>2
<1>12. (k + 1) - 1 = k
  OBVIOUS
<1> QED BY <1>8, <1>9, <1>10, <1>11, <1>12 DEF LaidOut
-----------------------------------------------------------------------------
\* What holds of the transmit fields between the calls.
OutOK(t) == Sound(t) /\ Numbered(t) /\ Ordered(t) /\ Laid(t)

\* The wait list after the user NTB, the youngest one, has been pushed.
LEMMA QueuedFact ==
  ASSUME NEW t, OutOK(t), t.user # NULL, CanPush(t.wait, t.user)
  PROVE  LET w == push_ntb(t.wait, t.user).ntb_list IN
           /\ \A i, j \in Slots : i < j /\ w[i] # NULL /\ w[j] # NULL => w[i] < w[j]
           /\ \A i \in Slots : t.usbd # NULL /\ w[i] # NULL => t.usbd < w[i]
           /\ \A i \in Slots : w[i] # NULL => w[i] = t.user \/ (w[i] \in Ntbs /\ Waits(t, w[i]))
<1>1. /\ Sound(t) /\ Numbered(t) /\ Ordered(t) /\ ListOK(t.wait) /\ t.user \in Ntbs
      /\ t.usbd \in NtbPtr /\ t.wait.ntb_list \in [Slots -> NtbPtr]
  BY Zenon, TxFields DEF OutOK, Sound, NtbPtr, ntb_list_t
<1> DEFINE b == t.wait.list_back
           w == push_ntb(t.wait, t.user).ntb_list
<1>2. /\ b \in Slots /\ w = [t.wait.ntb_list EXCEPT ![b] = t.user]
      /\ t.wait.list_back = 0 => t.wait.ntb_list[1] = NULL
  BY Zenon, <1>1, SlotFacts DEF ListOK
<1>3. \A n \in Ntbs : n = t.user \/ n = t.usbd \/ Waits(t, n) => n < t.seq
  BY Zenon, <1>1, TakenFact
<1>4. t.user = t.seq - 1 /\ t.seq \in 0 .. 2
  BY Zenon, <1>1 DEF Ordered, Numbered
<1>5. \A i \in Slots : w[i] # NULL =>
        w[i] = t.user \/ (w[i] \in Ntbs /\ Waits(t, w[i]) /\ w[i] = t.wait.ntb_list[i])
  BY Zenon, <1>1, <1>2 DEF Waits, NtbPtr
<1> HIDE DEF w
<1>6. \A i \in Slots : t.wait.ntb_list[i] # NULL => /\ t.wait.ntb_list[i] \in Ntbs
                                                    /\ t.wait.ntb_list[i] < t.user
  <2> SUFFICES ASSUME NEW i \in Slots, t.wait.ntb_list[i] # NULL
               PROVE  t.wait.ntb_list[i] \in Ntbs /\ t.wait.ntb_list[i] < t.user
    BY Zenon
  <2>1. t.wait.ntb_list[i] \in Ntbs /\ t.wait.ntb_list[i] # t.user
    BY Zenon, <1>1 DEF Sound, Apart, NtbPtr
  <2>2. t.wait.ntb_list[i] < t.seq
    BY Zenon, <1>3, <2>1 DEF Waits
  <2> QED BY <1>1, <1>4, <2>1, <2>2, Two
<1>7. t.usbd # NULL => t.usbd < t.user
  <2>1. t.usbd # NULL => t.usbd \in Ntbs /\ t.usbd # t.user /\ t.usbd < t.seq
    BY Zenon, <1>1, <1>3 DEF Sound, Apart, NtbPtr
  <2> QED BY <1>1, <1>4, <2>1, Two
<1>8. ASSUME NEW i \in Slots, NEW j \in Slots, i < j, w[i] # NULL, w[j] # NULL
      PROVE  w[i] < w[j]
  <2>1. i = 0 /\ j = 1
    BY <1>8, Two
  <2>2. b = 0 => t.wait.ntb_list[1] = NULL
    BY Zenon, <1>2
  <2>3. b = 1
    BY Zenon, <1>1, <1>2, <1>8, <2>1, <2>2, Two
  <2>4. w[1] = t.user /\ w[0] = t.wait.ntb_list[0]
    BY <1>1, <1>2, <2>3, Two
  <2> QED BY Zenon, <1>6, <1>8, <2>1, <2>4, Two
<1>9. ASSUME NEW i \in Slots, t.usbd # NULL, w[i] # NULL PROVE t.usbd < w[i]
  BY Zenon, <1>1, <1>5, <1>7, <1>9 DEF Ordered
<1> QED BY Zenon, <1>5, <1>8, <1>9 DEF w

\* The next NTB of the free list is the one that is numbered next.
LEMMA FreeFact ==
  ASSUME NEW t, OutOK(t)
  PROVE  /\ Popped(t.free) = IF t.seq < 2 THEN t.seq ELSE NULL
         /\ pop_ntb(t.free).list_front = 1
         /\ \A i \in Slots : pop_ntb(t.free).ntb_list[i] = IF i < t.seq + 1 THEN NULL ELSE i
<1>1. Numbered(t) /\ ListOK(t.free) /\ t.free.ntb_list \in [Slots -> NtbPtr]
  BY Zenon DEF OutOK, Sound, ListOK, ntb_list_t
<1>2. /\ pop_ntb(t.free).ntb_list = [t.free.ntb_list EXCEPT ![t.free.list_front] = NULL]
      /\ Popped(t.free) # NULL => pop_ntb(t.free).list_front = 1
  BY Zenon, <1>1, SlotFacts
<1>3. t.seq \in 0 .. 2 /\ t.free.list_front = IF t.seq = 0 THEN 0 ELSE 1
  BY Zenon, <1>1 DEF Numbered
<1>4. Popped(t.free) = IF t.seq < 2 THEN t.seq ELSE NULL
  BY <1>1, <1>3, Two DEF Numbered, Popped
<1>5. pop_ntb(t.free).list_front = 1
  <2>1. CASE t.seq < 2
    BY <1>2, <1>3, <1>4, <2>1, Two
  <2>2. CASE t.seq = 2
    BY <1>3, <1>4, <2>2 DEF pop_ntb
  <2> QED BY <1>3, <2>1, <2>2
<1>6. \A i \in Slots : pop_ntb(t.free).ntb_list[i] = IF i < t.seq + 1 THEN NULL ELSE i
  <2> HIDE DEF pop_ntb
  <2> QED BY <1>1, <1>2, <1>3, Two DEF Numbered
<1> QED BY Zenon, <1>4, <1>5, <1>6

\* tx_accept_user_ntb queues only an NTB that has datagrams, and numbers the next one.
LEMMA AcceptOut ==
  ASSUME NEW t, OutOK(t), t.user # NULL => t.index # 0,
         DatagramSizes # {}
  PROVE  OutOK(tx_accept_user_ntb(t))
<1> DEFINE v == NextUserNtb(t)
           w == v.wait.ntb_list
<1>1. /\ Sound(t) /\ Numbered(t) /\ Ordered(t) /\ Laid(t) /\ t \in tx_t
      /\ t.user \in NtbPtr /\ t.seq \in 0 .. 2 /\ t.index \in 0 .. NCM_MAX_DATAGRAMS_PER_NTB
      /\ t.ntb \in [Ntbs -> ntb_def_t]
  BY Zenon, TxFields DEF OutOK, Sound, Numbered
<1>2. CASE ~UserNtbQueued(t)
  BY Zenon, <1>2 DEF tx_accept_user_ntb, Accepts
<1>3. CASE UserNtbQueued(t)
  <2>1. /\ Sound(v) /\ v.user = Popped(t.free) /\ v.usbd = t.usbd /\ v.ntb = t.ntb
        /\ v.seq = t.seq /\ v.free = pop_ntb(t.free)
        /\ v.wait = IF t.user = NULL THEN t.wait ELSE push_ntb(t.wait, t.user)
    BY Zenon, <1>1, <1>3, NextUserNtbFact
  <2>2. /\ \A i, j \in Slots : i < j /\ w[i] # NULL /\ w[j] # NULL => w[i] < w[j]
        /\ \A i \in Slots : t.usbd # NULL /\ w[i] # NULL => t.usbd < w[i]
        /\ \A i \in Slots : w[i] # NULL => \/ w[i] = t.user
                                           \/ w[i] \in Ntbs /\ Waits(t, w[i])
    <3>1. CASE t.user = NULL
      <4>1. w = t.wait.ntb_list /\ w \in [Slots -> NtbPtr]
        BY Zenon, <1>1, <2>1, <3>1, TxFields DEF ntb_list_t
      <4> HIDE DEF w
      <4> QED BY Zenon, <1>1, <4>1 DEF Ordered, Waits, NtbPtr
    <3>2. CASE t.user # NULL
      <4>1. CanPush(t.wait, t.user) /\ w = push_ntb(t.wait, t.user).ntb_list
        BY Zenon, <1>3, <2>1, <3>2 DEF UserNtbQueued
      <4> HIDE DEF w
      <4> QED BY Zenon, <3>2, <4>1, QueuedFact
    <3> QED BY Zenon, <3>1, <3>2
  <2>3. \A n \in Ntbs : n = v.usbd \/ Waits(v, n)
          => \E k \in 1 .. NCM_MAX_DATAGRAMS_PER_NTB : LaidOut(t.ntb[n], k)
    <3> SUFFICES ASSUME NEW n \in Ntbs, n = v.usbd \/ Waits(v, n)
                 PROVE  \E k \in 1 .. NCM_MAX_DATAGRAMS_PER_NTB : LaidOut(t.ntb[n], k)
      BY Zenon
    <3>1. n = t.usbd \/ Waits(t, n) \/ n = t.user
      BY <2>1, <2>2, Two DEF Waits
    <3>2. n = t.user => t.index \in 1 .. NCM_MAX_DATAGRAMS_PER_NTB /\ LaidOut(t.ntb[n], t.index)
      BY <1>1, Two, TxAssumption DEF Laid
    <3> QED BY Zenon, <1>1, <3>1, <3>2 DEF Laid
  <2>4. /\ Popped(t.free) = IF t.seq < 2 THEN t.seq ELSE NULL
        /\ v.free.list_front = 1
        /\ \A i \in Slots : v.free.ntb_list[i] = IF i < t.seq + 1 THEN NULL ELSE i
    BY <2>1, FreeFact
  <2> HIDE DEF v
  <2>5. CASE Accepts(t)
    <3> DEFINE p == Populate(v)
    <3>1. Popped(t.free) # NULL
      BY Zenon, <2>5 DEF Accepts
    <3>2. t.seq \in 0 .. 1 /\ v.user = t.seq /\ v.user # NULL /\ v.user \in Ntbs
      BY <1>1, <2>1, <2>4, <3>1, Two
    <3>3. Populated(v, p)
      BY Zenon, <2>1, <3>2, PopulateFact
    <3>4. tx_accept_user_ntb(t) = p
      BY Zenon, <2>5 DEF tx_accept_user_ntb, v
    <3> HIDE DEF p
    <3>5. /\ Sound(p) /\ p.free = v.free /\ p.wait = v.wait /\ p.usbd = t.usbd /\ p.user = t.seq
          /\ p.index = 0 /\ p.seq = t.seq + 1
      BY <2>1, <3>2, <3>3 DEF Populated, SamePlaces
    <3>6. /\ p.ntb[t.seq].wSequence = t.seq /\ p.ntb[t.seq].wBlockLength = HeaderSize
          /\ p.ntb[t.seq].ndp_datagram = ZeroTable
          /\ \A n \in Ntbs \ {t.seq} : p.ntb[n] = t.ntb[n]
      BY <2>1, <3>2, <3>3 DEF Populated
    <3>7. Numbered(p)
      BY <1>1, <2>4, <3>2, <3>5, <3>6, Two DEF Numbered
    <3>8. Ordered(p)
      BY <2>2, <3>2, <3>5 DEF Ordered
    <3>9. p.ntb[t.seq] \in ntb_def_t
      BY Zenon, <3>2, <3>5, TxFields DEF Sound
    <3>10. HeaderSize <= NCM_NTB_MAX_SIZE
      <4>1. PICK s \in DatagramSizes : TRUE
        BY Zenon
      <4> QED BY <4>1, TxAssumption, HeaderFact, PaddedFact
    <3>11. LaidOut(p.ntb[t.seq], 0)
      BY SMTT(20), Zenon, <3>6, <3>9, <3>10, EmptyLaidOut
    <3>12. \A n \in Ntbs : n = p.usbd \/ Waits(p, n) => n # t.seq /\ (n = v.usbd \/ Waits(v, n))
      BY Zenon, <2>1, <3>2, <3>5 DEF Sound, Apart, Waits
    <3>13. Laid(p)
      BY Zenon, <2>3, <3>5, <3>6, <3>11, <3>12 DEF Laid
    <3> QED BY Zenon, <3>4, <3>5, <3>7, <3>8, <3>13 DEF OutOK
  <2>6. CASE ~Accepts(t)
    <3>1. t.seq = 2 /\ v.user = NULL
      BY <1>1, <1>3, <2>1, <2>4, <2>6, Two DEF Accepts
    <3>2. tx_accept_user_ntb(t) = v
      BY Zenon, <1>3, <2>6 DEF tx_accept_user_ntb, v
    <3>3. Numbered(v)
      BY <1>1, <2>1, <2>4, <3>1, Two DEF Numbered
    <3>4. Ordered(v)
      BY Zenon, <2>1, <2>2, <3>1 DEF Ordered
    <3>5. Laid(v)
      BY Zenon, <2>1, <2>3, <3>1 DEF Laid
    <3> QED BY Zenon, <2>1, <3>2, <3>3, <3>4, <3>5 DEF OutOK
  <2> QED BY Zenon, <2>5, <2>6
<1> QED BY Zenon, <1>2, <1>3
\* tx_try_start gives the USB driver the oldest NTB.
LEMMA StartOut ==
  ASSUME NEW t, OutOK(t), NEW active
  PROVE  OutOK(tx_try_start(t, active))
<1>1. /\ Sound(t) /\ Numbered(t) /\ Ordered(t) /\ Laid(t) /\ ListOK(t.wait)
      /\ t.user \in NtbPtr /\ t.index \in 0 .. NCM_MAX_DATAGRAMS_PER_NTB
      /\ t.wait.ntb_list \in [Slots -> NtbPtr]
      /\ t.wait.list_front \in Slots /\ t.wait.list_back \in Slots
  BY Zenon, TxFields DEF OutOK, Sound, ntb_list_t
<1>2. /\ t.wait.ntb_list[0] # NULL <=> t.wait.list_front = 0 /\ t.wait.list_back = 1
      /\ t.wait.list_back = 0 => t.wait.ntb_list[1] = NULL
      /\ Popped(t.wait) = t.wait.ntb_list[t.wait.list_front]
  BY Zenon, <1>1 DEF ListOK, Popped
<1>3. CASE t.usbd # NULL \/ active # 1
  BY Zenon, <1>3 DEF tx_try_start
<1>4. CASE t.usbd = NULL /\ active = 1 /\ Popped(t.wait) # NULL
  <2> DEFINE v == StartWaiting(t)
  <2>1. tx_try_start(t, active) = v
    BY Zenon, <1>4 DEF tx_try_start
  <2>2. /\ Sound(v) /\ v.ntb = t.ntb /\ v.user = t.user /\ v.index = t.index
        /\ v.free = t.free /\ v.seq = t.seq
        /\ v.usbd = Popped(t.wait) /\ v.wait = pop_ntb(t.wait)
    BY Zenon, <1>1, <1>4, StartWaitingFact
  <2>3. v.wait.ntb_list = [t.wait.ntb_list EXCEPT ![t.wait.list_front] = NULL]
    BY Zenon, <1>1, <2>2, SlotFacts
  <2> HIDE DEF v
  <2>4. Numbered(v)
    BY Zenon, <1>1, <2>2 DEF Numbered
  <2>5. \A i \in Slots : v.wait.ntb_list[i] # NULL =>
          v.wait.ntb_list[i] = t.wait.ntb_list[i] /\ i = 1 /\ t.wait.list_front = 0
    BY Zenon, <1>1, <1>2, <1>4, <2>3, Two
  <2>6. Ordered(v)
    <3>1. \A i \in Slots : v.wait.ntb_list[i] # NULL => v.usbd < v.wait.ntb_list[i]
      BY <1>1, <1>2, <1>4, <2>2, <2>5, Two DEF Ordered
    <3> QED BY <1>1, <2>2, <2>5, <3>1, Two DEF Ordered
  <2>7. \A n \in Ntbs : n = v.usbd \/ Waits(v, n) => Waits(t, n)
    BY <1>1, <1>2, <2>2, <2>5, Two DEF Waits
  <2>8. Laid(v)
    BY Zenon, <1>1, <2>2, <2>7 DEF Laid
  <2> QED BY Zenon, <2>1, <2>2, <2>4, <2>6, <2>8 DEF OutOK
<1>5. CASE t.usbd = NULL /\ active = 1 /\ Popped(t.wait) = NULL /\ t.user # NULL /\ t.index # 0
  <2> DEFINE v == StartUser(t)
  <2>1. tx_try_start(t, active) = v
    BY Zenon, <1>5 DEF tx_try_start
  <2>2. /\ Sound(v) /\ v.ntb = t.ntb /\ v.free = t.free /\ v.wait = t.wait /\ v.user = NULL
        /\ v.usbd = t.user /\ v.seq = t.seq
    BY Zenon, <1>1, <1>5, StartUserFact
  <2> HIDE DEF v
  <2>3. \A i \in Slots : t.wait.ntb_list[i] = NULL
    BY Zenon, <1>1, <1>2, <1>5, Two
  <2>4. Numbered(v) /\ Ordered(v)
    BY Zenon, <1>1, <2>2, <2>3 DEF Numbered, Ordered
  <2>5. t.user \in Ntbs /\ t.index \in 1 .. NCM_MAX_DATAGRAMS_PER_NTB
    BY <1>1, <1>5, TxAssumption DEF NtbPtr
  <2>6. Laid(v)
    BY Zenon, <1>1, <1>5, <2>2, <2>3, <2>5, Two DEF Laid, Waits
  <2> QED BY Zenon, <2>1, <2>2, <2>4, <2>6 DEF OutOK
<1>6. CASE t.usbd = NULL /\ active = 1 /\ Popped(t.wait) = NULL /\ ~(t.user # NULL /\ t.index # 0)
  BY Zenon, <1>6 DEF tx_try_start
<1> QED BY Zenon, <1>3, <1>4, <1>5, <1>6

\* A datagram that fits is added to the user NTB and changes no other.
LEMMA AppendOut ==
  ASSUME NEW t, OutOK(t), t.user # NULL, t.index < NCM_MAX_DATAGRAMS_PER_NTB,
         NEW size \in DatagramSizes,
         t.ntb[t.user].wBlockLength + Padded(size) <= NCM_NTB_MAX_SIZE
  PROVE  OutOK(Append1(t, size))
<1> DEFINE v == Append1(t, size)
<1>1. /\ Sound(t) /\ Numbered(t) /\ Ordered(t) /\ Laid(t)
      /\ t.user \in Ntbs /\ t.index \in 0 .. NCM_MAX_DATAGRAMS_PER_NTB /\ t.index \in Nat
      /\ t.ntb \in [Ntbs -> ntb_def_t]
  BY TxFields, TxAssumption DEF OutOK, Sound, NtbPtr
<1>2. /\ Sound(v) /\ SamePlaces(t, v)
      /\ \A n \in Ntbs \ {t.user} : v.ntb[n] = t.ntb[n]
      /\ v.index = t.index + 1 /\ v.seq = t.seq
      /\ Appended(t.ntb[t.user], t.index, size, v.ntb[t.user])
  BY Zenon, <1>1, AppendFact
<1> HIDE DEF v
<1>3. v.ntb \in [Ntbs -> ntb_def_t]
  BY Zenon, <1>2, TxFields DEF Sound
<1>4. v.ntb[t.user] \in ntb_def_t /\ t.ntb[t.user] \in ntb_def_t
  BY Zenon, <1>1, <1>3
<1>5. LaidOut(v.ntb[t.user], t.index + 1)
  BY <1>1, <1>2, <1>4, AppendLaidOut DEF Laid
<1>6. v.ntb[t.user].wSequence = t.ntb[t.user].wSequence
  BY <1>2 DEF Appended
<1>7. Numbered(v) /\ Ordered(v)
  BY <1>1, <1>2, <1>6 DEF Numbered, Ordered, SamePlaces
<1>8. \A n \in Ntbs : n = v.usbd \/ Waits(v, n) => n # t.user /\ (n = t.usbd \/ Waits(t, n))
  BY Zenon, <1>1, <1>2, Two DEF Sound, Apart, Waits, SamePlaces
<1>9. Laid(v)
  BY Zenon, <1>1, <1>2, <1>5, <1>8 DEF Laid, SamePlaces
<1> QED BY <1>2, <1>7, <1>9 DEF OutOK, v

-----------------------------------------------------------------------------
\* At first both NTBs are free and nothing is numbered.
LEMMA OutInit == TxInit => OutOK(tx)
<1> SUFFICES ASSUME TxInit PROVE OutOK(tx)
  BY Zenon
<1>1. Sound(tx)
  BY Zenon, TxInvInit DEF TxInv
<1>2. /\ tx.free = AllFree /\ tx.wait = EmptyList /\ tx.usbd = NULL /\ tx.user = NULL
      /\ tx.seq = 0
  BY Zenon DEF TxInit
<1>3. /\ EmptyList.ntb_list = [i \in Slots |-> NULL]
      /\ AllFree.ntb_list[0] = 0 /\ AllFree.ntb_list[1] = 1 /\ AllFree.list_front = 0
  BY Zenon, AllFreeFact, Two DEF EmptyList
<1> HIDE DEF AllFree, EmptyList
<1>4. Numbered(tx)
  BY <1>2, <1>3, Two DEF Numbered
<1>5. Ordered(tx) /\ Laid(tx)
  BY Zenon, <1>2, <1>3, Two DEF Ordered, Laid, Waits
<1> QED BY Zenon, <1>1, <1>4, <1>5 DEF OutOK

\* A step keeps what goes out in order.
LEMMA OutStep == TxInv /\ OutOK(tx) /\ [TxNext]_txVars => OutOK(tx')
<1> SUFFICES ASSUME TxInv, OutOK(tx), [TxNext]_txVars PROVE OutOK(tx')
  OBVIOUS
<1>1. /\ tx.user \in NtbPtr /\ tx.index \in 0 .. NCM_MAX_DATAGRAMS_PER_NTB
      /\ NCM_MAX_DATAGRAMS_PER_NTB \in Nat \ {0}
  BY TxFields, TxAssumption DEF OutOK, Sound
<1>2. ASSUME NEW size \in DatagramSizes, net_can_tx(size) PROVE OutOK(tx')
  <2>1. CASE tx' = tx
    BY Zenon, <2>1
  <2>2. CASE ~tx_datagram_fits_user_ntb(tx, size)
    <3>1. ASSUME tx.user # NULL, tx.index = 0 PROVE FALSE
      <4>1. LaidOut(tx.ntb[tx.user], 0)
        BY Zenon, <3>1 DEF OutOK, Laid
      <4>2. tx.ntb[tx.user].wBlockLength = HeaderSize
        BY Zenon, <4>1 DEF LaidOut
      <4> QED BY <1>1, <2>2, <3>1, <4>2, TxAssumption DEF tx_datagram_fits_user_ntb
    <3>2. OutOK(tx_accept_user_ntb(tx))
      BY Zenon, <3>1, AcceptOut
    <3>3. OutOK(tx_try_start(tx_accept_user_ntb(tx), interface_active))
      BY Zenon, <3>2, StartOut
    <3> QED BY <1>2, <2>2, <3>2, <3>3 DEF net_can_tx
  <2> QED BY Zenon, <1>2, <2>1, <2>2 DEF net_can_tx
<1>3. CASE net_tx
  <2> DEFINE added == Append1(tx, allowed)
  <2>1. /\ allowed \in DatagramSizes /\ tx.user # NULL /\ tx.index < NCM_MAX_DATAGRAMS_PER_NTB
        /\ tx.ntb[tx.user].wBlockLength + Padded(allowed) <= NCM_NTB_MAX_SIZE
    BY Zenon, <1>3 DEF TxInv, net_tx, PromiseHolds
  <2>2. OutOK(added)
    BY Zenon, <2>1, AppendOut
  <2>3. tx' = added \/ tx' = tx_try_start(added, interface_active)
    BY Zenon, <1>3, <2>1 DEF net_tx
  <2> HIDE DEF added
  <2> QED BY Zenon, <2>2, <2>3, StartOut
<1>4. CASE TxTransferIn
  BY Zenon, <1>4, StartOut DEF TxTransferIn
<1>5. ASSUME NEW alt \in AltSettings, TxSetInterface(alt) PROVE OutOK(tx')
  BY Zenon, <1>5 DEF TxSetInterface, txOwn
<1>6. CASE UNCHANGED txVars
  BY Zenon, <1>6 DEF txVars, txOwn
<1> QED BY Zenon, <1>2, <1>3, <1>4, <1>5, <1>6 DEF TxNext

\* What is numbered, ordered and laid out goes out as the host expects.
LEMMA OutFact == TxInv /\ OutOK(tx) => Outgoing
<1> SUFFICES ASSUME TxInv, OutOK(tx) PROVE Outgoing
  BY Zenon
<1>1. TxTypeOK
  BY Zenon DEF TxInv, TxTypeOK, Sound
<1>2. /\ Sound(tx) /\ Numbered(tx) /\ Ordered(tx) /\ Laid(tx)
      /\ tx.usbd \in NtbPtr /\ tx.user \in NtbPtr /\ tx.wait.ntb_list \in [Slots -> NtbPtr]
  BY Zenon, TxFields DEF OutOK, Sound, ntb_list_t
<1>3. \A n : n \in Held(tx.wait) <=> n \in Ntbs /\ Waits(tx, n)
  BY Zenon, <1>2, NullAssumption DEF Held, Waits, NtbPtr
<1>4. \A n : n \in Sent <=> n \in Ntbs /\ (n = tx.usbd \/ Waits(tx, n))
  BY Zenon, <1>2, <1>3, NullAssumption DEF Sent, NtbPtr
<1>5. \A n \in Ntbs : n = tx.user \/ n = tx.usbd \/ Waits(tx, n) => n < tx.seq
  BY Zenon, <1>2, TakenFact
<1>6. \A n \in Ntbs : n < tx.seq => tx.ntb[n].wSequence = n
  BY Zenon, <1>2 DEF Numbered
<1>7. Layout
  BY Zenon, <1>2, <1>4 DEF Layout, Laid
<1>8. InSequence
  <2>1. \A n \in Held(tx.wait) : tx.usbd # NULL => tx.ntb[tx.usbd].wSequence < tx.ntb[n].wSequence
    <3> SUFFICES ASSUME NEW n \in Held(tx.wait), tx.usbd # NULL
                 PROVE  tx.ntb[tx.usbd].wSequence < tx.ntb[n].wSequence
      BY Zenon
    <3>1. n \in Ntbs /\ Waits(tx, n) /\ tx.usbd \in Ntbs
      BY Zenon, <1>2, <1>3 DEF NtbPtr
    <3>2. tx.usbd < n
      BY Zenon, <1>2, <3>1, Two DEF Ordered, Waits
    <3> QED BY Zenon, <1>5, <1>6, <3>1, <3>2
  <2>2. \A i, j \in Slots :
          i < j /\ tx.wait.ntb_list[i] # NULL /\ tx.wait.ntb_list[j] # NULL
            => tx.ntb[tx.wait.ntb_list[i]].wSequence < tx.ntb[tx.wait.ntb_list[j]].wSequence
    <3> SUFFICES ASSUME NEW i \in Slots, NEW j \in Slots, i < j,
                        tx.wait.ntb_list[i] # NULL, tx.wait.ntb_list[j] # NULL
                 PROVE  tx.ntb[tx.wait.ntb_list[i]].wSequence < tx.ntb[tx.wait.ntb_list[j]].wSequence
      BY Zenon
    <3>1. /\ tx.wait.ntb_list[i] \in Ntbs /\ Waits(tx, tx.wait.ntb_list[i])
          /\ tx.wait.ntb_list[j] \in Ntbs /\ Waits(tx, tx.wait.ntb_list[j])
      BY Zenon, <1>2 DEF Waits, NtbPtr
    <3>2. tx.wait.ntb_list[i] < tx.wait.ntb_list[j]
      BY Zenon, <1>2 DEF Ordered
    <3> QED BY Zenon, <1>5, <1>6, <3>1, <3>2
  <2>3. tx.user # NULL => \A n \in Sent : tx.ntb[n].wSequence < tx.ntb[tx.user].wSequence
    <3> SUFFICES ASSUME tx.user # NULL, NEW n \in Sent
                 PROVE  tx.ntb[n].wSequence < tx.ntb[tx.user].wSequence
      BY Zenon
    <3>1. n \in Ntbs /\ n # tx.user /\ tx.user \in Ntbs /\ n < tx.seq /\ tx.user < tx.seq
      BY Zenon, <1>2, <1>4, <1>5 DEF Sound, Apart, Waits, NtbPtr
    <3>2. tx.user = tx.seq - 1 /\ tx.seq \in 0 .. 2
      BY Zenon, <1>2 DEF Ordered, Numbered
    <3>3. n < tx.user
      BY <3>1, <3>2, Two
    <3> QED BY Zenon, <1>6, <3>1, <3>3
  <2>4. \A n \in Sent \cup ({tx.user} \ {NULL}) : tx.ntb[n].wSequence < tx.seq
    BY Zenon, <1>2, <1>4, <1>5, <1>6 DEF NtbPtr
  <2> QED BY Zenon, <2>1, <2>2, <2>3, <2>4 DEF InSequence
<1> QED BY Zenon, <1>1, <1>7, <1>8 DEF Outgoing

\* For every NTB size, number of datagrams and set of frame lengths: what goes out, and
\* what will, has a table that describes its datagrams back to back up to its end, and
\* the NTBs leave in the order of their sequence numbers (net.c:33-40, tx.c:64-92).
THEOREM TxOrdered == TxSpec => []Outgoing
<1>1. TxInit => TxInv /\ OutOK(tx)
  BY Zenon, TxInvInit, OutInit
<1>2. TxInv /\ OutOK(tx) /\ [TxNext]_txVars => TxInv' /\ OutOK(tx)'
  BY Zenon, TxInvStep, OutStep
<1> QED BY <1>1, <1>2, OutFact, PTL DEF TxSpec
=============================================================================
