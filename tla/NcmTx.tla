------------------------------- MODULE NcmTx -------------------------------
(***************************************************************************)
(* The transmit (IN) half of the NCM class: lib/ncm/tx.c and the transmit  *)
(* functions of lib/ncm/net.c, called by link_output_app of src/main.c.    *)
(* Datagrams are gathered in the user NTB; a full NTB waits in tx_wait_ntb *)
(* until the USB driver takes it.                                          *)
(*                                                                         *)
(* The fields of ncm_if of this half are the record tx.  The helpers of    *)
(* tx.c are functions from such a record to the record they leave, so that *)
(* a handler is the composition of the calls it makes.                     *)
(***************************************************************************)
EXTENDS NcmIf

CONSTANTS
  NCM_NTB_MAX_SIZE,            \* bytes of an NTB (3200)
  NCM_MAX_DATAGRAMS_PER_NTB,   \* datagrams of a transmitted NTB (8)
  NCM_EP_SIZE,                 \* bytes of a bulk packet (512)
  DatagramSizes                \* lengths of the frames that lwIP hands over

\* ALIGN_OFFSET: the padding up to a multiple of NCM_NDP_ALIGN_MIN_SIZE = 4.
ALIGN_OFFSET(x) == (4 - (x % 4)) % 4

Padded(size) == size + ALIGN_OFFSET(size)

\* sizeof(nth) + sizeof(ndp) + sizeof(ndp_datagram): one table entry more than
\* there are datagrams, for the zero entry that ends the table.
HeaderSize == 12 + 8 + 4 * (NCM_MAX_DATAGRAMS_PER_NTB + 1)

\* Every frame fits into an empty NTB (mtu 1514 and 14 bytes of Ethernet header
\* against 3200): net_can_tx does not look at the size again after it has taken
\* a fresh NTB.
ASSUME TxAssumption ==
  /\ NCM_MAX_DATAGRAMS_PER_NTB \in Nat \ {0}
  /\ NCM_EP_SIZE \in Nat \ {0}
  /\ NCM_NTB_MAX_SIZE \in Nat /\ NCM_NTB_MAX_SIZE < 65536
  /\ DatagramSizes \subseteq Nat \ {0}
  /\ \A s \in DatagramSizes : HeaderSize + Padded(s) <= NCM_NTB_MAX_SIZE

VARIABLES
  tx,                 \* the transmit fields of ncm_if
  allowed,            \* length for which net_can_tx has just returned true, or 0
  in_transfer         \* what the USB driver is sending on NCM_EP_DATA_IN

txOwn == <<tx, allowed, in_transfer>>
txVars == <<interface_active, txOwn>>

-----------------------------------------------------------------------------
Entries == 0 .. NCM_MAX_DATAGRAMS_PER_NTB
ZeroTable == [i \in Entries |-> [wDatagramIndex |-> 0, wDatagramLength |-> 0]]

ntb_def_t ==
  [wSequence : Nat, wBlockLength : Nat,
   ndp_datagram : [Entries -> [wDatagramIndex : Nat, wDatagramLength : Nat]]]

TxInit ==
  /\ interface_active = 0
  /\ tx = [free |-> AllFree, wait |-> EmptyList, usbd |-> NULL, user |-> NULL,
           index |-> 0, seq |-> 0,
           ntb |-> [n \in Ntbs |-> [wSequence |-> 0, wBlockLength |-> 0,
                                    ndp_datagram |-> ZeroTable]]]
  /\ allowed = 0
  /\ in_transfer = "none"

\* Mutant: room is compared with the whole NTB.
tx_datagram_fits_user_ntb_NoLength(t, size) ==
  /\ t.user # NULL
  /\ t.index < NCM_MAX_DATAGRAMS_PER_NTB
  /\ Padded(size) <= NCM_NTB_MAX_SIZE

\* tx_datagram_fits_user_ntb: a table entry and room for the padded datagram.
tx_datagram_fits_user_ntb(t, size) ==
  /\ t.user # NULL
  /\ t.index < NCM_MAX_DATAGRAMS_PER_NTB
  /\ t.ntb[t.user].wBlockLength + Padded(size) <= NCM_NTB_MAX_SIZE

\* Mutant: the datagram index is not reset.
Populate_KeepIndex(t) ==
  [t EXCEPT !.seq = (@ + 1) % 65536,
            !.ntb[t.user] = [wSequence |-> t.seq, wBlockLength |-> HeaderSize,
                             ndp_datagram |-> ZeroTable]]

\* The header of a new user NTB: numbered, without datagrams.
Populate(t) ==
  [t EXCEPT !.index = 0,
            !.seq = (@ + 1) % 65536,
            !.ntb[t.user] = [wSequence |-> t.seq, wBlockLength |-> HeaderSize,
                             ndp_datagram |-> ZeroTable]]

\* tx_accept_user_ntb: the user NTB, if any, must go to the wait list; then an
\* NTB of the free list, if any, becomes the user NTB.
UserNtbQueued(t) == t.user = NULL \/ CanPush(t.wait, t.user)

Accepts(t) == UserNtbQueued(t) /\ Popped(t.free) # NULL

NextUserNtb(t) ==
  [t EXCEPT !.wait = IF t.user = NULL THEN @ ELSE push_ntb(@, t.user),
            !.user = Popped(t.free),
            !.free = pop_ntb(@)]

tx_accept_user_ntb(t) ==
  IF Accepts(t) THEN Populate(NextUserNtb(t))
  ELSE IF UserNtbQueued(t) THEN NextUserNtb(t) ELSE t

\* The two ways of giving an NTB to the USB driver.
StartWaiting(t) == [t EXCEPT !.usbd = Popped(t.wait), !.wait = pop_ntb(@)]

StartUser(t) == [t EXCEPT !.usbd = t.user, !.user = NULL]

\* Mutant: the user keeps the NTB that it gave to the USB driver.
tx_try_start_Alias(t, active) ==
  IF t.usbd # NULL \/ active # 1 THEN t
  ELSE IF Popped(t.wait) # NULL THEN StartWaiting(t)
  ELSE IF t.user # NULL /\ t.index # 0 THEN [t EXCEPT !.usbd = t.user] ELSE t

\* tx_try_start: when the USB driver holds no NTB and the interface is active,
\* it gets the oldest waiting NTB, or else the user NTB if that has datagrams.
\* (usb_ep_busy of main.c:1113 always answers false.)
tx_try_start(t, active) ==
  IF t.usbd # NULL \/ active # 1 THEN t
  ELSE IF Popped(t.wait) # NULL THEN StartWaiting(t)
  ELSE IF t.user # NULL /\ t.index # 0 THEN StartUser(t) ELSE t

\* usb_transfer_ep(NCM_EP_DATA_IN) is called when tx_try_start has given the
\* USB driver an NTB; the driver may accept the transfer or not, and nobody
\* looks at the answer.
TransferStarted(before) ==
  in_transfer' \in IF tx'.usbd # tx.usbd THEN {"ntb", "none"} ELSE {before}

-----------------------------------------------------------------------------
\* link_output_app first asks net_can_tx ...
net_can_tx(size) ==
  /\ allowed = 0
  /\ LET fits == tx_datagram_fits_user_ntb(tx, size)
         accepted == tx_accept_user_ntb(tx)
     IN \/ fits /\ allowed' = size /\ tx' = tx
        \/ ~fits /\ Accepts(tx) /\ allowed' = size /\ tx' = accepted
        \/ /\ ~fits /\ ~Accepts(tx)
           /\ allowed' = 0
           /\ tx' = tx_try_start(accepted, interface_active)
  /\ TransferStarted(in_transfer)
  /\ UNCHANGED interface_active

\* ... and then calls net_tx; pbuf_copy_partial copies the whole frame.
Append1(t, size) ==
  LET at == t.ntb[t.user].wBlockLength IN
    [t EXCEPT !.ntb[t.user] =
                  [@ EXCEPT !.ndp_datagram[t.index] =
                                [wDatagramIndex |-> at, wDatagramLength |-> size],
                            !.wBlockLength = (at + Padded(size)) % 65536],
              !.index = @ + 1]

net_tx ==
  /\ allowed # 0
  /\ allowed' = 0
  /\ tx' = IF tx.user = NULL THEN tx
           ELSE LET added == Append1(tx, allowed) IN
             IF added.ntb[tx.user].wBlockLength > NCM_NTB_MAX_SIZE THEN added
             ELSE tx_try_start(added, interface_active)
  /\ TransferStarted(in_transfer)
  /\ UNCHANGED interface_active

\* net_usb_transfer(NCM_EP_DATA_IN, bytes), transmit part: a transfer that fills
\* its last packet is followed by a zero length packet, any other by the next
\* NTB.
NeedsZlp(bytes) == bytes # 0 /\ bytes % NCM_EP_SIZE = 0

TxTransferIn ==
  /\ in_transfer # "none"
  /\ LET bytes == IF in_transfer = "zlp" THEN 0 ELSE tx.ntb[tx.usbd].wBlockLength
     IN IF NeedsZlp(bytes)
          THEN tx' = tx /\ in_transfer' \in {"zlp", "none"}
          ELSE tx' = tx_try_start(tx, interface_active) /\ TransferStarted("none")
  /\ UNCHANGED <<interface_active, allowed>>

\* SET_INTERFACE, transmit part.
TxSetInterface(alt) == interface_active' = alt /\ UNCHANGED txOwn

TxNext ==
  \/ \E size \in DatagramSizes : net_can_tx(size)
  \/ net_tx
  \/ TxTransferIn
  \/ \E alt \in AltSettings : TxSetInterface(alt)

TxSpec == TxInit /\ [][TxNext]_txVars
-----------------------------------------------------------------------------
tx_t ==
  [free : ntb_list_t, wait : ntb_list_t, usbd : NtbPtr, user : NtbPtr,
   index : 0 .. NCM_MAX_DATAGRAMS_PER_NTB, seq : Nat, ntb : [Ntbs -> ntb_def_t]]

\* The fields keep their types: in particular the datagram index never passes the
\* entry that ends the table (tx.c:42, net.c:33-35).
TxTypeOK ==
  /\ interface_active \in AltSettings
  /\ tx \in tx_t
  /\ allowed \in DatagramSizes \cup {0}
  /\ in_transfer \in {"none", "ntb", "zlp"}

\* Every NTB is in exactly one place: free, waiting, with the USB driver or with
\* the user.  None is lost, and none is filled by the user while the USB driver
\* sends it (struct.h:32-36).
Holders(n) ==
  {<<"free", i>> : i \in {i \in Slots : tx.free.ntb_list[i] = n}}
    \cup {<<"wait", i>> : i \in {i \in Slots : tx.wait.ntb_list[i] = n}}
    \cup {h \in {<<"usbd", 0>>} : tx.usbd = n}
    \cup {h \in {<<"user", 0>>} : tx.user = n}

OneOwner == \A n \in Ntbs : \E h \in Holders(n) : Holders(n) = {h}

\* What net_can_tx promised still holds when net_tx runs, whatever the USB side
\* did in between: there is a user NTB, it has a free table entry that is not the
\* last one, and the padded frame fits.  So net_tx neither drops the frame
\* (net.c:28) nor reports the overflow (net.c:37).
PromiseHolds ==
  allowed # 0 =>
    /\ tx.user # NULL
    /\ tx.index < NCM_MAX_DATAGRAMS_PER_NTB
    /\ tx.ntb[tx.user].wBlockLength + Padded(allowed) <= NCM_NTB_MAX_SIZE

\* The datagram table of an NTB with k datagrams describes them back to back,
\* each on a multiple of 4, from the end of the header up to wBlockLength, and
\* is ended by a zero entry; the whole fits into the NTB (net.c:33-40).
LaidOut(ntb, k) ==
  LET at(i) == IF i = k THEN ntb.wBlockLength ELSE ntb.ndp_datagram[i].wDatagramIndex
  IN /\ at(0) = HeaderSize
     /\ \A i \in 0 .. k - 1 :
          /\ ntb.ndp_datagram[i].wDatagramLength \in DatagramSizes
          /\ at(i) % 4 = 0
          /\ at(i + 1) = at(i) + Padded(ntb.ndp_datagram[i].wDatagramLength)
     /\ \A i \in k .. NCM_MAX_DATAGRAMS_PER_NTB : ntb.ndp_datagram[i] = ZeroTable[i]
     /\ ntb.wBlockLength <= NCM_NTB_MAX_SIZE

Sent == Held(tx.wait) \cup ({tx.usbd} \ {NULL})

Layout ==
  /\ tx.user # NULL => LaidOut(tx.ntb[tx.user], tx.index)
  /\ \A n \in Sent : \E k \in 1 .. NCM_MAX_DATAGRAMS_PER_NTB : LaidOut(tx.ntb[n], k)

\* NTBs reach the host in the order in which they were filled: the one with the
\* USB driver is older than the waiting ones, these leave the list by age, and
\* the user NTB is the youngest (tx.c:69, 84-92).
InSequence ==
  LET seq(n) == tx.ntb[n].wSequence
      waits == tx.wait.ntb_list
  IN /\ \A n \in Held(tx.wait) : tx.usbd # NULL => seq(tx.usbd) < seq(n)
     /\ \A i, j \in Slots :
          i < j /\ waits[i] # NULL /\ waits[j] # NULL => seq(waits[i]) < seq(waits[j])
     /\ tx.user # NULL => \A n \in Sent : seq(n) < seq(tx.user)
     /\ \A n \in Sent \cup ({tx.user} \ {NULL}) : seq(n) < tx.seq

\* What goes out, and what will, is laid out and numbered as the host expects
\* (net.c:33-40, tx.c:64-92).
Outgoing == TxTypeOK /\ Layout /\ InSequence

\* An NTB that the USB driver is sending is not changed by any later call.
SendingIsFrozen ==
  [][in_transfer = "ntb" => tx'.ntb[tx.usbd] = tx.ntb[tx.usbd]]_txVars

\* "ncm pseudocode":236-237, on completion of an IN transfer: the NTB that was
\* sent is put into the transmit free list and leaves the USB driver.
SentIsFreed ==
  [][in_transfer = "ntb" /\ in_transfer' # "ntb" => tx.usbd \in Held(tx'.free)]_txVars
=============================================================================
