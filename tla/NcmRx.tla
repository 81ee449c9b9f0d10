------------------------------- MODULE NcmRx -------------------------------
(***************************************************************************)
(* The receive (OUT) half of the NCM class: lib/ncm/rx.c, the receive      *)
(* functions of lib/ncm/net.c, and the two ends of it in src/main.c:       *)
(* net_rx_cb, which takes one frame at a time, and service_traffic, which  *)
(* hands it to lwIP.  The call of ethernet_input may take long, or never   *)
(* return (NcmNet), and whatever the USB driver does happens meanwhile.    *)
(*                                                                         *)
(* A block from the host is its number and how many datagrams it holds; a  *)
(* frame is <<block, position in its datagram table>>.                     *)
(***************************************************************************)
EXTENDS NcmIf

CONSTANTS
  MaxBlocks,      \* bound: OUT transfers that the host completes
  MaxDatagrams    \* bound: datagrams in a block from the host

ASSUME RxAssumption == MaxBlocks \in Nat /\ MaxDatagrams \in Nat \ {0}

VARIABLES
  rx,               \* the receive fields of ncm_if
  out_transfer,     \* the USB driver is filling rx.usbd
  blocks,           \* number of blocks received so far
  received_frame,   \* the frame that waits for service_traffic, or NoFrame
  servicing,        \* service_traffic is inside ethernet_input
  last,             \* the frame for which net_rx_cb last returned true
  serviced          \* the frames that service_traffic has handed to lwIP

rxOwn == <<rx, out_transfer, blocks, received_frame, servicing, last, serviced>>
rxVars == <<interface_active, rxOwn>>

Frames == (1 .. MaxBlocks) \X (0 .. MaxDatagrams - 1)
NoFrame == <<0, 0>>

RxInit ==
  /\ interface_active = 0
  /\ rx = [free |-> AllFree, wait |-> EmptyList, usbd |-> NULL, user |-> NULL,
           index |-> 0, ntb |-> [n \in Ntbs |-> [block |-> 0, count |-> 0]]]
  /\ out_transfer = FALSE
  /\ blocks = 0
  /\ received_frame = NoFrame
  /\ servicing = FALSE
  /\ last = NoFrame
  /\ serviced = {}

-----------------------------------------------------------------------------
\* rx_update_user_ntb takes the next waiting NTB when it has none, offers the
\* current datagram to net_rx_cb, and on success steps to the next table entry,
\* or gives the NTB back at the zero entry.
Fetch(r) ==
  IF r.user = NULL
    THEN [r EXCEPT !.user = Popped(r.wait), !.wait = pop_ntb(@), !.index = 0]
    ELSE r

Current(r) == <<r.ntb[r.user].block, r.index>>

\* net_rx_cb returns true exactly when the one-frame slot is empty.
Takes(r, slot) == r.user # NULL /\ slot = NoFrame

\* Mutant: a table entry is stepped over.
Step_SkipsOne(r) ==
  IF r.index + 2 < r.ntb[r.user].count
    THEN [r EXCEPT !.index = @ + 2]
    ELSE [r EXCEPT !.free = push_ntb(@, r.user)]

Step(r) ==
  IF r.index + 1 < r.ntb[r.user].count
    THEN [r EXCEPT !.index = @ + 1]
    ELSE [r EXCEPT !.free = push_ntb(@, r.user)]

rx_update_user_ntb(r, slot) ==
  LET f == Fetch(r) IN IF Takes(f, slot) THEN Step(f) ELSE f

\* The call of net_rx_cb made by rx_update_user_ntb: pbuf_alloc may fail, and
\* the frame is then dropped although it counts as taken.
net_rx_cb(r, slot) ==
  LET f == Fetch(r) IN
    IF Takes(f, slot)
      THEN last' = Current(f) /\ received_frame' \in {Current(f), NoFrame}
      ELSE last' = last /\ received_frame' = slot

\* Mutant: an NTB is taken although the driver holds one.
Starts_WhileHeld(r) == interface_active = 1 /\ Popped(r.free) # NULL

Starts(r) == r.usbd = NULL /\ interface_active = 1 /\ Popped(r.free) # NULL

\* rx_try_start gives a free NTB to the USB driver; when the driver refuses the
\* transfer the NTB is pushed back, and rx_usbd_ntb keeps pointing to it.
\* pending tells whether an OUT transfer is still going on.
rx_try_start(r, pending) ==
  LET taken == [r EXCEPT !.usbd = Popped(r.free), !.free = pop_ntb(@)]
      refused == [taken EXCEPT !.free = push_ntb(@, taken.usbd)]
  IN IF Starts(r)
       THEN \/ rx' = taken /\ out_transfer' = TRUE
            \/ rx' = refused /\ out_transfer' = pending
       ELSE rx' = r /\ out_transfer' = pending

\* net_rx_renew, on the state r with the frame slot holding slot.
Renew(r, slot, pending) ==
  net_rx_cb(r, slot) /\ rx_try_start(rx_update_user_ntb(r, slot), pending)

-----------------------------------------------------------------------------
\* net.h: net_rx_renew called on its own.
net_rx_renew ==
  /\ Renew(rx, received_frame, out_transfer)
  /\ UNCHANGED <<interface_active, blocks, servicing, serviced>>

\* One pass of the loop of lwipThread_Entry that finds a frame: it goes to
\* ethernet_input ...
service_traffic ==
  /\ received_frame # NoFrame /\ ~servicing
  /\ servicing' = TRUE
  /\ serviced' = serviced \cup {received_frame}
  /\ UNCHANGED <<interface_active, rx, out_transfer, blocks, received_frame, last>>

\* Mutant: reception is not renewed after the frame.
service_traffic_done_NoRenew ==
  /\ servicing
  /\ servicing' = FALSE
  /\ received_frame' = NoFrame
  /\ UNCHANGED <<interface_active, rx, out_transfer, blocks, last, serviced>>

\* ... and when that has returned the slot is emptied and reception renewed.
service_traffic_done ==
  /\ servicing
  /\ servicing' = FALSE
  /\ Renew(rx, NoFrame, out_transfer)
  /\ UNCHANGED <<interface_active, blocks, serviced>>

\* net_usb_transfer(NCM_EP_DATA_OUT): the driver has filled rx.usbd with the
\* next block.  rx_validate_datagram accepts every block.
RxTransferOut(count) ==
  /\ out_transfer
  /\ blocks < MaxBlocks
  /\ blocks' = blocks + 1
  /\ Renew([rx EXCEPT !.ntb[rx.usbd] = [block |-> blocks', count |-> count],
                      !.wait = push_ntb(@, rx.usbd)],
           received_frame, FALSE)
  /\ UNCHANGED <<interface_active, servicing, serviced>>

\* net_usb_transfer(NCM_EP_DATA_IN), receive part: it pushes rx_usbd_ntb.
RxTransferIn ==
  /\ rx' = [rx EXCEPT !.free = push_ntb(@, rx.usbd)]
  /\ UNCHANGED <<interface_active, out_transfer, blocks, received_frame, servicing, last, serviced>>

\* SET_INTERFACE, receive part: rx_update_user_ntb without rx_try_start.
RxSetInterface(alt) ==
  /\ interface_active' = alt
  /\ IF alt = 0 THEN UNCHANGED <<rx, received_frame, last>>
     ELSE net_rx_cb(rx, received_frame) /\ rx' = rx_update_user_ntb(rx, received_frame)
  /\ UNCHANGED <<out_transfer, blocks, servicing, serviced>>

RxNext ==
  \/ net_rx_renew
  \/ service_traffic
  \/ service_traffic_done
  \/ \E count \in 1 .. MaxDatagrams : RxTransferOut(count)
  \/ RxTransferIn
  \/ \E alt \in AltSettings : RxSetInterface(alt)

RxSpec == RxInit /\ [][RxNext]_rxVars
-----------------------------------------------------------------------------
\* The fields keep their types: in particular the datagram index stays inside the
\* table of the block that is read (rx.c:32-38).
RxTypeOK ==
  /\ interface_active \in AltSettings
  /\ rx \in [free : ntb_list_t, wait : ntb_list_t, usbd : NtbPtr, user : NtbPtr,
             index : 0 .. MaxDatagrams - 1,
             ntb : [Ntbs -> [block : 0 .. MaxBlocks, count : 0 .. MaxDatagrams]]]
  /\ {out_transfer, servicing} \subseteq BOOLEAN
  /\ blocks \in 0 .. MaxBlocks
  /\ {received_frame, last} \subseteq Frames \cup {NoFrame}
  /\ serviced \subseteq Frames

\* The USB driver never writes into an NTB that waits for the user or that the
\* user still reads (rx.c:20-24, 46-49; net.c:67).
NoWriteWhileRead ==
  out_transfer => rx.usbd \notin Held(rx.wait) \cup {rx.user}

\* Datagrams are taken in the order of the table and of the blocks, none is
\* passed over: the next one taken is the one after the last, or the last again.
Follows(f, g) ==
  \/ g = f
  \/ g = <<f[1], f[2] + 1>>
  \/ g = <<f[1] + 1, 0>> /\ (f = NoFrame \/ f[2] + 1 = rx.ntb[rx.user].count)

TakenInOrder == [][Follows(last, last')]_rxVars

\* A frame that net_rx_cb has stored stays until service_traffic has handed it to lwIP
\* and ethernet_input has returned, whatever arrives meanwhile (main.c:117, 145-152).
Serviced == servicing /\ ~servicing' /\ received_frame \in serviced

StoredIsServiced ==
  [][received_frame \notin {NoFrame, received_frame'} => Serviced]_rxVars

\* Between a received block and lwIP no frame is passed over or overwritten.
FramesKept == TakenInOrder /\ StoredIsServiced

\* "ncm pseudocode":188-189, after the last datagram: the NTB leaves the user.
\* So no datagram is handed to lwIP twice.
DeliveredOnce == [][service_traffic => received_frame \notin serviced]_rxVars

\* "ncm pseudocode":233-234, on completion of an OUT transfer: USBReceiveNTB is
\* NULL before Network Receive Renew, which then starts on another NTB.
ReceptionGoesOn ==
  [][blocks' # blocks /\ interface_active = 1 /\ Held(rx.free) # {} => rx'.usbd # rx.usbd]_rxVars
=============================================================================
