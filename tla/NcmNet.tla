------------------------------ MODULE NcmNet ------------------------------
(***************************************************************************)
(* The whole NCM class behind lib/ncm/include/net.h: both halves and the   *)
(* notifications of tx_notification (lib/ncm/tx.c), one action for each    *)
(* call that the network stack, or the USB driver, makes.                  *)
(***************************************************************************)
EXTENDS NcmTx, NcmRx

CONSTANT NotifyDepth   \* bound: transfers that the driver queues on NCM_EP_NOTIFY

ASSUME NotifyAssumption == NotifyDepth \in Nat \ {0}

VARIABLES
  output,               \* length of the frame that link_output_app is to send, or 0
  notification_state,   \* TX_NOTIFY_STATE_..., as left by tx_notification
  notify_transfers      \* transfers pending on NCM_EP_NOTIFY

notifyVars == <<notification_state, notify_transfers>>
netVars == <<interface_active, txOwn, rxOwn, output, notifyVars>>

NetInit ==
  /\ TxInit
  /\ RxInit
  /\ output = 0
  /\ notification_state = "WAITING"
  /\ notify_transfers = 0

\* tx_notification: WAITING issues the speed and the connection notification and
\* ends in CONNECTED; a forced call in CONNECTED goes back to WAITING.  The
\* driver accepts what its queue holds.
tx_notification(force_next, pending) ==
  \/ /\ notification_state = "WAITING"
     /\ notification_state' = "CONNECTED"
     /\ notify_transfers' \in {n \in pending .. pending + 2 : n <= NotifyDepth}
  \/ /\ notification_state = "CONNECTED"
     /\ notification_state' = IF force_next THEN "WAITING" ELSE "CONNECTED"
     /\ notify_transfers' = pending

-----------------------------------------------------------------------------
net_usb_transfer_in ==
  RxTransferIn /\ TxTransferIn /\ UNCHANGED <<output, notifyVars>>

net_usb_transfer_out ==
  /\ \E count \in 1 .. MaxDatagrams : RxTransferOut(count)
  /\ UNCHANGED <<txOwn, output, notifyVars>>

net_usb_transfer_notify ==
  /\ notify_transfers > 0
  /\ tx_notification(TRUE, notify_transfers - 1)
  /\ UNCHANGED <<interface_active, txOwn, rxOwn, output>>

\* net_usb_control_transfer: SET_INTERFACE.  The other requests only send data,
\* or are refused, and leave ncm_if alone.
set_interface(alt) ==
  /\ TxSetInterface(alt)
  /\ RxSetInterface(alt)
  /\ IF alt = 0 THEN UNCHANGED notifyVars
     ELSE tx_notification(FALSE, notify_transfers)
  /\ UNCHANGED output

\* link_output_app, which lwIP calls inside ethernet_input: it asks net_can_tx for ever
\* again, until that agrees and net_tx follows ...
link_output_app(size) ==
  /\ servicing /\ output \in {0, size}
  /\ net_can_tx(size)
  /\ output' = size
  /\ UNCHANGED <<rxOwn, notifyVars>>

link_output_app_tx ==
  /\ net_tx
  /\ output' = 0
  /\ UNCHANGED <<rxOwn, notifyVars>>

\* ... or the application is not active any more.  (glIsApplnActive is not a variable
\* here: it may be false at any time, or never.)
link_output_app_inactive ==
  /\ output # 0 /\ allowed = 0
  /\ output' = 0
  /\ UNCHANGED <<interface_active, txOwn, rxOwn, notifyVars>>

ServiceLoop == service_traffic /\ UNCHANGED <<txOwn, output, notifyVars>>

\* ethernet_input returns, which it cannot inside link_output_app.
ServiceReturns ==
  /\ output = 0
  /\ service_traffic_done
  /\ UNCHANGED <<txOwn, output, notifyVars>>

net_user ==
  \/ \E size \in DatagramSizes : link_output_app(size)
  \/ link_output_app_tx
  \/ link_output_app_inactive
  \/ net_rx_renew /\ UNCHANGED <<txOwn, output, notifyVars>>
  \/ ServiceLoop
  \/ ServiceReturns

NetNext ==
  \/ net_user
  \/ net_usb_transfer_in
  \/ net_usb_transfer_out
  \/ net_usb_transfer_notify
  \/ \E alt \in AltSettings : set_interface(alt)

\* The loop of lwipThread_Entry goes on, and ethernet_input, which sends finitely many
\* frames, comes to its end if it does not stay in link_output_app.
NetSpec ==
  /\ NetInit /\ [][NetNext]_netVars
  /\ WF_netVars(ServiceLoop) /\ SF_netVars(ServiceReturns)
-----------------------------------------------------------------------------
\* Between two calls the notification state is never SPEED_CHANGE, in which
\* tx_notification would do nothing any more (tx.c:17-26).
NotifyTypeOK ==
  /\ notification_state \in {"WAITING", "CONNECTED"}
  /\ notify_transfers \in 0 .. NotifyDepth

\* Over all calls of the class the notification state comes to rest only where
\* tx_notification may begin again, and the USB driver does not write what is read.
NetOK == NotifyTypeOK /\ RxTypeOK /\ NoWriteWhileRead

\* A block is read to its last datagram ...
ReadOut == rx.user # NULL /\ last = <<blocks, rx.ntb[rx.user].count - 1>>

\* ... unless pbuf_alloc fails: a frame that net_rx_cb took and could not store leaves
\* nothing for service_traffic, which then does not renew (main.c:117-127, 147).
Dropped == last # NoFrame /\ received_frame # last /\ last \notin serviced

\* As long as link_output_app returns, which it does not for ever (SentIsFreed of NcmTx),
\* every block is read to its last datagram without any further event from USB.
Drained == []<>(output = 0) => (blocks > 0 ~> ReadOut \/ Dropped)
=============================================================================
