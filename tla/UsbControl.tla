---------------------------- MODULE UsbControl ----------------------------
(***************************************************************************)
(* Control requests and notifications of src/main.c: the callbacks that    *)
(* the USB driver thread runs, the application thread that answers the     *)
(* requests through net_usb_control_transfer (lib/ncm/net.c), and the      *)
(* notifier DMA channel with its one buffer.                               *)
(*                                                                         *)
(* A callback runs to its end before the application thread goes on (it    *)
(* has the lower priority), so a callback is one step.  The application    *)
(* thread can be interrupted between any two of its steps.                 *)
(***************************************************************************)
EXTENDS Naturals, Sequences, SequencesExt

CONSTANTS
  MaxRequests,   \* bound: control requests that the host sends
  MaxStops       \* bound: bus resets, disconnects and reconfigurations

ASSUME ControlAssumption == MaxRequests \in Nat /\ MaxStops \in Nat

VARIABLES
  glIsApplnActive,      \* the DMA channels exist
  setupdat,             \* gl_setupdat0 and gl_setupdat1: the last request stored
  ctrl_task,            \* CYFX_USB_CTRL_TASK of glBulkLpEvent
  app,                  \* where the application thread is
  msg,                  \* the notification that usb_transfer_ep is sending
  req,                  \* the request that the application thread handles
  interface_active,     \* alternate setting in ncm_if
  notification_state,   \* TX_NOTIFY_STATE_... in ncm_if
  notifier,             \* the buffer of glChHandleNotifier: destroyed, free or a message
  ep0,                  \* the request that the host waits for, or NoRequest
  requests,             \* number of requests so far
  stops,                \* number of times CyFxAppStop has run
  received,             \* notifications that the host has read
  host_alt,             \* alternate setting of the last acknowledged SET_INTERFACE
  misanswered           \* an answer was given that was not for ep0

host == <<requests, stops, received>>
appLocal == <<app, msg, req>>
ncm_if == <<interface_active, notification_state>>
answers == <<ep0, host_alt, misanswered>>
vars == <<glIsApplnActive, setupdat, ctrl_task, appLocal, ncm_if, notifier, answers, host>>

\* SET_INTERFACE 0 and 1, GET_INTERFACE, GET_NTB_PARAMETERS, and the feature
\* requests to the interface.
Kinds == {"set0", "set1", "get", "ntb", "feature"}
Request == [id : 1 .. MaxRequests, kind : Kinds]
NoRequest == [id |-> 0, kind |-> "none"]
Messages == {"speed", "connection"}

Init ==
  /\ glIsApplnActive = FALSE
  /\ setupdat = NoRequest
  /\ ctrl_task = FALSE
  /\ app = "wait" /\ msg = "speed" /\ req = NoRequest
  /\ interface_active = 0
  /\ notification_state = "WAITING"
  /\ notifier = "destroyed"
  /\ ep0 = NoRequest
  /\ requests = 0 /\ stops = 0 /\ received = <<>>
  /\ host_alt = 0
  /\ misanswered = FALSE

-----------------------------------------------------------------------------
\* The USB driver thread.

\* CyFxAppUSBSetupCB: feature requests are answered at once (acknowledged or
\* stalled), the others are stored for the application thread.  The host sends
\* those to a configured device only.
CyFxAppUSBSetupCB(kind) ==
  /\ ep0 = NoRequest
  /\ requests < MaxRequests
  /\ kind = "feature" \/ glIsApplnActive
  /\ requests' = requests + 1
  /\ LET r == [id |-> requests', kind |-> kind] IN
       IF kind = "feature" THEN UNCHANGED <<ep0, setupdat, ctrl_task>>
       ELSE ep0' = r /\ setupdat' = r /\ ctrl_task' = TRUE
  /\ UNCHANGED <<glIsApplnActive, appLocal, ncm_if, notifier, host_alt, misanswered,
                 stops, received>>

\* CyFxAppStart creates the channels, CyFxAppStop destroys them.
CyFxAppStart == glIsApplnActive' = TRUE /\ notifier' = "free"

CyFxAppStop == glIsApplnActive' = FALSE /\ notifier' = "destroyed"

\* CyFxAppUSBEventCB, CY_U3P_USB_EVENT_SETCONF: CyFxAppStop when active, then
\* CyFxAppStart.
SetConf ==
  /\ ep0 = NoRequest
  /\ glIsApplnActive => stops < MaxStops
  /\ stops' = IF glIsApplnActive THEN stops + 1 ELSE stops
  /\ CyFxAppStart
  /\ UNCHANGED <<setupdat, ctrl_task, appLocal, ncm_if, answers, requests, received>>

\* CyFxAppUSBEventCB, CY_U3P_USB_EVENT_RESET and _DISCONNECT: the host forgets
\* its request; CyFxAppStop when active.
ResetOrDisconnect ==
  /\ glIsApplnActive
  /\ stops < MaxStops
  /\ stops' = stops + 1
  /\ CyFxAppStop
  /\ ep0' = NoRequest
  /\ UNCHANGED <<setupdat, ctrl_task, appLocal, ncm_if, host_alt, misanswered,
                 requests, received>>

\* The host reads the interrupt endpoint.
HostPoll ==
  /\ notifier \in Messages
  /\ received' = Append(received, notifier)
  /\ notifier' = "free"
  /\ UNCHANGED <<glIsApplnActive, setupdat, ctrl_task, appLocal, ncm_if, answers,
                 requests, stops>>

-----------------------------------------------------------------------------
\* The application thread: appThread_Entry.

driver == <<glIsApplnActive, setupdat, host>>

\* Mutant: CYU3P_EVENT_OR instead of CYU3P_EVENT_OR_CLEAR.
EventGet_NoClear ==
  /\ app = "wait"
  /\ ctrl_task
  /\ app' = "fetch"
  /\ UNCHANGED <<driver, ctrl_task, msg, req, ncm_if, notifier, answers>>

\* CyU3PEventGet returns and clears the event; the request is read after that.
EventGet ==
  /\ app = "wait"
  /\ ctrl_task
  /\ ctrl_task' = FALSE
  /\ app' = "fetch"
  /\ UNCHANGED <<driver, msg, req, ncm_if, notifier, answers>>

FetchRequest ==
  /\ app = "fetch"
  /\ req' = setupdat
  /\ app' = "handle"
  /\ UNCHANGED <<driver, ctrl_task, msg, ncm_if, notifier, answers>>

\* CyU3PUsbAckSetup and CyU3PUsbSendEP0Data complete whatever request is pending.
Answer(alt) ==
  /\ app' = "wait"
  /\ ep0' = NoRequest
  /\ misanswered' = (misanswered \/ ep0 # req)
  /\ host_alt' = IF ep0 = req THEN alt ELSE host_alt
  /\ UNCHANGED <<msg, req>>

StoreAlt(alt) == interface_active' = alt

\* net_usb_control_transfer.  tx_notification sends the two notifications the
\* first time only.  rx_update_user_ntb, called before it, is an action of NcmNet:
\* it finds no NTB here, where usb_transfer_ep never starts a data transfer.
net_usb_control_transfer ==
  /\ app = "handle"
  /\ \/ req.kind \in {"get", "ntb"} /\ Answer(host_alt) /\ UNCHANGED ncm_if
     \/ req.kind = "set0" /\ StoreAlt(0) /\ Answer(0) /\ UNCHANGED notification_state
     \/ /\ req.kind = "set1"
        /\ StoreAlt(1)
        /\ IF notification_state = "WAITING"
             THEN notification_state' = "SPEED_CHANGE" /\ app' = "get" /\ msg' = "speed"
             ELSE app' = "ack" /\ UNCHANGED <<notification_state, msg>>
        /\ UNCHANGED <<req, answers>>
  /\ UNCHANGED <<driver, ctrl_task, notifier>>

\* Mutant: CYU3P_WAIT_FOREVER instead of 1000 ms.
GetBuffer_WaitForever ==
  /\ app = "get"
  /\ notifier \notin Messages
  /\ app' = IF notifier = "free" THEN "copy" ELSE "retry"
  /\ UNCHANGED <<driver, ctrl_task, msg, req, ncm_if, notifier, answers>>

\* Mutant: the channel is not reset.
GetBuffer_NoReset ==
  /\ app = "get"
  /\ app' = IF notifier = "free" THEN "copy" ELSE "retry"
  /\ UNCHANGED <<driver, ctrl_task, msg, req, ncm_if, notifier, answers>>

\* usb_transfer_ep(NCM_EP_NOTIFY), first CyU3PDmaChannelGetBuffer: it succeeds, or
\* it fails (no channel, or a buffer not read for 1000 ms) and the channel is reset.
GetBuffer ==
  /\ app = "get"
  /\ app' = IF notifier = "free" THEN "copy" ELSE "retry"
  /\ notifier' = IF notifier = "destroyed" THEN "destroyed" ELSE "free"
  /\ UNCHANGED <<driver, ctrl_task, msg, req, ncm_if, answers>>

\* Mutant: the connection notification is left out.
Sent_SpeedOnly == notification_state' = "CONNECTED" /\ app' = "ack" /\ UNCHANGED msg

\* The steps after one notification: the other one, or the end of SET_INTERFACE.
Sent ==
  IF msg = "speed"
    THEN msg' = "connection" /\ app' = "get" /\ UNCHANGED notification_state
    ELSE notification_state' = "CONNECTED" /\ app' = "ack" /\ UNCHANGED msg

\* The second CyU3PDmaChannelGetBuffer: when it fails, usb_transfer_ep gives up.
GetBufferAgain ==
  /\ app = "retry"
  /\ IF notifier = "free" THEN app' = "copy" /\ UNCHANGED <<msg, notification_state>>
     ELSE Sent
  /\ UNCHANGED <<driver, ctrl_task, req, interface_active, notifier, answers>>

\* memcpy into the buffer and CyU3PDmaChannelCommitBuffer.
CommitBuffer ==
  /\ app = "copy"
  /\ notifier' = IF notifier = "free" THEN msg ELSE notifier
  /\ Sent
  /\ UNCHANGED <<driver, ctrl_task, req, interface_active, answers>>

\* usb_control_status, at the end of SET_INTERFACE 1.
ControlStatus ==
  /\ app = "ack"
  /\ Answer(1)
  /\ UNCHANGED <<driver, ctrl_task, ncm_if, notifier>>

AppStep ==
  \/ EventGet \/ FetchRequest \/ net_usb_control_transfer
  \/ GetBuffer \/ GetBufferAgain \/ CommitBuffer \/ ControlStatus

Next ==
  \/ \E kind \in Kinds : CyFxAppUSBSetupCB(kind)
  \/ SetConf
  \/ ResetOrDisconnect
  \/ HostPoll
  \/ AppStep

\* The application thread is preempted but not starved: the threads above it only
\* run callbacks, and every wait in it has a time limit.
Spec == Init /\ [][Next]_vars /\ WF_vars(AppStep)
-----------------------------------------------------------------------------
\* The fields keep their types: in particular the host reads at most two
\* notifications, since nothing sets the state back to WAITING (tx.c:17-26).
TypeOK ==
  /\ glIsApplnActive \in BOOLEAN /\ ctrl_task \in BOOLEAN /\ misanswered \in BOOLEAN
  /\ setupdat \in Request \cup {NoRequest}
  /\ req \in Request \cup {NoRequest}
  /\ ep0 \in Request \cup {NoRequest}
  /\ app \in {"wait", "fetch", "handle", "get", "retry", "copy", "ack"}
  /\ msg \in Messages
  /\ interface_active \in {0, 1} /\ host_alt \in {0, 1}
  /\ notification_state \in {"WAITING", "SPEED_CHANGE", "CONNECTED"}
  /\ notifier \in Messages \cup {"destroyed", "free"}
  /\ requests \in 0 .. MaxRequests /\ stops \in 0 .. MaxStops
  /\ received \in BoundedSeq(Messages, 2)

\* As long as the bus is not reset, every answer is for the request that the host
\* waits for, although the request passes through two globals and an event flag
\* (main.c:519-537, 800-830).
AnswersMatch == misanswered => stops > 0

\* GET_INTERFACE answers what the last SET_INTERFACE that the host saw
\* acknowledged has set, unless the bus was reset (net.c:92-95).
InterfaceAgrees ==
  app = "handle" /\ req.kind = "get" /\ stops = 0 => interface_active = host_alt

\* Until the bus is reset, the answers are those to the host's requests.
RequestsOK == TypeOK /\ AnswersMatch /\ InterfaceAgrees

\* The host never reads the speed notification after the connection notification,
\* nor either of them twice, over resets of the channel and of the bus
\* (tx.c:13-23, main.c:1054-1063).
NotificationOrder == received \in {<<>>, <<"speed">>, <<"connection">>, <<"speed", "connection">>}

\* When the host sees SET_INTERFACE 1 acknowledged, the connection notification has
\* been read or is in the channel, unless the bus was reset.
NotifiedBeforeAck ==
  host_alt = 1 /\ stops = 0 => notifier = "connection" \/ "connection" \in ToSet(received)

\* The notifications come in order, once, and not later than the answer to SET_INTERFACE.
Notified == NotificationOrder /\ NotifiedBeforeAck

\* Every control request is answered, also when the host does not read the
\* interrupt endpoint until then (main.c:1054-1063 gives up after 1000 ms).
Answered == ep0 # NoRequest ~> ep0 = NoRequest

\* A host that leaves no notification unread for ever learns that the link is up,
\* although an unread notification may be dropped after 1000 ms (main.c:1054-1063).
LinkUp ==
  []<>(notifier \notin Messages) =>
    (host_alt = 1 /\ stops = 0 ~> stops > 0 \/ "connection" \in ToSet(received))

\* main.c:416, in CyFxAppStop: "Update the flag so that the application thread is
\* notified of this."  So it does not copy into the buffer of a stopped channel.
CopiesWhileActive == app = "copy" => glIsApplnActive
=============================================================================
