------------------------- MODULE UsbControlProofs -------------------------
(***************************************************************************)
(* The control requests and notifications of src/main.c, for any number of *)
(* requests, bus resets and reconfigurations: UsbControl keeps RequestsOK  *)
(* and Notified.                                                           *)
(***************************************************************************)
EXTENDS UsbControl, SequenceTheorems, TLAPS

\* The application thread is inside the branch for SET_INTERFACE 1.
Notifying == app \in {"get", "retry", "copy"}

\* The channel exists exactly while the application is active, and the
\* notification state tells whether the thread is sending notifications.
PhaseOK ==
  /\ glIsApplnActive <=> notifier # "destroyed"
  /\ notification_state = "SPEED_CHANGE" <=> Notifying
  /\ app = "ack" => notification_state = "CONNECTED"

\* What the host has read, and may still read, at each point of tx_notification.
\* Once a buffer was asked for, the last notification is no longer in the channel.
NoticesOK ==
  /\ notification_state = "WAITING" => received = <<>> /\ notifier \notin Messages
  /\ Notifying /\ msg = "speed" => received = <<>> /\ notifier \notin Messages
  /\ Notifying /\ msg = "connection" =>
       /\ notifier # "connection"
       /\ received = <<>> \/ (received = <<"speed">> /\ notifier # "speed")
       /\ app # "get" => notifier # "speed"
  /\ notification_state = "CONNECTED" =>
       /\ notifier # "speed"
       /\ notifier = "connection" => received \in {<<>>, <<"speed">>}

\* Until the first reset a request is in one place of its way from the callback
\* to the answer, and the application thread is idle without one.
PathOK ==
  /\ ~misanswered
  /\ ctrl_task => app = "wait"
  /\ app = "wait" /\ ~ctrl_task => ep0 = NoRequest
  /\ ctrl_task \/ app = "fetch" => setupdat = ep0 /\ ep0 # NoRequest
  /\ app \notin {"wait", "fetch"} => req = ep0 /\ ep0 # NoRequest
  /\ ep0 # NoRequest => glIsApplnActive

\* Until the first reset, the alternate setting in ncm_if is the one that the host
\* knows of, except on the way to the answer; and the link is announced by then.
SettingOK ==
  /\ app \in {"wait", "fetch", "handle"} => interface_active = host_alt
  /\ app \in {"get", "retry", "copy", "ack"} => interface_active = 1
  /\ host_alt = 1 => notification_state = "CONNECTED"
  /\ notification_state = "CONNECTED" =>
       /\ glIsApplnActive
       /\ notifier = "connection" \/ \E i \in DOMAIN received : received[i] = "connection"

\* TypeOK in two parts, without received, whose type follows from NotificationOrder.
Flags == glIsApplnActive \in BOOLEAN /\ ctrl_task \in BOOLEAN /\ misanswered \in BOOLEAN

Typed ==
  /\ setupdat \in Request \cup {NoRequest}
  /\ req \in Request \cup {NoRequest}
  /\ ep0 \in Request \cup {NoRequest}
  /\ app \in {"wait", "fetch", "handle", "get", "retry", "copy", "ack"}
  /\ msg \in Messages
  /\ interface_active \in {0, 1} /\ host_alt \in {0, 1}
  /\ notification_state \in {"WAITING", "SPEED_CHANGE", "CONNECTED"}
  /\ notifier \in Messages \cup {"destroyed", "free"}
  /\ requests \in 0 .. MaxRequests /\ stops \in 0 .. MaxStops

\* The inductive invariant.
IInv ==
  /\ Flags /\ Typed /\ NotificationOrder
  /\ PhaseOK /\ NoticesOK
  /\ stops = 0 => PathOK /\ SettingOK
-----------------------------------------------------------------------------
\* A second notification makes the longest sequence that the host can read.
LEMMA AppendSecond == Append(<<"speed">>, "connection") = <<"speed", "connection">>
  <1> DEFINE a == Append(<<"speed">>, "connection")
             b == <<"speed", "connection">>
  <1>1. <<"speed">> \in Seq(Messages) /\ Len(<<"speed">>) = 1 /\ <<"speed">>[1] = "speed"
    BY SMT DEF Messages
  <1>2. "connection" \in Messages
    BY DEF Messages
  <1>3. a \in Seq(Messages) /\ Len(a) = 2 /\ a[1] = "speed" /\ a[2] = "connection"
    BY <1>1, <1>2, AppendProperties, SMT
  <1>4. b \in Seq(Messages) /\ Len(b) = 2 /\ b[1] = "speed" /\ b[2] = "connection"
    BY SMT DEF Messages
  <1> HIDE DEF a, b
  <1>5. \A i \in 1 .. Len(a) : a[i] = b[i]
    BY <1>3, <1>4, SMT
  <1> QED
    BY <1>3, <1>4, <1>5, SeqEqual DEF a, b

\* What a first notification makes of nothing read.
LEMMA AppendFirst ==
  ASSUME NEW m
  PROVE  Append(<<>>, m) = <<m>>
  BY SMT

\* The two sequences that end with the connection notification hold it.
LEMMA HoldsConnection ==
  /\ \E i \in DOMAIN <<"connection">> : <<"connection">>[i] = "connection"
  /\ \E i \in DOMAIN <<"speed", "connection">> : <<"speed", "connection">>[i] = "connection"
  <1>1. 1 \in DOMAIN <<"connection">> /\ <<"connection">>[1] = "connection"
    BY SMT
  <1>2. 2 \in DOMAIN <<"speed", "connection">>
    BY SMT
  <1>3. <<"speed", "connection">>[2] = "connection"
    BY SMT
  <1> QED
    BY <1>1, <1>2, <1>3, Zenon

\* The four sequences that the host can have read have the type of received.
LEMMA OrderIsTyped == NotificationOrder => received \in BoundedSeq(Messages, 2)
  <1>1. ASSUME NEW m \in 0 .. 2, NEW f \in [1 .. m -> Messages]
        PROVE  f \in BoundedSeq(Messages, 2)
    BY SMT DEF BoundedSeq, SeqOf
  <1>2. <<>> \in [1 .. 0 -> Messages]
    BY SMT
  <1>3. <<"speed">> \in [1 .. 1 -> Messages] /\ <<"connection">> \in [1 .. 1 -> Messages]
    BY SMT DEF Messages
  <1>4. <<"speed", "connection">> \in [1 .. 2 -> Messages]
    BY SMT DEF Messages
  <1>5. 0 \in 0 .. 2 /\ 1 \in 0 .. 2 /\ 2 \in 0 .. 2
    BY SMT
  <1> QED
    BY <1>1, <1>2, <1>3, <1>4, <1>5, Zenon DEF NotificationOrder

\* No request of the host is NoRequest.
LEMMA RequestIsOne ==
  ASSUME NEW r \in Request
  PROVE  r # NoRequest
  BY ControlAssumption, SMT DEF Request, NoRequest

\* The initial state satisfies the invariant.
LEMMA InitIInv == Init => IInv
  <1> SUFFICES ASSUME Init PROVE IInv
    OBVIOUS
  <1>1. Flags
    BY Zenon DEF Init, Flags
  <1>2. Typed
    BY ControlAssumption DEF Init, Typed, Messages
  <1>3. NotificationOrder
    BY DEF Init, NotificationOrder
  <1>4. PhaseOK /\ NoticesOK
    BY DEF Init, PhaseOK, NoticesOK, Notifying, Messages
  <1>5. PathOK /\ SettingOK
    BY DEF Init, PathOK, SettingOK
  <1> QED
    BY <1>1, <1>2, <1>3, <1>4, <1>5 DEF IInv

\* The callback for a control request keeps it.
LEMMA SetupIInv ==
  ASSUME IInv, NEW kind \in Kinds, CyFxAppUSBSetupCB(kind)
  PROVE  IInv'
  <1> DEFINE r == [id |-> requests + 1, kind |-> kind]
  <1>1. requests + 1 \in 1 .. MaxRequests
    BY ControlAssumption DEF CyFxAppUSBSetupCB, IInv, Typed
  <1>2. r \in Request /\ r # NoRequest
    BY <1>1, RequestIsOne DEF Request
  <1>3. /\ requests' = requests + 1
        /\ \/ UNCHANGED <<ep0, setupdat, ctrl_task>>
           \/ ep0' = r /\ setupdat' = r /\ ctrl_task' = TRUE /\ glIsApplnActive
    BY DEF CyFxAppUSBSetupCB
  <1> HIDE DEF r
  <1>4. Flags'
    BY <1>3, Zenon DEF CyFxAppUSBSetupCB, IInv, Flags
  <1>5. Typed' /\ NotificationOrder'
    BY <1>1, <1>2, <1>3, ControlAssumption
    DEF CyFxAppUSBSetupCB, IInv, Typed, NotificationOrder, appLocal, ncm_if
  <1>6. PhaseOK' /\ NoticesOK'
    BY DEF CyFxAppUSBSetupCB, IInv, PhaseOK, NoticesOK, Notifying, appLocal, ncm_if
  <1>7. stops' = 0 => PathOK' /\ SettingOK'
    BY <1>2, <1>3 DEF CyFxAppUSBSetupCB, IInv, Typed, PathOK, SettingOK, appLocal, ncm_if
  <1> QED
    BY <1>4, <1>5, <1>6, <1>7 DEF IInv

\* A configuration keeps it: the first one finds the application idle, a later
\* one stops it first.
LEMMA SetConfIInv ==
  ASSUME IInv, SetConf
  PROVE  IInv'
  <1> USE DEF SetConf, CyFxAppStart, appLocal, ncm_if, answers
  <1>1. Flags'
    BY Zenon DEF IInv, Flags
  <1>2. Typed'
    BY ControlAssumption DEF IInv, Typed, Messages
  <1>3. NotificationOrder'
    BY DEF IInv, NotificationOrder
  <1>4. PhaseOK' /\ NoticesOK'
    BY DEF IInv, PhaseOK, NoticesOK, Notifying, Messages
  <1>5. stops' = 0 => PathOK' /\ SettingOK'
    BY DEF IInv, Typed, PhaseOK, PathOK, SettingOK
  <1> QED
    BY <1>1, <1>2, <1>3, <1>4, <1>5 DEF IInv

\* A bus reset keeps it.
LEMMA ResetIInv ==
  ASSUME IInv, ResetOrDisconnect
  PROVE  IInv'
  <1> USE DEF ResetOrDisconnect, CyFxAppStop, appLocal, ncm_if
  <1>1. Flags'
    BY Zenon DEF IInv, Flags
  <1>2. Typed'
    BY ControlAssumption DEF IInv, Typed, Messages
  <1>3. NotificationOrder'
    BY DEF IInv, NotificationOrder
  <1>4. PhaseOK' /\ NoticesOK'
    BY DEF IInv, PhaseOK, NoticesOK, Notifying, Messages
  <1>5. stops' # 0
    BY DEF IInv, Typed
  <1> QED
    BY <1>1, <1>2, <1>3, <1>4, <1>5 DEF IInv

\* A read of the interrupt endpoint keeps it.  The speed notification can be read
\* only while the thread asks for the buffer of the next one.
LEMMA PollIInv ==
  ASSUME IInv, HostPoll
  PROVE  IInv'
  <1> USE DEF HostPoll, appLocal, ncm_if, answers
  <1>1. Flags'
    BY Zenon DEF IInv, Flags
  <1>2. Typed'
    BY DEF IInv, Typed, Messages
  <1>3. \/ /\ notifier = "speed" /\ received = <<>> /\ received' = <<"speed">>
           /\ Notifying /\ msg = "connection" /\ app = "get"
        \/ /\ notifier = "connection" /\ notification_state = "CONNECTED"
           /\ received' \in {<<"connection">>, <<"speed", "connection">>}
    BY AppendFirst, AppendSecond DEF IInv, Typed, PhaseOK, NoticesOK, Notifying, Messages
  <1>4. NotificationOrder'
    BY <1>3 DEF NotificationOrder
  <1>5. PhaseOK' /\ NoticesOK'
    BY <1>3 DEF IInv, PhaseOK, NoticesOK, Notifying, Messages
  <1>6. stops' = 0 => PathOK' /\ SettingOK'
    BY <1>3, HoldsConnection DEF IInv, PhaseOK, PathOK, SettingOK
  <1> QED
    BY <1>1, <1>2, <1>4, <1>5, <1>6 DEF IInv

\* Taking the event keeps it: the request is still in the globals.
LEMMA EventIInv ==
  ASSUME IInv, EventGet
  PROVE  IInv'
  <1> USE DEF EventGet, driver, host, ncm_if, answers
  <1>1. Flags'
    BY Zenon DEF IInv, Flags
  <1>2. Typed'
    BY DEF IInv, Typed, Messages
  <1>3. NotificationOrder'
    BY DEF IInv, NotificationOrder
  <1>4. PhaseOK' /\ NoticesOK'
    BY DEF IInv, PhaseOK, NoticesOK, Notifying
  <1>5. stops' = 0 => PathOK' /\ SettingOK'
    BY DEF IInv, PathOK, SettingOK
  <1> QED
    BY <1>1, <1>2, <1>3, <1>4, <1>5 DEF IInv

\* So does reading the globals.
LEMMA FetchIInv ==
  ASSUME IInv, FetchRequest
  PROVE  IInv'
  <1> USE DEF FetchRequest, driver, host, ncm_if, answers
  <1>1. Flags'
    BY Zenon DEF IInv, Flags
  <1>2. Typed'
    BY DEF IInv, Typed, Messages
  <1>3. NotificationOrder'
    BY DEF IInv, NotificationOrder
  <1>4. PhaseOK' /\ NoticesOK'
    BY DEF IInv, PhaseOK, NoticesOK, Notifying
  <1>5. stops' = 0 => PathOK' /\ SettingOK'
    BY DEF IInv, PathOK, SettingOK
  <1> QED
    BY <1>1, <1>2, <1>3, <1>4, <1>5 DEF IInv

\* So does handling the request.
LEMMA HandleIInv ==
  ASSUME IInv, net_usb_control_transfer
  PROVE  IInv'
  <1> USE DEF net_usb_control_transfer, driver, host, ncm_if, answers, Answer, StoreAlt
  <1>1. Flags'
    BY Zenon DEF IInv, Flags
  <1>2. Typed'
    BY DEF IInv, Typed, Messages
  <1>3. NotificationOrder'
    BY DEF IInv, NotificationOrder
  <1>4. PhaseOK' /\ NoticesOK'
    BY DEF IInv, Typed, PhaseOK, NoticesOK, Notifying, Messages
  <1>5. ASSUME stops' = 0 PROVE PathOK' /\ SettingOK'
    <2>1. PathOK /\ SettingOK /\ ep0 = req /\ ~misanswered /\ ~ctrl_task
      BY <1>5 DEF IInv, PathOK
    <2>2. ~misanswered'
      BY <2>1, Zenon
    <2>3. PathOK'
      BY <2>1, <2>2 DEF PathOK
    <2>4. SettingOK'
      BY <2>1 DEF IInv, Typed, PhaseOK, Notifying, SettingOK
    <2> QED
      BY <2>3, <2>4
  <1> QED
    BY <1>1, <1>2, <1>3, <1>4, <1>5 DEF IInv

\* So does asking for a buffer: a reset of the channel drops what was in it.
LEMMA GetIInv ==
  ASSUME IInv, GetBuffer
  PROVE  IInv'
  <1> USE DEF GetBuffer, driver, host, ncm_if, answers
  <1>1. Flags'
    BY Zenon DEF IInv, Flags
  <1>2. Typed'
    BY DEF IInv, Typed, Messages
  <1>3. NotificationOrder'
    BY DEF IInv, NotificationOrder
  <1>4. PhaseOK' /\ NoticesOK'
    BY DEF IInv, Typed, PhaseOK, NoticesOK, Notifying, Messages
  <1>5. stops' = 0 => PathOK' /\ SettingOK'
    BY DEF IInv, PhaseOK, PathOK, Notifying, SettingOK
  <1> QED
    BY <1>1, <1>2, <1>3, <1>4, <1>5 DEF IInv

\* So does asking again; until a reset of the bus this second call succeeds.
LEMMA AgainIInv ==
  ASSUME IInv, GetBufferAgain
  PROVE  IInv'
  <1> USE DEF GetBufferAgain, driver, host, ncm_if, answers, Sent
  <1>1. Flags'
    BY Zenon DEF IInv, Flags
  <1>2. Typed'
    BY DEF IInv, Typed, Messages
  <1>3. NotificationOrder'
    BY DEF IInv, NotificationOrder
  <1>4. PhaseOK' /\ NoticesOK'
    BY DEF IInv, Typed, PhaseOK, NoticesOK, Notifying, Messages
  <1>5. stops' = 0 => PathOK' /\ SettingOK'
    BY DEF IInv, Typed, PhaseOK, NoticesOK, Notifying, PathOK, SettingOK, Messages
  <1> QED
    BY <1>1, <1>2, <1>3, <1>4, <1>5 DEF IInv

\* So does sending a notification.
LEMMA CommitIInv ==
  ASSUME IInv, CommitBuffer
  PROVE  IInv'
  <1> USE DEF CommitBuffer, driver, host, ncm_if, answers, Sent
  <1>1. Flags'
    BY Zenon DEF IInv, Flags
  <1>2. Typed'
    BY DEF IInv, Typed, Messages
  <1>3. NotificationOrder'
    BY DEF IInv, NotificationOrder
  <1>4. PhaseOK' /\ NoticesOK'
    BY DEF IInv, Typed, PhaseOK, NoticesOK, Notifying, Messages
  <1>5. stops' = 0 => PathOK' /\ SettingOK'
    BY DEF IInv, Typed, PhaseOK, NoticesOK, Notifying, PathOK, SettingOK, Messages
  <1> QED
    BY <1>1, <1>2, <1>3, <1>4, <1>5 DEF IInv

\* So does the acknowledgement of SET_INTERFACE 1.
LEMMA StatusIInv ==
  ASSUME IInv, ControlStatus
  PROVE  IInv'
  <1> USE DEF ControlStatus, driver, host, ncm_if, answers, Answer
  <1>1. Flags'
    BY Zenon DEF IInv, Flags
  <1>2. Typed'
    BY DEF IInv, Typed, Messages
  <1>3. NotificationOrder'
    BY DEF IInv, NotificationOrder
  <1>4. PhaseOK' /\ NoticesOK'
    BY DEF IInv, Typed, PhaseOK, NoticesOK, Notifying, Messages
  <1>5. stops' = 0 => PathOK' /\ SettingOK'
    BY DEF IInv, PhaseOK, PathOK, SettingOK
  <1> QED
    BY <1>1, <1>2, <1>3, <1>4, <1>5 DEF IInv

\* Every step keeps the invariant.
LEMMA NextIInv == IInv /\ [Next]_vars => IInv'
  <1> SUFFICES ASSUME IInv, [Next]_vars PROVE IInv'
    OBVIOUS
  <1>1. CASE Next
    BY <1>1, SetupIInv, SetConfIInv, ResetIInv, PollIInv, EventIInv, FetchIInv, HandleIInv,
       GetIInv, AgainIInv, CommitIInv, StatusIInv, Zenon DEF Next, AppStep
  <1>2. CASE UNCHANGED vars
    <2> USE <1>2 DEF vars, appLocal, ncm_if, answers, host
    <2>1. Flags' /\ Typed' /\ NotificationOrder'
      BY DEF IInv, Flags, Typed, NotificationOrder
    <2>2. PhaseOK' /\ NoticesOK'
      BY DEF IInv, PhaseOK, NoticesOK, Notifying
    <2>3. stops' = 0 => PathOK' /\ SettingOK'
      BY DEF IInv, PathOK, SettingOK
    <2> QED
      BY <2>1, <2>2, <2>3 DEF IInv
  <1> QED
    BY <1>1, <1>2

\* The invariant implies the two properties.
LEMMA IInvImplies == IInv => RequestsOK /\ Notified
  <1> SUFFICES ASSUME IInv PROVE RequestsOK /\ Notified
    OBVIOUS
  <1>1. TypeOK
    BY OrderIsTyped, Zenon DEF IInv, Flags, Typed, TypeOK
  <1>2. stops \in Nat
    BY DEF IInv, Typed
  <1>3. AnswersMatch /\ InterfaceAgrees
    BY <1>2 DEF IInv, PathOK, SettingOK, AnswersMatch, InterfaceAgrees
  <1>4. NotifiedBeforeAck
    BY DEF IInv, SettingOK, NotifiedBeforeAck, ToSet
  <1> QED
    BY <1>1, <1>3, <1>4 DEF IInv, RequestsOK, Notified

\* For any number of requests, bus resets and reconfigurations, whatever the
\* callbacks interrupt: until the bus is reset every answer is for the request that
\* the host waits for and GET_INTERFACE agrees with it, and the notifications come in
\* order, once, and before SET_INTERFACE 1 is acknowledged (main.c:519-537, 800-830
\* and 1054-1063, tx.c:13-26).
THEOREM ControlSafe == Spec => [](RequestsOK /\ Notified)
  BY InitIInv, NextIInv, IInvImplies, PTL DEF Spec

\* Of these, the notifications: the connection is never announced before the speed nor
\* twice, and SET_INTERFACE 1 is not acknowledged without it (tx.c:13-23).
THEOREM ControlNotifies == Spec => []Notified
  BY ControlSafe, PTL
=============================================================================
