# A TLA+ model of the FX3 CDC-NCM firmware

The repository is firmware that makes a Cypress FX3 a USB network adapter
(CDC-NCM): a small NCM class library (`lib/ncm`), the application that connects it
to the FX3 SDK and to lwIP (`src/main.c`), the memory managers that the SDK asks
the application to provide (`src/cyfx/cyfx_tx.c`), and the TCP/IP stack lwIP, kept as a
copy in `lib/lwip`.  This directory holds TLA+ modules
of these parts, TLC models that check them on small instances, and TLAPS proofs for
every size.

Paths below are relative to the repository.  Line numbers are those of the source
that `PROJECT.json` ("map") lists definition by definition.

## 1. The system

| Part | Source | State | Operations | Who runs it |
|---|---|---|---|---|
| NTB lists | `lib/ncm/struct.c` | array of NTB pointers, two indices | `push_ntb`, `pop_ntb` | called by everything below |
| Transmit path | `lib/ncm/tx.c`, `net.c` | free and wait list, NTB of the user, NTB of the USB driver, datagram index, sequence number | `net_can_tx`, `net_tx`, IN completion | lwIP thread (`link_output_app`), USB driver |
| Receive path | `lib/ncm/rx.c`, `net.c`, `main.c` | the same lists and pointers, the one-frame slot `received_frame` | `net_rx_renew`, OUT completion, `net_rx_cb`, `service_traffic` | lwIP thread, USB driver |
| Notifications | `lib/ncm/tx.c` | `notification_state` | `tx_notification` | application thread, USB driver |
| Control requests | `main.c`, `net.c` | `gl_setupdat0/1`, event flags, `glIsApplnActive`, alternate setting, notifier DMA channel | `CyFxAppUSBSetupCB`, `CyFxAppUSBEventCB`, `appThread_Entry`, `usb_transfer_ep` | USB driver thread (callbacks), application thread |
| DMA buffer heap | `cyfx_tx.c:669-1079` | status bits, search position | init, deinit, alloc, free | any thread, under a mutex |
| Driver heap | `cyfx_tx.c:252-494` | ThreadX byte pool, list of blocks in use | alloc, free, corruption check | any thread |
| Bulk channels, power | `main.c:228-288, 481-514, 834-891` | DMA channels, `glSrcEpFlush`, LPM timer, USB log index | DMA and endpoint callbacks, clear-halt | USB driver thread, timer, application thread |
| lwIP timers | `lib/lwip/src/core/timeouts.c` | sorted list of timeouts, flag of the TCP timer | `sys_timeout`, `sys_untimeout`, `sys_check_timeouts`, `sys_restart_timeouts`, cyclic timers | whoever runs lwIP |
| ARP cache | `core/ipv4/etharp.c` | table of ten entries, a waiting packet each, reference counts of packets | `etharp_output`, `etharp_query`, `etharp_input`, `etharp_tmr`, static entries | lwIP thread |
| lwIP heap | `core/mem.c` | chain of `struct mem`, `lfree` | `mem_malloc`, `mem_free`, `mem_trim` | lwIP thread |
| TCP, receiving | `core/tcp_in.c`, `tcp.c` | `rcv_nxt`, windows, `ooseq`, `refused_data` | `tcp_input`, `tcp_recved`, both timers | lwIP thread |
| TCP, sending | `core/tcp_out.c`, `tcp_in.c`, `tcp.c` | `unsent`, `unacked`, `snd_*`, timers | `tcp_write`, `tcp_output`, `tcp_close`, acknowledgements, retransmissions | lwIP thread |
| Flash tool | `utl/flash/download_fx3.cpp` | device handles, offsets | write, verify, erase | host, sequential |

Interactions: lwIP hands a frame to `link_output_app`, which asks `net_can_tx` and then
calls `net_tx`; the class gathers frames in an NTB and gives it to the USB driver with
`usb_transfer_ep`; the driver reports completion with `net_usb_transfer`.  In the other
direction the driver fills an NTB, and `rx_update_user_ntb` offers its datagrams one
by one to `net_rx_cb`, which holds one frame until `service_traffic` hands it to lwIP
and asks for the next.  SET_INTERFACE switches the traffic on and triggers two
notifications on the interrupt endpoint.

`main.c` is unfinished: it never calls `net_usb_transfer`, and its `usb_transfer_ep`
returns false for both data endpoints.  The class library is therefore modelled
against its own contract (`lib/ncm/include/net.h`, `usb.h`): a driver that may accept
or refuse a transfer and later reports its completion.  Nor does the loop of
`lwipThread_Entry` (`main.c:756-768`) call `sys_check_timeouts`: as the firmware stands,
no timer of lwIP ever runs.  The modules of lwIP therefore take the calls that its
documentation asks of an application; where a liveness property needs calls of a timer,
they are its hypothesis.
A failed `LWIP_ASSERT` does not stop lwIP in this build: `LWIP_PLATFORM_ASSERT(x)`
(`lib/lwip/src/include/arch/cc.h:73`) loops if its argument, the text of the message, is
null, which it never is.  So the models go on where an assertion is false.

## 2. Modules

| Module | Models | State and actions |
|---|---|---|
| `NtbList` | `struct.c:42-90` | operators: `push_ntb(list, ntb)` and `pop_ntb(list)` are the list that the call leaves, `CanPush` and `Popped` what it returns |
| `NtbListSpec` | one list under any calls | `Push`, `Pop` |
| `NtbFifo` | abstract: a FIFO queue that may refuse a push unless it is empty | `Push`, `Pop` |
| `NcmIf` | what both halves share | `interface_active`, the lists after `net_init` |
| `NcmTx` | transmit path | record `tx` = the transmit fields of `ncm_if`; `net_can_tx`, `net_tx`, `TxTransferIn`, `TxSetInterface` |
| `NcmRx` | receive path | record `rx`; `net_rx_renew`, `service_traffic` up to the call of `ethernet_input`, `service_traffic_done` after it, `RxTransferOut`, `RxTransferIn`, `RxSetInterface` |
| `NcmNet` | both halves and the notifications | one action for each call of `net.h` and each case of `net_usb_transfer`; the loop of `link_output_app` (`main.c:75-85`), which lwIP may enter any number of times inside `ethernet_input` |
| `UsbControl` | control requests of `main.c` | callbacks are one step each; the application thread has a step between any two points where a callback can come in |
| `DmaBufMgr` | DMA buffer heap | one action for each function |
| `SysTimeouts` | `timeouts.c` | `next_timeout`, the clock and where `sys_check_timeouts` stands; one action for each function, and one for each handler that the check calls |
| `Etharp` | `etharp.c` | `arp_table`, references to packets, the cached index; one action for each entry point |
| `LwipMem` | `mem.c` | headers by offset, `lfree`, what callers hold; `mem_malloc`, `mem_free`, `mem_trim` |
| `TcpSeq` | `tcp_priv.h` | comparison of sequence numbers, segments |
| `TcpRcv` | receiving half of a connection | record `pcb`; `Arrives` (a segment through the whole of `tcp_input`), `tcp_recved`, `tcp_fasttmr`, `tcp_slowtmr`, and the network |
| `TcpSnd` | sending half of a connection | record `pcb`; `tcp_write`, `Output`, `tcp_close`, `tcp_input`, both timers, giving up after `TCP_MAXRTX`, and the peer |
| `NtbListProofs`, `DmaBufMgrProofs`, `NcmTxProofs`, `NcmNetProofs`, `UsbControlProofs`, `LwipMemProofs`, `EtharpProofs`, `SysTimeoutsProofs` | theorems | `NcmNetProofs` holds those about the receive half and those about the whole class |
| `MC*` | the instances that TLC checks | `MCPools` is the sum of `DmaBufMgr`, `LwipMem` and `NtbListSpec`: a step of one needs the other two in their initial states, so it has the behaviours of the three and not their products |

The helpers of `tx.c` and `rx.c` are functions from the record of `ncm_if` to the record
they leave, so a handler is the composition of the calls that it makes, in their order.

Abstractions.  An NTB is its index in `tx_ntb[]` or `rx_ntb[]`.  Of a transmitted NTB the
sequence number, the block length and the datagram table are kept, of a datagram its
length.  Of a received NTB the number of the block and of its datagrams is kept
(`rx_validate_datagram` accepts everything, so a block is a well-formed one).
`pbuf_alloc` may fail at any call.  The answer of `usb_transfer_ep` is chosen freely.
The notifier channel has the one buffer that `CyFxAppStart` gives it; a call of
`CyU3PDmaChannelGetBuffer` that finds it unread times out or is overtaken by the host's
read.  The mutex of the buffer heap makes each of its functions one step; a caller that
does not get the mutex changes nothing.  The search for a free block is the first
place that its loop accepts, with the cuts at `searchPos` and at the end of the array;
`CyU3PDmaBufMgrSetStatus` is the set of bits that it alters.

lwIP.  A clock value, a sequence number and a size keep their width: they wrap at
`Period`, `SeqRange` and `Width`, which the instances choose so small that the wrap
happens.  In `SysTimeouts` `sys_timeouts_init` starts the cyclic timers one by one, in any order,
and the clock runs while a handler works.  The assumption of the module is what the code needs
for its comparison of remainders: a delay is below a quarter of the clock (the assertion of
`sys_timeout`), and an entry is late by at most another quarter, as the main loop and the
handlers of the other entries may delay it.  Each entry also has `left`, the true time to go, which
no code reads; the properties compare with it.  In `Etharp` an address is
a model value and a frame its destination and the address it was sent to; entries are
aged by `etharp_tmr` with the code's limits scaled down.  In `LwipMem` only the headers
exist.  In the TCP modules a byte is its place in the stream, so that what the
application gets can be compared with what was sent; a handler is a function from the
record of the connection to the record it leaves (in `TcpSnd` to the set of these, one for
each way its calls can fail).  The two halves are separate modules: each one's peer is the
weakest that follows the protocol.  In `TcpRcv` whatever the sender was ever allowed to send may
arrive at any time, in any order and any number of times; in `TcpSnd` segments and
acknowledgements are lost, and an acknowledgement may come late (of two under way in any
order; the run has one, so there a stale one never follows a newer one).
`TcpRcv` keeps `rcv_nxt`, both windows, `ooseq`, refused data and the flags for
acknowledgements.  `TcpSnd` keeps the lists, the numbers, the window, both timers as
running or not, the numbers of retransmissions and of probes, and the flags; the congestion
window is any of a few values at each call, and `TF_NODELAY` and a full queue of pbufs, which
both switch the Nagle test off, may hold or not at each call.
`etharp_query` is only called with a packet (`etharp.c:891`, its one caller), so what
`etharp.c:979-998` does for an old entry without one is left out.

Names ending in a suffix such as `_NoWrap` are mutants: plausible slips in the
definition that follows, kept to show that a property depends on it.

## 3. What TLC checks

A property that conjoins several statements about the same state is named in bold; in brackets
are the statements, each a definition of its own with its comment in the module.

| Run | Bounds | Shows |
|---|---|---|
| `pools` | DMA heap: 3 words of 4 bits, requests of 2 to 4 lines; heap of lwIP: 26 bytes, headers of 2, requests of 0 to 9 and one near the width; list: 4 slots | DMA heap: **`HeapOK`** (`HeapTypeOK`, `Disjoint`, `Accounted`), `FreesOnlyItsBlock`, `InsideHeap`.  Heap of lwIP: **`ChainOK`** (`TypeOK`, `Linked`, `NoHoles`); **`FreeFound`** (`LfreeIsLowest`; `FindsWhatFits`; `AllBack`: all freed leaves one block); `CallersServed`: a caller has the room it asked for; `OthersUntouched`.  List: **`QueueOK`** (`ListTypeOK`: the indices stay in the array; `Occupancy`; `NullMeansEmpty`), and `ImplementsFifo`: the list refines `NtbFifo` |
| `net` | 2 + 2 NTBs of 48 bytes, 2 datagrams, frames of 3 and 12 bytes, packets of 8, 2 notifications in flight | every NTB has one owner (`OneOwner`); what `net_can_tx` promised still holds at `net_tx` (`PromiseHolds`); **`Outgoing`** (`TxTypeOK`; `Layout`: the table describes the datagrams exactly; `InSequence`: NTBs leave in order); an NTB being sent does not change (`SendingIsFrozen`); **`NetOK`** (`NotifyTypeOK`: the notification state never rests in SPEED_CHANGE; `RxTypeOK`; `NoWriteWhileRead`); **`FramesKept`** (`TakenInOrder`, `StoredIsServiced`); `Drained`: if `link_output_app` always returns, a block is read out without further USB events unless `pbuf_alloc` fails |
| `control` | 4 requests, 2 resets or reconfigurations | **`RequestsOK`** (`TypeOK`, `AnswersMatch`, `InterfaceAgrees`); **`Notified`** (`NotificationOrder`, `NotifiedBeforeAck`); every request is answered even if the host never polls (`Answered`); a host that polls learns that the link is up (`LinkUp`) |
| `timeouts` | clock of 24 values, two cyclic timers, the TCP timer, one application timeout, a pool of 3 (this build's) and 1 for the application | **`TimersTrue`** (`TypeOK`; `InTrueOrder`: the list is in the order of true time; `SleepIsTrue`: the sleep time is right; `OneEach`: one entry per timer); nothing fires early (`NeverEarly`); a check ends (`CheckReturns`); a cyclic timer runs again and again (`EveryTimerRuns`) |
| `arp` | 3 hosts (one is the gateway of a fourth), 2 entries, 2 packets | **`TableOK`** (`TypeOK`; `OneEntryEach`: a host has one entry; `WaitsOnItsEntry`: a packet waits on the entry of its host); a waiting packet is counted (`RefsCounted`); it goes to the address announced last (`SentToLatest`); a static entry stays (`StaticStays`); no packet waits for ever (`NoneWaitsForever`) |
| `tcp_rcv` | 6 bytes, window 4, segments of up to 3, numbers of 6 bits that wrap in the stream | **`StreamKept`** (`InOrderOnce`: each byte once and in order; `EofIsLast`: the end last); **`WindowOK`** (`WindowAccounted`, `WindowHonoured`), `EdgeNeverShrinks`; **`OoseqOK`** (`TypeOK`, `OoseqOrdered`); if the sender goes on sending what is not acknowledged, `tcp_fasttmr` runs and the application processes its data, all is delivered (`Delivered`) |
| `tcp_snd` | 3 bytes, segments of 2, buffer 4, windows of 0 to 3, 1 duplicate for a fast retransmission, `TCP_MAXRTX` 2 | **`ListsOK`** (`TypeOK`; `unacked` is sorted; `QueuesCover`: the lists hold each byte that is not acknowledged once, at its number); `BufferAccounted`; the right timer runs while something is in flight (`TimersAgree`); nothing beyond the window (`InsideWindow`); whenever something is on the lists the slow timer has something to do (`NoStall`); if the timers run, all is acknowledged or the connection is given up (`Drained`) |

Why the bounds are enough.  With two NTBs (`NCM_NTB_N`), two datagrams and 16
bytes for them, both reasons for a full NTB (two short frames fill the table, two long
ones do not fit), a full and an empty list, and a waiting NTB behind
the one being sent all occur; frame lengths with and without padding and NTBs that do
and do not fill their last packet are included.  No counter needs a bound in `NcmTx`,
because NTBs are never taken back (below) and so at most two are numbered.  In `NcmRx`
only one OUT transfer can ever complete (below), although `MaxBlocks` allows three.  The
heap is small enough to be filled, fragmented and emptied in every order, and has two
word boundaries.  Four control requests allow SET 1, SET 0, GET and one more; two stops
allow a reset, a new configuration and another reset.  In `timeouts` the clock
wraps several times within a behaviour, and timers fall due together.  Three hosts for two
ARP entries make every class of recycling happen.  The heap of lwIP holds up to six
blocks, so joins to the left, the right and both sides occur.  In `tcp_rcv` two segments
can wait out of order on either side of a gap and overlap each other in every way, and the
stream is longer than the window.  In `tcp_snd` three bytes make two segments, so one can be
sent again behind, before or together with the other, be extended and be split, and the window
can be closed, smaller than a segment or open.  The send buffer of 4 never runs full with three
bytes: `tcp_write` refuses for want of memory only.  The code asks for three duplicates, and gives
up after 12 retransmissions; the numbers only delay the step.

Deadlock is checked except in `control`, where the system really stops once the host
has used up its requests and resets.

Fairness.  `NetSpec` assumes that the loop of `lwipThread_Entry` goes on (weak fairness of
`ServiceLoop`) and that `ethernet_input`, which sends finitely many frames, comes to its end
(strong fairness of `ServiceReturns`, which is not enabled inside `link_output_app`).  Nothing
makes `link_output_app` return: it spins until `net_can_tx` agrees, and once both
transmit NTBs are used up it never does (`tx_freed`).  So `Drained` has in its hypothesis that it
returns, as it does in the behaviours with few frames or an application that becomes inactive.
`Spec` of `UsbControl` assumes that the
application thread goes on: the threads above it only run callbacks, and each of its
waits has a time limit.  The host is not assumed to do anything; `LinkUp` says in its
hypothesis that the host reads what is offered.  `SysTimeouts` assumes that
`sys_check_timeouts` goes on once it is called (it is a loop), and that time passes.
`NoneWaitsForever` counts calls of `etharp_tmr` and needs no fairness.  The specifications
of the TCP modules have no fairness, because this firmware calls no timer of lwIP; their
liveness properties state what they need.  `Delivered`: the sender sends again what is not
acknowledged (nothing, once FIN is), now and then such a segment, and an acknowledgement, gets
through (`SenderPersists`); `tcp_fasttmr` is called while data is refused, and the
application takes it then (`FastTimerRuns`); the application processes what it has taken.
`Drained` of `TcpSnd`: while something waits the slow timer is called again and again with a
route and memory, and the fast timer while FIN is pending (`TimersRun`); the receiver's application
reads.  All that is sent may still be lost: then the connection is given up.

### Where the code and its documents disagree

| Run | Source | What TLC shows |
|---|---|---|
| `tx_freed` | `net.c:76` | an IN completion frees the receive NTB; the transmit NTB is never taken back |
| `rx_goes_on` | `net.c:67` | `rx_usbd_ntb` is not cleared: no second OUT transfer is started |
| `tcp_fin` | `tcp_out.c:938` | `tcp_split_unsent_seg` means to move FIN to the second part (`tcp_out.c:911-914`), but `TCPH_SET_FLAG` only adds flags (`prot/tcp.h:93`): the first part still has FIN, and the peer takes the stream for ended before its last bytes |
| `tcp_order` | `tcp_out.c:1660` | `unsent` is not "ordered by sequence number" (`tcp.h:337`): a fast retransmission puts the first segment back into `unsent` ("Keep the unsent queue sorted.", `tcp_out.c:1749`), there is no route for it, and the retransmission timer puts the rest of `unacked` in front of it |
| `tcp_resent` | `tcp_out.c:484` | `tcp_write` appends to the tail of `unsent`, which may be a segment that waits to be sent again: the new bytes do not follow its last one, and go out at numbers other than `snd_lbb` (`tcp.h:322`) |

Four more statements are in the modules and the code does not satisfy them; naming one as an
INVARIANT or PROPERTY of its module's configuration shows how.

| Statement | Source | What TLC shows |
|---|---|---|
| `NtbListSpec!RefusedOnlyWhenFull` | `struct.c:60` | `+=` instead of `=`: the index sticks to the last slot, and a list of two refuses a push while it holds one NTB |
| `NcmRx!DeliveredOnce` | `rx.c:37` | `rx_user_ntb` is not cleared: the last datagram is delivered again |
| `DmaBufMgr!HeapFindsWhatFits` | `cyfx_tx.c:937` | a free run across the first bit of `searchPos` is missed |
| `UsbControl!CopiesWhileActive` | `main.c:1066` | a notification is copied into the buffer of a destroyed channel |

How the sending half of TCP goes on after such a state is part of the model.

* After `tcp_resent`, or a FIN that is put on a segment in the same way or moved as in
  `tcp_fin`, the bytes and the numbers do not agree any more.  The variable `misplaced` remembers
  it; `QueuesCover` and `InsideWindow` are about connections in which it has not happened.  After
  `tcp_order` they hold, and `unacked` is sorted all the same.
* `mss_local` depends on the widest window seen.  A segment that was made before may be longer;
  the assertion "mss_local is too small" (`tcp_out.c:489`) is false and the room left, a `u16_t`,
  wraps, so the segment grows beyond `mss_local`.  The model does the same, and the properties hold.
* If such a long segment is acknowledged in part while it waits to be sent again, and is then split
  for a small window, its first part ends before `lastack`.  `tcp_output` (`tcp_out.c:1337`) takes the
  distance for a huge number and never sends it, no acknowledgement will free it, and the persist
  timer comes back for ever without counting a probe.  `HeadAcked` names these states; `NoStall` and
  `Drained` except them and hold in all others.  (Without the exception TLC shows the ten steps.)

Seen while modelling, without a run of their own: SET_INTERFACE 1 does not start
reception (`net.c:97` against `ncm pseudocode:256`); `rx_usbd_ntb` is not cleared when a
transfer is refused (`rx.c:57` against `ncm pseudocode:141`); completions on the interrupt
endpoint start the notifications again and again (`tx.c:23-25` against
`ncm pseudocode:27-28`); the mask of `cyfx_tx.c:736-737` marks `r` bits as unavailable
where `32 - r` are beyond the heap (harmless with the memory maps of the file, whose
heaps fill the last word: hence the assumption of `HeapBounded`); a bus reset leaves
the control event set for a request that is gone (`main.c:568`); `dwNtbOutMaxSize` is set
to the alignment constant (`struct.c:18`); the persist timer may run with an empty
`unsent`, which `tcp.c:1241` asserts it does not; a FIN queued one place beyond the window
makes the assertion of `tcp_in.c:1585` false (the model counts as the code does and the
window is corrected at `tcp_in.c:536-545`); `tcp_fasttmr` clears the flags for an
acknowledgement even if sending it failed (`tcp.c:1499-1501`); `mem_trim` asserts "invalid
next ptr" (`mem.c:790`) where the block may be the last one, whose next is `ram_end` (the link
back is guarded, so the heap stays sound: `MemSafe`).

## 4. What is proved

* `NtbListProofs!ListSafe`: for every length 1, 2, 4, 8, 16 and any calls, `QueueOK`.  The
  invariant `ListInv` is `TypeOK` and `Occupancy`, which is inductive because the indices
  only visit the slots 0, 1, 3, 7, ... (`NextIndexVisited`).
* `NtbListProofs!ListImplements`: the refinement `ImplementsFifo`, for the same lengths.  The
  mapping reads the slots in the order of the visits, from `list_front` up to `list_back`
  (`Contents`).  Under `ListInv` a push that is accepted appends to it (`PushAppends`), a pop
  takes its head (`PopTakes`), it is empty exactly if `pop_ntb` answers NULL (`EmptyQueue`),
  and only NULL or a list that holds something is refused (`RefusedPush`).
* `DmaBufMgrProofs!HeapSafe`: for every heap size, word width and set of request sizes,
  `HeapOK`.  The inductive invariant `HeapInv` adds that each
  block has at least two lines and lies inside the array (`Shape`) and that the last line of
  a block is clear in the status array (`Ended`): the search needs one clear bit more
  than the block has lines, so a new block never begins on the last line of another, and
  counting set bits stops at the end of the block (`SetRunIsBlock`).
* `DmaBufMgrProofs!FreeSafe`: `FreesOnlyItsBlock`, from the same invariant.
* `DmaBufMgrProofs!HeapBounded`: `InsideHeap`, for a heap that fills its last word.
* `NcmTxProofs!TxSafe`: for every NTB size, number of datagrams per NTB, packet size and set
  of frame lengths that fit into an empty NTB, `TxTypeOK`, `OneOwner` and `PromiseHolds`.
  The inductive invariant `TxInv` says `OneOwner` without sets (`Kept`: no NTB is lost;
  `Apart`: no two places hold the same one), adds how a list of two slots is filled
  (`ListOK`), which is what makes `push_ntb` and `pop_ntb` move one NTB each, and that a
  transfer in progress is one of an NTB that the USB driver holds.  There is one lemma per
  helper of `tx.c` and one per action.  The number of NTBs is the code's, two.
* `NcmTxProofs!TxFrozen`: `SendingIsFrozen`, because a new user NTB comes from the free list
  and a datagram goes to the user NTB, and `Apart` keeps both away from the USB driver's.
* `NcmTxProofs!TxOrdered`: `Outgoing`.  The invariant `OutOK` adds to `Sound` that NTBs leave the
  free list in the order of their numbers and never come back to it (`Numbered`), so that the
  number of an NTB in use is its sequence number and `InSequence` is an order of numbers
  (`Ordered`); and that the table of each NTB that is filled, waits or is sent describes
  datagrams that follow each other from the header to the block length (`Laid`), which
  `AppendLaidOut` extends by one.
* `NcmNetProofs!RxSafe`, `OneBlock`, `RxKept`: for any number of blocks and of datagrams in a
  block, `RxTypeOK` and `NoWriteWhileRead`, at most one block received, and `FramesKept`.  The
  inductive invariant `RxInv` has two phases: before the first block nothing waits and nothing
  is read; after it the NTB stays with the user and with the USB driver for good, and the last
  datagram taken is the one before `index`, or the last of the table (`TakenUpTo`); in both, the
  frame inside `ethernet_input` is still in its slot.  So the
  first and the third theorem hold because of the second: reception stops after one block.
  Code that set `rx_usbd_ntb` back to `NULL` (see the run `rx_goes_on`) would need another
  argument.
* `NcmNetProofs!NetSafe`, `NetKept`, `NetPromise`, `NetOrdered`: `NetOK`, `OneOwner`,
  `PromiseHolds`, `SendingIsFrozen`, `FramesKept` and `Outgoing` over all calls of the class.  A call
  is a step of one half, of both (`net_usb_transfer_in`, `set_interface`) or of neither (the lemmas
  `NetTransmits` and `NetReceives`), so what was proved of the halves carries over.
* `UsbControlProofs!ControlSafe`: for any number of requests, bus resets and
  reconfigurations, `RequestsOK` and `Notified`.  The inductive invariant `IInv` adds where a
  request is on its way from the callback to the answer (`PathOK`) and which alternate setting
  `ncm_if` has meanwhile (`SettingOK`), both until the first reset only; and, over resets too,
  which notification can be in the channel at each point of `tx_notification` (`NoticesOK`).
  `ControlNotifies` states the second part by itself.
* `LwipMemProofs!MemSafe`: for every heap size, alignment, size of a header, width of
  `mem_size_t` and set of request sizes, `ChainOK`, `FreeFound` and `CallersServed`.  The
  inductive invariant `MemInv` is these with the links in both directions (`Chain`: `prev` leads
  to the block that ends here, for every block) and with `lfree` described without a minimum
  (`Lowest`).  Every operation marks a block, cuts one in two (`IsCut`) or joins two neighbours
  (`IsJoined`); one lemma each shows that a chain stays a chain.  `mem_free` is a mark and up to
  two joins, and between them two free blocks may meet only at the block that is freed;
  `mem_trim` in front of a free block is a join and a cut.  `AdjustedIs` shows that the rounding
  of a size cannot wrap unnoticed.  `MemFinds` and `MemServes` state two of the parts by themselves.
* `LwipMemProofs!MemUntouched`: `OthersUntouched`, because a join swallows free blocks only.
* `EtharpProofs!TableSafe`, `RefsSafe`, `LatestSafe`: for every size of the table, age limit, set of
  hosts, routes, announcements and packets, `TableOK`, `RefsCounted` and `SentToLatest`.  The
  table and the counts of the buffers together are a world (`WorldOK`): a host has one
  entry, a buffer waits on one entry at most (`WaitsOnce`, which makes the number of entries it
  waits on 0 or 1), and every count is that of the holders.  Freeing an entry, finding one
  (`etharp_find_entry`, whatever it recycles) and letting a packet wait each lead from a sound
  world to a sound world, and the entry points of `etharp.c` are compositions of these.
  `IInv` adds that a packet waits on the entry of its own next hop (`DstOK`) and that the address
  of every resolved entry is the one announced last; so it does not matter which entry
  the cached index names, because it is used only if its address matches.
* `EtharpProofs!StaticKept`: `StaticStays`.  Every step lemma also says which entries the step
  leaves alone; `etharp_find_entry` recycles no static entry.
* `SysTimeoutsProofs!TimersSafe`, `CallsOnTime`: for every clock, set of cyclic timers and intervals
  that satisfy the assumption, `TimersTrue` and `NeverEarly`.  `TIME_LESS_THAN` compares
  remainders, so the invariant `IInv` has to keep all true times close together.  `Listed`: the
  time of an entry is the remainder of the clock and its true time to go.  `Near`: any two
  entries are less than half of the clock apart, whence a comparison of remainders is one of
  true times (`LessFact`).  `Timely` is why they stay so: the check reads the clock once, so the time
  it takes is that of the handlers it has called, each for another entry that was due when
  it began, and what becomes due meanwhile waits for the others only.  `Complete`: which timers
  have an entry; the pool has one for each, three in this build, where no application sets one.  An insertion in front of the first later entry keeps the order (`InsertGood`), and
  a restart shifts all entries alike (`RestartGood`).

The assumptions are those of the modules on their constants, nothing else.

Only model-checked:

* liveness (both `Drained`, `Answered`, `LinkUp`, `CheckReturns`, `EveryTimerRuns`, `NoneWaitsForever`,
  `Delivered`), because the prover has no rules for fairness and ENABLED;
* the two modules of TCP (with `NoStall`), whose lists are folded segment by segment: what a fold
  computes needs an induction over the list.

## 5. Not modelled

Of lwIP: IP, ICMP, UDP, DNS, the `pbuf` chains, the handshake, TIME_WAIT and RST of TCP, the
arithmetic of the congestion window and of the retransmission time, and everything that this build leaves
out (IPv6, PPP, sockets and netconn, DHCP, SNMP, TLS, the applications but lwiperf).  The
copy of lwIP is nearly all of the repository by lines (over 160 000, with the parts that
this build leaves out and lwIP's own tests and ports), so the modules cover a small share
of all lines; they cover the greater part of the firmware's own code, and of lwIP the
state machines that every frame and every connection of this firmware passes through.

Also not modelled: the FX3 SDK and its hardware (only what `main.c` uses of it), constant
tables (`usb_desc.c`), start-up code, the stale copy in `ncm/`, files outside the build
(`cyfx_tx.cpp`, `cyfxcpp_syscall.cpp`, `lib/ncm/main.c`).  In the control path a host that
gives up a request by itself and sends another one is left out, and so is the endless
loop of `CyFxAppErrorHandler` after a failed SDK call.

## 6. Plan

1. `NcmThreads`: the lwIP thread and the application thread on the same `ncm_if`, step by
   step (`service_traffic` against SET_INTERFACE, `net_init` against an early request).
2. `DmaScan`: the word loops of the search and of `CyU3PDmaBufMgrSetStatus` as state
   machines, shown to compute `Search` and `BitRange`.
3. `MemBlockList`: driver heap with the list of blocks in use, allocation and free from two
   threads, corruption check; the same list of the DMA heap.
4. `BulkChannels`: DMA callback, clear-halt, `glSrcEpFlush`, LPM timer, USB log index.
5. `FlashTool`: `download_fx3.cpp` (image parsing, chunked write and verify, erase polling).
6. Proofs: the lists of `TcpSnd` and of `TcpRcv`, the loop invariants of `DmaScan`.
