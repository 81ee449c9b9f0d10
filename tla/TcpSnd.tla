------------------------------ MODULE TcpSnd ------------------------------
(***************************************************************************)
(* The sending half of a connection of lwIP (core/tcp_out.c, tcp_in.c,     *)
(* tcp.c): the lists unsent and unacked, segments that are written,        *)
(* extended, split and sent again, the retransmission and the persist      *)
(* timer, and the closing FIN.                                             *)
(*                                                                         *)
(* Segments and acknowledgements may be lost; acknowledgements arrive late *)
(* and, if NetAcks is above 1, in any order; ip_output_if, the route and   *)
(* memory may fail.  The congestion window is any value of Cwnds at every  *)
(* call.                                                                   *)
(***************************************************************************)
EXTENDS TcpSeq

CONSTANTS
  mss,
  TCP_SND_BUF,
  Cwnds,       \* values of the congestion window, mss among them
  PeerWnd,     \* the receiver's buffer
  StreamLen,   \* bytes that the application writes
  MaxWrite,    \* bytes in one call of tcp_write
  DupAcks,     \* duplicates for a fast retransmission: 3 in the code
  TCP_MAXRTX,  \* retransmissions, or probes, after which a connection is given up
  NetAcks,     \* acknowledgements under way at a time
  None

ASSUME TcpSndAssumption ==
  /\ mss \in Nat \ {0} /\ TCP_SND_BUF \in Nat /\ PeerWnd \in Nat \ {0}
  /\ mss \in Cwnds /\ \A w \in Cwnds : w \in Nat /\ w >= mss
  /\ MaxWrite \in Nat \ {0}
  /\ DupAcks \in Nat \ {0} /\ TCP_MAXRTX \in Nat \ {0} /\ NetAcks \in Nat \ {0}
  /\ StreamLen \in Nat /\ 2 * (StreamLen + PeerWnd + 2) < SeqRange \div 2

VARIABLES
  pcb,       \* the fields of struct tcp_pcb for sending
  peer,      \* the receiver: the places it has, its right edge and its FIN
  acks,      \* acknowledgements under way
  written,   \* bytes that tcp_write has accepted
  misplaced  \* a byte or FIN has been put on a segment at a number that is not its own

vars == <<pcb, peer, acks, written, misplaced>>

Last(list) == list[Len(list)]

\* The place of the stream that a number stands for.
PlaceOf(n) == 1 + Wrap(n - Number(1))

Pcb(wnd, state) ==
  [lastack |-> Number(1), snd_nxt |-> Number(1), snd_lbb |-> Number(1),
   snd_wnd |-> wnd, snd_wl2 |-> Number(1), snd_wnd_max |-> wnd,
   snd_buf |-> TCP_SND_BUF, unsent |-> <<>>, unacked |-> <<>>,
   rtime |-> FALSE, nrtx |-> 0, persist |-> FALSE, persist_probe |-> 0, dupacks |-> 0,
   NAGLEMEMERR |-> FALSE, FIN |-> FALSE, INFR |-> FALSE, CLOSEPEND |-> FALSE,
   state |-> state]

\* A connection that has just been established, with some window.
Init ==
  /\ \E wnd \in 0 .. PeerWnd :
       /\ pcb = Pcb(wnd, "ESTABLISHED")
       /\ peer = [have |-> {}, edge |-> wnd, fin |-> None]
  /\ acks = {}
  /\ written = 0
  /\ misplaced = FALSE

\* tcp_pcb_purge and tcp_free: the lists are freed, and nothing is left of the pcb.
Removed == Pcb(0, "CLOSED")

Alive == pcb.state # "CLOSED"

Now == [p |-> pcb, peer |-> peer, arrived |-> FALSE, misplaced |-> misplaced]

-----------------------------------------------------------------------------
\* The place the receiver waits for; FIN takes one, behind all that is before it.
Awaited(r) ==
  IF r.fin # None /\ 1 .. r.fin - 1 \subseteq r.have THEN r.fin + 1
  ELSE Min((1 .. r.edge + 1) \ r.have)

\* A segment reaches the receiver, which stores what lies in its window
\* until it has FIN and all before it.
Stored(r, seg) ==
  LET first == PlaceOf(seg.seqno)
      end == first + Len(seg.data)
  IN IF r.fin # None /\ Awaited(r) > r.fin THEN r
     ELSE [r EXCEPT !.have = @ \union {i \in first .. end - 1 : i <= r.edge},
                    !.fin = IF seg.fin /\ end <= r.edge + 1 THEN end ELSE @]

\* The receiver's acknowledgement and window.
Answer(r) == [ackno |-> Number(Awaited(r)), wnd |-> Max({0, r.edge + 1 - Awaited(r)})]

\* What may be under way when the receiver has answered: some are lost.
Wires(under, r) ==
  {w \in SUBSET (under \union {Answer(r)}) : Cardinality(w) <= NetAcks}

\* The state after a handler; the receiver answers if anything has arrived.
Leave(c, under) ==
  /\ pcb' = c.p /\ peer' = c.peer /\ misplaced' = c.misplaced
  /\ acks' \in IF c.arrived THEN Wires(under, c.peer) ELSE {under}

\* What becomes of n segments: how many IP takes (if good, all), and which of these are
\* lost.
Outcomes(n, good) ==
  {o \in (0 .. n) \X SUBSET (1 .. n) : o[2] \subseteq 1 .. o[1] /\ (good => o[1] = n)}

\* tcp_do_output_nagle, or a reason for tcp_output not to ask, when the segments
\* before i are sent.  eager: TF_NODELAY is set, or TCP_SND_QUEUELEN pbufs are queued.
Nagle(p, i, eager) ==
  \/ i = 1 /\ p.unacked = <<>>
  \/ eager \/ p.INFR \/ p.NAGLEMEMERR \/ p.FIN
  \/ i < Len(p.unsent) \/ Len(p.unsent[i].data) >= mss
  \/ p.snd_buf = 0

\* Mutant: the length of the segment is forgotten.
Fits_Start(p, seg, wnd) == Wrap(seg.seqno - p.lastack) <= wnd

Fits(p, seg, wnd) == Wrap(seg.seqno - p.lastack + Len(seg.data)) <= wnd

\* A segment before the first one of the list that does not come before it.
Insert(list, seg) ==
  LET Before(s) == TCP_SEQ_LT(s.seqno, seg.seqno)
      k == Leading(list, Before)
  IN SubSeq(list, 1, k) \o <<seg>> \o SubSeq(list, k + 1, Len(list))

\* Mutant: a segment that is sent again goes to the end of the list.
Enlisted_Tail(list, seg) == Append(list, seg)

\* A segment that was sent, on unacked: behind its last one, or in its place.
Enlisted(list, seg) ==
  IF list # <<>> /\ TCP_SEQ_LT(seg.seqno, Last(list).seqno) THEN Insert(list, seg)
  ELSE Append(list, seg)

\* The first n segments of unsent are handed to IP.
Sent(c, n, lost) ==
  LET segs == SubSeq(c.p.unsent, 1, n)
      ends == {PlaceOf(segs[i].seqno) + TCP_TCPLEN(segs[i]) : i \in 1 .. n}
      far == Max({PlaceOf(c.p.snd_nxt)} \union ends)
  IN [c EXCEPT !.p.unsent = SubSeq(@, n + 1, Len(@)),
               !.p.unacked = MapThenFoldSet(LAMBDA seg, list : Enlisted(list, seg), @,
                                            LAMBDA i : segs[i], Max, 1 .. n),
               !.p.snd_nxt = Number(far),
               !.peer = MapThenFoldSet(LAMBDA i, r : IF i \in lost THEN r ELSE Stored(r, segs[i]),
                                       @, LAMBDA i : i, Max, 1 .. n),
               !.arrived = @ \/ ~(1 .. n \subseteq lost)]

\* tcp_output and tcp_output_segment: what may come of them, or, if good, what may come of
\* them when there is a route and IP takes what it is given.  The retransmission timer
\* runs from the first try.
tcp_output(c, cwnds, good) ==
  LET p == c.p
      Ready(wnd, eager) ==
        Max({k \in 0 .. Len(p.unsent) :
               \A i \in 1 .. k : Fits(p, p.unsent[i], wnd) /\ Nagle(p, i, eager)})
      After(wnd) ==
        LET starts == wnd = p.snd_wnd /\ p.unacked = <<>> /\ ~p.persist
        IN IF ~Fits(p, p.unsent[1], wnd)
           THEN {[c EXCEPT !.p.persist = @ \/ starts,
                           !.p.persist_probe = IF starts THEN 0 ELSE @,
                           !.p.NAGLEMEMERR = FALSE]}
           ELSE UNION {{[Sent(c, o[1], o[2]) EXCEPT !.p.persist = FALSE, !.p.rtime = @ \/ n > 0,
                                                    !.p.NAGLEMEMERR = o[1] < n] : o \in Outcomes(n, good)} :
                         n \in {Ready(wnd, eager) : eager \in BOOLEAN}}
      routeless == IF good THEN {} ELSE {c}
  IN IF p.unsent = <<>> THEN {[c EXCEPT !.p.NAGLEMEMERR = FALSE]}
     ELSE routeless \union UNION {After(wnd) : wnd \in {Min({p.snd_wnd, w}) : w \in IF good THEN {Max(cwnds)} ELSE cwnds}}

-----------------------------------------------------------------------------
\* tcp_write: not more than half of the widest window in a segment.
mss_local(p) == IF p.snd_wnd_max < 2 THEN mss ELSE Min({mss, p.snd_wnd_max \div 2})

u16_t(n) == n % 65536

\* What of len bytes the last segment takes; the space in it is an unsigned difference.
Extension(p, len) ==
  IF p.unsent = <<>> THEN 0
  ELSE Min({len, u16_t(mss_local(p) - Len(Last(p.unsent).data))})

\* The three phases of tcp_write: the last segment is extended first (the oversized pbuf
\* and a pbuf chained to it), and the rest goes to new segments.
Segmented(p, data) ==
  LET m == mss_local(p)
      ext == Extension(p, Len(data))
      left == SubSeq(data, ext + 1, Len(data))
  IN (IF ext = 0 THEN p.unsent
      ELSE [p.unsent EXCEPT ![Len(p.unsent)].data = @ \o SubSeq(data, 1, ext)]) \o
     [i \in 1 .. (Len(left) + m - 1) \div m |->
        Segment(Wrap(p.snd_lbb + ext + (i - 1) * m),
                SubSeq(left, (i - 1) * m + 1, Min({i * m, Len(left)})), FALSE)]

\* The bytes of a segment end where the next byte is to be buffered.
EndsAtLbb(p, seg) == Wrap(seg.seqno + Len(seg.data)) = p.snd_lbb

tcp_write(len, memory) ==
  LET data == [i \in 1 .. len |-> written + i]
  IN /\ pcb.state = "ESTABLISHED" /\ ~pcb.CLOSEPEND
     /\ written + len <= StreamLen
     /\ IF len > pcb.snd_buf \/ ~memory
        THEN pcb' = [pcb EXCEPT !.NAGLEMEMERR = TRUE] /\ UNCHANGED <<written, misplaced>>
        ELSE /\ pcb' = [pcb EXCEPT !.unsent = Segmented(pcb, data), !.snd_buf = @ - len,
                                   !.snd_lbb = Wrap(@ + len)]
             /\ written' = written + len
             /\ misplaced' = (misplaced \/ (Extension(pcb, len) > 0 /\ ~EndsAtLbb(pcb, Last(pcb.unsent))))
     /\ UNCHANGED <<peer, acks>>

\* tcp_output called by the application.
Output ==
  /\ Alive
  /\ \E c \in tcp_output(Now, Cwnds, FALSE) : Leave(c, acks)
  /\ UNCHANGED written

\* tcp_close_shutdown_fin: FIN goes to the last segment of unsent or, if there is none,
\* into one of its own; without memory for it the timer tries again.
tcp_close_shutdown_fin(c, memory, good) ==
  LET p == [c.p EXCEPT !.FIN = TRUE, !.state = "FIN_WAIT_1"]
      own == Segment(c.p.snd_lbb, <<>>, TRUE)
  IN IF c.p.unsent # <<>>
     THEN tcp_output([c EXCEPT !.p = [p EXCEPT !.unsent[Len(p.unsent)].fin = TRUE],
                               !.misplaced = @ \/ ~EndsAtLbb(p, Last(p.unsent))], Cwnds, good)
     ELSE IF memory
     THEN tcp_output([c EXCEPT !.p = [p EXCEPT !.unsent = <<own>>, !.snd_lbb = Wrap(@ + 1)]], Cwnds, good)
     ELSE {[c EXCEPT !.p.NAGLEMEMERR = TRUE, !.p.CLOSEPEND = TRUE]}

tcp_close(memory) ==
  /\ pcb.state = "ESTABLISHED" /\ ~pcb.CLOSEPEND
  /\ \E c \in tcp_close_shutdown_fin(Now, memory, FALSE) : Leave(c, acks)
  /\ UNCHANGED written

\* The part of tcp_fasttmr for a pending FIN.
fasttmr(memory, good) == tcp_close_shutdown_fin([Now EXCEPT !.p.CLOSEPEND = FALSE], memory, good)

tcp_fasttmr(memory) ==
  /\ pcb.CLOSEPEND
  /\ \E c \in fasttmr(memory, FALSE) : Leave(c, acks)
  /\ UNCHANGED written

-----------------------------------------------------------------------------
tcp_free_acked_segments(list, ackno) ==
  LET Acked(s) == TCP_SEQ_LEQ(s.seqno + TCP_TCPLEN(s), ackno)
  IN SubSeq(list, Leading(list, Acked) + 1, Len(list))

BytesIn(list) ==
  MapThenFoldSet(LAMBDA len, n : n + len, 0, LAMBDA i : Len(list[i].data), Max, DOMAIN list)

\* Mutant: retransmissions and probes are not counted.
Counted_Never(n) == n

\* A count of retransmissions or probes; beyond the limit it is only compared with it.
Counted(n) == Min({n + 1, TCP_MAXRTX})

\* tcp_rexmit_fast and tcp_rexmit: the first segment of unacked goes back to unsent,
\* unless the driver still holds it.
tcp_rexmit_fast(p, busy) ==
  IF p.unacked = <<>> \/ p.INFR \/ busy THEN p
  ELSE [p EXCEPT !.unacked = Tail(@), !.unsent = Insert(@, p.unacked[1]), !.nrtx = Counted(@),
                 !.INFR = TRUE, !.rtime = TRUE]

\* Whether an acknowledgement is newer than the one that gave the window.  The peer
\* sends no data, so that its sequence number is always snd_wl1.
NewWindow(p, ack) ==
  TCP_SEQ_LT(p.snd_wl2, ack.ackno) \/ (p.snd_wl2 = ack.ackno /\ ack.wnd > p.snd_wnd)

\* Mutant: every acknowledged number counts as a byte, FIN among them.
Acked_Numbers(p, ackno) ==
  LET unacked == tcp_free_acked_segments(p.unacked, ackno)
      unsent == tcp_free_acked_segments(p.unsent, ackno)
  IN [p EXCEPT !.unacked = unacked, !.unsent = unsent, !.snd_buf = @ + Wrap(ackno - p.lastack),
               !.lastack = ackno, !.INFR = FALSE, !.nrtx = 0, !.dupacks = 0, !.rtime = unacked # <<>>]

\* Mutant: the timer stops when nothing waits to be sent.
Acked_StopTimer(p, ackno) ==
  LET unacked == tcp_free_acked_segments(p.unacked, ackno)
      unsent == tcp_free_acked_segments(p.unsent, ackno)
      freed == BytesIn(p.unacked) + BytesIn(p.unsent) - BytesIn(unacked) - BytesIn(unsent)
  IN [p EXCEPT !.unacked = unacked, !.unsent = unsent, !.snd_buf = @ + freed, !.lastack = ackno,
               !.INFR = FALSE, !.nrtx = 0, !.dupacks = 0, !.rtime = unsent # <<>>]

\* The part of tcp_receive for new data that is acknowledged.
Acked(p, ackno) ==
  LET unacked == tcp_free_acked_segments(p.unacked, ackno)
      unsent == tcp_free_acked_segments(p.unsent, ackno)
      freed == BytesIn(p.unacked) + BytesIn(p.unsent) - BytesIn(unacked) - BytesIn(unsent)
  IN [p EXCEPT !.unacked = unacked, !.unsent = unsent, !.snd_buf = @ + freed, !.lastack = ackno,
               !.INFR = FALSE, !.nrtx = 0, !.dupacks = 0, !.rtime = unacked # <<>>]

\* The part of tcp_receive that an acknowledgement concerns.
tcp_receive(p, ack, busy) ==
  LET w == IF NewWindow(p, ack)
           THEN [p EXCEPT !.snd_wnd = ack.wnd, !.snd_wl2 = ack.ackno,
                          !.snd_wnd_max = Max({@, ack.wnd})]
           ELSE p
      same == Wrap(w.snd_wl2 + w.snd_wnd) = Wrap(p.snd_wl2 + p.snd_wnd)
      d == [w EXCEPT !.dupacks = Min({DupAcks, @ + 1})]
  IN IF TCP_SEQ_LEQ(ack.ackno, p.lastack)
     THEN IF same /\ p.rtime /\ ack.ackno = p.lastack
          THEN IF d.dupacks = DupAcks THEN tcp_rexmit_fast(d, busy) ELSE d
          ELSE w
     ELSE IF TCP_SEQ_LEQ(ack.ackno, p.snd_nxt) THEN Acked(w, ack.ackno)
     ELSE w

\* tcp_process: the peer has answered, and the state moves on when all is acknowledged.
tcp_process(ack, busy) ==
  LET p == tcp_receive([pcb EXCEPT !.persist_probe = 0], ack, busy)
      done == p.state = "FIN_WAIT_1" /\ ack.ackno = p.snd_nxt /\ p.unsent = <<>>
  IN IF done THEN [p EXCEPT !.state = "FIN_WAIT_2"] ELSE p

\* tcp_input with an acknowledgement; tcp_output follows.
tcp_input(ack, busy) ==
  /\ Alive
  /\ ack \in acks
  /\ \E c \in tcp_output([Now EXCEPT !.p = tcp_process(ack, busy)], Cwnds, FALSE) :
       Leave(c, acks \ {ack})
  /\ UNCHANGED written

-----------------------------------------------------------------------------
\* The head of unsent is cut down to the window, the rest of it comes behind.  FIN is
\* set in the rest; TCPH_SET_FLAG does not clear it in the head.
tcp_split_unsent_seg(c, split) ==
  LET head == c.p.unsent[1]
      rest == Segment(Wrap(head.seqno + split), SubSeq(head.data, split + 1, Len(head.data)), head.fin)
  IN [c EXCEPT !.p.unsent = <<Cut(head, split), rest>> \o Tail(@), !.misplaced = @ \/ head.fin]

\* One number of the head of unsent, which stays where it is; it counts as a probe even
\* if there is no memory for it.
tcp_zero_window_probe(c, memory) ==
  LET head == c.p.unsent[1]
      probe == [head EXCEPT !.data = SubSeq(@, 1, Min({1, Len(@)})), !.fin = @ /\ head.data = <<>>]
      next == Wrap(head.seqno + 1)
      counted == [c EXCEPT !.p.persist_probe = Counted(@)]
      lost == [counted EXCEPT !.p.snd_nxt = IF TCP_SEQ_LT(@, next) THEN next ELSE @]
  IN IF memory THEN {lost, [lost EXCEPT !.peer = Stored(@, probe), !.arrived = TRUE]}
     ELSE {counted}

\* Mutant: a closed window is not probed.
Persist_NoProbe(c, memory, good) ==
  LET p == c.p
      long == p.unsent # <<>> /\ Len(p.unsent[1].data) > p.snd_wnd
  IN IF p.unsent = <<>> \/ p.snd_wnd = 0 \/ (~memory /\ long) THEN {c}
     ELSE tcp_output(IF long THEN tcp_split_unsent_seg(c, p.snd_wnd) ELSE c, Cwnds, good)

\* The persist timer: a closed window is probed; for one that is too small the head of
\* unsent is split, if there is memory.
Persist(c, memory, good) ==
  LET p == c.p
      long == p.unsent # <<>> /\ Len(p.unsent[1].data) > p.snd_wnd
  IN IF p.unsent = <<>> THEN {c}
     ELSE IF p.snd_wnd = 0 THEN tcp_zero_window_probe(c, memory)
     ELSE IF ~memory /\ long THEN {c}
     ELSE tcp_output(IF long THEN tcp_split_unsent_seg(c, p.snd_wnd) ELSE c, Cwnds, good)

\* All of unacked goes before unsent, whatever unsent holds.
tcp_rexmit_rto_prepare(c) ==
  [c EXCEPT !.p.unsent = c.p.unacked \o @, !.p.unacked = <<>>]

\* The retransmission timer: all are sent again, from a congestion window of one segment.
Rexmit(c, good) ==
  IF c.p.unacked = <<>> /\ c.p.unsent = <<>> THEN {c}
  ELSE tcp_output([tcp_rexmit_rto_prepare(c) EXCEPT !.p.nrtx = Counted(@)], {mss}, good)

\* tcp_slowtmr gives a connection up that was sent again, or probed, too often.
GivenUp(p) == p.nrtx >= TCP_MAXRTX \/ (p.persist /\ p.persist_probe >= TCP_MAXRTX)

\* tcp_slowtmr for this connection when a timer is due: one of the two, unless it is
\* hindered (there is no memory, or the driver still holds a segment); a connection that
\* was closed is removed when it has aged; else there is output after the poll callback.
\* When no timer is due this is Output.
slowtmr(hindered, polled, aged, good) ==
  LET rto == ~pcb.persist /\ pcb.rtime /\ ~(hindered /\ pcb.unacked # <<>>)
      cs == IF pcb.persist THEN Persist(Now, ~hindered, good)
            ELSE IF rto THEN Rexmit(Now, good) ELSE {Now}
  IN IF ~Alive THEN {Now}
     ELSE IF GivenUp(pcb) THEN {[Now EXCEPT !.p = Removed]}
     ELSE IF aged /\ pcb.state = "FIN_WAIT_2" THEN {[c EXCEPT !.p = Removed] : c \in cs}
     ELSE IF polled THEN UNION {tcp_output(c, IF rto THEN {mss} ELSE Cwnds, good) : c \in cs}
     ELSE cs

tcp_slowtmr(hindered, polled, aged) ==
  /\ (aged => pcb.state = "FIN_WAIT_2") /\ (hindered => pcb.persist \/ pcb.rtime)
  /\ \E c \in slowtmr(hindered, polled, aged, FALSE) : Leave(c, acks)
  /\ UNCHANGED written

-----------------------------------------------------------------------------
\* The receiver has bytes that its application did not take; it needs no window behind
\* the end of the stream.
Unread == peer.edge < Min({StreamLen, Awaited(peer) - 1 + PeerWnd})

\* The receiver's application takes a byte, and the receiver announces the window.
PeerOpens ==
  /\ Unread
  /\ peer' = [peer EXCEPT !.edge = @ + 1]
  /\ acks' \in Wires(acks, peer')
  /\ UNCHANGED <<pcb, written, misplaced>>

Next ==
  \/ \E len \in 1 .. MaxWrite, memory \in BOOLEAN : tcp_write(len, memory)
  \/ Output
  \/ \E memory \in BOOLEAN : tcp_close(memory) \/ tcp_fasttmr(memory)
  \/ \E ack \in acks, busy \in BOOLEAN : tcp_input(ack, busy)
  \/ \E hindered, polled, aged \in BOOLEAN : tcp_slowtmr(hindered, polled, aged)
  \/ PeerOpens

Spec == Init /\ [][Next]_vars

-----------------------------------------------------------------------------
Lists == pcb.unacked \o pcb.unsent

\* The bytes on the lists, as pairs of a segment and a place in it.
Bytes == {b \in (1 .. Len(Lists)) \X (1 .. StreamLen) : b[2] <= Len(Lists[b[1]].data)}

Sorted(q) == \A i \in 1 .. Len(q) - 1 : TCP_SEQ_LT(q[i].seqno, q[i + 1].seqno)

\* The variables keep their types; snd_buf comes back to TCP_SND_BUF and not above
\* although FIN, which tcp_write never took from it, is acknowledged like a byte.
TypeOK ==
  /\ {pcb.lastack, pcb.snd_nxt, pcb.snd_lbb, pcb.snd_wl2} \subseteq 0 .. SeqRange - 1
  /\ pcb.snd_wnd \in 0 .. pcb.snd_wnd_max /\ pcb.snd_wnd_max <= PeerWnd
  /\ pcb.snd_buf \in 0 .. TCP_SND_BUF
  /\ pcb.dupacks \in 0 .. DupAcks
  /\ {pcb.nrtx, pcb.persist_probe} \subseteq 0 .. TCP_MAXRTX
  /\ {pcb.rtime, pcb.persist, pcb.NAGLEMEMERR, pcb.FIN, pcb.INFR, pcb.CLOSEPEND} \subseteq BOOLEAN
  /\ pcb.state \in {"ESTABLISHED", "FIN_WAIT_1", "FIN_WAIT_2", "CLOSED"}
  /\ peer.have \subseteq 1 .. StreamLen
  /\ Cardinality(acks) <= NetAcks /\ written \in 0 .. StreamLen /\ misplaced \in BOOLEAN

\* Nothing of the stream is lost or doubled on the way through unsent and unacked: each
\* byte that is written and not acknowledged is in one segment, at its number, through
\* splits, extensions and both kinds of retransmission, in whatever order they leave
\* unsent; unless tcp_write has buffered a byte out of its place before.
QueuesCover ==
  Alive /\ ~misplaced =>
    /\ \A b \in Bytes : Number(Lists[b[1]].data[b[2]]) = Wrap(Lists[b[1]].seqno + b[2] - 1)
    /\ \A place \in PlaceOf(pcb.lastack) .. written :
         Cardinality({b \in Bytes : Lists[b[1]].data[b[2]] = place}) = 1

\* The lists and the fields of the pcb are such that all can be sent again: unacked is
\* kept in the order of numbers, as tcp_free_acked_segments relies on, and both hold
\* what is not acknowledged.
ListsOK == TypeOK /\ Sorted(pcb.unacked) /\ QueuesCover

\* What tcp_write took from snd_buf is on the lists until it comes back to snd_buf.
BufferAccounted == pcb.snd_buf + BytesIn(Lists) = TCP_SND_BUF

\* While anything is in flight the retransmission timer runs and the persist timer does
\* not (the assertion "persist ticking with in-flight data" of tcp_slowtmr).
TimersAgree == pcb.unacked # <<>> => pcb.rtime /\ ~pcb.persist

\* tcp_output sends nothing past the receiver's window but FIN and one byte of a probe.
InsideWindow == ~misplaced => PlaceOf(pcb.snd_nxt) <= peer.edge + 2

\* The receiver gets FIN behind the last byte that was written.
FinIsLast == peer.fin # None => peer.fin = written + 1

\* tcp.h:337 of unsent and unacked: "These are ordered by sequence number".
UnsentOrdered == Sorted(pcb.unsent)

\* tcp.h:322 of snd_lbb: "Sequence number of next byte to be buffered".  So each byte on
\* the lists has the number that the segment gives it.
BufferedAtLbb ==
  \A b \in Bytes : Number(Lists[b[1]].data[b[2]]) = Wrap(Lists[b[1]].seqno + b[2] - 1)

\* The first segment of unsent ends before lastack, so that tcp_output takes its distance
\* to lastack for a huge unsigned number and never sends it; nor is an acknowledgement to
\* come that would free it.
HeadAcked ==
  pcb.unsent # <<>> /\ TCP_SEQ_LT(pcb.unsent[1].seqno + Len(pcb.unsent[1].data), pcb.lastack)

Waiting == pcb.unsent # <<>> \/ pcb.unacked # <<>>

\* A run of tcp_slowtmr with a route, memory, a driver that has let go of the segments and
\* a congestion window that is not too small; whatever is sent may still be lost.
Ticks == slowtmr(FALSE, TRUE, FALSE, TRUE)

\* No connection waits for nobody: whenever something is on the lists the slow timer has
\* something to do, be it to send, to send again, to probe, to split or to give up; with
\* one exception, a head of unsent that was acknowledged before it was sent again.
NoStall == Waiting /\ ~HeadAcked => \E c \in Ticks : c.p # pcb \/ c.arrived

\* Somebody calls the timers for ever, which this firmware does not, and for ever again as
\* in Ticks.
TimersRun ==
  /\ <>[](Waiting /\ ~HeadAcked) => []<><<Waiting /\ written' = written /\ \E c \in Ticks : Leave(c, acks)>>_vars
  /\ <>[](pcb.CLOSEPEND) => []<><<pcb.CLOSEPEND /\ \E c \in fasttmr(TRUE, TRUE) : Leave(c, acks)>>_vars

\* If the timers run and the receiver's application reads, all that is written and closed
\* is acknowledged in the end or the connection is given up, even if every segment and
\* every answer is lost; with the same exception.
Drained ==
  TimersRun /\ []<>~Unread => []<>(~Waiting /\ ~pcb.CLOSEPEND) \/ <>[]HeadAcked
=============================================================================
