------------------------------ MODULE TcpRcv ------------------------------
(***************************************************************************)
(* The receiving half of a connection of lwIP (core/tcp_in.c, tcp.c,       *)
(* tcp_out.c): segments that arrive in any order, overlap and repeat, the  *)
(* list ooseq, the window that is announced, data that the application     *)
(* refuses, and acknowledgements that are delayed, fail or are lost.       *)
(*                                                                         *)
(* The sender is any one that obeys the window.  As it may send any part   *)
(* of its stream again at any time, the segments still under way need no   *)
(* variable: whatever it was ever allowed to send may arrive.              *)
(***************************************************************************)
EXTENDS TcpSeq, SequencesExt

CONSTANTS
  TCP_WND,
  mss,
  WndMod,      \* number of values of tcpwnd_size_t
  StreamLen,   \* bytes that the sender has; then it sends FIN
  MaxSegment,  \* bytes in the longest segment
  None

ASSUME TcpRcvAssumption ==
  /\ mss \in Nat \ {0} /\ TCP_WND \in Nat /\ TCP_WND >= 2 * mss
  /\ WndMod \in Nat /\ TCP_WND < WndMod /\ WndMod <= SeqRange
  /\ StreamLen \in Nat /\ MaxSegment \in Nat
  /\ StreamLen + 2 * TCP_WND < SeqRange \div 2

VARIABLES
  pcb,       \* the fields of struct tcp_pcb for reception
  wire,      \* the last acknowledgement under way, or None
  known,     \* the last place of the stream that the sender may send
  acked,     \* the first place that is not acknowledged to the sender
  got,       \* the bytes that the recv callback has accepted
  unread,    \* how many of them were not passed to tcp_recved yet
  eof        \* how often the callback was called without data (TCP_EVENT_CLOSED)

vars == <<pcb, wire, known, acked, got, unread, eof>>

TCP_WND_UPDATE_THRESHOLD == Min({TCP_WND \div 4, mss * 4})

\* A connection that has just been established: its SYN, or SYN and ACK, has
\* announced the whole window.
Init ==
  /\ pcb = [rcv_nxt |-> Number(1), rcv_wnd |-> TCP_WND, rcv_ann_wnd |-> TCP_WND,
            right_edge |-> Number(1 + TCP_WND), ooseq |-> <<>>, refused |-> None,
            got_fin |-> FALSE, ACK_DELAY |-> FALSE, ACK_NOW |-> FALSE]
  /\ wire = None
  /\ known = TCP_WND
  /\ acked = 1
  /\ got = <<>>
  /\ unread = 0
  /\ eof = 0

\* What becomes of a callback that offers data: the application takes it and
\* calls tcp_recved at once, or later; or it refuses.
Verdicts == {"done", "take", "refuse"}

\* What becomes of an acknowledgement: it is on the wire; ip_output_if fails; or
\* there is no memory for it.  While tcp_input works on the pcb it is "held".
Fates == {"sent", "failed", "nomem"}

\* What a step works on: the variables that calls deep inside it change.
Now == [p |-> pcb, wire |-> wire, got |-> got, unread |-> unread, eof |-> eof]

Leave(c) ==
  /\ pcb' = c.p
  /\ wire' = c.wire
  /\ got' = c.got
  /\ unread' = c.unread
  /\ eof' = c.eof

-----------------------------------------------------------------------------
\* tcp_update_rcv_ann_wnd: how much more window would be announced ...
Inflation(p) ==
  LET new_right_edge == Wrap(p.rcv_nxt + p.rcv_wnd)
  IN IF TCP_SEQ_GEQ(new_right_edge, p.right_edge + Min({TCP_WND \div 2, mss}))
     THEN Wrap(new_right_edge - p.right_edge) ELSE 0

\* Mutant: the window is what is free, even if that takes back what was announced.
tcp_update_rcv_ann_wnd_Shrinks(p) == [p EXCEPT !.rcv_ann_wnd = Min({p.rcv_wnd, mss})]

\* ... and the window it leaves to announce: the right edge stays, or moves by a segment.
tcp_update_rcv_ann_wnd(p) ==
  [p EXCEPT !.rcv_ann_wnd =
     IF Inflation(p) > 0 THEN p.rcv_wnd
     ELSE IF TCP_SEQ_GT(p.rcv_nxt, p.right_edge) THEN 0
     ELSE Wrap(p.right_edge - p.rcv_nxt) % WndMod]

tcp_send_empty_ack(c, fate) ==
  LET announced == Wrap(c.p.rcv_nxt + c.p.rcv_ann_wnd)
  IN [c EXCEPT !.p.right_edge = IF fate = "nomem" THEN @ ELSE announced,
               !.p.ACK_DELAY = fate # "sent",
               !.p.ACK_NOW = fate # "sent",
               !.wire = IF fate = "sent" THEN [ackno |-> c.p.rcv_nxt, edge |-> announced] ELSE @]

\* tcp_output with nothing to send; it returns at once while tcp_input is at work.
tcp_output(c, fate) == IF c.p.ACK_NOW /\ fate # "held" THEN tcp_send_empty_ack(c, fate) ELSE c

tcp_ack_now(c) == [c EXCEPT !.p.ACK_NOW = TRUE]

tcp_ack(c) ==
  IF c.p.ACK_DELAY THEN [c EXCEPT !.p.ACK_DELAY = FALSE, !.p.ACK_NOW = TRUE]
  ELSE [c EXCEPT !.p.ACK_DELAY = TRUE]

\* Mutant: what the application has processed does not open the window again.
Recved_Shut(c, len, fate) ==
  LET c1 == [c EXCEPT !.p = tcp_update_rcv_ann_wnd(@), !.unread = @ - len]
  IN IF Inflation(c.p) >= TCP_WND_UPDATE_THRESHOLD THEN tcp_output(tcp_ack_now(c1), fate) ELSE c1

\* tcp_recved; it counts on tcp_input for the output while that is at work.
Recved(c, len, fate) ==
  LET w == (c.p.rcv_wnd + len) % WndMod
      p == [c.p EXCEPT !.rcv_wnd = IF w > TCP_WND \/ w < c.p.rcv_wnd THEN TCP_WND ELSE w]
      c1 == [c EXCEPT !.p = tcp_update_rcv_ann_wnd(p), !.unread = @ - len]
  IN IF Inflation(p) >= TCP_WND_UPDATE_THRESHOLD THEN tcp_output(tcp_ack_now(c1), fate) ELSE c1

-----------------------------------------------------------------------------
\* The callback with data: accepted, or kept as refused_data.
Offer(c, data, fin, verdict, fate) ==
  IF verdict = "refuse" THEN [c EXCEPT !.p.refused = [data |-> data, fin |-> fin]]
  ELSE LET c1 == [c EXCEPT !.p.refused = None, !.got = @ \o data, !.unread = @ + Len(data)]
       IN IF verdict = "done" THEN Recved(c1, Len(data), fate) ELSE c1

\* Mutant: the number of FIN stays taken from the window.
Closed_Uncorrected(c) == [c EXCEPT !.eof = @ + 1]

\* TCP_EVENT_CLOSED, after the window has been corrected by the number of FIN.
Closed(c) ==
  [c EXCEPT !.eof = @ + 1,
            !.p.rcv_wnd = IF @ # TCP_WND THEN (@ + 1) % WndMod ELSE @]

tcp_process_refused_data(c, verdict, fate) ==
  LET r == c.p.refused
      c1 == Offer(c, r.data, r.fin, verdict, fate)
  IN IF verdict # "refuse" /\ r.fin THEN Closed(c1) ELSE c1

-----------------------------------------------------------------------------
\* Mutant: the new segment is not cut where the next one begins.
tcp_oos_insert_segment_Overlap(cseg, next) ==
  IF cseg.fin THEN <<cseg>>
  ELSE LET Covered(s) == TCP_SEQ_GEQ(cseg.seqno + Len(cseg.data), s.seqno + Len(s.data))
           k == Leading(next, Covered)
       IN <<[cseg EXCEPT !.fin = \E i \in 1 .. k : next[i].fin]>> \o SubSeq(next, k + 1, Len(next))

\* cseg, and what is left of the list next behind it: FIN ends the list, segments
\* that are covered go, and cseg is cut where the first one that stays begins.
tcp_oos_insert_segment(cseg, next) ==
  IF cseg.fin THEN <<cseg>>
  ELSE LET Covered(s) == TCP_SEQ_GEQ(cseg.seqno + Len(cseg.data), s.seqno + Len(s.data))
           k == Leading(next, Covered)
           rest == SubSeq(next, k + 1, Len(next))
           c == [cseg EXCEPT !.fin = \E i \in 1 .. k : next[i].fin]
       IN IF rest # <<>> /\ TCP_SEQ_GT(c.seqno + Len(c.data), rest[1].seqno)
          THEN <<Cut(c, Wrap(rest[1].seqno - c.seqno))>> \o rest
          ELSE <<c>> \o rest

\* The segment before a new one is cut where the new one begins.
CutBefore(prev, seqno) ==
  IF TCP_SEQ_GT(prev.seqno + Len(prev.data), seqno) THEN Cut(prev, Wrap(seqno - prev.seqno)) ELSE prev

\* A segment at the end of the list loses what is outside of the window.
CutToWindow(p, seg) ==
  IF TCP_SEQ_GT(TCP_TCPLEN(seg) + seg.seqno, p.rcv_nxt + p.rcv_wnd)
  THEN [Cut(seg, Wrap(p.rcv_nxt + p.rcv_wnd - seg.seqno)) EXCEPT !.fin = FALSE]
  ELSE seg

\* The place at which the loop over ooseq stops before its last element is passed.
Places(q, seqno) ==
  {i \in 1 .. Len(q) :
     \/ q[i].seqno = seqno
     \/ i = 1 /\ TCP_SEQ_LT(seqno, q[i].seqno)
     \/ i > 1 /\ TCP_SEQ_BETWEEN(seqno, q[i - 1].seqno + 1, q[i].seqno - 1)}

\* The list ooseq with a segment that is ahead of rcv_nxt.
Queued(p, seg) ==
  LET q == p.ooseq
      i == IF Places(q, seg.seqno) = {} THEN Len(q) + 1 ELSE Min(Places(q, seg.seqno))
      Before(n) == SubSeq(q, 1, n)
      From(n) == SubSeq(q, n, Len(q))
  IN CASE q = <<>> -> <<seg>>
       [] i = Len(q) + 1 /\ q # <<>> ->
            IF Last(q).fin \/ ~TCP_SEQ_GT(seg.seqno, Last(q).seqno) THEN q
            ELSE Front(q) \o <<CutBefore(Last(q), seg.seqno), CutToWindow(p, seg)>>
       [] i <= Len(q) /\ q[i].seqno = seg.seqno ->
            IF Len(seg.data) > Len(q[i].data) THEN Before(i - 1) \o tcp_oos_insert_segment(seg, From(i))
            ELSE q
       [] i = 1 /\ q # <<>> /\ q[i].seqno # seg.seqno -> tcp_oos_insert_segment(seg, q)
       [] OTHER -> Before(i - 2) \o <<CutBefore(q[i - 1], seg.seqno)>> \o tcp_oos_insert_segment(seg, From(i))

-----------------------------------------------------------------------------
\* Mutant: a segment that begins before rcv_nxt keeps its bytes.
TrimFront_NumberOnly(p, seg) ==
  IF TCP_SEQ_BETWEEN(p.rcv_nxt, seg.seqno + 1, seg.seqno + TCP_TCPLEN(seg) - 1)
  THEN [seg EXCEPT !.seqno = p.rcv_nxt] ELSE seg

\* The bytes before rcv_nxt are removed from a segment that goes on behind it.
TrimFront(p, seg) ==
  IF TCP_SEQ_BETWEEN(p.rcv_nxt, seg.seqno + 1, seg.seqno + TCP_TCPLEN(seg) - 1)
  THEN LET off == Wrap(p.rcv_nxt - seg.seqno)
       IN [seg EXCEPT !.seqno = p.rcv_nxt, !.data = SubSeq(@, off + 1, Len(@))]
  ELSE seg

\* The next segment in sequence: cut to the window; then ooseq loses what it covers,
\* or it is cut where ooseq begins.
InSequence(p, seg) ==
  LET s == IF TCP_TCPLEN(seg) > p.rcv_wnd THEN [Cut(seg, p.rcv_wnd) EXCEPT !.fin = FALSE] ELSE seg
      Covered(o) == TCP_SEQ_GEQ(s.seqno + TCP_TCPLEN(s), o.seqno + Len(o.data))
      k == Leading(p.ooseq, Covered)
      rest == SubSeq(p.ooseq, k + 1, Len(p.ooseq))
      s1 == [s EXCEPT !.fin = \E i \in 1 .. k : p.ooseq[i].fin]
  IN IF s.fin THEN [seg |-> s, ooseq |-> <<>>]
     ELSE [seg |-> IF rest # <<>> /\ TCP_SEQ_GT(s1.seqno + TCP_TCPLEN(s1), rest[1].seqno)
                   THEN Cut(s1, Wrap(rest[1].seqno - s1.seqno)) ELSE s1,
           ooseq |-> rest]

\* seg and the segments of ooseq that follow it without a gap: their bytes, FIN and
\* the pcb with rcv_nxt behind them.
Chained(p, seg, q) ==
  LET End(i) == q[i].seqno + TCP_TCPLEN(q[i])
      k == Max({n \in 0 .. Len(q) : \A i \in 1 .. n :
                  q[i].seqno = Wrap(IF i = 1 THEN seg.seqno + TCP_TCPLEN(seg) ELSE End(i - 1))})
      segs == <<seg>> \o SubSeq(q, 1, k)
      len == FoldSeq(LAMBDA s, n : n + TCP_TCPLEN(s), 0, segs)
  IN [data |-> FlattenSeq([i \in 1 .. Len(segs) |-> segs[i].data]),
      fin |-> \E i \in 1 .. Len(segs) : segs[i].fin,
      p |-> [p EXCEPT !.rcv_nxt = Wrap(@ + len), !.rcv_wnd = (@ - len) % WndMod,
                      !.ooseq = SubSeq(q, k + 1, Len(q))]]

-----------------------------------------------------------------------------
\* tcp_receive for a segment that takes numbers, before FIN was received.  A segment
\* ahead of rcv_nxt is queued if there is memory for the copy.
Receive(c, seg, copied, fate) ==
  LET s == TrimFront(c.p, seg)
      c1 == IF s = seg /\ TCP_SEQ_LT(seg.seqno, c.p.rcv_nxt) THEN tcp_ack_now(c) ELSE c
      i == InSequence(c.p, s)
      ch == Chained(c.p, i.seg, i.ooseq)
  IN IF ~TCP_SEQ_BETWEEN(s.seqno, c.p.rcv_nxt, c.p.rcv_nxt + c.p.rcv_wnd - 1)
     THEN [c |-> tcp_send_empty_ack(c1, fate), data |-> <<>>, fin |-> FALSE]
     ELSE IF s.seqno # c.p.rcv_nxt
     THEN [c |-> tcp_send_empty_ack([c1 EXCEPT !.p.ooseq = IF copied THEN Queued(c.p, s) ELSE @], fate),
           data |-> <<>>, fin |-> FALSE]
     ELSE [c |-> tcp_ack([c1 EXCEPT !.p = tcp_update_rcv_ann_wnd(ch.p)]),
           data |-> ch.data, fin |-> ch.fin]

\* tcp_process and tcp_receive: after FIN, and for a segment without numbers, only the
\* place of the segment matters.
tcp_process(c, seg, copied, fate) ==
  IF TCP_TCPLEN(seg) > 0 /\ ~c.p.got_fin THEN Receive(c, seg, copied, fate)
  ELSE [c |-> IF TCP_SEQ_BETWEEN(seg.seqno, c.p.rcv_nxt, c.p.rcv_nxt + c.p.rcv_wnd - 1) THEN c
              ELSE tcp_ack_now(c),
        data |-> <<>>, fin |-> FALSE]

\* tcp_input behind tcp_process: data, then FIN go to the application; FIN waits
\* behind data that is refused.
Passed(r, verdict) ==
  LET c == IF r.fin THEN tcp_ack_now([r.c EXCEPT !.p.got_fin = TRUE]) ELSE r.c
      c1 == IF r.data # <<>> THEN Offer(c, r.data, FALSE, verdict, "held") ELSE c
  IN IF ~r.fin THEN c1
     ELSE IF c1.p.refused # None THEN [c1 EXCEPT !.p.refused.fin = TRUE]
     ELSE Closed(c1)

\* again and f0: the verdict on refused data that is offered once more, and the fate of
\* its window update.  The acknowledgements of tcp_process and of tcp_output share a
\* fate: when one succeeds the other is not sent, or it is sent instead.
tcp_input(seg, again, f0, verdict, copied, fate) ==
  LET c == IF pcb.refused # None THEN tcp_process_refused_data(Now, again, f0) ELSE Now
  IN IF c.p.refused # None /\ TCP_TCPLEN(seg) > 0
     THEN IF c.p.rcv_ann_wnd = 0 THEN tcp_send_empty_ack(c, fate) ELSE c
     ELSE tcp_output(Passed(tcp_process(c, seg, copied, fate), verdict), fate)

-----------------------------------------------------------------------------
\* What the sender may send: a part of the stream up to the place it knows of, one
\* byte behind that (a probe), FIN behind the last byte, or no number at all.
MaySend(from, len, fin) ==
  LET to == from + len - 1
  IN /\ to <= StreamLen
     /\ to <= known \/ (len = 1 /\ from = known + 1)
     /\ fin => to = StreamLen /\ to <= known

Part(from, len, fin) == Segment(Number(from), [i \in 1 .. len |-> from + i - 1], fin)

\* The place of the stream that a number stands for.
PlaceOf(n) == 1 + Wrap(n - Number(1))

NextPlace == PlaceOf(pcb.rcv_nxt)

\* All that may come of a part: data ahead of rcv_nxt is copied if there is memory; data
\* at rcv_nxt is offered.
Received(from, len, fin) ==
  UNION {{tcp_input(Part(from, len, fin), again, f0, verdict, copied, fate) :
            f0 \in IF again = "done" THEN Fates ELSE {"sent"},
            verdict \in IF NextPlace \in from .. from + len - 1 THEN Verdicts ELSE {"take"},
            copied \in IF from > NextPlace THEN BOOLEAN ELSE {TRUE},
            fate \in Fates} :
           again \in IF pcb.refused = None THEN {"take"} ELSE Verdicts}

Sendable ==
  {x \in (1 .. StreamLen + 1) \X (0 .. MaxSegment) \X BOOLEAN : MaySend(x[1], x[2], x[3])}

Arrives ==
  /\ \E c \in UNION {Received(x[1], x[2], x[3]) : x \in Sendable} : Leave(c)
  /\ UNCHANGED <<known, acked>>

\* The application has processed some of what it has taken.
tcp_recved(len, fate) ==
  /\ len \in 1 .. unread
  /\ Leave(Recved(Now, len, fate))
  /\ UNCHANGED <<known, acked>>

\* A delayed acknowledgement is tried once; then refused data is offered again.
tcp_fasttmr(verdict, f1, f2) ==
  LET c1 == [tcp_output(tcp_ack_now(Now), f1) EXCEPT !.p.ACK_DELAY = FALSE, !.p.ACK_NOW = FALSE]
      c == IF pcb.ACK_DELAY THEN c1 ELSE Now
  IN /\ Leave(IF pcb.refused # None THEN tcp_process_refused_data(c, verdict, f2) ELSE c)
     /\ UNCHANGED <<known, acked>>

\* tcp_slowtmr: ooseq is dropped when it is old (pbuf_free_ooseq does the same when the
\* pool is empty), and after the poll callback there is output.
tcp_slowtmr(old, polled, fate) ==
  LET c == IF old THEN [Now EXCEPT !.p.ooseq = <<>>] ELSE Now
  IN /\ Leave(IF polled THEN tcp_output(c, fate) ELSE c)
     /\ UNCHANGED <<known, acked>>

\* An acknowledgement reaches the sender, or is lost.
AckArrives ==
  /\ wire # None
  /\ known' = IF TCP_SEQ_GT(wire.edge, Number(known + 1))
              THEN Min({StreamLen, known + Wrap(wire.edge - Number(known + 1))}) ELSE known
  /\ acked' = Max({acked, PlaceOf(wire.ackno)})
  /\ wire' = None
  /\ UNCHANGED <<pcb, got, unread, eof>>

AckLost ==
  /\ wire # None
  /\ wire' = None
  /\ UNCHANGED <<pcb, known, acked, got, unread, eof>>

Next ==
  \/ Arrives
  \/ \E len \in 1 .. TCP_WND, fate \in Fates : tcp_recved(len, fate)
  \/ \E verdict \in IF pcb.refused = None THEN {"take"} ELSE Verdicts,
        f1 \in IF pcb.ACK_DELAY THEN Fates ELSE {"sent"} :
       \E f2 \in IF verdict = "done" THEN Fates ELSE {"sent"} : tcp_fasttmr(verdict, f1, f2)
  \/ \E old \in BOOLEAN, polled \in BOOLEAN :
       \E fate \in IF polled THEN Fates ELSE {"sent"} : tcp_slowtmr(old, polled, fate)
  \/ AckArrives
  \/ AckLost

Spec == Init /\ [][Next]_vars

-----------------------------------------------------------------------------
\* The variables keep their types; in particular tcp_recved never gets more than
\* the window and the end of the stream is reported once.
TypeOK ==
  /\ pcb.rcv_nxt \in 0 .. SeqRange - 1 /\ pcb.right_edge \in 0 .. SeqRange - 1
  /\ pcb.rcv_wnd \in 0 .. WndMod - 1 /\ pcb.rcv_ann_wnd \in 0 .. WndMod - 1
  /\ {pcb.got_fin, pcb.ACK_DELAY, pcb.ACK_NOW} \subseteq BOOLEAN
  /\ wire \in [ackno : 0 .. SeqRange - 1, edge : 0 .. SeqRange - 1] \union {None}
  /\ known \in TCP_WND .. StreamLen /\ acked \in 1 .. NextPlace
  /\ unread \in 0 .. TCP_WND
  /\ eof \in 0 .. 1

\* What of the stream has left tcp_receive: accepted by the application, or refused.
Passed_on == got \o (IF pcb.refused = None THEN <<>> ELSE pcb.refused.data)

\* tcp_receive hands the bytes of the stream on in their order, each one once, and
\* rcv_nxt is behind the last one (and behind FIN), whatever overlaps and repeats in
\* the segments and in ooseq, across the wrap of the numbers.
InOrderOnce ==
  Passed_on = [i \in 1 .. NextPlace - (IF pcb.got_fin THEN 2 ELSE 1) |-> i]

\* No window is lost or gained: until FIN, rcv_wnd and what the application or
\* refused_data holds make up TCP_WND.  FIN takes a number that the application never
\* returns, and may wrap rcv_wnd below zero; once it is reported none is missing.
WindowAccounted ==
  LET sum == pcb.rcv_wnd + unread + Len(Passed_on) - Len(got)
  IN /\ ~pcb.got_fin => sum = TCP_WND
     /\ eof = 1 => sum >= TCP_WND

\* The segments of ooseq are in order, do not overlap, lie behind rcv_nxt and inside
\* the window (FIN may be one number outside), and only the last one has FIN.
OoseqOrdered ==
  LET q == pcb.ooseq
      End(s) == Wrap(s.seqno - pcb.rcv_nxt) + Len(s.data)
  IN \A i \in 1 .. Len(q) :
       /\ TCP_SEQ_GT(q[i].seqno, pcb.rcv_nxt)
       /\ TCP_TCPLEN(q[i]) > 0
       /\ End(q[i]) <= pcb.rcv_wnd
       /\ i < Len(q) => End(q[i]) <= Wrap(q[i + 1].seqno - pcb.rcv_nxt) /\ ~q[i].fin

\* The queue of segments out of order is one that tcp_receive can take from without looking.
OoseqOK == TypeOK /\ OoseqOrdered

\* What the sender was told fits: tcp_update_rcv_ann_wnd never announces bytes that
\* tcp_receive would cut off, even if the acknowledgement comes late.
WindowHonoured ==
  ~pcb.got_fin =>
    /\ known < NextPlace + pcb.rcv_wnd
    /\ TCP_SEQ_LEQ(pcb.right_edge, pcb.rcv_nxt + pcb.rcv_wnd)

\* The window is what the buffers can take, and so is what the sender knows of it.
WindowOK == WindowAccounted /\ WindowHonoured

\* The end of the stream is reported behind all of its bytes, and not while
\* refused_data waits.
EofIsLast == eof = 1 => Len(got) = StreamLen /\ pcb.refused = None

\* The application gets the stream: each byte once, in order, and its end behind them.
StreamKept == InOrderOnce /\ EofIsLast

\* rcv_ann_right_edge never moves back before FIN: no window is taken back that the
\* sender may be using already.
EdgeNeverShrinks ==
  [][~pcb'.got_fin => TCP_SEQ_GEQ(pcb'.right_edge, pcb.right_edge)]_vars

\* The sender sends from the first place that is not acknowledged, and probes a window
\* that is closed; nothing more once FIN is acknowledged.  There is memory, and the
\* application takes what it is given.
Answers ==
  {tcp_input(Part(acked, x[1], x[2]), "take", "sent", "take", TRUE, "sent") :
     x \in {y \in (0 .. MaxSegment) \X BOOLEAN :
              /\ acked <= StreamLen + 1 /\ MaySend(acked, y[1], y[2])
              /\ TCP_TCPLEN(Part(acked, y[1], y[2])) > 0}}

Resent == UNCHANGED <<known, acked>> /\ \E c \in Answers : Leave(c)

\* Sender and network: what is not acknowledged is sent for ever again, and now and then a
\* segment and an acknowledgement get through (the first formula says when <<Resent>>_vars
\* is enabled).
SenderPersists ==
  /\ []<>(\E c \in Answers : c # Now) => []<><<Resent>>_vars
  /\ SF_vars(AckArrives)

\* Somebody calls tcp_fasttmr for ever, which this firmware does not, and the application
\* takes refused data then.
FastTimerRuns ==
  <>[](pcb.refused # None) =>
    []<><<pcb.refused # None /\ tcp_fasttmr("take", "sent", "sent")>>_vars

\* Acknowledgements and window updates may fail or be lost, ooseq may be dropped and
\* data refused: if the sender persists, the fast timer runs and the application returns,
\* now and then, all that it has read, it gets the whole stream, and its end, in the end.
Delivered ==
  SenderPersists /\ FastTimerRuns /\ []<>(unread = 0) =>
    <>(eof = 1 /\ Len(got) = StreamLen)
=============================================================================
