------------------------------ MODULE TcpSeq ------------------------------
(***************************************************************************)
(* Sequence numbers and segments of lwIP's TCP (lwip/priv/tcp_priv.h): the *)
(* comparisons are those of unsigned differences, modulo SeqRange.         *)
(***************************************************************************)
EXTENDS Integers, Sequences, FiniteSets, FiniteSetsExt

CONSTANTS
  SeqRange,    \* number of sequence numbers: 2^32 in the code
  Start        \* the sequence number before the first byte of a stream

ASSUME TcpSeqAssumption ==
  /\ SeqRange \in Nat \ {0} /\ SeqRange % 2 = 0
  /\ Start \in 0 .. SeqRange - 1

Wrap(n) == n % SeqRange

TCP_SEQ_LT(a, b) == Wrap(a - b) >= SeqRange \div 2

TCP_SEQ_LEQ(a, b) == ~TCP_SEQ_LT(b, a)
TCP_SEQ_GT(a, b) == TCP_SEQ_LT(b, a)
TCP_SEQ_GEQ(a, b) == ~TCP_SEQ_LT(a, b)
TCP_SEQ_BETWEEN(a, b, c) == TCP_SEQ_GEQ(a, b) /\ TCP_SEQ_LEQ(a, c)

\* A segment: its number, its bytes (each one is named by its place in the
\* sender's stream) and FIN.
Segment(seqno, data, fin) == [seqno |-> seqno, data |-> data, fin |-> fin]

\* The number of the byte at a place of the stream.
Number(place) == Wrap(Start + place)

TCP_TCPLEN(seg) == Len(seg.data) + (IF seg.fin THEN 1 ELSE 0)

\* pbuf_realloc with the length of the segment: bytes are cut off at the end.
Cut(seg, len) == [seg EXCEPT !.data = SubSeq(@, 1, len)]

\* How many elements a list loses at its head while each one passes the test.
Leading(list, Passes(_)) ==
  Max({k \in 0 .. Len(list) : \A i \in 1 .. k : Passes(list[i])})
=============================================================================
