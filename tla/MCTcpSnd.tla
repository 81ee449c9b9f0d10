----------------------------- MODULE MCTcpSnd -----------------------------
(***************************************************************************)
(* A stream of three bytes, one more than a segment takes, whose numbers   *)
(* wrap around; the receiver's window is closed, smaller than a segment,   *)
(* or open for all of it.                                                  *)
(***************************************************************************)
EXTENDS TcpSnd
=============================================================================
