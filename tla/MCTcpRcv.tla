----------------------------- MODULE MCTcpRcv -----------------------------
(***************************************************************************)
(* A stream longer than the window, whose numbers wrap around.             *)
(***************************************************************************)
EXTENDS TcpRcv
=============================================================================
