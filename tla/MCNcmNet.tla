------------------------------ MODULE MCNcmNet ------------------------------
(***************************************************************************)
(* The whole class, with frames of 3 and 12 bytes, NTBs to send that have  *)
(* room for two datagrams, but not for two of the longer ones, and         *)
(* received blocks of up to three datagrams.                               *)
(***************************************************************************)
EXTENDS NcmNet
=============================================================================
