------------------------------ MODULE MCNcmRx ------------------------------
(***************************************************************************)
(* The receive half with the two NTBs of ncm.h, blocks of up to four       *)
(* datagrams, and more blocks than there are NTBs.                         *)
(***************************************************************************)
EXTENDS NcmRx
=============================================================================
