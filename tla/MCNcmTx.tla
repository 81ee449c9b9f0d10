------------------------------ MODULE MCNcmTx ------------------------------
(* Two NTBs of at most three datagrams; frames of 3, 4 and 10 bytes.  An NTB has
   room for 20 padded bytes, so it can be full by its table or by its size. *)
EXTENDS NcmTx
=============================================================================
