--------------------------- MODULE MCUsbControl ---------------------------
(***************************************************************************)
(* Four control requests, and two bus resets or reconfigurations.          *)
(***************************************************************************)
EXTENDS UsbControl
=============================================================================
