------------------------------- MODULE NcmIf -------------------------------
(***************************************************************************)
(* What both halves of ncm_if share (lib/ncm/include/struct.h): the lists, *)
(* the alternate setting, and the state of the lists after net_init.       *)
(***************************************************************************)
EXTENDS NtbList

VARIABLE interface_active   \* alternate setting of the data interface

\* ncm.h:12 gives each direction two NTBs; usb_desc.c describes the alternate
\* settings 0 (no endpoints) and 1 (the data endpoints).
ASSUME TwoNtbs == NCM_NTB_N = 2

AltSettings == {0, 1}

\* The loop of net_init on a zeroed list.
AllFree == push_ntb(push_ntb(EmptyList, 0), 1)
=============================================================================
