--------------------------- MODULE MCSysTimeouts ---------------------------
(***************************************************************************)
(* A clock of 24 values, the two cyclic timers of the build (reassembly    *)
(* and ARP), handlers that take up to one unit of time.  The pool has the  *)
(* three entries of the build and one for an application, which the build  *)
(* does not have.                                                          *)
(***************************************************************************)
EXTENDS SysTimeouts

MCCyclic == {"ip_reass_tmr", "etharp_tmr"}
MCIntervals == [c \in MCCyclic |-> IF c = "etharp_tmr" THEN 3 ELSE 2]
=============================================================================
