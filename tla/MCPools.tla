------------------------------ MODULE MCPools ------------------------------
(***************************************************************************)
(* The three stores of buffers, which have nothing in common: the DMA      *)
(* heap, the heap of lwIP and a list of NTBs.  One of them is used at a    *)
(* time: a step of it needs the other two as they were initially, so that  *)
(* the states are those of the three, added and not multiplied.            *)
(*                                                                         *)
(* DMA heap: three status words; requests of 2, 3 and 4 lines, with and    *)
(* without the checks.  lwIP: 26 bytes with headers of 2, up to six        *)
(* blocks; sizes that are odd, the smallest, larger, and one that wraps    *)
(* when aligned.  List: four slots, where the indices go 0, 1, 3 and stay. *)
(***************************************************************************)
EXTENDS DmaBufMgr, LwipMem, NtbListSpec

PoolsInit == HeapInit /\ Init /\ ListInit

PoolsNext ==
  \/ Init /\ ListInit /\ HeapNext /\ UNCHANGED <<vars, listVars>>
  \/ HeapInit /\ ListInit /\ Next /\ UNCHANGED <<heapVars, listVars>>
  \/ HeapInit /\ Init /\ ListNext /\ UNCHANGED <<heapVars, vars>>

PoolsSpec == PoolsInit /\ [][PoolsNext]_<<heapVars, vars, listVars>>
=============================================================================
