------------------------------ MODULE NtbList ------------------------------
(***************************************************************************)
(* lib/ncm/struct.c, lib/ncm/include/struct.h: ntb_list_t, the fixed array *)
(* of NTB pointers through which the NCM class hands buffers over, and its *)
(* two operations push_ntb and pop_ntb.  The operators are functions of    *)
(* the list, because the handlers of net.c, rx.c and tx.c call them in     *)
(* sequence inside one step.                                               *)
(***************************************************************************)
EXTENDS Integers, Sequences

CONSTANTS
  NCM_NTB_N,   \* number of NTBs of each direction, and of slots of a list
  NULL         \* the C null pointer

\* The index arithmetic of push_ntb and pop_ntb goes through 0, 1, 3, 7, ... and
\* so meets the last slot, and stays inside the array, for a power of two only.
ASSUME NtbNAssumption == NCM_NTB_N \in {1, 2, 4, 8, 16}

\* An NTB is known by its position n in the array rx_ntb[n] or tx_ntb[n].
Ntbs == 0 .. NCM_NTB_N - 1

ASSUME NullAssumption == NULL \notin Ntbs

Slots == 0 .. NCM_NTB_N - 1
NtbPtr == Ntbs \cup {NULL}

\* list_front and list_back are 16 bits wide; NtbListProofs shows that they stay
\* inside the array.
ntb_list_t == [ntb_list : [Slots -> NtbPtr], list_front : Slots, list_back : Slots]

\* The zeroed list that the memset of net_init leaves.
EmptyList ==
  [ntb_list |-> [i \in Slots |-> NULL], list_front |-> 0, list_back |-> 0]

\* "+=" and not "=": the index is increased by its own wrapped successor.
NextIndex(i, n) == (i + ((i + 1) % n)) % 65536

\* Mutant: the "List Full" test is forgotten.
CanPush_NoFullTest(list, ntb) == ntb # NULL

\* push_ntb refuses a null pointer and a back slot that is still populated.
CanPush(list, ntb) == ntb # NULL /\ list.ntb_list[list.list_back] = NULL

\* push_ntb(list, ntb) is the list that the call leaves; it returns CanPush.
push_ntb(list, ntb) ==
  IF CanPush(list, ntb)
    THEN [list EXCEPT !.ntb_list[list.list_back] = ntb,
                      !.list_back = NextIndex(@, NCM_NTB_N)]
    ELSE list

\* pop_ntb returns Popped(list), possibly NULL, and leaves pop_ntb(list).
Popped(list) == list.ntb_list[list.list_front]

\* Mutant: the popped slot is not cleared.
pop_ntb_KeepsSlot(list) ==
  IF Popped(list) = NULL THEN list
  ELSE [list EXCEPT !.list_front = NextIndex(@, NCM_NTB_N)]

pop_ntb(list) ==
  IF Popped(list) = NULL
    THEN list
    ELSE [list EXCEPT !.ntb_list[list.list_front] = NULL,
                      !.list_front = NextIndex(@, NCM_NTB_N)]

\* The NTBs that a list holds.
Held(list) == {list.ntb_list[i] : i \in Slots} \ {NULL}
=============================================================================
